----------------------------- MODULE BubbleHelp -----------------------------
(***************************************************************************)
(* Bubble help for a window (source/lib/wtkbbh.c): the frame that shows    *)
(* the text, its shadow, and the window procedure that shows and hides     *)
(* both by two timers and by messages that it posts to itself.             *)
(*                                                                         *)
(* The window procedure runs in one thread, so a message is one step.  PM  *)
(* dispatches a posted message before it makes a WM_TIMER; messages that   *)
(* are sent may come before both.  WinStopTimer stops the WM_TIMER         *)
(* messages too.  A window that is not visible, or of no size, is not      *)
(* painted.                                                                *)
(***************************************************************************)
EXTENDS Integers

CONSTANTS
  Place,       \* positions of the pointer
  Over,        \* the positions over the window that has the help
  Origin,      \* ptlPointer of zeroes
  Text,        \* the texts of the application
  EmptyText, ErrorText,    \* "" and "*** internal error ***"
  Extent,      \* width and height of each text
  Length,      \* size of the buffer that each text takes
  NoText,      \* pszText is NULL
  MaxTextLen,  \* ulMaxTextLen at the beginning
  Modes        \* the circumstances of a behaviour, see Mode

Creation == {"malloc", "frame", "text window", "shadow frame", "shadow client"}

Mode ==
  [shadow   : BOOLEAN,  \* flShadowStyle asks for a shadow
   sent     : BOOLEAN,  \* calls may come while messages are waiting
   updates  : BOOLEAN,  \* WtkUpdateBubbleHelp is called
   failures : SUBSET (Creation \cup {"realloc"})]  \* the calls that may fail

ASSUME BubbleAssumption ==
  /\ Over \subseteq Place /\ Origin \in Place
  /\ EmptyText \in Text /\ NoText \notin Text
  /\ Length \in [Text -> Nat] /\ MaxTextLen \in Nat
  /\ Length[EmptyText] <= MaxTextLen

VARIABLES
  mode,                   \* the same throughout a behaviour
  window,                 \* "none", "alive", "destroyed": the help window
  pbhwd,                  \* "none", "allocated", "freed": its data
  misused,                \* the data has been used or freed after it was freed
  pszText, ulMaxTextLen,  \* members of the data
  extent, ptlPointer, fTimerActive,
  frame, placed, shown, invalid,   \* the frame is visible; has got a size; the
                                   \* text it shows; it is to be painted
  shadow,                 \* "none", "hidden", "visible": the shadow frame
  start, stop,            \* the timers run
  posted,                 \* BHM_ACTIVATEBHELP is in the queue
  pointer,
  wanted, accepted, failed   \* history: activated and not deactivated since, the
                             \* last text accepted, the last update had no memory

textVars    == <<pszText, ulMaxTextLen>>
dataVars    == <<window, pbhwd, misused>>
displayVars == <<extent, frame, placed, shown, invalid, shadow>>
timerVars   == <<fTimerActive, start, stop>>
history     == <<wanted, accepted, failed>>
vars == <<mode, dataVars, textVars, ptlPointer, displayVars, timerVars, posted, pointer, history>>

TypeOK ==
  /\ mode \in Modes
  /\ window \in {"none", "alive", "destroyed"}
  /\ pbhwd \in {"none", "allocated", "freed"}
  /\ pszText \in Text \cup {NoText} /\ ulMaxTextLen \in Nat
  /\ shown \in Text \cup {ErrorText} /\ accepted \in Text
  /\ ptlPointer \in Place /\ pointer \in Place
  /\ shadow \in {"none", "hidden", "visible"} /\ (shadow # "none" => mode.shadow)
  /\ misused \in BOOLEAN /\ fTimerActive \in BOOLEAN
  /\ frame \in BOOLEAN /\ placed \in BOOLEAN /\ invalid \in BOOLEAN
  /\ start \in BOOLEAN /\ stop \in BOOLEAN /\ posted \in BOOLEAN
  /\ wanted \in BOOLEAN /\ failed \in BOOLEAN

MayFail(f) == f \in mode.failures

MouseOverWindow == pointer \in Over

\* The help on the screen: a visible frame with a size.
Displayed == frame /\ placed

-----------------------------------------------------------------------------
(* WtkInitializeBubbleHelp and WtkTerminateBubbleHelp *)

Init ==
  /\ mode \in Modes
  /\ window = "none" /\ pbhwd = "none" /\ misused = FALSE
  /\ pszText = EmptyText /\ ulMaxTextLen = MaxTextLen
  /\ extent = Extent[EmptyText] /\ ptlPointer = Origin
  /\ frame = FALSE /\ placed = FALSE /\ shown = EmptyText /\ invalid = FALSE /\ shadow = "none"
  /\ fTimerActive = FALSE /\ start = FALSE /\ stop = FALSE /\ posted = FALSE
  /\ pointer \in Place
  /\ wanted = FALSE /\ accepted = EmptyText /\ failed = FALSE

\* The frame, and that of the shadow, are created visible and without a size.
InitializeBubbleHelp ==
  /\ window = "none" /\ pbhwd = "none"
  /\ window' = "alive" /\ pbhwd' = "allocated" /\ frame' = TRUE
  /\ shadow' = IF mode.shadow THEN "visible" ELSE "none"
  /\ UNCHANGED <<mode, misused, textVars, ptlPointer, extent, placed, shown, invalid, timerVars,
                 posted, pointer, history>>

\* A failure after the client window was created: the data is freed, then the
\* windows are destroyed, and WM_DESTROY of the client frees the data again.
\* The shadow frame is not destroyed.
FreesTwice(f) == f \in {"text window", "shadow frame", "shadow client"}

InitializeFails(f) ==
  /\ window = "none" /\ pbhwd = "none" /\ MayFail(f)
  /\ f \in {"shadow frame", "shadow client"} => mode.shadow
  /\ window' = "destroyed" /\ pbhwd' = IF f = "malloc" THEN "none" ELSE "freed"
  /\ misused' = FreesTwice(f)
  /\ shadow' = IF f = "shadow client" THEN "visible" ELSE "none"
  /\ UNCHANGED <<mode, textVars, ptlPointer, extent, frame, placed, shown, invalid, timerVars,
                 posted, pointer, history>>

\* The frame is destroyed with its client and its text, not so the shadow.
TerminateBubbleHelp ==
  /\ window = "alive"
  /\ window' = "destroyed" /\ pbhwd' = "freed"
  /\ frame' = FALSE /\ invalid' = FALSE
  /\ start' = FALSE /\ stop' = FALSE /\ posted' = FALSE /\ wanted' = FALSE
  /\ UNCHANGED <<mode, misused, textVars, ptlPointer, extent, placed, shown, shadow, fTimerActive,
                 pointer, accepted, failed>>

-----------------------------------------------------------------------------
(* Showing and hiding the help *)

\* The frame gets a new position if its size changes or it was hidden.
Frame(text) == Extent[text] # extent \/ ~frame

showHelp ==
  LET text  == IF pszText = NoText THEN ErrorText ELSE pszText
      moved == Frame(text)
  IN  /\ frame' = TRUE
      /\ placed' = (placed \/ moved)
      /\ extent' = IF moved THEN Extent[text] ELSE extent
      /\ shadow' = IF moved /\ shadow # "none" THEN "visible" ELSE shadow
      /\ shown' = text /\ invalid' = FALSE

\* Mutant of StopTimers: only the timer that shows the help is stopped.
StopTimersStart(restart) == start' = restart /\ UNCHANGED stop

StopTimers(restart) == start' = restart /\ stop' = FALSE

HideShadow == shadow' = IF shadow = "none" THEN "none" ELSE "hidden"

stopHelp(restart) ==
  /\ StopTimers(restart) /\ fTimerActive' = restart
  /\ frame' = FALSE /\ invalid' = FALSE
  /\ HideShadow
  /\ UNCHANGED <<extent, placed, shown>>

-----------------------------------------------------------------------------
(* Messages to the window *)

\* Mutant of hasPointerPosChanged: the pointer is never where it was.
hasPointerPosChangedAlways == TRUE

hasPointerPosChanged == pointer # ptlPointer

\* BHM_ACTIVATEBHELP: the help is hidden and will come back, unless the pointer
\* rests over the window.
ActivateHelp ==
  \/ /\ ~MouseOverWindow
     /\ stopHelp(TRUE)
     /\ UNCHANGED ptlPointer
  \/ /\ MouseOverWindow /\ fTimerActive
     /\ IF hasPointerPosChanged
        THEN stopHelp(TRUE)
        ELSE UNCHANGED <<displayVars, timerVars>>
     /\ ptlPointer' = pointer
  \/ /\ MouseOverWindow /\ ~fTimerActive
     /\ ptlPointer' = pointer /\ start' = TRUE /\ fTimerActive' = TRUE
     /\ UNCHANGED <<displayVars, stop>>

\* The application calls when no message is waiting, or anytime.
Calls == window = "alive" /\ (posted => mode.sent)

WtkActivateBubbleHelp ==
  /\ Calls
  /\ ActivateHelp
  /\ wanted' = TRUE
  /\ UNCHANGED <<mode, dataVars, textVars, posted, pointer, accepted, failed>>

WtkDeactivateBubbleHelp ==
  /\ Calls
  /\ stopHelp(FALSE)
  /\ wanted' = FALSE
  /\ UNCHANGED <<mode, dataVars, textVars, ptlPointer, posted, pointer, accepted, failed>>

Invalidated == invalid' = Displayed

WtkUpdateBubbleHelp(text) ==
  /\ Calls /\ mode.updates
  /\ pszText' = text /\ accepted' = text /\ failed' = FALSE
  /\ ulMaxTextLen' = IF Length[text] > ulMaxTextLen THEN Length[text] ELSE ulMaxTextLen
  /\ Invalidated
  /\ UNCHANGED <<mode, dataVars, ptlPointer, extent, frame, placed, shown, shadow, timerVars,
                 posted, pointer, wanted>>

\* realloc fails: the old text is given up, and not freed.
UpdateFails(text) ==
  /\ Calls /\ mode.updates /\ MayFail("realloc") /\ Length[text] > ulMaxTextLen
  /\ pszText' = NoText /\ ulMaxTextLen' = 0 /\ failed' = TRUE
  /\ UNCHANGED <<mode, dataVars, ptlPointer, displayVars, timerVars, posted, pointer, wanted, accepted>>

\* The message that the STOP timer has posted.
PostedMessage ==
  /\ window = "alive" /\ posted
  /\ posted' = FALSE
  /\ ActivateHelp
  /\ UNCHANGED <<mode, dataVars, textVars, pointer, history>>

\* Mutant of TimersAfterShow: the STOP timer is not started.
TimersAfterShowNone == start' = FALSE /\ UNCHANGED stop

TimersAfterShow == start' = FALSE /\ stop' = TRUE

TimerStart ==
  /\ window = "alive" /\ start /\ ~posted
  /\ IF MouseOverWindow
     THEN showHelp /\ TimersAfterShow /\ ptlPointer' = pointer /\ UNCHANGED fTimerActive
     ELSE stopHelp(TRUE) /\ UNCHANGED ptlPointer
  /\ UNCHANGED <<mode, dataVars, textVars, posted, pointer, history>>

TimerStop ==
  /\ window = "alive" /\ stop /\ ~posted
  /\ posted' = TRUE
  /\ UNCHANGED <<mode, dataVars, textVars, ptlPointer, displayVars, timerVars, pointer, history>>

Paint ==
  /\ window = "alive" /\ Displayed /\ invalid
  /\ showHelp
  /\ UNCHANGED <<mode, dataVars, textVars, ptlPointer, timerVars, posted, pointer, history>>

-----------------------------------------------------------------------------
(* The shadow that is left, the pointer and the owner *)

\* The shadow is painted by the colors and the pattern in the data, which
\* changes something only if they have been freed.
PaintShadow ==
  /\ shadow = "visible" /\ placed
  /\ pbhwd = "freed" /\ ~misused
  /\ misused' = TRUE
  /\ UNCHANGED <<mode, window, pbhwd, textVars, ptlPointer, displayVars, timerVars, posted, pointer, history>>

MovePointer ==
  /\ pointer' \in Place \ {pointer}
  /\ UNCHANGED <<mode, dataVars, textVars, ptlPointer, displayVars, timerVars, posted, history>>

\* The window that has the help is destroyed, and with it those it owns.
DestroyOwner ==
  /\ window # "none" /\ shadow # "none"
  /\ window' = "destroyed" /\ pbhwd' = "freed"
  /\ frame' = FALSE /\ invalid' = FALSE /\ shadow' = "none"
  /\ start' = FALSE /\ stop' = FALSE /\ posted' = FALSE /\ wanted' = FALSE
  /\ UNCHANGED <<mode, misused, textVars, ptlPointer, extent, placed, shown, fTimerActive, pointer,
                 accepted, failed>>

Next ==
  \/ InitializeBubbleHelp \/ TerminateBubbleHelp \/ DestroyOwner
  \/ \E f \in Creation : InitializeFails(f)
  \/ WtkActivateBubbleHelp \/ WtkDeactivateBubbleHelp
  \/ \E t \in Text : WtkUpdateBubbleHelp(t) \/ UpdateFails(t)
  \/ PostedMessage \/ TimerStart \/ TimerStop \/ Paint
  \/ PaintShadow \/ MovePointer

\* The message loop runs, so that timers and messages come; whether the
\* application calls and the user moves is left open.
Fairness == WF_vars(PostedMessage) /\ WF_vars(TimerStart) /\ WF_vars(TimerStop) /\ WF_vars(Paint)

Spec == Init /\ [][Next]_vars /\ Fairness

-----------------------------------------------------------------------------
(* Properties *)

\* If the application calls only when no message is waiting, a help that it has
\* deactivated, or never activated, is not on the screen and will not come up:
\* no message that is still in the queue or timer brings it back.
StaysDeactivated ==
  window = "alive" /\ ~wanted /\ ~mode.sent => ~Displayed /\ ~start /\ ~stop /\ ~posted

\* The help on the screen, once painted, has the text that the application gave
\* last; if there was no memory for a text, it has the old one or the message
\* of an internal error: _showHelp, BHM_UPDATEBHELP and WM_PAINT together.
HelpIsCurrent ==
  Displayed /\ ~invalid => shown = accepted \/ (failed /\ shown = ErrorText)

\* The frame has the size of the text it shows, however texts of different
\* sizes follow each other while it is hidden and visible.
SizeFitsText == Displayed => extent = Extent[shown]

\* The shadow is on the screen just when the help is, as long as there is one.
ShadowFollows ==
  window = "alive" /\ shadow # "none" /\ placed => (shadow = "visible" <=> frame)

\* The data is used after it was freed only by a shadow that WtkTerminate-
\* BubbleHelp has left, and freed twice only if the creation fails late.
MisusedOnlyAtTheEnds ==
  misused => /\ window = "destroyed"
             /\ mode.shadow \/ MayFail("text window")

\* The help is that of its owner in all this: an application that calls between
\* messages sees the text it gave, in a frame of its size, just when it wants to.
HelpIsRight ==
  /\ TypeOK
  /\ StaysDeactivated
  /\ HelpIsCurrent
  /\ SizeFitsText
  /\ ShadowFollows
  /\ MisusedOnlyAtTheEnds

\* When the pointer has left the window for good, the help disappears for good,
\* whatever else the application calls.
LeavesWithPointer == <>[](~MouseOverWindow) => <>[](~Displayed)

\* When the application has activated the help and the pointer rests over the
\* window, the help comes up and stays; it is not hidden and shown in turns.
AppearsAtRest ==
  \A p \in Over : <>[](wanted /\ pointer = p) => <>[]frame
=============================================================================
