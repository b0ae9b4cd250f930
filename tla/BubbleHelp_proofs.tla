-------------------------- MODULE BubbleHelp_proofs --------------------------
(***************************************************************************)
(* The proof of HelpIsRight, see BubbleHelp: for every set of texts with   *)
(* their sizes, every choice of places and of calls that fail, what is on  *)
(* the screen is what the application wants.                               *)
(***************************************************************************)
EXTENDS BubbleHelp, TLAPS

\* Before the help is created nothing is on the screen or about to come, and the
\* data that was freed belongs to a window that is destroyed.
Fresh ==
  /\ window = "none" => /\ ~placed /\ ~start /\ ~stop /\ ~posted /\ ~misused
                        /\ shadow = "none"
  /\ pbhwd = "freed" => window = "destroyed"

\* The text in the data is the one given last, or there is none.
TextInv == pszText = IF failed THEN NoText ELSE accepted

\* The inductive invariant.  HelpIsRight is not inductive: what showHelp shows is
\* right only if the data is, and what InitializeBubbleHelp makes visible only if
\* nothing was there before.
HelpInv == HelpIsRight /\ Fresh /\ TextInv

USE BubbleAssumption DEF BubbleAssumption

LEMMA InitHelp == Init => HelpInv
<1> SUFFICES ASSUME Init PROVE HelpInv
  OBVIOUS
<1>1. TypeOK
  BY DEF Init, TypeOK
<1>2. StaysDeactivated /\ HelpIsCurrent /\ SizeFitsText /\ ShadowFollows /\ MisusedOnlyAtTheEnds
  BY DEF Init, StaysDeactivated, HelpIsCurrent, SizeFitsText, ShadowFollows, MisusedOnlyAtTheEnds,
         Displayed
<1>3. Fresh /\ TextInv
  BY DEF Init, Fresh, TextInv
<1> QED BY <1>1, <1>2, <1>3 DEF HelpInv, HelpIsRight

-----------------------------------------------------------------------------
(* What is shown and hidden *)

\* _showHelp makes the frame, its size, its shadow and its text agree, whether or
\* not it was visible before (wtkbbh.c: _showHelp, called for a timer and WM_PAINT).
LEMMA ShowIsRight ==
  ASSUME TypeOK, SizeFitsText, ShadowFollows, TextInv, showHelp,
         UNCHANGED <<window, pszText, accepted, failed>>
  PROVE  HelpIsCurrent' /\ SizeFitsText' /\ ShadowFollows' /\ TextInv'
<1> DEFINE text == IF pszText = NoText THEN ErrorText ELSE pszText
<1>1. TextInv'
  BY DEF TextInv
<1>2. text = accepted \/ (failed /\ text = ErrorText)
  BY DEF TextInv, TypeOK
<1>3. shown' = text /\ extent' = Extent[text] /\ frame'
  BY DEF showHelp, Frame
<1>4. HelpIsCurrent' /\ SizeFitsText'
  BY <1>2, <1>3 DEF HelpIsCurrent, SizeFitsText
<1>5. ASSUME Frame(text) PROVE ShadowFollows'
  BY <1>3, <1>5 DEF showHelp, ShadowFollows, TypeOK
<1>6. ASSUME ~Frame(text) PROVE ShadowFollows'
  BY <1>3, <1>6 DEF showHelp, Frame, ShadowFollows
<1> QED BY <1>1, <1>4, <1>5, <1>6

\* The types of what _showHelp changes.
LEMMA ShowTypes ==
  ASSUME TypeOK, showHelp
  PROVE  /\ shown' \in Text \cup {ErrorText}
         /\ shadow' \in {"none", "hidden", "visible"} /\ (shadow' # "none" => shadow # "none")
         /\ frame' \in BOOLEAN /\ placed' \in BOOLEAN /\ invalid' \in BOOLEAN
BY DEF TypeOK, showHelp

\* _stopHelp hides the frame and its shadow (wtkbbh.c: _stopHelp).
LEMMA StopIsRight ==
  ASSUME TypeOK, NEW restart \in BOOLEAN, stopHelp(restart), UNCHANGED window
  PROVE  /\ HelpIsCurrent' /\ SizeFitsText' /\ ShadowFollows'
         /\ frame' = FALSE /\ invalid' = FALSE /\ start' = restart /\ stop' = FALSE
         /\ fTimerActive' = restart
         /\ shown' = shown /\ placed' = placed
         /\ shadow' \in {"none", "hidden", "visible"} /\ (shadow' # "none" => shadow # "none")
BY DEF stopHelp, StopTimers, HideShadow, TypeOK, HelpIsCurrent, SizeFitsText, ShadowFollows, Displayed

\* BHM_ACTIVATEBHELP hides the help or leaves it as it is, and starts no timer of
\* a help that comes up without the pointer (wtkbbh.c: _bubbbleHelpWindowProc).
LEMMA ActivateIsRight ==
  ASSUME HelpInv, ActivateHelp, UNCHANGED <<mode, dataVars, textVars, pointer, accepted, failed>>
  PROVE  /\ HelpIsCurrent' /\ SizeFitsText' /\ ShadowFollows'
         /\ shown' \in Text \cup {ErrorText} /\ ptlPointer' \in Place
         /\ shadow' \in {"none", "hidden", "visible"} /\ (shadow' # "none" => shadow # "none")
         /\ fTimerActive' \in BOOLEAN /\ frame' \in BOOLEAN /\ placed' \in BOOLEAN
         /\ invalid' \in BOOLEAN /\ start' \in BOOLEAN /\ stop' \in BOOLEAN
<1> USE DEF HelpInv, HelpIsRight
<1>1. CASE ~MouseOverWindow /\ stopHelp(TRUE) /\ UNCHANGED ptlPointer
  BY <1>1, StopIsRight DEF dataVars, TypeOK
<1>2. CASE /\ MouseOverWindow /\ fTimerActive
           /\ IF hasPointerPosChanged THEN stopHelp(TRUE) ELSE UNCHANGED <<displayVars, timerVars>>
           /\ ptlPointer' = pointer
  <2>1. CASE stopHelp(TRUE)
    BY <1>2, <2>1, StopIsRight DEF dataVars, TypeOK
  <2>2. CASE UNCHANGED <<displayVars, timerVars>>
    BY <1>2, <2>2 DEF dataVars, displayVars, timerVars, TypeOK, HelpIsCurrent, SizeFitsText,
                      ShadowFollows, Displayed
  <2> QED BY <1>2, <2>1, <2>2
<1>3. CASE /\ MouseOverWindow /\ ~fTimerActive
           /\ ptlPointer' = pointer /\ start' = TRUE /\ fTimerActive' = TRUE
           /\ UNCHANGED <<displayVars, stop>>
  BY <1>3 DEF dataVars, displayVars, TypeOK, HelpIsCurrent, SizeFitsText, ShadowFollows, Displayed
<1> QED BY <1>1, <1>2, <1>3 DEF ActivateHelp

-----------------------------------------------------------------------------
(* The steps *)

\* Creation and the ends of the help (WtkInitializeBubbleHelp, WtkTerminate-
\* BubbleHelp, and the destruction of the window that has the help).
LEMMA CreationKeepsHelp ==
  ASSUME HelpInv,
         InitializeBubbleHelp \/ TerminateBubbleHelp \/ DestroyOwner
           \/ \E f \in Creation : InitializeFails(f)
  PROVE  HelpInv'
<1> USE DEF HelpInv, HelpIsRight, textVars, timerVars, history
<1>1. CASE InitializeBubbleHelp
  <2>1. TypeOK'
    BY <1>1 DEF InitializeBubbleHelp, TypeOK
  <2>2. Fresh' /\ TextInv' /\ StaysDeactivated' /\ HelpIsCurrent' /\ SizeFitsText'
    BY <1>1 DEF InitializeBubbleHelp, Fresh, TextInv, StaysDeactivated, HelpIsCurrent, SizeFitsText,
                Displayed
  <2>3. ShadowFollows' /\ MisusedOnlyAtTheEnds'
    BY <1>1 DEF InitializeBubbleHelp, Fresh, ShadowFollows, MisusedOnlyAtTheEnds
  <2> QED BY <2>1, <2>2, <2>3
<1>2. CASE TerminateBubbleHelp \/ DestroyOwner
  <2>1. TypeOK'
    BY <1>2 DEF TerminateBubbleHelp, DestroyOwner, TypeOK
  <2>2. Fresh' /\ TextInv' /\ StaysDeactivated' /\ HelpIsCurrent' /\ SizeFitsText'
    BY <1>2 DEF TerminateBubbleHelp, DestroyOwner, Fresh, TextInv, StaysDeactivated, HelpIsCurrent,
                SizeFitsText, Displayed
  <2>3. ShadowFollows' /\ MisusedOnlyAtTheEnds'
    <3>1. ShadowFollows'
      BY <1>2 DEF TerminateBubbleHelp, DestroyOwner, ShadowFollows
    <3>2. mode' = mode /\ misused' = misused /\ window' = "destroyed"
      BY <1>2 DEF TerminateBubbleHelp, DestroyOwner
    <3>3. MisusedOnlyAtTheEnds'
      BY <3>2, Zenon DEF MisusedOnlyAtTheEnds, MayFail
    <3> QED BY <3>1, <3>3
  <2> QED BY <2>1, <2>2, <2>3
<1>3. ASSUME NEW f \in Creation, InitializeFails(f) PROVE HelpInv'
  <2>1. TypeOK'
    <3>1. misused' \in BOOLEAN
      <4>1. misused' = FreesTwice(f)
        BY <1>3 DEF InitializeFails
      <4>2. FreesTwice(f) \in BOOLEAN
        BY SMT DEF FreesTwice
      <4> QED BY <4>1, <4>2
    <3>2. shadow' \in {"none", "visible"} /\ (shadow' # "none" => mode.shadow)
      BY <1>3 DEF InitializeFails
    <3>3. window' = "destroyed" /\ pbhwd' \in {"none", "freed"}
      BY <1>3 DEF InitializeFails
    <3>4. UNCHANGED <<mode, textVars, ptlPointer, frame, placed, shown, invalid, timerVars, posted,
                      pointer, history>>
      BY <1>3 DEF InitializeFails
    <3> QED BY <3>1, <3>2, <3>3, <3>4 DEF TypeOK
  <2>2. Fresh' /\ TextInv' /\ StaysDeactivated' /\ HelpIsCurrent' /\ SizeFitsText'
    BY <1>3 DEF InitializeFails, Fresh, TextInv, StaysDeactivated, HelpIsCurrent, SizeFitsText,
                Displayed
  <2>3. ShadowFollows' /\ MisusedOnlyAtTheEnds'
    BY <1>3 DEF InitializeFails, ShadowFollows, MisusedOnlyAtTheEnds, FreesTwice, MayFail
  <2> QED BY <2>1, <2>2, <2>3
<1> QED BY <1>1, <1>2, <1>3

\* The messages of the application to the window.
LEMMA CallsKeepHelp ==
  ASSUME HelpInv,
         WtkActivateBubbleHelp \/ WtkDeactivateBubbleHelp
           \/ \E t \in Text : WtkUpdateBubbleHelp(t) \/ UpdateFails(t)
  PROVE  HelpInv'
<1> USE DEF HelpInv, HelpIsRight, dataVars, textVars
<1>1. CASE WtkActivateBubbleHelp
  <2>1. /\ HelpIsCurrent' /\ SizeFitsText' /\ ShadowFollows'
        /\ shown' \in Text \cup {ErrorText} /\ ptlPointer' \in Place
        /\ shadow' \in {"none", "hidden", "visible"} /\ (shadow' # "none" => shadow # "none")
        /\ fTimerActive' \in BOOLEAN /\ frame' \in BOOLEAN /\ placed' \in BOOLEAN
         /\ invalid' \in BOOLEAN /\ start' \in BOOLEAN /\ stop' \in BOOLEAN
    BY <1>1, ActivateIsRight DEF WtkActivateBubbleHelp
  <2>2. TypeOK'
    BY <1>1, <2>1 DEF WtkActivateBubbleHelp, TypeOK
  <2>3. Fresh' /\ TextInv' /\ StaysDeactivated' /\ MisusedOnlyAtTheEnds'
    BY <1>1 DEF WtkActivateBubbleHelp, Calls, Fresh, TextInv, StaysDeactivated, MisusedOnlyAtTheEnds
  <2> QED BY <2>1, <2>2, <2>3
<1>2. CASE WtkDeactivateBubbleHelp
  <2>1. /\ HelpIsCurrent' /\ SizeFitsText' /\ ShadowFollows'
        /\ frame' = FALSE /\ invalid' = FALSE /\ start' = FALSE /\ stop' = FALSE
        /\ fTimerActive' = FALSE
        /\ shown' = shown /\ placed' = placed
        /\ shadow' \in {"none", "hidden", "visible"} /\ (shadow' # "none" => shadow # "none")
    BY <1>2, StopIsRight DEF WtkDeactivateBubbleHelp
  <2>2. TypeOK'
    BY <1>2, <2>1 DEF WtkDeactivateBubbleHelp, TypeOK
  <2>3. Fresh' /\ TextInv' /\ StaysDeactivated' /\ MisusedOnlyAtTheEnds'
    BY <1>2, <2>1 DEF WtkDeactivateBubbleHelp, Calls, Fresh, TextInv, StaysDeactivated, Displayed,
                      MisusedOnlyAtTheEnds
  <2> QED BY <2>1, <2>2, <2>3
<1>3. ASSUME NEW t \in Text, WtkUpdateBubbleHelp(t) PROVE HelpInv'
  <2> USE DEF timerVars
  <2>1. TypeOK'
    <3>1. ulMaxTextLen' \in Nat
      BY <1>3 DEF WtkUpdateBubbleHelp, TypeOK
    <3>2. invalid' \in BOOLEAN
      BY <1>3 DEF WtkUpdateBubbleHelp, Invalidated, Displayed
    <3>3. pszText' \in Text \cup {NoText} /\ accepted' \in Text /\ failed' \in BOOLEAN
      BY <1>3 DEF WtkUpdateBubbleHelp
    <3>4. UNCHANGED <<mode, window, pbhwd, misused, ptlPointer, frame, placed, shown, shadow,
                      fTimerActive, start, stop, posted, pointer, wanted>>
      BY <1>3 DEF WtkUpdateBubbleHelp
    <3> QED BY <1>3, <3>1, <3>2, <3>3, <3>4 DEF TypeOK
  <2>2. Fresh' /\ TextInv' /\ StaysDeactivated' /\ MisusedOnlyAtTheEnds'
    BY <1>3 DEF WtkUpdateBubbleHelp, Calls, Fresh, TextInv, StaysDeactivated, Displayed,
                MisusedOnlyAtTheEnds
  <2>3. HelpIsCurrent' /\ SizeFitsText' /\ ShadowFollows'
    BY <1>3 DEF WtkUpdateBubbleHelp, Invalidated, HelpIsCurrent, SizeFitsText, ShadowFollows, Displayed
  <2> QED BY <2>1, <2>2, <2>3
<1>4. ASSUME NEW t \in Text, UpdateFails(t) PROVE HelpInv'
  <2> USE DEF timerVars, displayVars
  <2>1. TypeOK'
    BY <1>4 DEF UpdateFails, TypeOK
  <2>2. Fresh' /\ TextInv' /\ StaysDeactivated' /\ MisusedOnlyAtTheEnds'
    BY <1>4 DEF UpdateFails, Calls, Fresh, TextInv, StaysDeactivated, Displayed, MisusedOnlyAtTheEnds
  <2>3. HelpIsCurrent' /\ SizeFitsText' /\ ShadowFollows'
    BY <1>4 DEF UpdateFails, HelpIsCurrent, SizeFitsText, ShadowFollows, Displayed
  <2> QED BY <2>1, <2>2, <2>3
<1> QED BY <1>1, <1>2, <1>3, <1>4

\* The messages of the timers, and WM_PAINT.
LEMMA MessagesKeepHelp ==
  ASSUME HelpInv, PostedMessage \/ TimerStart \/ TimerStop \/ Paint
  PROVE  HelpInv'
<1> USE DEF HelpInv, HelpIsRight, dataVars, textVars, history
<1>1. CASE PostedMessage
  <2>1. /\ HelpIsCurrent' /\ SizeFitsText' /\ ShadowFollows'
        /\ shown' \in Text \cup {ErrorText} /\ ptlPointer' \in Place
        /\ shadow' \in {"none", "hidden", "visible"} /\ (shadow' # "none" => shadow # "none")
        /\ fTimerActive' \in BOOLEAN /\ frame' \in BOOLEAN /\ placed' \in BOOLEAN
         /\ invalid' \in BOOLEAN /\ start' \in BOOLEAN /\ stop' \in BOOLEAN
    BY <1>1, ActivateIsRight DEF PostedMessage
  <2>2. TypeOK'
    BY <1>1, <2>1 DEF PostedMessage, TypeOK
  <2>3. Fresh' /\ TextInv' /\ StaysDeactivated' /\ MisusedOnlyAtTheEnds'
    BY <1>1 DEF PostedMessage, Fresh, TextInv, StaysDeactivated, MisusedOnlyAtTheEnds
  <2> QED BY <2>1, <2>2, <2>3
<1>2. CASE TimerStart /\ MouseOverWindow
  <2>1. HelpIsCurrent' /\ SizeFitsText' /\ ShadowFollows' /\ TextInv'
    BY <1>2, ShowIsRight DEF TimerStart
  <2>2. TypeOK'
    BY <1>2, ShowTypes DEF TimerStart, TimersAfterShow, TypeOK
  <2>3. Fresh' /\ StaysDeactivated' /\ MisusedOnlyAtTheEnds'
    BY <1>2 DEF TimerStart, Fresh, StaysDeactivated, MisusedOnlyAtTheEnds
  <2> QED BY <2>1, <2>2, <2>3
<1>3. CASE TimerStart /\ ~MouseOverWindow
  <2>1. /\ HelpIsCurrent' /\ SizeFitsText' /\ ShadowFollows'
        /\ frame' = FALSE /\ invalid' = FALSE /\ start' = TRUE /\ stop' = FALSE
        /\ fTimerActive' = TRUE
        /\ shown' = shown /\ placed' = placed
        /\ shadow' \in {"none", "hidden", "visible"} /\ (shadow' # "none" => shadow # "none")
    BY <1>3, StopIsRight DEF TimerStart
  <2>2. TypeOK'
    BY <1>3, <2>1 DEF TimerStart, TypeOK
  <2>3. Fresh' /\ TextInv' /\ StaysDeactivated' /\ MisusedOnlyAtTheEnds'
    BY <1>3 DEF TimerStart, Fresh, TextInv, StaysDeactivated, MisusedOnlyAtTheEnds
  <2> QED BY <2>1, <2>2, <2>3
<1>4. CASE TimerStop
  <2> USE DEF timerVars, displayVars
  <2>1. TypeOK'
    BY <1>4 DEF TimerStop, TypeOK
  <2>2. Fresh' /\ TextInv' /\ StaysDeactivated' /\ MisusedOnlyAtTheEnds'
    BY <1>4 DEF TimerStop, Fresh, TextInv, StaysDeactivated, MisusedOnlyAtTheEnds
  <2>3. HelpIsCurrent' /\ SizeFitsText' /\ ShadowFollows'
    BY <1>4 DEF TimerStop, HelpIsCurrent, SizeFitsText, ShadowFollows, Displayed
  <2> QED BY <2>1, <2>2, <2>3
<1>5. CASE Paint
  <2> USE DEF timerVars
  <2>1. HelpIsCurrent' /\ SizeFitsText' /\ ShadowFollows' /\ TextInv'
    BY <1>5, ShowIsRight DEF Paint
  <2>2. TypeOK'
    BY <1>5, ShowTypes DEF Paint, TypeOK
  <2>3. Fresh' /\ StaysDeactivated' /\ MisusedOnlyAtTheEnds'
    BY <1>5 DEF Paint, Fresh, StaysDeactivated, MisusedOnlyAtTheEnds, Displayed, showHelp
  <2> QED BY <2>1, <2>2, <2>3
<1> QED BY <1>1, <1>2, <1>3, <1>4, <1>5

\* The shadow that is left, the pointer, and steps of others.
LEMMA OthersKeepHelp ==
  ASSUME HelpInv, PaintShadow \/ MovePointer \/ UNCHANGED vars
  PROVE  HelpInv'
<1> USE DEF HelpInv, HelpIsRight, dataVars, textVars, displayVars, timerVars, history
<1>1. CASE PaintShadow
  <2>1. TypeOK'
    BY <1>1 DEF PaintShadow, TypeOK
  <2>2. Fresh' /\ MisusedOnlyAtTheEnds'
    BY <1>1 DEF PaintShadow, Fresh, MisusedOnlyAtTheEnds, TypeOK
  <2>3. TextInv' /\ StaysDeactivated' /\ HelpIsCurrent' /\ SizeFitsText' /\ ShadowFollows'
    BY <1>1 DEF PaintShadow, TextInv, StaysDeactivated, HelpIsCurrent, SizeFitsText, ShadowFollows,
                Displayed
  <2> QED BY <2>1, <2>2, <2>3
<1>2. CASE MovePointer \/ UNCHANGED vars
  <2>1. TypeOK'
    BY <1>2 DEF MovePointer, vars, TypeOK
  <2>2. Fresh' /\ MisusedOnlyAtTheEnds'
    <3>1. UNCHANGED <<mode, misused, window, pbhwd, placed, start, stop, posted, shadow>>
      BY <1>2 DEF MovePointer, vars
    <3>2. Fresh'
      BY <3>1 DEF Fresh
    <3>3. MisusedOnlyAtTheEnds'
      BY <3>1, Zenon DEF MisusedOnlyAtTheEnds, MayFail
    <3> QED BY <3>2, <3>3
  <2>3. TextInv' /\ StaysDeactivated' /\ HelpIsCurrent' /\ SizeFitsText' /\ ShadowFollows'
    BY <1>2 DEF MovePointer, vars, TextInv, StaysDeactivated, HelpIsCurrent, SizeFitsText,
                ShadowFollows, Displayed
  <2> QED BY <2>1, <2>2, <2>3
<1> QED BY <1>1, <1>2

LEMMA NextKeepsHelp == HelpInv /\ [Next]_vars => HelpInv'
BY CreationKeepsHelp, CallsKeepHelp, MessagesKeepHelp, OthersKeepHelp DEF Next

\* The help on the screen is what the application wants, whenever it has called
\* between messages (wtkbbh.c).
THEOREM HelpCorrect == Spec => []HelpIsRight
<1>1. HelpInv => HelpIsRight
  BY DEF HelpInv
<1> QED BY InitHelp, NextKeepsHelp, <1>1, PTL DEF Spec
=============================================================================
