----------------------------- MODULE ConfigSys -----------------------------
(***************************************************************************)
(* WtkUpdateConfigsys (wtkfcfgs.c): statements are added to or removed     *)
(* from CONFIG.SYS.  The new contents are written to a temporary file,     *)
(* CONFIG.SYS is moved to its backup and the temporary file to CONFIG.SYS. *)
(* Every call to the operating system may fail, and the program may end    *)
(* between any two of them.                                                *)
(*                                                                         *)
(* A statement has a command, a value and a parameter, which are sequences *)
(* of characters: SET has the name of the variable as its value, and       *)
(* LIBPATH and the other commands have what follows the equal sign up to   *)
(* the first blank.  The difference between upper and lower case is left   *)
(* out.                                                                    *)
(***************************************************************************)
EXTENDS Integers, Sequences, FiniteSets, SequencesExt

CONSTANTS Backups,     \* names of backup files, as a sequence in the order they are tried
          Contents,    \* contents CONFIG.SYS may have at first
          Updates,     \* the update data of the calls: sequences of statements
          MaxCalls     \* bound: calls of WtkUpdateConfigsys

VARIABLES disk,     \* the files that exist, with their lines
          pc,       \* what the call does next
          call,     \* parameters and locals of the last call
          old,      \* CONFIG.SYS when the last call began that found one
          rc,       \* result of the last call
          calls     \* number of calls

vars == <<disk, pc, call, old, rc, calls>>

Statement(cmd, value, param) == [cmd |-> cmd, value |-> value, param |-> param]

----------------------------------------------------------------------------
(* Lists of values, delimited by semicolons.                               *)

LIST_DELIMITER == ";"
VAR_DELIMITER == "%"

(* SET statements with a list, and LIBPATH.                                *)
fValueList(s) == \/ s.cmd = "SET" /\ Contains(s.param, LIST_DELIMITER)
                 \/ s.cmd = "LIBPATH"

IsAt(s, i, t) == i + Len(t) - 1 <= Len(s) /\ SubSeq(s, i, i + Len(t) - 1) = t

(* Empty entries vanish, and a semicolon at the very start.                *)
RemoveEmptyEntries(s) ==
  LET kept == {i \in DOMAIN s : ~(s[i] = LIST_DELIMITER /\ IsAt(s, i + 1, <<LIST_DELIMITER>>))}
      joined == [n \in 1 .. Cardinality(kept) |->
                   s[CHOOSE i \in kept : Cardinality({k \in kept : k <= i}) = n]]
  IN  IF IsAt(joined, 1, <<LIST_DELIMITER>>) THEN Tail(joined) ELSE joined

(* An entry of the new list is blanked out where it is found first in the  *)
(* old one, provided that an entry ends there.                             *)
Found(s, entry) == {i \in DOMAIN s : IsAt(s, i, entry)}
FirstFound(s, entry) == CHOOSE i \in Found(s, entry) : \A k \in Found(s, entry) : i <= k
EndsThere(s, entry) ==
  LET next == FirstFound(s, entry) + Len(entry)
  IN  next > Len(s) \/ s[next] = LIST_DELIMITER

Blank(check, s, entry) ==
  IF entry = <<>> \/ Found(check, entry) = {} THEN s
  ELSE IF ~EndsThere(check, entry) THEN s
  ELSE [i \in DOMAIN s |->
          IF i \in FirstFound(check, entry) .. FirstFound(check, entry) + Len(entry) - 1
          THEN LIST_DELIMITER ELSE s[i]]

Entries(s) ==
  LET ends == {i \in DOMAIN s : s[i] = LIST_DELIMITER} \union {Len(s) + 1}
      From(e) == IF \E d \in ends : d < e
                 THEN (CHOOSE d \in ends : d < e /\ \A x \in ends : x < e => x <= d) + 1 ELSE 1
  IN  [n \in 1 .. Cardinality(ends) |->
         LET e == CHOOSE i \in ends : Cardinality({k \in ends : k <= i}) = n
         IN  SubSeq(s, From(e), e - 1)]

(* The places of the two percent signs around the name of a variable.      *)
VarAt(s) ==
  LET signs == {i \in DOMAIN s : s[i] = VAR_DELIMITER}
      first == CHOOSE i \in signs : \A k \in signs : i <= k
      second == CHOOSE i \in signs \ {first} : \A k \in signs \ {first} : i <= k
  IN  IF Cardinality(signs) < 2 THEN <<>> ELSE <<first, second>>

WithoutVar(s) ==
  IF VarAt(s) = <<>> THEN s
  ELSE SubSeq(s, 1, VarAt(s)[1] - 1) \o SubSeq(s, VarAt(s)[2] + 1, Len(s))

(* What is left of the old list without the entries of the new one.        *)
Rest(oldValue, newValue) ==
  RemoveEmptyEntries(FoldLeft(LAMBDA s, entry : Blank(oldValue, s, entry), oldValue,
                              Entries(WithoutVar(newValue))))

Inserted(name, oldValue, newValue) ==
  LET var == VarAt(newValue)
  IN  IF var = <<>> THEN newValue
      ELSE SubSeq(newValue, 1, var[1] - 1)
           \o (IF SubSeq(newValue, var[1] + 1, var[2] - 1) = name THEN Rest(oldValue, newValue) ELSE <<>>)
           \o SubSeq(newValue, var[2] + 1, Len(newValue))

(* _newListValue: the command goes before the list, so that a semicolon at *)
(* the start of the new list stays.                                        *)
NewListValue(name, oldValue, newValue, mode) ==
  LET joined == Tail(RemoveEmptyEntries(<<"=">> \o Inserted(name, oldValue, newValue)))
  IN  IF mode = "DELETE" THEN Rest(oldValue, newValue)
      ELSE IF joined # <<>> /\ Last(joined) = LIST_DELIMITER THEN joined
      ELSE Append(joined, LIST_DELIMITER)

Replaced(line, update, mode) ==
  IF line.cmd = "SET"
  THEN [line EXCEPT !.param = NewListValue(line.value, @, update.param, mode)]
  ELSE [line EXCEPT !.value = NewListValue(<<line.cmd>>, @, update.value, mode),
                    !.param = <<>>]

----------------------------------------------------------------------------
(* What becomes of the lines.  The single statements of the update wait to *)
(* be written behind the last line; ulUpdateLine of a list is never set.   *)

Singles(u) == SelectSeq(u, LAMBDA s : ~fValueList(s))
UpdateLineFrom0(u, i) ==
  IF fValueList(u[i]) THEN 1
  ELSE Cardinality({k \in 1 .. i - 1 : ~fValueList(u[k])})
UpdateLine(u, i) ==
  IF fValueList(u[i]) THEN 1
  ELSE Cardinality({k \in 1 .. i : ~fValueList(u[k])})

SameVariable(line, s) == line.cmd = "SET" /\ line.value = s.value
SameValue(line, s) == SameVariable(line, s) /\ line.param = s.param
SameStatement(line, s) ==
  line.cmd # "SET" /\ line.cmd = s.cmd /\ (fValueList(s) \/ line.value = s.value)

(* The statements of the update that have the line replaced or left out:   *)
(* the first one decides.                                                  *)
Deciding(line, u) ==
  {i \in DOMAIN u : SameStatement(line, u[i]) \/ (SameVariable(line, u[i]) /\ ~SameValue(line, u[i]))}
Decider(line, u) == CHOOSE i \in Deciding(line, u) : \A k \in Deciding(line, u) : i <= k

Touched(line, u) == line.cmd # "REM" /\ Deciding(line, u) # {}

(* The statements up to the deciding one are gone through.                 *)
Reached(line, u) ==
  IF Touched(line, u) THEN 1 .. Decider(line, u) ELSE DOMAIN u
NoLongerWaiting(line, u) ==
  IF line.cmd = "REM" THEN {}
  ELSE {UpdateLine(u, i) : i \in {k \in Reached(line, u) : SameValue(line, u[k])}}

Skipped(line, u, mode) ==
  /\ Touched(line, u)
  /\ ~fValueList(u[Decider(line, u)])
  /\ ~(mode = "DELETE" /\ line.cmd = "SET")

NewLine(line, u, mode) ==
  IF Touched(line, u) /\ fValueList(u[Decider(line, u)])
  THEN Replaced(line, u[Decider(line, u)], mode) ELSE line

Waiting(lines, u) ==
  LET done == UNION {NoLongerWaiting(lines[n], u) : n \in DOMAIN lines}
  IN  {n \in DOMAIN Singles(u) : n \notin done}

NewLines(lines, u, mode) ==
  LET kept == SelectSeq(lines, LAMBDA line : ~Skipped(line, u, mode))
      changed == [n \in DOMAIN kept |-> NewLine(kept[n], u, mode)]
      waiting == SetToSortSeq(Waiting(lines, u), <)
  IN  IF mode = "ADD" THEN changed \o [n \in DOMAIN waiting |-> Singles(u)[waiting[n]]]
      ELSE changed

(* How many lines are new at the end.                                      *)
Added(lines, u, mode) == IF mode = "ADD" THEN Cardinality(Waiting(lines, u)) ELSE 0

(* Lines that are replaced do not count.                                   *)
fModified(lines, u, mode) ==
  \/ \E n \in DOMAIN lines : Skipped(lines[n], u, mode)
  \/ mode = "ADD" /\ Waiting(lines, u) # {}

----------------------------------------------------------------------------
(* The files.                                                              *)

SYS == "CONFIG.SYS"
TMP == "TMP"
Exists(f) == f \in DOMAIN disk
Without(f) == [g \in DOMAIN disk \ {f} |-> disk[g]]
With(f, lines) == [g \in DOMAIN disk \union {f} |-> IF g = f THEN lines ELSE disk[g]]
Moved(f, g) == [h \in (DOMAIN disk \ {f}) \union {g} |-> IF h = g THEN disk[f] ELSE disk[h]]

NoCall == [u |-> <<>>, mode |-> "ADD", ext |-> "none", bak |-> "none", far |-> FALSE,
           cut |-> FALSE]

Ends(code) == pc' = "idle" /\ rc' = code /\ UNCHANGED call
Continues(next) == pc' = next /\ UNCHANGED <<rc, call>>

Init ==
  /\ \E lines \in Contents : disk = [f \in {SYS} |-> lines] /\ old = lines
  /\ pc = "idle" /\ call = NoCall /\ rc = "none" /\ calls = 0

(* far: the directory for temporary files is on another drive.  CONFIG.SYS *)
(* itself is looked for only when it is read, after the backup is chosen.  *)
WtkUpdateConfigsys(u, mode, ext, far) ==
  /\ pc = "idle" /\ calls < MaxCalls
  /\ call' = [u |-> u, mode |-> mode, ext |-> ext, bak |-> ext, far |-> far, cut |-> FALSE]
  /\ pc' = "backup" /\ calls' = calls + 1 /\ rc' = "none"
  /\ old' = IF Exists(SYS) THEN disk[SYS] ELSE old
  /\ UNCHANGED disk

(* The first free number, or the last one if none is free.                 *)
CountUp ==
  LET free == {n \in DOMAIN Backups : ~Exists(Backups[n])}
      first == CHOOSE n \in free : \A k \in free : n <= k
  IN  /\ pc = "backup" /\ call.ext = "none"
      /\ call' = [call EXCEPT !.bak = IF free = {} THEN Last(Backups) ELSE Backups[first]]
      /\ pc' = "tmp" /\ UNCHANGED <<disk, rc, old, calls>>

DeleteBackup ==
  /\ pc = "backup" /\ call.ext # "none"
  /\ \/ Exists(call.ext) /\ disk' = Without(call.ext) /\ Continues("tmp")
     \/ UNCHANGED disk /\ Ends("ERROR")
  /\ UNCHANGED <<old, calls>>

CreateTmpFile ==
  /\ pc = "tmp"
  /\ \/ disk' = With(TMP, <<>>) /\ Continues("read")
     \/ UNCHANGED disk /\ Ends("ERROR")
  /\ UNCHANGED <<old, calls>>

ReadConfigsys ==
  /\ pc = "read"
  /\ \/ Exists(SYS) /\ Continues("write")
     \/ Ends("ERROR")
  /\ UNCHANGED <<disk, old, calls>>

(* A line that cannot be written ends the call while CONFIG.SYS is gone    *)
(* through, but a line that is written in part only, as on a full disk,    *)
(* does not, and the results for the lines that are added are not looked   *)
(* at: the new file is cut short, or one of the added lines is not there.  *)
WriteLines ==
  LET lines == NewLines(disk[SYS], call.u, call.mode)
      added == {n \in DOMAIN lines : n > Len(lines) - Added(disk[SYS], call.u, call.mode)}
  IN  /\ pc = "write"
      /\ \/ disk' = With(TMP, lines) /\ Continues("close")
         \/ /\ \/ \E n \in 0 .. Len(lines) - 1 : disk' = With(TMP, SubSeq(lines, 1, n))
               \/ \E n \in added : disk' = With(TMP, RemoveAt(lines, n))
            /\ pc' = "close" /\ call' = [call EXCEPT !.cut = TRUE] /\ UNCHANGED rc
         \/ disk' = Without(TMP) /\ Ends("ERROR")
      /\ UNCHANGED <<old, calls>>

NothingModified ==
  /\ pc = "close" /\ ~fModified(disk[SYS], call.u, call.mode)
  /\ disk' = Without(TMP) /\ Ends("ERROR_ALREADY_ASSIGNED")
  /\ UNCHANGED <<old, calls>>

MoveToBackupUnchecked ==
  /\ pc = "close" /\ fModified(disk[SYS], call.u, call.mode)
  /\ \/ ~Exists(call.bak) /\ disk' = Moved(SYS, call.bak)
     \/ UNCHANGED disk
  /\ Continues("swap") /\ UNCHANGED <<old, calls>>

(* DosMove fails if there is a file of the new name.                       *)
MoveToBackup ==
  /\ pc = "close" /\ fModified(disk[SYS], call.u, call.mode)
  /\ \/ ~Exists(call.bak) /\ disk' = Moved(SYS, call.bak) /\ Continues("swap")
     \/ UNCHANGED disk /\ Ends("ERROR")
  /\ UNCHANGED <<old, calls>>

(* From another drive the file is copied, and deleted after that.          *)
MoveTmp ==
  /\ pc = "swap"
  /\ \/ disk' = Moved(TMP, SYS) /\ Ends("NO_ERROR")
     \/ call.far /\ disk' = With(SYS, disk[TMP]) /\ Continues("swapBack")
     \/ UNCHANGED disk /\ Continues("swapBack")
  /\ UNCHANGED <<old, calls>>

SwapBack ==
  /\ pc = "swapBack" /\ Ends("ERROR")
  /\ \/ ~Exists(SYS) /\ disk' = Moved(call.bak, SYS)
     \/ UNCHANGED disk
  /\ UNCHANGED <<old, calls>>

(* The program ends while it updates.                                      *)
Crash == /\ pc # "idle" /\ Ends("crash") /\ UNCHANGED <<disk, old, calls>>

Next ==
  \/ \E u \in Updates, mode \in {"ADD", "DELETE"}, far \in BOOLEAN :
       \E ext \in {"none", Last(Backups)} : WtkUpdateConfigsys(u, mode, ext, far)
  \/ CountUp \/ DeleteBackup \/ CreateTmpFile \/ ReadConfigsys \/ WriteLines
  \/ NothingModified \/ MoveToBackup \/ MoveTmp \/ SwapBack \/ Crash

Spec == Init /\ [][Next]_vars
----------------------------------------------------------------------------

(* The lines CONFIG.SYS had are in CONFIG.SYS or in a backup.              *)
OldLinesAreKept ==
  \/ Exists(SYS) /\ disk[SYS] = old
  \/ \E f \in DOMAIN disk \ {SYS, TMP} : disk[f] = old

(* A call without a CONFIG.SYS, after one that ended between the exchange  *)
(* of the files, overwrites the backup it is told to overwrite.            *)
OverwritesOnlyCopy == pc = "backup" /\ call.ext # "none" /\ Exists(call.ext) /\ ~Exists(SYS)

(* The call has ended, and it has written all of the new file.             *)
Returned(codes) == pc = "idle" /\ rc \in codes /\ ~call.cut

(* A statement names the lines with its command and value, LIBPATH each    *)
(* line with that command.  SET lines are compared by value alone, so that *)
(* another command with the name of a variable passes for it.              *)
Names(s, line) == s.cmd = line.cmd /\ (s.value = line.value \/ line.cmd = "LIBPATH")
Namesake(s, line) == line.cmd = "SET" /\ s.cmd # "SET" /\ s.value = line.value
Mentioned(line, u) == \E i \in DOMAIN u : Names(u[i], line) \/ Namesake(u[i], line)

(* The lines that no statement of the update names stay as they are and in *)
(* their order.                                                            *)
OthersStay ==
  Returned({"NO_ERROR"}) =>
    LET Other(line) == ~Mentioned(line, call.u)
    IN  SelectSeq(disk[SYS], Other) = SelectSeq(old, Other)

(* No line is lost: not the whole of them, whatever fails and wherever the *)
(* program ends while files are exchanged, except to a call that is told   *)
(* to overwrite the only copy; and not those that an update has nothing to *)
(* do with.                                                                *)
NoLineIsLost ==
  [][/\ OldLinesAreKept => OldLinesAreKept' \/ OverwritesOnlyCopy
     /\ OthersStay']_vars

(* Calls that tell that CONFIG.SYS is as it was asked for.                 *)
Answered == Returned({"NO_ERROR", "ERROR_ALREADY_ASSIGNED"})

(* The single statements that are added are in CONFIG.SYS when the call    *)
(* has returned, and not more often than they were; unless CONFIG.SYS has  *)
(* the very list of the update, for which another statement is dropped, or *)
(* a variable with the name and the value of another command.              *)
Given(lines, s) == Cardinality({n \in DOMAIN lines : lines[n] = s})
Misled(lines, u) ==
  \E n \in DOMAIN lines, i \in DOMAIN u :
    SameValue(lines[n], u[i]) /\ (fValueList(u[i]) \/ u[i].cmd # "SET")
SinglesAreStored ==
  Answered /\ call.mode = "ADD" /\ ~Misled(old, call.u) =>
    \A i \in DOMAIN call.u : ~fValueList(call.u[i]) =>
      LET before == Given(old, call.u[i])
      IN  Given(disk[SYS], call.u[i]) \in 1 .. (IF before > 1 THEN before ELSE 1)

(* The single statements that are deleted are not in CONFIG.SYS any more,  *)
(* but variables are not deleted.                                          *)
SinglesAreDeleted ==
  Answered /\ call.mode = "DELETE" =>
    LET Listed(line) == \E i \in DOMAIN call.u : fValueList(call.u[i]) /\ Names(call.u[i], line)
        Variable(line) == line.cmd = "SET" /\ ~Listed(line)
    IN  /\ SelectSeq(disk[SYS], Variable) = SelectSeq(old, Variable)
        /\ \A n \in DOMAIN disk[SYS], i \in DOMAIN call.u :
             ~fValueList(call.u[i]) /\ call.u[i].cmd # "SET" => ~Names(call.u[i], disk[SYS][n])

(* In a list that is updated each entry of the update is there once, or no *)
(* more when it is deleted, and the other entries stay in their order if   *)
(* the update has the place for them; unless an entry of the update is     *)
(* part of another entry, or was there twice: only the first place where   *)
(* it is found is cleared.                                                 *)
NonEmpty(s) == SelectSeq(Entries(s), LAMBDA e : e # <<>>)
Similar(s, t) == \E e \in ToSet(NonEmpty(s)), f \in ToSet(NonEmpty(t)) : e # f /\ Found(e, f) # {}
HasPlace(name, s) == VarAt(s) # <<>> /\ SubSeq(s, VarAt(s)[1] + 1, VarAt(s)[2] - 1) = name
ListIsRight(name, was, update, is) ==
  LET new == ToSet(NonEmpty(WithoutVar(update)))
      Old(e) == e \notin new
  IN  /\ \A e \in new : Given(NonEmpty(is), e) = (IF call.mode = "ADD" THEN 1 ELSE 0)
      /\ call.mode = "DELETE" \/ HasPlace(name, update) =>
           SelectSeq(NonEmpty(is), Old) = SelectSeq(NonEmpty(was), Old)

NameOf(line) == IF line.cmd = "SET" THEN line.value ELSE <<line.cmd>>
ListOf(line) == IF line.cmd = "SET" THEN line.param ELSE line.value

(* A call whose statements are all there but for lists gives its new file  *)
(* up and returns ERROR_ALREADY_ASSIGNED: for it nothing is said of lists. *)
ListsAreRight ==
  Returned({"NO_ERROR"}) => \A n \in DOMAIN old, i \in DOMAIN call.u :
    LET s == call.u[i]
        same == {k \in DOMAIN disk[SYS] : Names(s, disk[SYS][k])}
    IN  /\ fValueList(s) /\ Names(s, old[n]) /\ ListOf(old[n]) # ListOf(s)
        /\ ~Similar(ListOf(old[n]), WithoutVar(ListOf(s))) /\ IsInjective(NonEmpty(ListOf(old[n])))
        => /\ same # {}
           /\ \A k \in same :
                ListIsRight(NameOf(old[n]), ListOf(old[n]), ListOf(s), ListOf(disk[SYS][k]))

(* What an update asks for is in CONFIG.SYS when the call has returned     *)
(* NO_ERROR or ERROR_ALREADY_ASSIGNED, with the exceptions named above:    *)
(* statements that are added or deleted, and entries of lists.             *)
UpdateIsStored == SinglesAreStored /\ SinglesAreDeleted /\ ListsAreRight

(* The comment at wtkfcfgs.c:187: an entry is not removed from the list if *)
(* it is only a part of a similar one.  The code looks at what follows the *)
(* entry, and not at what is before it.                                    *)
EntriesStayWhole ==
  Returned({"NO_ERROR"}) /\ (\A i \in DOMAIN call.u : call.mode = "DELETE" \/ VarAt(call.u[i].param) # <<>>) =>
    \A n \in DOMAIN old : old[n].cmd = "SET" =>
      \E k \in DOMAIN disk[SYS] : disk[SYS][k].value = old[n].value /\
        \A e \in ToSet(NonEmpty(old[n].param)) :
          \/ e \in ToSet(NonEmpty(disk[SYS][k].param))
          \/ \E i \in DOMAIN call.u : e \in ToSet(NonEmpty(call.u[i].param))
=============================================================================
