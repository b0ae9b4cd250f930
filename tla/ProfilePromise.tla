--------------------------- MODULE ProfilePromise ---------------------------
(***************************************************************************)
(* What an initialization profile promises its application, without lines, *)
(* comments, trees and streams: a table of values, taken from the file     *)
(* when it is opened, changed entry by entry, and put into the file when   *)
(* it is closed, if it may be written and has been changed.                *)
(*                                                                         *)
(* Whether names that differ in case only are different names is left      *)
(* open: the descriptions of the calls say that case matters               *)
(* (wtkfinit.c:1259, 1272, 1318-1321, 1437, 1516-1522), the code compares  *)
(* by stricmp (214-246).  What is done for one such name may be done for   *)
(* the other, or not.                                                      *)
(***************************************************************************)
CONSTANTS Name, Fold, None, AppValue

VARIABLES
  values,     \* of each section and key, None if there is none
  stored,     \* the values in the file
  writable,   \* the profile is open for reading and writing
  touched,    \* it has been changed
  closing,    \* a call to close it is under way
  did         \* what the last step did

vars == <<values, stored, writable, touched, closing, did>>

Nothing == [x \in Name \X Name |-> None]

Same(s, t) == Fold[s] = Fold[t]

Init ==
  /\ values = Nothing /\ stored \in [Name \X Name -> {stored[x] : x \in Name \X Name}]
  /\ ~writable /\ ~touched /\ ~closing /\ did.call = "none"

\* The file is read; or the profile is in memory only.
OpenProfile ==
  /\ did'.call = "open" /\ did'.rc = "NO_ERROR"
  /\ values = Nothing /\ ~closing /\ ~closing' /\ ~touched'
  /\ \/ values' = stored
     \/ values' = Nothing /\ ~writable'
  /\ UNCHANGED stored

\* What was asked for is done for the entries E, and is not done for any entry
\* whose name differs in more than its case.
Sets(E, v) ==
  /\ \A x \in E : values'[x] = v
  /\ DOMAIN values' = Name \X Name
  /\ \A x \in (Name \X Name) \ E :
       \/ values'[x] = values[x]
       \/ values'[x] = v /\ \E y \in E : Same(x[1], y[1]) /\ Same(x[2], y[2])

\* A value is set, for this key and no other, and will be stored.
Write(s, k, v) ==
  /\ did' = [call |-> "write", rc |-> "NO_ERROR"]
  /\ Sets({<<s, k>>}, v)
  /\ touched' = (touched \/ values' # values)
  /\ UNCHANGED <<stored, writable, closing>>

\* A key is deleted, or a section with all its keys.
Delete(s, K) ==
  /\ did' = [call |-> "write", rc |-> "NO_ERROR"]
  /\ Sets({s} \X K, None)
  /\ touched'
  /\ UNCHANGED <<stored, writable, closing>>

\* A change fails, and no value is another one.  If a name could not be copied,
\* this is not reported.
ChangeFails ==
  /\ \/ did'.call = "write" /\ did'.rc # "NO_ERROR" /\ UNCHANGED touched
     \/ did'.call = "writeLost" /\ touched'
  /\ UNCHANGED <<values, stored, writable, closing>>

\* The value asked for is that of the table.
Query ==
  /\ did'.call = "query" /\ did'.value = values[<<did'.section, did'.key>>]
  /\ UNCHANGED <<values, stored, writable, touched, closing>>

Ask ==
  /\ did'.call \in {"names", "size", "backup", "open"}
  /\ closing => ~closing'
  /\ UNCHANGED <<values, stored, writable, touched>>

\* The profile is closed, or its process ends, and the file left alone.
Close ==
  /\ did'.call \in {"close", "updateBackup", "none"}
  /\ did'.call = "updateBackup" => closing
  /\ values' = Nothing /\ ~writable' /\ ~touched' /\ ~closing'
  /\ UNCHANGED stored

\* It takes a change and the right to write for a call to touch the file, and
\* from then on the file may hold anything until the call is over.
Begin ==
  /\ ~closing /\ closing' /\ writable /\ touched
  /\ UNCHANGED <<values, writable, touched>>

Storing ==
  /\ closing /\ closing' /\ did' = did
  /\ UNCHANGED <<values, writable, touched>>

\* All values are in the file.
Update ==
  /\ did'.call = "update" /\ closing /\ ~closing'
  /\ stored' = values /\ values' = Nothing /\ ~writable' /\ ~touched'

\* A write has failed, which the application does not learn; or the rest of
\* the file will be written when the process ends.
UpdateInPart ==
  /\ did'.call \in {"updateInPart", "updateOriginal"} /\ closing /\ ~closing'
  /\ values' = Nothing /\ ~writable' /\ ~touched'
  /\ UNCHANGED stored

LateStore ==
  /\ did'.call = "none" /\ ~closing'
  /\ values' = Nothing /\ ~writable' /\ ~touched'

Next ==
  \/ Begin \/ Storing \/ Update \/ UpdateInPart \/ Close \/ LateStore
  \/ OpenProfile \/ Query \/ Ask \/ ChangeFails
  \/ \E s \in Name :
       \/ \E k \in Name, v \in AppValue : Write(s, k, v)
       \/ \E k \in Name : Delete(s, {k})
       \/ Delete(s, Name)

Spec == Init /\ [][Next]_vars
=============================================================================
