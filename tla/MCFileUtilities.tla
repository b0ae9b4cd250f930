--------------------------- MODULE MCFileUtilities ---------------------------
(***************************************************************************)
(* Two threads on one drive with a directory that holds a file and may     *)
(* hold another directory, and a second drive that is empty; temporary     *)
(* files are named by one digit.  The dialog has both drives, the second   *)
(* of which can be taken out, while one thread makes one call.             *)
(***************************************************************************)
EXTENDS DirDialog

C == <<<<"c">>>>
D == <<<<"d">>>>
Tmp == Append(C, <<"t">>)
A == Append(C, <<"a">>)
AB == Append(A, <<"b">>)
AF == Append(A, <<"f">>)

const_Drives == {C, D}
const_Tree0 == [p \in {C, D, Tmp, A} |-> Directory]
               @@ (AF :> [kind |-> "file", size |-> 1, stamp |-> 0, version |-> 0])
const_Paths == {A, AB}
const_Files == {AF}
const_Counters == {<<"1", "2">>, <<"2", "3">>}

E == <<<<"e">>>>
const_Removable == {D}
const_NoDrives == {E}
const_Starts == {Empty, Text(A)}
const_Typed ==
    {Empty, Text(D), Text(AB), [path |-> Append(C, <<"z">>), slash |-> TRUE],
     Text(E \o <<<<"a">>, <<"b">>>>), [path |-> <<<<"x">>>>, slash |-> FALSE]}
==============================================================================
