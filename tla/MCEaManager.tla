----------------------------- MODULE MCEaManager -----------------------------
(* EaManager with two threads, and two blocks of memory for their handles.    *)
EXTENDS EaManager

A(v) == [type |-> "ascii", value |-> v]
B(v) == [type |-> "binary", value |-> v]
C(kind, entries, slack) == [kind |-> kind, entries |-> entries, slack |-> slack]
File(c) == [e \in Ea |-> c]

Simple == [start |-> File(Empty), empty |-> FALSE, multi |-> {"SVST", "MVMT", "MVST"}, calls |-> {},
           fails |-> FALSE, serial |-> TRUE, changes |-> 4]

Searched == {C("MVMT", <<A(3), B(1), A(1)>>, 0), C("MVST", <<A(3), A(1)>>, 0), C("SVST", <<A(3)>>, 0),
             C("SVST", <<B(3)>>, 0), C("odd", <<>>, 5), Empty}

MCModes ==
  {[Simple EXCEPT !.start = File(c), !.calls = {"handle"}] : c \in Searched}
  \cup {[Simple EXCEPT !.start = File(c), !.calls = {"getNext", "readString"}] : c \in Searched}
  \cup {[Simple EXCEPT !.calls = {"put", "readString"}, !.empty = TRUE, !.fails = TRUE, !.changes = 3],
        [Simple EXCEPT !.calls = {"put", "getNext"}, !.start = File(C("MVMT", <<A(3)>>, 0)), !.serial = FALSE,
                       !.multi = {"MVMT"}, !.changes = 3],
        [Simple EXCEPT !.calls = {"put"}, !.start = File(C("MVMT", <<A(3)>>, 0)), !.changes = 3],
        [Simple EXCEPT !.calls = {"put", "writeString"}, !.serial = FALSE, !.changes = 3]}

=============================================================================
