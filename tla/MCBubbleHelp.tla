---------------------------- MODULE MCBubbleHelp ----------------------------
(* BubbleHelp with two places over the window and one beside it, two texts of *)
(* the same size and one that does not fit into the first buffer.             *)
EXTENDS BubbleHelp

MCText == {"", "one", "two", "long"}
MCExtent == [t \in MCText \cup {"error"} |->
               CASE t = "" -> 0 [] t = "long" -> 40 [] t = "error" -> 22 [] OTHER -> 3]
MCLength == [t \in MCText |-> IF t = "long" THEN 3 ELSE IF t = "" THEN 1 ELSE 2]

Simple == [shadow |-> FALSE, sent |-> FALSE, updates |-> FALSE, failures |-> {}]

MCModes ==
  {[Simple EXCEPT !.shadow = TRUE, !.updates = TRUE, !.failures = {"malloc", "frame"}],
   [Simple EXCEPT !.sent = TRUE, !.updates = TRUE, !.failures = {"frame", "realloc"}],
   [Simple EXCEPT !.shadow = TRUE, !.failures = Creation]}

=============================================================================
