---------------------------- MODULE MCProcStatus ----------------------------
(* ProcStatus with three or four ids.  In one of the sets ids have sums that  *)
(* tell them apart, in another one id is the sum of two others.               *)
EXTENDS ProcStatus

MCPid == {1, 4, 5, 8, 9, 16}

Simple == [pids |-> {4, 8, 16}, exes |-> {"a"}, reuse |-> FALSE, reserve |-> FALSE, fails |-> FALSE,
           calls |-> {}, spawns |-> 3, changes |-> 1]

MCModes ==
  {[Simple EXCEPT !.calls = {"kill"}],
   [Simple EXCEPT !.pids = {4, 8}, !.calls = {"kill"}, !.fails = TRUE, !.spawns = 2],
   [Simple EXCEPT !.calls = {"wait"}, !.exes = {"a", "b", "none"}, !.fails = TRUE, !.spawns = 2],
   [Simple EXCEPT !.calls = {"data"}, !.reserve = TRUE, !.fails = TRUE, !.changes = 3, !.spawns = 2],
   [Simple EXCEPT !.pids = {4, 5, 9}, !.calls = {"data"}, !.reserve = TRUE, !.changes = 3],
   [Simple EXCEPT !.calls = {"data", "kill"}, !.reuse = TRUE, !.pids = {4, 8}, !.changes = 1]}

=============================================================================
