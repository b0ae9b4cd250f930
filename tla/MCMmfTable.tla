----------------------------- MODULE MCMmfTable -----------------------------
(* MmfTable with three threads that compete for two slots, and MmfEntries     *)
(* with two threads and two entries for each manager.                         *)
EXTENDS MmfEntries, FiniteSets, TLC

Orderly3 == [threads |-> Thread, initialized |-> TRUE, failures |-> {}, abandons |-> FALSE]

\* The sets of two threads.
Pairs == {S \in SUBSET Thread : Cardinality(S) = 2}

TableModes ==
  {[Orderly3 EXCEPT !.failures = {"malloc", "unset"}],
   [Orderly3 EXCEPT !.abandons = TRUE]}
  \cup UNION {{[Orderly3 EXCEPT !.threads = S, !.initialized = FALSE],
               [Orderly3 EXCEPT !.threads = S, !.failures = {"calloc", "set"}]} : S \in Pairs}

\* One thread uses buffers for some time, or two threads do so for a shorter one.
NoBuffers == [calls |-> 0, time |-> 0, fails |-> FALSE, foreign |-> FALSE]
OneThread == {[Orderly3 EXCEPT !.threads = {t}] : t \in Thread}
TwoThreads == {[Orderly3 EXCEPT !.threads = S] : S \in Pairs}

AllModes == TableModes \cup OneThread \cup TwoThreads
MCBufferModes ==
  [m \in AllModes |->
     IF m \in OneThread
     THEN {[NoBuffers EXCEPT !.calls = 4, !.time = 2], [NoBuffers EXCEPT !.calls = 3, !.fails = TRUE]}
     ELSE IF m \in TwoThreads
     THEN {[NoBuffers EXCEPT !.calls = 2, !.foreign = TRUE]}
     ELSE {NoBuffers}]

Symmetry == Permutations(Thread) \cup Permutations(Object) \cup Permutations(File)
=============================================================================
