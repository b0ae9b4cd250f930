----------------------------- MODULE MCMmfBuffer -----------------------------
(* MmfBuffer on a small buffer.  The cells of the file differ, so that a page *)
(* loaded from or stored to a wrong place is noticed.                         *)
EXTENDS MmfBuffer

MCAppValue == {1}
MCValue    == {0 - 1, 0, 1} \cup {10 + f : f \in FileCell}
\* Only the first cell differs from the others.
FrontImage == [f \in FileCell |-> IF f = 0 THEN 10 ELSE 11]

ByName   == [source |-> "name", access |-> "READWRITE", memory |-> "READWRITE",
             update |-> "KEEPMEM", open |-> "OPENFILE", offset |-> 0,
             length |-> 3, failures |-> {}]
ByHandle == [ByName EXCEPT !.source = "handle", !.memory = "EXECUTE"]
InMemory == [ByName EXCEPT !.source = "memory", !.update = "RELEASEMEM", !.length = 0]

LoadFailures  == {"open", "alloc", "commit", "read", "protect"}

\* Two pages of two cells, of which three cells may be used: each way to get a
\* buffer, each kind of memory and both update modes, and execute memory mapped
\* behind an offset.
AllModes ==
  {[ByName EXCEPT !.update = "RELEASEMEM", !.length = 1, !.failures = {"write"}],
   [ByName EXCEPT !.update = "RELEASEMEM", !.open = "RESETFILE", !.failures = LoadFailures],
   [ByHandle EXCEPT !.access = "READONLY", !.memory = "READONLY", !.failures = LoadFailures],
   [ByHandle EXCEPT !.offset = 1, !.length = 1],
   [InMemory EXCEPT !.failures = LoadFailures],
   [InMemory EXCEPT !.source = "nohandle", !.access = "READONLY", !.failures = LoadFailures]}
=============================================================================
