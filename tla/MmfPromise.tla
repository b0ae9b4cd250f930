----------------------------- MODULE MmfPromise -----------------------------
(***************************************************************************)
(* What a memory mapped file buffer promises its application, without     *)
(* pages, flags or a fault handler: a buffer of some size, of which the    *)
(* application knows some cells (those it wrote and those it can take from *)
(* the file), and a file that is brought up to date on demand.             *)
(***************************************************************************)
EXTENDS Integers

CONSTANTS Cell, FileMax, Value, AppValue, Undef, MaxSize

FileCell == 0 .. FileMax - 1

VARIABLES
  size,      \* current size of the buffer
  content,   \* function from the known cells to what they hold
  file,      \* contents of the file
  length,    \* length of the file
  offset,    \* where in the file the buffer begins, fixed
  did      \* what the last step did

vars == <<size, content, file, length, offset, did>>

Known == DOMAIN content

Empty == [c \in {} |-> Undef]

Keep(S) == [c \in Known \cap S |-> content[c]]

InFile(n) == {c \in Cell : c < n /\ offset + c < length}

Init ==
  /\ size = 0 /\ content = Empty /\ did = "none"
  /\ file \in [FileCell -> Value] /\ length \in 0 .. FileMax
  /\ offset \in Nat

\* The buffer shows the file, which opening it may have emptied.
Open ==
  /\ Known = {} /\ did' = "open"
  /\ \/ UNCHANGED <<file, length>>
     \/ length' = 0 /\ file' = [f \in FileCell |-> Undef]
  /\ size' \in Nat
  /\ content' = [c \in {d \in Cell : d < size'} |-> file'[offset + c]]

\* The open failed.  The file may have been emptied all the same.
OpenRefused ==
  /\ Known = {} /\ did' = "refused"
  /\ \/ UNCHANGED <<file, length>>
     \/ length' = 0 /\ file' = [f \in FileCell |-> Undef]
  /\ UNCHANGED <<size, content>>

\* The buffer is gone, by intention or with the process.
Close ==
  /\ did' \in {"close", "none"}
  /\ size' = 0 /\ content' = Empty
  /\ UNCHANGED <<file, length>>

\* An access, which makes the buffer larger if it goes beyond its size.
Read ==
  /\ did' = "access"
  /\ size' >= size
  /\ UNCHANGED <<content, file, length>>

Write(c, v) ==
  /\ did' = "access"
  /\ size' >= size
  /\ content' = IF c < size' THEN [d \in Known \cup {c} |-> IF d = c THEN v ELSE content[d]]
                ELSE content
  /\ UNCHANGED <<file, length>>

\* The access failed; what is lost of the page is still in the file, so that
\* nothing is lost that the application has not stored.
Trap ==
  /\ did' = "trap"
  /\ content' = Keep(DOMAIN content')
  /\ \A c \in Known \ DOMAIN content' : offset + c < length /\ content[c] = file[offset + c]
  /\ UNCHANGED <<size, file, length>>

Resize ==
  /\ did' = "resize"
  /\ size' \in 0 .. MaxSize
  /\ content' = Keep({c \in Cell : c < size'})
  /\ UNCHANGED <<file, length>>

\* A call that changes nothing but is reported.
Refuse ==
  /\ did' \in {"resize", "update", "revert", "none"}
  /\ UNCHANGED <<size, content, file, length>>

\* A part of the buffer reaches the file.  In front of the mapped area the
\* file does not change; a known cell is what it was or what the buffer holds.
StorePart ==
  /\ did' \in {"none", "update"}
  /\ \A f \in FileCell : f < offset => file'[f] = file[f]
  /\ \A c \in Known : file'[offset + c] \in {file[offset + c], content[c]}
  /\ UNCHANGED <<size, content>>

\* The call reports that the file has been updated: it holds all known cells.
Stored ==
  /\ did' = "stored"
  /\ length' = offset + size
  /\ \A f \in FileCell : f < offset => file'[f] = file[f]
  /\ \A c \in Known : file'[offset + c] = content[c]
  /\ UNCHANGED <<size, content>>

\* The application asks for the contents of the file again.
Discard ==
  /\ did' = "revert"
  /\ content' = [c \in InFile(size) |-> file[offset + c]]
  /\ UNCHANGED <<size, file, length>>

\* In a part of the buffer, known cells get the contents of the file.
Reload ==
  /\ did' = "commit"
  /\ \A c \in DOMAIN content' :
       \/ c \in Known /\ content'[c] = content[c]
       \/ c \in InFile(size) /\ content'[c] = file[offset + c]
  /\ UNCHANGED <<size, file, length>>

Next ==
  /\ \/ Open \/ OpenRefused \/ Close
     \/ Read \/ (\E c \in Cell, v \in AppValue : Write(c, v)) \/ Trap
     \/ Resize \/ Refuse
     \/ StorePart \/ Stored
     \/ Discard \/ Reload
  /\ UNCHANGED offset

Spec == Init /\ [][Next]_vars

=============================================================================
