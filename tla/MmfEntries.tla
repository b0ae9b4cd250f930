------------------------------ MODULE MmfEntries ------------------------------
(***************************************************************************)
(* The buffers of MMF managers (source/lib/wtkmmf.c): each manager of      *)
(* MmfTable has a table of entries, and an entry holds the memory of a     *)
(* buffer, the handle and the name of its file, and the time of its last   *)
(* update, with which the file is stamped when the buffer is freed.        *)
(*                                                                         *)
(* Each call on a buffer first looks for the manager of its thread, as     *)
(* UseHandle does.  What is in the pages is left to MmfBuffer.             *)
(***************************************************************************)
EXTENDS MmfTable, SequencesExt

CONSTANTS
  File, NoFile,   \* names of files; szFile is empty
  Handle,         \* numbers the system gives to open files
  Invalid, None,  \* the handle -1 of a buffer in memory, and 0
  Memory, Null,   \* addresses of buffers; pvData of an unused entry
  ulMaxFiles,     \* entries of each manager
  BufferModes     \* for each mode, what the application may do with buffers

BufferMode ==
  [calls : Nat,        \* bound: how many calls are made and handles opened
   time : Nat,         \* bound: how often the clock ticks
   fails : BOOLEAN,    \* calls for a buffer may fail after they have taken an entry
   foreign : BOOLEAN]  \* a thread calls WtkTerminateMmf for another one

ASSUME EntriesAssumption ==
  /\ NoFile \notin File /\ Null \notin Memory
  /\ Handle \subseteq Nat /\ Handle \cap {Invalid, None} = {} /\ Invalid # None
  /\ ulMaxFiles \in Nat \ {0}
  /\ \A m \in Modes : BufferModes[m] \subseteq BufferMode

VARIABLES
  bufferMode,    \* the same throughout a behaviour
  apmmfentry,    \* the entries of each object
  open,          \* the open files: handle -> name, and whether it was written
  memory,        \* the buffers that are allocated
  stamp, clock,  \* the time stamp of each file; the time
  appHandles,    \* the handles that the application has opened
  lost,          \* history: duplicated handles of calls that have failed
  updated,       \* history: when each file was last updated through a buffer
                 \* that was allocated by its name, -1 if by another one
  calls

entryVars == <<bufferMode, apmmfentry, open, memory, stamp, clock, appHandles, lost, updated, calls>>

Unused ==
  [hfile |-> None, fFileOpened |-> FALSE, pvData |-> Null,
   fModified |-> FALSE, dtModified |-> 0, szFile |-> NoFile]

MMFENTRY_USED(e) == e.pvData # Null

EntriesInit ==
  /\ Init
  /\ bufferMode \in BufferModes[mode]
  /\ apmmfentry = [o \in Object |-> <<>>]
  /\ open = <<>> /\ memory = {}
  /\ stamp = [f \in File |-> 0] /\ clock = 0
  /\ appHandles = {} /\ lost = {}
  /\ updated = [f \in File |-> 0]
  /\ calls = 0

-----------------------------------------------------------------------------
(* The operating system *)

IsFirst(i, S) == i \in S /\ \A k \in S : i <= k

\* An open file gets the lowest number that is free.
IsNew(h) == IsFirst(h, Handle \ DOMAIN open)

IsOpen(files, f) == \E h \in DOMAIN files : files[h].file = f

WithHandle(h, f) ==
  [x \in DOMAIN open \cup {h} |-> IF x = h THEN [file |-> f, written |-> FALSE] ELSE open[x]]

\* A file that was written gets the time at which it is closed.
DosClose(s, h) ==
  IF h \notin DOMAIN s.open THEN s
  ELSE [s EXCEPT
         !.open  = [x \in DOMAIN @ \ {h} |-> @[x]],
         !.stamp = IF s.open[h].written THEN [@ EXCEPT ![s.open[h].file] = clock] ELSE @]

\* The stamp of a file that is open cannot be set.
DosSetPathInfo(s, f, time) ==
  IF IsOpen(s.open, f) THEN s ELSE [s EXCEPT !.stamp[f] = time]

-----------------------------------------------------------------------------
(* Entries *)

\* __locateFreeMMFEntry: the first one.
FreeEntries(o) == {i \in DOMAIN apmmfentry[o] : ~MMFENTRY_USED(apmmfentry[o][i])}

\* __locateMMFEntry
Locate(o, pv) == {i \in DOMAIN apmmfentry[o] : apmmfentry[o][i].pvData = pv /\ pv # Null}

\* Mutant of DestroyEntry: the file is stamped, and then closed.
DestroyEntryStampedFirst(s, e) ==
  IF ~MMFENTRY_USED(e) THEN s
  ELSE LET freed == [s EXCEPT !.memory = @ \ {e.pvData}] IN
       IF ~(e.fFileOpened /\ e.hfile # None) THEN freed
       ELSE IF e.fModified /\ e.szFile # NoFile
       THEN DosClose([freed EXCEPT !.stamp[e.szFile] = e.dtModified], e.hfile)
       ELSE DosClose(freed, e.hfile)

\* __destroyMMFEntry: the file is closed and stamped, the memory freed.
DestroyEntry(s, e) ==
  IF ~MMFENTRY_USED(e) THEN s
  ELSE LET freed == [s EXCEPT !.memory = @ \ {e.pvData}] IN
       IF ~(e.fFileOpened /\ e.hfile # None) THEN freed
       ELSE IF e.fModified /\ e.szFile # NoFile
       THEN DosSetPathInfo(DosClose(freed, e.hfile), e.szFile, e.dtModified)
       ELSE DosClose(freed, e.hfile)

Files == [open |-> open, memory |-> memory, stamp |-> stamp]
Becomes(s) == open' = s.open /\ memory' = s.memory /\ stamp' = s.stamp

\* What is left of an entry is all zero.
Cleared(entries, I) == [i \in DOMAIN entries |-> IF i \in I /\ MMFENTRY_USED(entries[i]) THEN Unused ELSE entries[i]]

Changes == calls < bufferMode.calls /\ calls' = calls + 1 /\ UNCHANGED <<bufferMode, clock>>

\* A call on a buffer by a thread whose handle is valid.
BufferCall(t) == UseHandle(t) /\ Located(t) = hmmf[t] /\ Changes

-----------------------------------------------------------------------------
(* Allocating and freeing buffers *)

\* A new buffer in entry i, whose other members stay as they are.
NewBuffer(o, i, m, hfile, opened, name) ==
  /\ m \in Memory \ memory
  /\ memory' = memory \cup {m}
  /\ apmmfentry' = [apmmfentry EXCEPT ![o][i] =
       [@ EXCEPT !.hfile = hfile, !.fFileOpened = opened, !.pvData = m, !.szFile = name]]

\* WtkAllocMmf with a name: the file is opened for this buffer alone.
AllocNamed(t, f) ==
  /\ BufferCall(t) /\ ~IsOpen(open, f)
  /\ \E i \in DOMAIN apmmfentry[hmmf[t]], h \in Handle, m \in Memory :
       /\ IsNew(h) /\ IsFirst(i, FreeEntries(hmmf[t]))
       /\ NewBuffer(hmmf[t], i, m, h, TRUE, f)
       /\ open' = WithHandle(h, f)
  /\ UNCHANGED <<stamp, appHandles, lost, updated>>

\* Mutant of HandlesAfter: a file that is too large stays open.
HandlesAfterKept(f) ==
  IF \E h \in Handle : IsNew(h) THEN WithHandle(CHOOSE h \in Handle : IsNew(h), f) ELSE open

\* WtkAllocMmf closes the file that it has opened if it cannot go on.
HandlesAfter(f) == open

\* It fails to open the file, or later: the name stays in the entry.
AllocNamedFails(t, f) ==
  /\ BufferCall(t) /\ bufferMode.fails
  /\ \E i \in DOMAIN apmmfentry[hmmf[t]] :
       /\ IsFirst(i, FreeEntries(hmmf[t]))
       /\ apmmfentry' = [apmmfentry EXCEPT ![hmmf[t]][i] = [@ EXCEPT !.szFile = f, !.hfile = Invalid]]
  /\ open' = IF IsOpen(open, f) THEN open ELSE HandlesAfter(f)
  /\ UNCHANGED <<memory, stamp, appHandles, lost, updated>>

\* WtkAllocMmf without a name, and WtkAllocMmfFileEx for the handle -1.
AllocWithoutFile(t, hfile) ==
  /\ BufferCall(t) /\ hfile \in {Invalid, None}
  /\ \E i \in DOMAIN apmmfentry[hmmf[t]], m \in Memory :
       /\ IsFirst(i, FreeEntries(hmmf[t]))
       /\ NewBuffer(hmmf[t], i, m, hfile, hfile = Invalid, apmmfentry[hmmf[t]][i].szFile)
  /\ UNCHANGED <<open, stamp, appHandles, lost, updated>>

\* WtkAllocMmfFileEx works with a duplicate of the handle.
WtkAllocMmfFileEx(t, hfile) ==
  /\ BufferCall(t) /\ hfile \in appHandles
  /\ \E i \in DOMAIN apmmfentry[hmmf[t]], h \in Handle, m \in Memory :
       /\ IsNew(h) /\ IsFirst(i, FreeEntries(hmmf[t]))
       /\ NewBuffer(hmmf[t], i, m, h, TRUE, apmmfentry[hmmf[t]][i].szFile)
       /\ open' = WithHandle(h, open[hfile].file)
  /\ UNCHANGED <<stamp, appHandles, lost, updated>>

\* If it fails after that, the duplicate is never closed.
AllocFileExFails(t, hfile) ==
  /\ BufferCall(t) /\ hfile \in appHandles /\ bufferMode.fails
  /\ \E i \in DOMAIN apmmfentry[hmmf[t]], h \in Handle :
       /\ IsNew(h) /\ IsFirst(i, FreeEntries(hmmf[t]))
       /\ apmmfentry' = [apmmfentry EXCEPT ![hmmf[t]][i].hfile = Invalid]
       /\ open' = WithHandle(h, open[hfile].file)
       /\ lost' = lost \cup {h}
  /\ UNCHANGED <<memory, stamp, appHandles, updated>>

\* WtkUpdateMmf writes pages to the file; a buffer without a file, or with the
\* handle -1, has none.
WtkUpdateMmf(t, pv) ==
  /\ BufferCall(t)
  /\ \E i \in Locate(hmmf[t], pv) :
       LET e == apmmfentry[hmmf[t]][i] IN
       /\ e.hfile \in DOMAIN open
       /\ open' = [open EXCEPT ![e.hfile].written = TRUE]
       /\ apmmfentry' = [apmmfentry EXCEPT ![hmmf[t]][i] =
                           [@ EXCEPT !.fModified = TRUE, !.dtModified = clock]]
       /\ updated' = [updated EXCEPT ![open[e.hfile].file] =
                        IF e.szFile = open[e.hfile].file THEN clock ELSE -1]
  /\ UNCHANGED <<memory, stamp, appHandles, lost>>

WtkFreeMmf(t, pv) ==
  /\ BufferCall(t)
  /\ \E i \in Locate(hmmf[t], pv) :
       /\ Becomes(DestroyEntry(Files, apmmfentry[hmmf[t]][i]))
       /\ apmmfentry' = [apmmfentry EXCEPT ![hmmf[t]] = Cleared(@, {i})]
  /\ UNCHANGED <<appHandles, lost, updated>>

-----------------------------------------------------------------------------
(* Managers, the application and time *)

\* __createNewMMFHandler: the entries are all zero.
CreateEntries(t) ==
  /\ CreateRegister(t)
  /\ apmmfentry' = [apmmfentry EXCEPT ![new[t]] = [i \in 1 .. ulMaxFiles |-> Unused]]
  /\ UNCHANGED <<bufferMode, open, memory, stamp, clock, appHandles, lost, updated, calls>>

\* All buffers of a manager are freed.
DestroyEntries(o) ==
  /\ Becomes(FoldLeft(DestroyEntry, Files, apmmfentry[o]))
  /\ apmmfentry' = [apmmfentry EXCEPT ![o] = Cleared(@, DOMAIN @)]
  /\ UNCHANGED <<bufferMode, clock, appHandles, lost, updated, calls>>

\* __destroyMMFHandler frees the buffers of a manager that is in the table
\* before the system can refuse to deregister its handler.
TerminateEntries(t) ==
  /\ WtkTerminateMmf(t)
  /\ IF \E s \in Slot : apmmf[s] = hmmf[t] THEN DestroyEntries(hmmf[t]) ELSE UNCHANGED entryVars

\* The table of entries is freed with the manager.
TerminateRelease(t) ==
  /\ TerminateFree(t)
  /\ apmmfentry' = [apmmfentry EXCEPT ![hmmf[t]] = <<>>]
  /\ UNCHANGED <<bufferMode, open, memory, stamp, clock, appHandles, lost, updated, calls>>

\* Another thread calls WtkTerminateMmf with the handle of u: it is found in the
\* table, but its handler is none of the thread.
TerminateForeign(t, u) ==
  /\ bufferMode.foreign
  /\ t # u /\ pc[t] = "idle" /\ MutexFree
  /\ hmmf[u] # NoObject /\ (\E s \in Slot : apmmf[s] = hmmf[u]) /\ hmmf[u] \notin chain[t]
  /\ useAfterFree' = (useAfterFree \/ hmmf[u] \notin allocated)
  /\ DestroyEntries(hmmf[u])
  /\ UNCHANGED <<mode, tableVars, allocated, tid, threadVars>>

OpenFile(f) ==
  /\ Changes /\ ~IsOpen(open, f)
  /\ \E h \in Handle : IsNew(h) /\ open' = WithHandle(h, f) /\ appHandles' = appHandles \cup {h}
  /\ UNCHANGED <<vars, apmmfentry, memory, stamp, lost, updated>>

CloseFile(h) ==
  /\ h \in appHandles
  /\ Becomes(DosClose(Files, h))
  /\ appHandles' = appHandles \ {h}
  /\ UNCHANGED <<vars, bufferMode, apmmfentry, clock, lost, updated, calls>>

Tick ==
  /\ clock < bufferMode.time /\ clock' = clock + 1
  /\ UNCHANGED <<vars, bufferMode, apmmfentry, open, memory, stamp, appHandles, lost, updated, calls>>

\* The steps of MmfTable that have nothing to do with entries.
TableStep(t) ==
  /\ \/ WtkInitializeMmf(t)
     \/ InitializeTest(t) \/ InitializeClear(t) \/ InitializeMark(t)
     \/ LocateManager(t)
     \/ CreateScan(t) \/ CreateNothing(t) \/ CreateEnter(t) \/ CreateFail(t)
     \/ UseHandle(t)
     \/ ThreadEnds(t)
  /\ UNCHANGED entryVars

BufferStep(t) ==
  \/ \E f \in File : AllocNamed(t, f) \/ AllocNamedFails(t, f)
  \/ \E hfile \in {Invalid, None} : AllocWithoutFile(t, hfile)
  \/ \E hfile \in appHandles : WtkAllocMmfFileEx(t, hfile) \/ AllocFileExFails(t, hfile)
  \/ \E pv \in memory : WtkUpdateMmf(t, pv) \/ WtkFreeMmf(t, pv)

ThreadStep(t) ==
  /\ TableStep(t) \/ CreateEntries(t) \/ TerminateEntries(t) \/ TerminateRelease(t) \/ BufferStep(t)
  /\ UNCHANGED mode

EntriesNext ==
  \/ \E t \in mode.threads : ThreadStep(t)
  \/ \E t, u \in mode.threads : TerminateForeign(t, u)
  \/ \E f \in File : OpenFile(f)
  \/ \E h \in appHandles : CloseFile(h)
  \/ Tick

EntriesSpec == EntriesInit /\ [][EntriesNext]_<<vars, entryVars>>

-----------------------------------------------------------------------------
(* Properties *)

EntriesTypeOK ==
  /\ bufferMode \in BufferModes[mode]
  /\ \A o \in Object : Len(apmmfentry[o]) \in {0, ulMaxFiles}
  /\ DOMAIN open \subseteq Handle /\ \A h \in DOMAIN open : open[h].file \in File
  /\ memory \subseteq Memory /\ appHandles \subseteq DOMAIN open /\ lost \subseteq DOMAIN open
  /\ \A f \in File : stamp[f] \in 0 .. clock /\ updated[f] \in -1 .. clock

\* The buffers of the managers in the table.
Buffers ==
  {b \in Object \X (1 .. ulMaxFiles) :
     /\ \E s \in Slot : apmmf[s] = b[1]
     /\ b[2] \in DOMAIN apmmfentry[b[1]] /\ MMFENTRY_USED(apmmfentry[b[1]][b[2]])}
Entry(b) == apmmfentry[b[1]][b[2]]

\* Each buffer has memory and a file of its own, each file that is open belongs
\* to a buffer or to the application, and no memory is left over: whatever
\* fails, whichever threads end, and even if one thread terminates the manager of
\* another.  The duplicates that WtkAllocMmfFileEx loses are the only exception.
EntriesFit ==
  Orderly =>
    /\ EntriesTypeOK
    /\ memory = {Entry(b).pvData : b \in Buffers}
    /\ DOMAIN open = appHandles \cup lost \cup ({Entry(b).hfile : b \in Buffers} \ {Invalid, None})
    /\ \A b, c \in Buffers : b # c =>
         /\ Entry(b).pvData # Entry(c).pvData
         /\ Entry(b).hfile \in {Invalid, None} \/ Entry(b).hfile # Entry(c).hfile
    /\ \A b \in Buffers : Entry(b).hfile \notin appHandles \cup lost
    /\ lost # {} => bufferMode.fails

\* A file that was updated through a buffer of its name bears the time of the
\* update once it is closed, however long the buffer was kept, and whatever is
\* done to other files; unless a call for a buffer has failed, whose name is
\* taken for that of a later buffer.
StampIsThatOfUpdate ==
  Orderly /\ ~bufferMode.fails =>
    \A f \in File : ~IsOpen(open, f) /\ updated[f] >= 0 => stamp[f] = updated[f]

-----------------------------------------------------------------------------
(* The inductive invariant behind these properties *)

MmfEntry ==
  [hfile : Handle \cup {Invalid, None}, fFileOpened : BOOLEAN, pvData : Memory \cup {Null},
   fModified : BOOLEAN, dtModified : Nat, szFile : File \cup {NoFile}]

\* A manager that is not in the table has no table of entries, a new one neither,
\* and one that is about to be freed has no buffers.
EntriesOfTable ==
  /\ apmmfentry \in [Object -> Seq(MmfEntry)]
  /\ \A o \in Object :
       /\ Len(apmmfentry[o]) \in {0, ulMaxFiles}
       /\ (\A s \in Slot : apmmf[s] # o) => apmmfentry[o] = <<>>
       /\ \A i \in DOMAIN apmmfentry[o] : apmmfentry[o][i].dtModified <= clock
  /\ \A t \in Thread :
       /\ pc[t] = "register" => apmmfentry[new[t]] = <<>>
       /\ pc[t] = "free" =>
            \A i \in DOMAIN apmmfentry[hmmf[t]] : ~MMFENTRY_USED(apmmfentry[hmmf[t]][i])

\* The buffers of all managers, with their entries.
Places ==
  {b \in Object \X (1 .. ulMaxFiles) :
     b[2] \in DOMAIN apmmfentry[b[1]] /\ MMFENTRY_USED(Entry(b))}
Held == [b \in Places |-> Entry(b)]

\* The files and the memory s are those of the buffers held, and the handles kept.
BuffersFit(s, held, kept) ==
  /\ s.memory = {held[b].pvData : b \in DOMAIN held}
  /\ DOMAIN s.open = kept \cup ({held[b].hfile : b \in DOMAIN held} \ {Invalid, None})
  /\ \A b \in DOMAIN held :
       /\ MMFENTRY_USED(held[b])
       /\ held[b].fFileOpened <=> held[b].hfile # None
       /\ held[b].hfile \notin kept
  /\ \A b, c \in DOMAIN held : b # c =>
       /\ held[b].pvData # held[c].pvData
       /\ held[b].hfile \in {Invalid, None} \/ held[b].hfile # held[c].hfile

\* A file has the stamp of its last update by name, or a buffer holds it: that
\* one has the file for itself, and knows the time.
StampsFit(s, held, upd) ==
  /\ \A b \in DOMAIN held : held[b].szFile # NoFile =>
       /\ held[b].hfile \in DOMAIN s.open
       /\ \A h \in DOMAIN s.open : s.open[h].file = held[b].szFile <=> h = held[b].hfile
       /\ held[b].fModified => held[b].dtModified = upd[held[b].szFile]
  /\ \A f \in File : upd[f] >= 0 =>
       \/ /\ s.stamp[f] = upd[f]
          /\ \A h \in DOMAIN s.open : s.open[h].file = f => ~s.open[h].written
       \/ \E b \in DOMAIN held :
            held[b].szFile = f /\ held[b].fModified /\ held[b].dtModified = upd[f]

FileSystem(time) ==
  [open : UNION {[H -> [file : File, written : BOOLEAN]] : H \in SUBSET Handle},
   memory : SUBSET Memory, stamp : [File -> 0 .. time]]

EntriesInv ==
  /\ bufferMode \in BufferModes[mode] /\ clock \in Nat
  /\ updated \in [File -> Nat \cup {-1}] /\ \A f \in File : updated[f] <= clock
  /\ Files \in FileSystem(clock) /\ appHandles \subseteq Handle /\ lost \subseteq Handle
  /\ appHandles \cap lost = {} /\ (lost # {} => bufferMode.fails)
  /\ EntriesOfTable
  /\ BuffersFit(Files, Held, appHandles \cup lost)
  /\ ~bufferMode.fails =>
       /\ StampsFit(Files, Held, updated)
       /\ \A o \in Object : \A i \in DOMAIN apmmfentry[o] :
            ~MMFENTRY_USED(apmmfentry[o][i]) => apmmfentry[o][i] = Unused

OrderlyEntriesInv == Orderly => EntriesInv

=============================================================================
