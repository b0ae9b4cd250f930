------------------------------ MODULE MmfBuffer ------------------------------
(***************************************************************************)
(* One memory mapped file buffer of the MMF manager (source/lib/wtkmmf.c): *)
(* the pages of the buffer, the file behind it, the page fault handler     *)
(* that loads pages on demand, and the calls an application makes on the   *)
(* buffer.  A byte is a "cell", a page is PageSize consecutive cells, and  *)
(* the page table flags PAG_COMMIT and PAG_WRITE are the only record the   *)
(* code keeps of what has been loaded and what has to be stored.           *)
(*                                                                         *)
(* WtkUpdateMmf is modelled page by page, so that an I/O error or the end  *)
(* of the process can fall between any two of its steps.  All other calls  *)
(* run in one step: only the owning thread ever touches the buffer.        *)
(***************************************************************************)
EXTENDS Integers

CONSTANTS
  PageSize,    \* PAG_SIZE, in cells
  NumPages,    \* pages of the allocated memory object
  MaxSize,     \* ulMaxSize, in cells; the last page may be used in part only
  FileMax,     \* bound: no file grows beyond this number of cells
  Word,        \* one more than the largest ULONG
  Value,       \* contents of a cell
  Zero,        \* contents of a cell of a page that was just committed
  Undef,       \* contents of a cell no one has written (a file extended by
               \* DosSetFileSize, or standard input)
  AppValue,    \* the values the application writes
  Image,       \* contents of the file before the first call
  Modes        \* the ways the application maps the file, see Mode

Cell     == 0 .. NumPages * PageSize - 1
Page     == 0 .. NumPages - 1
FileCell == 0 .. FileMax - 1

SystemCalls == {"open", "alloc", "commit", "read", "protect", "write", "size"}

Mode ==
  [source   : {"name", "memory",       \* WtkAllocMmf with a file name and with
                                       \* MMF_FILE_INMEMORY
               "handle", "nohandle"},  \* WtkAllocMmfFileEx with an open file
                                       \* and with the handle -1
   access   : {"READONLY", "WRITEONLY", "READWRITE"},       \* MMF_ACCESS_*
   memory   : {"READWRITE", "READONLY", "EXECUTE"},         \* MMF_MEMORY_*
   update   : {"RELEASEMEM", "KEEPMEM"},                    \* MMF_UPDATE_*
   open     : {"OPENFILE", "RESETFILE"},                    \* MMF_OPENMODE_*
   offset   : Nat,                     \* ulOffset, 0 for WtkAllocMmf
   length   : 0 .. FileMax,            \* of the file before the first call
   failures : SUBSET SystemCalls]      \* the system calls that may fail

ASSUME SizeAssumption ==
  /\ PageSize \in Nat \ {0} /\ NumPages \in Nat \ {0}
  /\ MaxSize \in Nat \ {0} /\ MaxSize <= NumPages * PageSize
  /\ FileMax \in Nat /\ Word \in Nat
  /\ FileMax + PageSize <= Word

ASSUME ValueAssumption ==
  /\ Zero \in Value /\ Undef \in Value /\ AppValue \subseteq Value
  /\ Image \in [FileCell -> Value]

ASSUME ModeAssumption ==
  \A m \in Modes : /\ m \in Mode
                   /\ m.offset + NumPages * PageSize <= FileMax
                   /\ m.source \in {"name", "memory"} => m.offset = 0
                   /\ m.source = "memory" => m.length = 0   \* there is no file

VARIABLES
  mode,           \* how the file is mapped, the same throughout a behaviour
  used,           \* MMFENTRY_USED: the entry holds a buffer
  ulCurrentSize,
  committed,      \* PAG_COMMIT of each page
  writable,       \* PAG_WRITE of each page
  mem,            \* contents of the committed pages
  file, cbFile,   \* contents and length of the file
  fModified,      \* of the entry: the file is stamped when the entry is freed
  pc, pos, loopRc, fFileWritten,   \* WtkUpdateMmf: where its loop stands
  outside,        \* a call has touched memory behind the buffer
  ret,            \* the last call that returned, and its return code
  modified,       \* history: pages the application has written since they
                  \* were last loaded or stored
  known           \* history: cells below the current size whose contents
                  \* the application wrote itself or can take from the file

entryVars == <<used, ulCurrentSize, fModified>>
pageVars  == <<committed, writable, mem>>
fileVars  == <<file, cbFile>>
callVars  == <<pc, pos, loopRc, fFileWritten>>
history   == <<modified, known>>
vars      == <<mode, entryVars, pageVars, fileVars, callVars, outside, ret, history>>

-----------------------------------------------------------------------------
Min2(a, b) == IF a < b THEN a ELSE b
Max2(a, b) == IF a < b THEN b ELSE a

Source     == mode.source
Access     == mode.access
Memory     == mode.memory
Offset     == mode.offset
MayFail(f) == f \in mode.failures

PageOf(c)    == c \div PageSize
PageStart(p) == p * PageSize
CellsOf(p)   == {c \in Cell : PageOf(c) = p}

\* hfile is not zero, respectively names an open file.  WtkAllocMmf leaves -1
\* in the entry of an in-memory buffer, WtkAllocMmfFileEx leaves 0.
HasHandle   == Source # "nohandle"
ValidHandle == Source \in {"name", "handle"}
CanRead     == ValidHandle /\ Access # "WRITEONLY"

\* Subtraction of two ULONGs.
Minus(a, b) == IF a < b THEN a - b + Word ELSE a - b

\* What the application reads in a cell: the page in memory, or what the
\* handler will load from the file when the page is touched.
Contents(c) ==
  IF committed[PageOf(c)] THEN mem[c]
  ELSE IF HasHandle /\ PageStart(PageOf(c)) < ulCurrentSize /\ Offset + c < cbFile
       THEN file[Offset + c] ELSE Zero

Return(call, rc) == ret' = [call |-> call, rc |-> rc]

Calls == {"none", "alloc", "free", "access", "update", "revert", "setsize", "commit"}
Codes == {"NO_ERROR", "ACCESS_DENIED", "INVALID_HANDLE", "INVALID_FUNCTION",
          "INVALID_PARAMETER", "BUFFER_OVERFLOW", "IO_ERROR", "TRAP"}

\* No page committed: a fresh buffer, or what remains of it when it is freed.
NoPages ==
  /\ committed' = [p \in Page |-> FALSE]
  /\ writable'  = [p \in Page |-> FALSE]
  /\ mem'       = [c \in Cell |-> Zero]

Init ==
  /\ mode \in Modes
  /\ used = FALSE /\ ulCurrentSize = 0 /\ fModified = FALSE
  /\ committed = [p \in Page |-> FALSE]
  /\ writable  = [p \in Page |-> FALSE]
  /\ mem       = [c \in Cell |-> Zero]
  /\ cbFile = mode.length
  /\ file = [c \in FileCell |-> IF c < cbFile THEN Image[c] ELSE Undef]
  /\ pc = "idle" /\ pos = 0 /\ loopRc = "NO_ERROR" /\ fFileWritten = FALSE
  /\ outside = FALSE
  /\ ret = [call |-> "none", rc |-> "NO_ERROR"]
  /\ modified = [p \in Page |-> FALSE]
  /\ known = {}

Idle == used /\ pc = "idle"

-----------------------------------------------------------------------------
(* Allocation *)

\* The buffer is set up over a file of n cells behind the offset.
NewEntry(n) ==
  /\ used' = TRUE /\ ulCurrentSize' = n /\ fModified' = FALSE
  /\ NoPages
  /\ modified' = [p \in Page |-> FALSE]
  /\ known' = {c \in Cell : c < n}
  /\ Return("alloc", "NO_ERROR")

AllocRefused(rc) ==
  /\ Return("alloc", rc)
  /\ UNCHANGED <<entryVars, pageVars, history>>

\* DosOpen with OPEN_ACTION_REPLACE_IF_EXISTS empties the file before the size
\* check and before the memory is allocated.
AllocByName ==
  /\ Source = "name"
  /\ \/ /\ MayFail("open")
        /\ UNCHANGED fileVars
        /\ AllocRefused("IO_ERROR")
     \/ /\ IF mode.open = "RESETFILE"
           THEN cbFile' = 0 /\ file' = [f \in FileCell |-> Undef]
           ELSE UNCHANGED fileVars
        /\ IF cbFile' > MaxSize
           THEN AllocRefused("BUFFER_OVERFLOW")
           ELSE \/ NewEntry(cbFile')
                \/ MayFail("alloc") /\ AllocRefused("IO_ERROR")

AllocInMemory ==
  /\ Source = "memory"
  /\ UNCHANGED fileVars
  /\ \/ NewEntry(0)
     \/ MayFail("alloc") /\ AllocRefused("IO_ERROR")

\* The length of the file is compared with the offset, never with MaxSize.
AllocByHandle ==
  /\ Source = "handle"
  /\ UNCHANGED fileVars
  /\ IF cbFile < Offset
     THEN AllocRefused("INVALID_PARAMETER")
     ELSE \/ NewEntry(cbFile - Offset)
          \/ MayFail("alloc") /\ AllocRefused("IO_ERROR")

\* With the handle -1 the access check reads an uninitialized ulFileMode, so
\* the call may be refused or not, whatever the flags.
AllocByNoHandle ==
  /\ Source = "nohandle"
  /\ UNCHANGED fileVars
  /\ \/ AllocRefused("ACCESS_DENIED")
     \/ IF 0 < Offset
        THEN AllocRefused("INVALID_PARAMETER")
        ELSE \/ NewEntry(0)
             \/ MayFail("alloc") /\ AllocRefused("IO_ERROR")

Alloc ==
  /\ ~used
  /\ AllocByName \/ AllocInMemory \/ AllocByHandle \/ AllocByNoHandle
  /\ UNCHANGED <<callVars, outside>>

\* The memory of the buffer is gone, the file is what it is.
Gone ==
  /\ used' = FALSE /\ ulCurrentSize' = 0 /\ fModified' = FALSE
  /\ NoPages
  /\ modified' = [p \in Page |-> FALSE]
  /\ known' = {}
  /\ UNCHANGED fileVars

WtkFreeMmf ==
  /\ Idle
  /\ Gone
  /\ Return("free", "NO_ERROR")
  /\ UNCHANGED <<callVars, outside>>

\* The process ends, possibly in the middle of WtkUpdateMmf.
Crash ==
  /\ used
  /\ Gone
  /\ pc' = "idle" /\ pos' = 0 /\ loopRc' = "NO_ERROR" /\ fFileWritten' = FALSE
  /\ Return("none", "NO_ERROR")
  /\ UNCHANGED outside

-----------------------------------------------------------------------------
(* Access by the application and the page fault handler *)

\* Mutant of Loads: a page is loaded only if it lies below the size as a whole.
LoadsWholePages(p) == HasHandle /\ PageStart(p) + PageSize <= ulCurrentSize

\* The handler loads a page that it has just committed if the page begins
\* below the current size; memory it does not load is zero.
Loads(p) == HasHandle /\ PageStart(p) < ulCurrentSize

Loaded(p) ==
  [c \in Cell |->
     IF PageOf(c) # p THEN mem[c]
     ELSE IF Loads(p) /\ Offset + c < cbFile THEN file[Offset + c] ELSE Zero]

Blank(p) == [c \in Cell |-> IF PageOf(c) = p THEN Zero ELSE mem[c]]

Accessible(p, kind) == committed[p] /\ (kind = "write" => writable[p])
Refused(kind)       == kind = "write" /\ Memory = "READONLY"

\* A read access makes the page writable at once if the memory is read/write.
GetsWrite(kind) == kind = "write" \/ Memory = "READWRITE"

\* A fault beyond the current size extends it to the end of the page.
Extended(c) ==
  IF c >= ulCurrentSize THEN Min2(PageStart(PageOf(c)) + PageSize, MaxSize)
  ELSE ulCurrentSize

Handled(c, kind) ==
  LET p == PageOf(c) IN
  /\ ~Accessible(p, kind) /\ ~Refused(kind)
  /\ ~committed[p] /\ Loads(p) => CanRead
  /\ committed' = [committed EXCEPT ![p] = TRUE]
  /\ writable'  = [writable EXCEPT ![p] = GetsWrite(kind)]
  /\ ulCurrentSize' = Extended(c)

\* The handler passes the exception on; what it has done so far stays done.
Unhandled(c, kind) ==
  LET p == PageOf(c) IN
  /\ ~Accessible(p, kind)
  /\ \/ /\ Refused(kind) \/ (~committed[p] /\ MayFail("commit"))
        /\ UNCHANGED <<pageVars, known>>
     \/ /\ ~Refused(kind) /\ ~committed[p] /\ Loads(p)
        /\ ~CanRead \/ MayFail("read")
        /\ committed' = [committed EXCEPT ![p] = TRUE]
        /\ writable'  = [writable EXCEPT ![p] = TRUE]
        /\ mem'       = Blank(p)
        /\ known'     = known \ CellsOf(p)
     \/ /\ ~Refused(kind) /\ MayFail("protect")
        /\ ~committed[p] /\ Loads(p) => CanRead
        /\ committed' = [committed EXCEPT ![p] = TRUE]
        /\ writable'  = [writable EXCEPT ![p] = writable[p] \/ ~committed[p]]
        /\ mem'       = IF committed[p] THEN mem ELSE Loaded(p)
        /\ UNCHANGED known
  /\ Return("access", "TRAP")
  /\ UNCHANGED <<ulCurrentSize, modified>>

AppRead(c) ==
  /\ Idle /\ c < MaxSize
  /\ \/ /\ Handled(c, "read")
        /\ mem' = IF committed[PageOf(c)] THEN mem ELSE Loaded(PageOf(c))
        /\ Return("access", "NO_ERROR")
        /\ UNCHANGED history
     \/ Unhandled(c, "read")
  /\ UNCHANGED <<used, fModified, fileVars, callVars, outside>>

\* The write itself, to memory with the given contents.
Put(contents, c, v) ==
  /\ mem'      = [contents EXCEPT ![c] = v]
  /\ modified' = [modified EXCEPT ![PageOf(c)] = TRUE]
  /\ known'    = IF c < ulCurrentSize' THEN known \cup {c} ELSE known
  /\ Return("access", "NO_ERROR")

AppWrite(c, v) ==
  /\ Idle /\ c < MaxSize
  /\ \/ /\ Accessible(PageOf(c), "write")
        /\ UNCHANGED <<committed, writable, ulCurrentSize>>
        /\ Put(mem, c, v)
     \/ /\ Handled(c, "write")
        /\ Put(IF committed[PageOf(c)] THEN mem ELSE Loaded(PageOf(c)), c, v)
     \/ Unhandled(c, "write")
  /\ UNCHANGED <<used, fModified, fileVars, callVars, outside>>

-----------------------------------------------------------------------------
(* WtkUpdateMmf *)

UpdateBegin ==
  /\ Idle
  /\ \/ ~HasHandle /\ Return("update", "INVALID_HANDLE") /\ UNCHANGED callVars
     \/ /\ HasHandle /\ (Access = "READONLY" \/ Memory = "READONLY")
        /\ Return("update", "ACCESS_DENIED")
        /\ UNCHANGED callVars
     \/ /\ HasHandle /\ Access # "READONLY" /\ Memory # "READONLY"
        /\ pc' = "update" /\ pos' = 0 /\ loopRc' = "NO_ERROR" /\ fFileWritten' = FALSE
        /\ Return("none", "NO_ERROR")
  /\ UNCHANGED <<entryVars, pageVars, fileVars, outside, history>>

InLoop == pc = "update" /\ loopRc = "NO_ERROR" /\ PageStart(pos) < ulCurrentSize

\* Mutant of BytesToWrite: one cell too few.
BytesToWriteShort(p) == PageSize - 1

\* Meant to be the rest of the last page, the difference is that of two
\* ULONGs, the smaller minus the larger.
BytesToWrite(p) == Min2(PageSize, Minus(PageStart(p), ulCurrentSize))

\* Mutant of Store: the page is written to its position in the buffer.
StoreWithoutOffset(p, n) ==
  /\ file' = [f \in FileCell |-> IF PageStart(p) <= f /\ f < PageStart(p) + n
                                 THEN mem[f] ELSE file[f]]
  /\ cbFile' = IF n = 0 THEN cbFile ELSE Max2(cbFile, PageStart(p) + n)

\* The first n cells of page p are written to their place in the file.
Store(p, n) ==
  /\ file' = [f \in FileCell |->
                IF /\ Offset + PageStart(p) <= f
                   /\ f < Offset + PageStart(p) + n
                THEN mem[f - Offset] ELSE file[f]]
  /\ cbFile' = IF n = 0 THEN cbFile ELSE Max2(cbFile, Offset + PageStart(p) + n)

\* The pages of P go back to the system.
Decommit(P) ==
  /\ committed' = [p \in Page |-> committed[p] /\ p \notin P]
  /\ writable'  = [p \in Page |-> writable[p] /\ p \notin P]
  /\ mem'       = [c \in Cell |-> IF PageOf(c) \in P THEN Zero ELSE mem[c]]

UpdateWritePage ==
  /\ InLoop /\ pos \in Page /\ writable[pos] /\ ValidHandle
  /\ Store(pos, BytesToWrite(pos))
  /\ IF mode.update = "RELEASEMEM"
     THEN Decommit({pos})
     ELSE writable' = [writable EXCEPT ![pos] = FALSE] /\ UNCHANGED <<committed, mem>>
  /\ modified' = [modified EXCEPT ![pos] = FALSE]
  /\ fFileWritten' = TRUE
  /\ pos' = pos + 1
  /\ UNCHANGED <<entryVars, pc, loopRc, outside, ret, known>>

UpdateSkipPage ==
  /\ InLoop /\ pos \in Page /\ ~writable[pos]
  /\ IF mode.update = "RELEASEMEM" THEN Decommit({pos}) ELSE UNCHANGED pageVars
  /\ pos' = pos + 1
  /\ UNCHANGED <<entryVars, fileVars, pc, loopRc, fFileWritten, outside, ret, history>>

\* DosSetFilePtr or DosWrite fails, the latter perhaps after a part of the page.
UpdateFailPage ==
  /\ InLoop /\ pos \in Page /\ writable[pos]
  /\ \/ ~ValidHandle /\ UNCHANGED fileVars
     \/ /\ ValidHandle /\ MayFail("write")
        /\ \E n \in 0 .. BytesToWrite(pos) - 1 : Store(pos, n)
  /\ loopRc' = "IO_ERROR"
  /\ UNCHANGED <<entryVars, pageVars, pc, pos, fFileWritten, outside, ret, history>>

\* A page behind the buffer is stored like one of the buffer; its contents are
\* not the application's.
StoreForeign ==
  /\ file' = [f \in FileCell |->
                IF /\ Offset + PageStart(pos) <= f
                   /\ f < Offset + PageStart(pos) + PageSize
                THEN Undef ELSE file[f]]
  /\ cbFile' = Max2(cbFile, Min2(Offset + PageStart(pos) + PageSize, FileMax))

\* The current size may reach behind the buffer: the loop then queries, and
\* perhaps stores and releases, pages that belong to someone else or to no one.
UpdateOutside ==
  /\ InLoop /\ pos \notin Page
  /\ outside' = TRUE
  /\ \/ loopRc' = "IO_ERROR" /\ UNCHANGED <<pos, fileVars, fFileWritten>>
     \/ /\ pos' = pos + 1 /\ UNCHANGED loopRc
        /\ \/ UNCHANGED <<fileVars, fFileWritten>>
           \/ ValidHandle /\ StoreForeign /\ fFileWritten' = TRUE
  /\ UNCHANGED <<entryVars, pageVars, pc, ret, history>>

\* The size is set whether or not the loop has failed, and its result is
\* the result of the call.
UpdateFinish ==
  /\ pc = "update" /\ ~InLoop
  /\ \/ /\ ValidHandle
        /\ cbFile' = ulCurrentSize + Offset
        /\ file' = [f \in FileCell |-> IF f < cbFile' THEN file[f] ELSE Undef]
        /\ fModified' = (fModified \/ fFileWritten)
        /\ Return("update", "NO_ERROR")
     \/ /\ ~ValidHandle \/ MayFail("size")
        /\ UNCHANGED <<fileVars, fModified>>
        /\ Return("update", "IO_ERROR")
  /\ pc' = "idle" /\ pos' = 0 /\ fFileWritten' = FALSE
  /\ UNCHANGED <<used, ulCurrentSize, pageVars, loopRc, outside, history>>

-----------------------------------------------------------------------------
(* The other calls *)

\* The cells whose contents are those of the file.
InFile(n) == {c \in Cell : c < n /\ Offset + c < cbFile}

WtkRevertMmf ==
  LET reverted == {p \in Page : PageStart(p) < ulCurrentSize} IN
  /\ Idle
  /\ IF ~HasHandle
     THEN /\ Return("revert", "INVALID_FUNCTION")
          /\ UNCHANGED <<pageVars, outside, history>>
     ELSE /\ Decommit(reverted)
          /\ outside' = (outside \/ ulCurrentSize > NumPages * PageSize)
          /\ modified' = [p \in Page |-> modified[p] /\ p \notin reverted]
          /\ known' = IF ValidHandle THEN InFile(ulCurrentSize) ELSE {}
          /\ Return("revert", "NO_ERROR")
  /\ UNCHANGED <<entryVars, fileVars, callVars>>

WtkSetMmfSize(n) ==
  /\ Idle
  /\ IF n > MaxSize
     THEN Return("setsize", "BUFFER_OVERFLOW") /\ UNCHANGED <<ulCurrentSize, known>>
     ELSE /\ ulCurrentSize' = n
          /\ known' = {c \in known : c < n}
          /\ Return("setsize", "NO_ERROR")
  /\ UNCHANGED <<used, fModified, pageVars, fileVars, callVars, outside, modified>>

\* The pages of the range are committed and read from the file at their
\* position in the buffer (the offset is not added), whatever they hold.  A
\* page that cannot be committed is passed over; a failed read goes unnoticed
\* and the page stays as it is; a handle of 0 is standard input.
WtkCommitMmf(range) ==
  \E done \in SUBSET range, read \in SUBSET range :
    LET cellsRead == {c \in Cell : PageOf(c) \in read} IN
    /\ Idle
    /\ read \subseteq done
    /\ ~MayFail("commit") => done = range
    /\ (CanRead /\ ~MayFail("read")) \/ ~HasHandle => read = done
    /\ HasHandle /\ ~CanRead => read = {}
    /\ committed' = [p \in Page |-> committed[p] \/ p \in done]
    /\ writable'  = [p \in Page |-> IF p \in done THEN Access # "READONLY"
                                    ELSE writable[p]]
    /\ mem' = [c \in Cell |->
                 IF c \notin cellsRead THEN mem[c]
                 ELSE IF ~HasHandle THEN Undef
                 ELSE IF c < cbFile THEN file[c] ELSE mem[c]]
    /\ modified' = [p \in Page |-> modified[p] /\ p \notin read]
    /\ known' = {c \in known : PageOf(c) \in done => committed[PageOf(c)] /\ c \notin cellsRead}
                \cup (IF ValidHandle /\ Offset = 0
                      THEN cellsRead \cap InFile(ulCurrentSize) ELSE {})
    /\ \/ Return("commit", "NO_ERROR")
       \/ done # range /\ Return("commit", "IO_ERROR")
    /\ UNCHANGED <<entryVars, fileVars, callVars, outside>>

WtkUpdateMmf ==
  \/ UpdateBegin \/ UpdateWritePage \/ UpdateSkipPage
  \/ UpdateFailPage \/ UpdateOutside \/ UpdateFinish

Next ==
  /\ \/ Alloc
     \/ WtkFreeMmf
     \/ Crash
     \/ \E c \in Cell : AppRead(c)
     \/ \E c \in Cell, v \in AppValue : AppWrite(c, v)
     \/ WtkUpdateMmf
     \/ WtkRevertMmf
     \/ \E n \in 0 .. MaxSize + 1 : WtkSetMmfSize(n)
     \/ \E first, last \in Page :
          first <= last /\ WtkCommitMmf({p \in Page : first <= p /\ p <= last})
  /\ UNCHANGED mode

Spec == Init /\ [][Next]_vars

-----------------------------------------------------------------------------
(* Properties *)

\* Every variable stays in its type.
TypeOK ==
  /\ mode \in Modes
  /\ used \in BOOLEAN /\ fModified \in BOOLEAN
  /\ ulCurrentSize \in Nat
  /\ committed \in [Page -> BOOLEAN] /\ writable \in [Page -> BOOLEAN]
  /\ mem \in [Cell -> Value]
  /\ file \in [FileCell -> Value] /\ cbFile \in 0 .. FileMax
  /\ pc \in {"idle", "update"} /\ pos \in Nat
  /\ loopRc \in {"NO_ERROR", "IO_ERROR"} /\ fFileWritten \in BOOLEAN
  /\ outside \in BOOLEAN
  /\ ret \in [call : Calls, rc : Codes]
  /\ modified \in [Page -> BOOLEAN] /\ known \subseteq Cell

\* A page the application has written since it was last loaded or stored is
\* still committed and still has PAG_WRITE, the flag by which WtkUpdateMmf
\* finds the pages to store.  (On a file opened readonly nothing is stored.)
ModifiedStaysFlagged ==
  Access # "READONLY" =>
    \A p \in Page : modified[p] => committed[p] /\ writable[p]

\* A page without PAG_WRITE, which WtkUpdateMmf passes over and gives back to
\* the system, holds nothing that is not in the file as well.
CleanPagesAreStored ==
  Access # "READONLY" =>
    \A c \in known :
      committed[PageOf(c)] /\ ~writable[PageOf(c)] =>
        Offset + c < cbFile /\ mem[c] = file[Offset + c]

\* The current size of a buffer allocated by WtkAllocMmf never exceeds ulMaxSize,
\* so that no loop over the pages below it leaves the buffer.
SizeInsideBuffer ==
  Source # "handle" => ulCurrentSize <= MaxSize /\ ~outside

\* After WtkUpdateMmf has stored the buffer without an error, the file is as
\* long as the buffer and holds every cell the application knows.
StoredIsInFile ==
  ret = [call |-> "update", rc |-> "NO_ERROR"] /\ loopRc = "NO_ERROR" =>
    /\ cbFile = Offset + ulCurrentSize
    /\ \A c \in known : file[Offset + c] = Contents(c)

\* The part of the file in front of the mapped area is never changed while a
\* buffer is mapped behind it.
FrontUntouched ==
  [][\A f \in FileCell : f < Offset => file'[f] = file[f]]_vars

\* The buffer implements the promise of MmfPromise.
Did ==
  CASE ret.call = "alloc"   -> IF ret.rc = "NO_ERROR" THEN "open" ELSE "refused"
    [] ret.call = "free"    -> "close"
    [] ret.call = "access"  -> IF ret.rc = "NO_ERROR" THEN "access" ELSE "trap"
    [] ret.call = "setsize" -> "resize"
    [] ret.call = "update"  -> IF ret.rc = "NO_ERROR" /\ loopRc = "NO_ERROR"
                               THEN "stored" ELSE "update"
    [] OTHER                -> ret.call

Promise == INSTANCE MmfPromise WITH
  size    <- ulCurrentSize,
  content <- [c \in known |-> Contents(c)],
  length  <- cbFile,
  offset  <- Offset,
  did     <- Did

\* What the application knows of the buffer changes only by its own writes and
\* by the calls that ask for the file again; a reported store is complete.
KeepsPromise == Promise!Spec

-----------------------------------------------------------------------------
(* The inductive invariant behind the properties of states *)

\* What the buffer and its offset need fits into the largest file.
SizeFits == Offset + ulCurrentSize <= FileMax

WritableCommitted == \A p \in Page : writable[p] => committed[p]
UnusedEmpty       == ~used => pc = "idle" /\ known = {}
KnownInSize       == \A c \in known : c < ulCurrentSize

\* A known cell that is not in memory can be loaded from the file.
KnownInFile ==
  \A c \in known : ~committed[PageOf(c)] => HasHandle /\ Offset + c < cbFile

\* A buffer in memory never gets a file.
NoFileBehind == Source = "memory" => cbFile = 0

\* The loop of WtkUpdateMmf runs only where it may store, and has stored all
\* that is known of the pages behind it.
UpdateAllowed ==
  pc = "update" => HasHandle /\ Access # "READONLY" /\ ret.call = "none"
StoredSoFar ==
  pc = "update" /\ loopRc = "NO_ERROR" =>
    \A c \in known : PageOf(c) < pos => Offset + c < cbFile /\ file[Offset + c] = Contents(c)

\* The state of the pages, the file and the size agree, in the middle of
\* WtkUpdateMmf as well as between two calls.
BufferInv ==
  /\ SizeFits /\ WritableCommitted /\ UnusedEmpty
  /\ KnownInSize /\ KnownInFile /\ UpdateAllowed /\ StoredSoFar
  /\ ModifiedStaysFlagged /\ CleanPagesAreStored /\ SizeInsideBuffer /\ StoredIsInFile

=============================================================================
