-------------------------- MODULE MmfBuffer_proofs --------------------------
(***************************************************************************)
(* Proofs about a memory mapped file buffer, for any number and size of    *)
(* pages, any file and any way to map it.                                  *)
(***************************************************************************)
EXTENDS MmfBuffer, TLAPS

-----------------------------------------------------------------------------
(* Pages and cells *)

\* Pages do not overlap and follow each other.
LEMMA PageOrder ==
  ASSUME NEW p \in Int, NEW q \in Int
  PROVE  /\ PageStart(p) \in Int
         /\ p < q => PageStart(p) + PageSize <= PageStart(q)
         /\ PageStart(NumPages) = NumPages * PageSize
         /\ PageStart(0) = 0
         /\ PageStart(p + 1) = PageStart(p) + PageSize
<1>1. PageSize \in Nat /\ PageSize > 0 /\ NumPages \in Nat
  BY SizeAssumption
<1>2. PageStart(p) \in Int /\ PageStart(p + 1) = PageStart(p) + PageSize
  BY <1>1 DEF PageStart
<1>3. ASSUME p < q PROVE PageStart(p) + PageSize <= PageStart(q)
  <2>1. p + 1 <= q
    BY <1>3
  <2>2. (p + 1) * PageSize <= q * PageSize
    BY <2>1, <1>1
  <2> QED BY <2>2, <1>1, <1>2 DEF PageStart
<1> QED BY <1>1, <1>2, <1>3 DEF PageStart

\* A cell lies in its page, and in no other.
LEMMA CellInPage ==
  ASSUME NEW c \in Nat
  PROVE  /\ PageOf(c) \in Nat
         /\ PageStart(PageOf(c)) <= c
         /\ c < PageStart(PageOf(c)) + PageSize
         /\ \A p \in Int : PageStart(p) <= c /\ c < PageStart(p) + PageSize => p = PageOf(c)
<1>1. PageSize \in Nat /\ PageSize > 0
  BY SizeAssumption
<1>2. PageOf(c) \in Nat /\ PageStart(PageOf(c)) <= c /\ c < PageStart(PageOf(c)) + PageSize
  BY <1>1 DEF PageOf, PageStart
<1>3. ASSUME NEW p \in Int, PageStart(p) <= c, c < PageStart(p) + PageSize
      PROVE  p = PageOf(c)
  <2>0. PageStart(p) \in Int /\ PageStart(PageOf(c)) \in Int
    BY <1>2, PageOrder
  <2>1. ASSUME p < PageOf(c) PROVE FALSE
    <3>1. PageStart(p) + PageSize <= PageStart(PageOf(c))
      BY <2>1, <1>2, PageOrder
    <3> QED BY <3>1, <2>0, <1>1, <1>2, <1>3
  <2>2. ASSUME PageOf(c) < p PROVE FALSE
    <3>1. PageStart(PageOf(c)) + PageSize <= PageStart(p)
      BY <2>2, <1>2, PageOrder
    <3> QED BY <3>1, <2>0, <1>1, <1>2, <1>3
  <2> QED BY <1>2, <1>3, <2>1, <2>2
<1> QED BY <1>2, <1>3

\* The pages of the buffer hold its cells.
LEMMA PageOfCell == \A c \in Cell : PageOf(c) \in Page
<1> SUFFICES ASSUME NEW c \in Cell PROVE PageOf(c) \in Page
  OBVIOUS
<1>1. c \in Nat /\ c < PageStart(NumPages) /\ NumPages \in Nat
  BY SizeAssumption, PageOrder DEF Cell
<1>2. PageOf(c) \in Nat /\ PageStart(PageOf(c)) <= c
  BY <1>1, CellInPage
<1>3. PageOf(c) < NumPages
  <2>1. NumPages # PageOf(c)
    BY <1>1, <1>2, PageOrder
  <2>2. ~(NumPages < PageOf(c))
    <3>1. ASSUME NumPages < PageOf(c)
          PROVE  PageStart(NumPages) + PageSize <= PageStart(PageOf(c))
      BY <3>1, <1>1, <1>2, PageOrder
    <3> QED BY <3>1, <1>1, <1>2, PageOrder, SizeAssumption
  <2> QED BY <2>1, <2>2, <1>1, <1>2
<1> QED BY <1>1, <1>2, <1>3 DEF Page

-----------------------------------------------------------------------------
(* What the steps are built from *)

\* The sizes as numbers.
LEMMA Sizes ==
  /\ PageSize \in Nat /\ PageSize > 0 /\ NumPages \in Nat /\ NumPages > 0
  /\ MaxSize \in Nat /\ MaxSize > 0 /\ MaxSize <= NumPages * PageSize
  /\ NumPages * PageSize \in Nat
  /\ FileMax \in Nat /\ Word \in Nat /\ FileMax + PageSize <= Word
  /\ Cell \subseteq Nat /\ Page \subseteq Nat /\ FileCell \subseteq Nat
BY SizeAssumption DEF Cell, Page, FileCell

\* The file has room for all of the buffer behind the offset.
LEMMA OffsetFits ==
  ASSUME TypeOK
  PROVE  /\ Offset \in Nat /\ Offset + NumPages * PageSize <= FileMax
         /\ Source \in {"name", "memory"} => Offset = 0
         /\ \A c \in Cell : Offset + c \in FileCell
<1>1. mode \in Modes
  BY DEF TypeOK
<1>2. mode \in Mode /\ mode.offset + NumPages * PageSize <= FileMax
      /\ (mode.source \in {"name", "memory"} => mode.offset = 0)
  BY <1>1, ModeAssumption
<1>3. mode.offset \in Nat
  BY <1>2 DEF Mode
<1>4. ASSUME NEW c \in Cell PROVE Offset + c \in FileCell
  BY <1>2, <1>3, Sizes DEF Offset, Cell, FileCell
<1> QED BY <1>2, <1>3, <1>4 DEF Offset, Source

\* A page in memory begins inside the buffer and ends inside it.
LEMMA PageInBuffer ==
  ASSUME NEW p \in Page
  PROVE  PageStart(p) \in Nat /\ PageStart(p) + PageSize <= NumPages * PageSize
<1>1. p \in Int /\ 0 <= p /\ p < NumPages /\ NumPages \in Int
  BY Sizes DEF Page
<1>2. PageStart(p) + PageSize <= PageStart(NumPages)
  BY <1>1, PageOrder
<1>3. PageStart(p) \in Int /\ 0 <= PageStart(p)
  <2>1. CASE p = 0
    BY <2>1, PageOrder
  <2>2. CASE 0 < p
    <3>1. PageStart(0) + PageSize <= PageStart(p) /\ PageStart(0) = 0 /\ PageStart(p) \in Int
      BY <2>2, <1>1, PageOrder
    <3> QED BY <3>1, Sizes
  <2> QED BY <2>1, <2>2, <1>1
<1> QED BY <1>1, <1>2, <1>3, PageOrder, Sizes

\* What the handler loads into a page are values.
LEMMA LoadedType ==
  ASSUME TypeOK, NEW p \in Page
  PROVE  Loaded(p) \in [Cell -> Value] /\ Blank(p) \in [Cell -> Value]
<1>1. \A c \in Cell : file[Offset + c] \in Value
  BY OffsetFits DEF TypeOK
<1> QED BY <1>1, ValueAssumption DEF Loaded, Blank, TypeOK

\* The size is never reduced by an access, and exceeds ulMaxSize only if it
\* did before.
LEMMA ExtendedSize ==
  ASSUME TypeOK, SizeFits, NEW c \in Cell, c < MaxSize
  PROVE  /\ Extended(c) \in Nat /\ ulCurrentSize <= Extended(c)
         /\ Offset + Extended(c) <= FileMax
         /\ Extended(c) <= MaxSize \/ Extended(c) = ulCurrentSize
<1>1. /\ PageStart(PageOf(c)) \in Nat /\ c < PageStart(PageOf(c)) + PageSize
      /\ c \in Nat /\ ulCurrentSize \in Nat
  BY PageOfCell, PageInBuffer, CellInPage, Sizes DEF TypeOK
<1>2. Offset + MaxSize <= FileMax
  BY OffsetFits, Sizes
<1> QED BY <1>1, <1>2, Sizes, OffsetFits DEF Extended, Min2, SizeFits

\* The difference meant to be the rest of the last page is so large that every
\* page is stored as a whole.
LEMMA WholePageStored ==
  ASSUME TypeOK, SizeFits, NEW p \in Page, PageStart(p) < ulCurrentSize
  PROVE  BytesToWrite(p) = PageSize
<1>1. PageStart(p) \in Nat /\ ulCurrentSize \in Nat /\ ulCurrentSize <= FileMax
  BY PageInBuffer, OffsetFits, Sizes DEF TypeOK, SizeFits
<1>2. Minus(PageStart(p), ulCurrentSize) >= PageSize
  BY <1>1, Sizes DEF Minus
<1> QED BY <1>1, <1>2, Sizes DEF BytesToWrite, Min2, Minus

\* Storing the first n cells of a page changes the file in their place only.
LEMMA StoreEffect ==
  ASSUME TypeOK, NEW p \in Page, NEW n \in 0 .. PageSize, Store(p, n)
  PROVE  /\ file' \in [FileCell -> Value] /\ cbFile' \in 0 .. FileMax /\ cbFile <= cbFile'
         /\ \A f \in FileCell : f < Offset => file'[f] = file[f]
         /\ \A c \in Cell : PageOf(c) # p => file'[Offset + c] = file[Offset + c]
         /\ n = PageSize =>
              \A c \in Cell : PageOf(c) = p =>
                file'[Offset + c] = mem[c] /\ Offset + c < cbFile'
<1>1. /\ PageStart(p) \in Nat /\ PageStart(p) + PageSize <= NumPages * PageSize
      /\ Offset \in Nat /\ Offset + NumPages * PageSize <= FileMax
      /\ n \in Nat /\ n <= PageSize /\ cbFile \in 0 .. FileMax
  BY PageInBuffer, OffsetFits, Sizes DEF TypeOK
<1>2. cbFile' = IF n = 0 THEN cbFile ELSE Max2(cbFile, Offset + PageStart(p) + n)
  BY DEF Store
<1>3. cbFile' \in 0 .. FileMax /\ cbFile <= cbFile'
  BY <1>1, <1>2, Sizes DEF Max2
<1>4. \A f \in FileCell :
        /\ f \in Nat
        /\ file'[f] = IF Offset + PageStart(p) <= f /\ f < Offset + PageStart(p) + n
                      THEN mem[f - Offset] ELSE file[f]
  BY Sizes DEF Store
<1>5. ASSUME NEW f \in FileCell, Offset + PageStart(p) <= f, f < Offset + PageStart(p) + n
      PROVE  f - Offset \in Cell
  BY <1>1, <1>4, <1>5, Sizes DEF Cell
<1>6. file' \in [FileCell -> Value]
  <2>1. file' = [f \in FileCell |-> file'[f]]
    BY DEF Store
  <2>2. \A f \in FileCell : file'[f] \in Value
    BY <1>4, <1>5 DEF TypeOK
  <2> QED BY <2>1, <2>2
<1>7. \A f \in FileCell : f < Offset => file'[f] = file[f]
  BY <1>1, <1>4
<1>8. ASSUME NEW c \in Cell, PageOf(c) # p PROVE file'[Offset + c] = file[Offset + c]
  <2>1. c \in Nat /\ p \in Int /\ Offset + c \in FileCell
    BY OffsetFits, Sizes
  <2>2. ~(PageStart(p) <= c /\ c < PageStart(p) + PageSize)
    <3>1. PageStart(p) <= c /\ c < PageStart(p) + PageSize => p = PageOf(c)
      BY <2>1, CellInPage
    <3> QED BY <3>1, <1>8
  <2>3. ~(Offset + PageStart(p) <= Offset + c /\ Offset + c < Offset + PageStart(p) + n)
    <3>1. /\ Offset \in Nat /\ PageStart(p) \in Nat /\ n \in Nat /\ n <= PageSize
          /\ PageSize \in Nat /\ c \in Nat
      BY <1>1, <2>1, Sizes
    <3> QED BY <3>1, <2>2
  <2> QED BY <2>1, <2>3, <1>4
<1>9. ASSUME n = PageSize, NEW c \in Cell, PageOf(c) = p
      PROVE  file'[Offset + c] = mem[c] /\ Offset + c < cbFile'
  <2>1. c \in Nat /\ Offset + c \in FileCell
    BY OffsetFits, Sizes
  <2>2. PageStart(p) <= c /\ c < PageStart(p) + PageSize
    BY <2>1, <1>9, CellInPage
  <2>3. Offset + c < cbFile'
    BY <2>1, <2>2, <1>1, <1>2, <1>9, Sizes DEF Max2
  <2>4. (Offset + c) - Offset = c
    BY <2>1, <1>1
  <2> QED BY <2>1, <2>2, <2>3, <2>4, <1>1, <1>4, <1>9
<1> QED BY <1>3, <1>6, <1>7, <1>8, <1>9

-----------------------------------------------------------------------------
(* Types *)

TypeInv == TypeOK /\ SizeFits

\* What every step lemma on types assumes.
Typed == TypeOK /\ SizeFits /\ UNCHANGED mode

\* In the first states every variable has its type.
LEMMA InitType == Init => TypeInv
<1> SUFFICES ASSUME Init PROVE TypeInv
  OBVIOUS
<1>1. /\ mode \in Modes /\ mode.length \in 0 .. FileMax
      /\ mode.offset \in Nat /\ mode.offset + NumPages * PageSize <= FileMax
  BY ModeAssumption DEF Init, Mode
<1>2. SizeFits
  BY <1>1, Sizes DEF Init, SizeFits, Offset
<1>3. file \in [FileCell -> Value] /\ mem \in [Cell -> Value] /\ cbFile \in 0 .. FileMax
  BY <1>1, ValueAssumption DEF Init
<1> QED BY <1>1, <1>2, <1>3 DEF Init, TypeInv, TypeOK, Calls, Codes

\* A buffer begins with no pages and with a size that fits.
LEMMA NewEntryType ==
  ASSUME Typed, NEW n \in Nat, Offset + n <= FileMax, NewEntry(n),
         file' \in [FileCell -> Value], cbFile' \in 0 .. FileMax,
         UNCHANGED <<callVars, outside>>
  PROVE  TypeInv'
<1>1. mem' \in [Cell -> Value]
  BY ValueAssumption DEF NewEntry, NoPages
<1> QED BY <1>1 DEF Typed, TypeInv, TypeOK, SizeFits, Offset, NewEntry, NoPages, Return, Calls,
                   Codes, callVars

\* A refused allocation keeps the types: it may have emptied the file.
LEMMA AllocRefusedType ==
  ASSUME Typed, NEW code \in Codes, AllocRefused(code),
         file' \in [FileCell -> Value], cbFile' \in 0 .. FileMax,
         UNCHANGED <<callVars, outside>>
  PROVE  TypeInv'
BY DEF Typed, TypeInv, TypeOK, SizeFits, Offset, AllocRefused, Return, Calls, callVars, entryVars,
       pageVars, history

\* An allocation keeps the types, and the size fits into the largest file.
LEMMA AllocType == ASSUME Typed, Alloc PROVE TypeInv'
<1> USE DEF Typed
<1>1. UNCHANGED <<callVars, outside>>
  BY DEF Alloc
<1>2. /\ Offset \in Nat /\ Offset + NumPages * PageSize <= FileMax
      /\ Source \in {"name", "memory"} => Offset = 0
  BY OffsetFits
<1>3. {"IO_ERROR", "BUFFER_OVERFLOW", "INVALID_PARAMETER", "ACCESS_DENIED"} \subseteq Codes
  BY DEF Codes
<1>4. file \in [FileCell -> Value] /\ cbFile \in 0 .. FileMax
  BY DEF TypeOK
<1>5. CASE AllocByName
  <2>1. file' \in [FileCell -> Value] /\ cbFile' \in 0 .. FileMax
    BY <1>5, <1>4, Sizes, ValueAssumption DEF AllocByName, fileVars
  <2>2. CASE \E code \in Codes : AllocRefused(code)
    BY <2>1, <2>2, <1>1, AllocRefusedType
  <2>3. CASE ~(cbFile' > MaxSize) /\ NewEntry(cbFile')
    <3>1. cbFile' \in Nat /\ Offset + cbFile' <= FileMax
      <4>1. Offset = 0
        BY <1>2, <1>5 DEF AllocByName
      <4>2. cbFile' \in Nat /\ cbFile' <= FileMax
        BY <2>1, Sizes
      <4> QED BY <4>1, <4>2
    <3> QED BY <3>1, <2>1, <2>3, <1>1, NewEntryType
  <2> QED BY <2>2, <2>3, <1>3, <1>5 DEF AllocByName
<1>6. CASE AllocInMemory
  <2>1. file' \in [FileCell -> Value] /\ cbFile' \in 0 .. FileMax
    BY <1>4, <1>6 DEF AllocInMemory, fileVars
  <2>2. Offset + 0 <= FileMax
    BY <1>2, Sizes
  <2> QED BY <2>1, <2>2, <1>1, <1>3, <1>6, NewEntryType, AllocRefusedType DEF AllocInMemory
<1>7. CASE AllocByHandle
  <2>1. file' \in [FileCell -> Value] /\ cbFile' \in 0 .. FileMax
    BY <1>4, <1>7 DEF AllocByHandle, fileVars
  <2>2. CASE \E code \in Codes : AllocRefused(code)
    BY <2>1, <2>2, <1>1, AllocRefusedType
  <2>3. CASE ~(cbFile < Offset) /\ NewEntry(cbFile - Offset)
    <3>1. cbFile - Offset \in Nat /\ Offset + (cbFile - Offset) <= FileMax
      BY <2>3, <1>2, <1>4, Sizes
    <3> QED BY <3>1, <2>1, <2>3, <1>1, NewEntryType
  <2> QED BY <2>2, <2>3, <1>3, <1>7 DEF AllocByHandle
<1>8. CASE AllocByNoHandle
  <2>1. file' \in [FileCell -> Value] /\ cbFile' \in 0 .. FileMax
    BY <1>4, <1>8 DEF AllocByNoHandle, fileVars
  <2>2. Offset + 0 <= FileMax
    BY <1>2, Sizes
  <2> QED BY <2>1, <2>2, <1>1, <1>3, <1>8, NewEntryType, AllocRefusedType DEF AllocByNoHandle
<1> QED BY <1>5, <1>6, <1>7, <1>8 DEF Alloc

\* WtkFreeMmf and the end of the process keep the types.
LEMMA GoneType ==
  ASSUME Typed, WtkFreeMmf \/ Crash PROVE TypeInv'
<1> USE DEF Typed
<1>1. mem' \in [Cell -> Value]
  BY ValueAssumption DEF WtkFreeMmf, Crash, Gone, NoPages
<1>2. SizeFits'
  <2>1. Offset + 0 <= FileMax /\ Offset' = Offset
    BY OffsetFits, Sizes DEF Offset
  <2>2. ulCurrentSize' = 0
    BY DEF WtkFreeMmf, Crash, Gone
  <2> QED BY <2>1, <2>2 DEF SizeFits, Offset
<1>3. pc' \in {pc, "idle"} /\ pos' \in {pos, 0} /\ loopRc' \in {loopRc, "NO_ERROR"}
  BY DEF WtkFreeMmf, Crash, callVars
<1>4. fFileWritten' \in BOOLEAN /\ outside' \in BOOLEAN
  BY DEF WtkFreeMmf, Crash, callVars, TypeOK
<1>5. ret' \in [call : Calls, rc : Codes]
  BY DEF WtkFreeMmf, Crash, Return, Calls, Codes
<1>6. Gone
  BY DEF WtkFreeMmf, Crash
<1>7. /\ committed' \in [Page -> BOOLEAN] /\ writable' \in [Page -> BOOLEAN]
      /\ modified' \in [Page -> BOOLEAN]
  BY <1>6 DEF Gone, NoPages
<1>8. used' \in BOOLEAN /\ fModified' \in BOOLEAN /\ known' = {} /\ ulCurrentSize' = 0
  BY <1>6 DEF Gone
<1>9. file' = file /\ cbFile' = cbFile
  BY <1>6 DEF Gone, fileVars
<1> QED BY <1>1, <1>2, <1>3, <1>4, <1>5, <1>7, <1>8, <1>9 DEF TypeInv, TypeOK

\* An access extends the size within bounds and leaves values in memory.
LEMMA HandledType ==
  ASSUME Typed, NEW c \in Cell, c < MaxSize, NEW kind, Handled(c, kind)
  PROVE  /\ SizeFits' /\ ulCurrentSize' \in Nat
         /\ committed' \in [Page -> BOOLEAN] /\ writable' \in [Page -> BOOLEAN]
<1>1. PageOf(c) \in Page
  BY PageOfCell
<1>2. GetsWrite(kind) \in BOOLEAN
  BY DEF GetsWrite
<1> QED BY <1>1, <1>2, ExtendedSize DEF Typed, Handled, TypeOK, SizeFits, Offset

\* A fault that is passed on keeps the types of what it has touched.
LEMMA UnhandledType ==
  ASSUME Typed, NEW c \in Cell, NEW kind, Unhandled(c, kind)
  PROVE  /\ committed' \in [Page -> BOOLEAN] /\ writable' \in [Page -> BOOLEAN]
         /\ mem' \in [Cell -> Value] /\ known' \subseteq known
         /\ UNCHANGED <<ulCurrentSize, modified>>
         /\ ret' \in [call : Calls, rc : Codes]
<1>1. PageOf(c) \in Page
  BY PageOfCell
<1>2. Loaded(PageOf(c)) \in [Cell -> Value] /\ Blank(PageOf(c)) \in [Cell -> Value]
  BY <1>1, LoadedType DEF Typed
<1>3. ret' \in [call : Calls, rc : Codes] /\ UNCHANGED <<ulCurrentSize, modified>>
  BY DEF Unhandled, Return, Calls, Codes
<1>4. mem' \in {mem, Blank(PageOf(c)), Loaded(PageOf(c))} /\ known' \subseteq known
  BY DEF Unhandled, pageVars
<1>5. committed' \in [Page -> BOOLEAN] /\ writable' \in [Page -> BOOLEAN]
  BY <1>1 DEF Unhandled, pageVars, Typed, TypeOK
<1> QED BY <1>2, <1>3, <1>4, <1>5 DEF Typed, TypeOK

\* A read access keeps the types.
LEMMA AppReadType == ASSUME Typed, NEW c \in Cell, AppRead(c) PROVE TypeInv'
<1> USE DEF Typed
<1>1. UNCHANGED <<used, fModified, file, cbFile, callVars, outside>> /\ c < MaxSize
  BY DEF AppRead, fileVars
<1>2. CASE Handled(c, "read") /\ ~Unhandled(c, "read")
  <2>1. mem' \in {mem, Loaded(PageOf(c))} /\ UNCHANGED <<modified, known>>
        /\ ret' \in [call : Calls, rc : Codes]
    BY <1>2 DEF AppRead, Return, Calls, Codes, history
  <2>2. mem' \in [Cell -> Value]
    BY <2>1, PageOfCell, LoadedType DEF TypeOK
  <2> QED BY <1>1, <1>2, <2>1, <2>2, HandledType DEF TypeInv, TypeOK, callVars
<1>3. CASE Unhandled(c, "read")
  BY <1>1, <1>3, UnhandledType DEF TypeInv, TypeOK, SizeFits, Offset, callVars
<1> QED BY <1>2, <1>3 DEF AppRead

\* A write to memory keeps the types.
LEMMA PutType ==
  ASSUME Typed, NEW contents \in [Cell -> Value], NEW c \in Cell, NEW v \in AppValue,
         Put(contents, c, v)
  PROVE  /\ mem' \in [Cell -> Value] /\ modified' \in [Page -> BOOLEAN] /\ known' \subseteq Cell
         /\ ret' \in [call : Calls, rc : Codes]
<1>1. v \in Value
  BY ValueAssumption
<1>2. mem' \in [Cell -> Value]
  BY <1>1 DEF Put
<1>3. modified' \in [Page -> BOOLEAN]
  BY PageOfCell DEF Put, Typed, TypeOK
<1>4. known' \subseteq Cell
  BY DEF Put, Typed, TypeOK
<1> QED BY <1>2, <1>3, <1>4 DEF Put, Return, Calls, Codes

\* A write access, with or without a fault, keeps the types.
LEMMA AppWriteType ==
  ASSUME Typed, NEW c \in Cell, NEW v \in AppValue, AppWrite(c, v) PROVE TypeInv'
<1> USE DEF Typed
<1>1. UNCHANGED <<used, fModified, file, cbFile, callVars, outside>> /\ c < MaxSize
  BY DEF AppWrite, fileVars
<1>2. mem \in [Cell -> Value] /\ Loaded(PageOf(c)) \in [Cell -> Value]
  BY PageOfCell, LoadedType DEF TypeOK
<1>3. CASE UNCHANGED <<committed, writable, ulCurrentSize>> /\ Put(mem, c, v)
  BY <1>1, <1>2, <1>3, PutType DEF TypeInv, TypeOK, SizeFits, Offset, callVars
<1>4. CASE /\ Handled(c, "write")
           /\ Put(IF committed[PageOf(c)] THEN mem ELSE Loaded(PageOf(c)), c, v)
  <2>1. (IF committed[PageOf(c)] THEN mem ELSE Loaded(PageOf(c))) \in [Cell -> Value]
    BY <1>2
  <2>2. /\ mem' \in [Cell -> Value] /\ modified' \in [Page -> BOOLEAN] /\ known' \subseteq Cell
        /\ ret' \in [call : Calls, rc : Codes]
    BY <2>1, <1>4, PutType
  <2> QED BY <1>1, <1>4, <2>2, HandledType DEF TypeInv, TypeOK, callVars
<1>5. CASE Unhandled(c, "write")
  BY <1>1, <1>5, UnhandledType DEF TypeInv, TypeOK, SizeFits, Offset, callVars
<1> QED BY <1>3, <1>4, <1>5 DEF AppWrite

\* Releasing pages leaves the types alone.
LEMMA DecommitType ==
  ASSUME TypeOK, NEW P, Decommit(P)
  PROVE  /\ committed' \in [Page -> BOOLEAN] /\ writable' \in [Page -> BOOLEAN]
         /\ mem' \in [Cell -> Value]
<1>1. mem' \in [Cell -> Value]
  BY ValueAssumption DEF Decommit, TypeOK
<1> QED BY <1>1 DEF Decommit

\* The pages behind the buffer begin where it ends.
LEMMA BehindBuffer ==
  ASSUME NEW p \in Nat \ Page
  PROVE  PageStart(p) \in Nat /\ NumPages * PageSize <= PageStart(p)
<1>1. NumPages <= p
  BY Sizes DEF Page
<1>2. PageStart(p) \in Nat /\ PageStart(NumPages) = NumPages * PageSize
  BY Sizes DEF PageStart
<1>3. CASE NumPages = p
  BY <1>2, <1>3, Sizes
<1>4. CASE NumPages < p
  <2>1. PageStart(NumPages) + PageSize <= PageStart(p)
    BY <1>4, PageOrder, Sizes
  <2> QED BY <2>1, <1>2, Sizes
<1> QED BY <1>1, <1>3, <1>4, Sizes

\* A page from behind the buffer goes to a place in the file where no cell of
\* the buffer is, and not in front of the offset.
LEMMA ForeignEffect ==
  ASSUME TypeOK, pos \notin Page, StoreForeign
  PROVE  /\ file' \in [FileCell -> Value] /\ cbFile' \in 0 .. FileMax
         /\ cbFile <= cbFile'
         /\ \A c \in Cell : file'[Offset + c] = file[Offset + c]
         /\ \A f \in FileCell : f < Offset => file'[f] = file[f]
<1>1. pos \in Nat /\ cbFile \in Nat /\ cbFile <= FileMax
  BY DEF TypeOK
<1>2. PageStart(pos) \in Nat /\ NumPages * PageSize <= PageStart(pos)
  BY <1>1, BehindBuffer
<1>3. Offset \in Nat /\ Offset + NumPages * PageSize <= FileMax
  BY OffsetFits
<1>4. file' \in [FileCell -> Value]
  BY ValueAssumption DEF StoreForeign, TypeOK
<1>5. cbFile' \in 0 .. FileMax /\ cbFile <= cbFile'
  BY <1>1, <1>2, <1>3, Sizes DEF StoreForeign, Max2, Min2
<1>6. ASSUME NEW c \in Cell PROVE file'[Offset + c] = file[Offset + c]
  <2>1. c \in Nat /\ c < NumPages * PageSize
    BY Sizes DEF Cell
  <2>2. Offset + c \in FileCell /\ Offset + c < Offset + PageStart(pos)
    BY <2>1, <1>2, <1>3, Sizes DEF FileCell
  <2> QED BY <2>2, <1>2, <1>3, Sizes DEF StoreForeign
<1>7. ASSUME NEW f \in FileCell, f < Offset PROVE file'[f] = file[f]
  <2>1. f \in Nat /\ f < Offset + PageStart(pos)
    BY <1>2, <1>3, <1>7, Sizes
  <2> QED BY <2>1, <1>2, <1>3, Sizes DEF StoreForeign
<1> QED BY <1>4, <1>5, <1>6, <1>7

\* Every step of WtkUpdateMmf keeps the types, and the file its bound.
LEMMA UpdateType == ASSUME Typed, WtkUpdateMmf PROVE TypeInv'
<1> USE DEF Typed
<1>1. CASE UpdateBegin
  <2>1. UNCHANGED <<entryVars, pageVars, fileVars, outside, history>>
    BY <1>1 DEF UpdateBegin
  <2>2. ret' \in [call : Calls, rc : Codes]
    BY <1>1 DEF UpdateBegin, Return, Calls, Codes
  <2>3. pc' \in {pc, "update"} /\ pos' \in {pos, 0} /\ loopRc' \in {loopRc, "NO_ERROR"}
    BY <1>1 DEF UpdateBegin, callVars
  <2>4. fFileWritten' \in BOOLEAN
    BY <1>1 DEF UpdateBegin, callVars, TypeOK
  <2> QED BY <2>4, <2>1, <2>2, <2>3 DEF TypeInv, TypeOK, SizeFits, Offset, entryVars,
                                      pageVars, fileVars,
                                  callVars, history
<1>2. CASE UpdateWritePage
  <2>1. /\ pos \in Page /\ PageStart(pos) < ulCurrentSize /\ Store(pos, BytesToWrite(pos))
        /\ pos' = pos + 1
    BY <1>2 DEF UpdateWritePage, InLoop
  <2>2. BytesToWrite(pos) \in 0 .. PageSize
    BY <2>1, WholePageStored, Sizes
  <2>3. file' \in [FileCell -> Value] /\ cbFile' \in 0 .. FileMax
    BY <2>1, <2>2, StoreEffect
  <2>4. /\ committed' \in [Page -> BOOLEAN] /\ writable' \in [Page -> BOOLEAN]
        /\ mem' \in [Cell -> Value]
    BY <1>2, <2>1, DecommitType DEF UpdateWritePage, TypeOK
  <2>5. modified' \in [Page -> BOOLEAN]
    BY <1>2 DEF UpdateWritePage, TypeOK
  <2>6. fFileWritten' = TRUE
        /\ UNCHANGED <<used, ulCurrentSize, fModified, pc, loopRc, outside, ret, known>>
    BY <1>2 DEF UpdateWritePage, entryVars
  <2> QED BY <2>1, <2>3, <2>4, <2>5, <2>6 DEF TypeInv, TypeOK, SizeFits, Offset
<1>3. CASE UpdateSkipPage
  <2>1. pos' = pos + 1
        /\ UNCHANGED <<used, ulCurrentSize, fModified, file, cbFile, pc, loopRc, fFileWritten,
                       outside, ret, modified, known>>
    BY <1>3 DEF UpdateSkipPage, entryVars, fileVars, history
  <2>2. /\ committed' \in [Page -> BOOLEAN] /\ writable' \in [Page -> BOOLEAN]
        /\ mem' \in [Cell -> Value]
    BY <1>3, DecommitType DEF UpdateSkipPage, pageVars, TypeOK
  <2> QED BY <2>1, <2>2 DEF TypeInv, TypeOK, SizeFits, Offset
<1>4. CASE UpdateFailPage
  <2>1. pos \in Page /\ PageStart(pos) < ulCurrentSize
    BY <1>4 DEF UpdateFailPage, InLoop
  <2>2. BytesToWrite(pos) = PageSize
    BY <2>1, WholePageStored
  <2>3. UNCHANGED fileVars \/ \E n \in 0 .. PageSize : Store(pos, n)
    BY <1>4, <2>2, Sizes DEF UpdateFailPage
  <2>4. file' \in [FileCell -> Value] /\ cbFile' \in 0 .. FileMax
    BY <2>1, <2>3, StoreEffect DEF TypeOK, fileVars
  <2> QED BY <1>4, <2>4 DEF UpdateFailPage, TypeInv, TypeOK, SizeFits, Offset, entryVars, pageVars,
                            history
<1>5. CASE UpdateOutside
  <2>1. file' \in [FileCell -> Value] /\ cbFile' \in 0 .. FileMax
    <3>1. pos \in Nat \ Page
      BY <1>5 DEF UpdateOutside, TypeOK
    <3> QED BY <1>5, <3>1, ForeignEffect DEF UpdateOutside, TypeOK, fileVars
  <2>2. pos' \in Nat /\ loopRc' \in {"NO_ERROR", "IO_ERROR"}
    BY <1>5 DEF UpdateOutside, TypeOK
  <2>3. fFileWritten' \in BOOLEAN
    BY <1>5, Zenon DEF UpdateOutside, TypeOK
  <2>4. outside' = TRUE /\ UNCHANGED <<entryVars, pageVars, pc, ret, history>>
    BY <1>5 DEF UpdateOutside
  <2> QED BY <2>1, <2>2, <2>3, <2>4 DEF TypeInv, TypeOK, SizeFits, Offset, entryVars, pageVars, history
<1>6. CASE UpdateFinish
  <2>1. file' \in [FileCell -> Value] /\ cbFile' \in 0 .. FileMax
    <3>1. CASE UNCHANGED fileVars
      BY <3>1 DEF fileVars, TypeOK
    <3>2. CASE /\ cbFile' = ulCurrentSize + Offset
               /\ file' = [f \in FileCell |-> IF f < cbFile' THEN file[f] ELSE Undef]
      <4>1. cbFile' \in 0 .. FileMax
        BY <3>2, OffsetFits, Sizes DEF SizeFits, TypeOK
      <4>2. file' \in [FileCell -> Value]
        BY <3>2, ValueAssumption DEF TypeOK
      <4> QED BY <4>1, <4>2
    <3> QED BY <1>6, <3>1, <3>2 DEF UpdateFinish
  <2>2. fModified' \in BOOLEAN
    BY <1>6, Zenon DEF UpdateFinish, TypeOK
  <2>3. ret' \in [call : Calls, rc : Codes]
    BY <1>6 DEF UpdateFinish, Return, Calls, Codes
  <2>4. /\ pc' = "idle" /\ pos' = 0 /\ fFileWritten' = FALSE
        /\ UNCHANGED <<used, ulCurrentSize, pageVars, loopRc, outside, history>>
    BY <1>6 DEF UpdateFinish
  <2> QED BY <2>1, <2>2, <2>3, <2>4 DEF TypeInv, TypeOK, SizeFits, Offset, pageVars, history
<1> QED BY <1>1, <1>2, <1>3, <1>4, <1>5, <1>6 DEF WtkUpdateMmf

\* WtkRevertMmf keeps the types.
LEMMA RevertType == ASSUME Typed, WtkRevertMmf PROVE TypeInv'
<1> USE DEF Typed
<1>1. UNCHANGED <<used, ulCurrentSize, fModified, file, cbFile, pc, pos, loopRc, fFileWritten>>
      /\ ret' \in [call : Calls, rc : Codes]
  BY DEF WtkRevertMmf, entryVars, fileVars, callVars, Return, Calls, Codes
<1>2. /\ committed' \in [Page -> BOOLEAN] /\ writable' \in [Page -> BOOLEAN]
      /\ mem' \in [Cell -> Value]
  BY DecommitType DEF WtkRevertMmf, pageVars, TypeOK
<1>3. modified' \in [Page -> BOOLEAN] /\ known' \subseteq Cell
  BY DEF WtkRevertMmf, history, InFile, TypeOK
<1>4. outside' \in BOOLEAN
  BY DEF WtkRevertMmf, TypeOK
<1> QED BY <1>1, <1>2, <1>3, <1>4 DEF TypeInv, TypeOK, SizeFits, Offset

\* WtkSetMmfSize keeps the types: it refuses sizes beyond ulMaxSize.
LEMMA SetSizeType == ASSUME Typed, NEW n \in 0 .. MaxSize + 1, WtkSetMmfSize(n) PROVE TypeInv'
<1> USE DEF Typed
<1>1. n \in Nat /\ (n <= MaxSize => Offset + n <= FileMax)
  BY OffsetFits, Sizes
<1>2. ulCurrentSize' \in Nat /\ SizeFits'
  BY <1>1, Sizes DEF WtkSetMmfSize, SizeFits, Offset, TypeOK
<1> QED BY <1>2 DEF WtkSetMmfSize, TypeInv, TypeOK, Return, Calls, Codes, pageVars, fileVars,
                    callVars

\* WtkCommitMmf keeps the types, whatever part of the range it commits and reads.
LEMMA CommitType ==
  ASSUME Typed, NEW range \in SUBSET Page, WtkCommitMmf(range) PROVE TypeInv'
<1> USE DEF Typed
<1>1. PICK done \in SUBSET range, read \in SUBSET range :
        LET cellsRead == {c \in Cell : PageOf(c) \in read} IN
        /\ committed' = [p \in Page |-> committed[p] \/ p \in done]
        /\ writable'  = [p \in Page |-> IF p \in done THEN Access # "READONLY"
                                        ELSE writable[p]]
        /\ mem' = [c \in Cell |->
                     IF c \notin cellsRead THEN mem[c]
                     ELSE IF ~HasHandle THEN Undef
                     ELSE IF c < cbFile THEN file[c] ELSE mem[c]]
        /\ modified' = [p \in Page |-> modified[p] /\ p \notin read]
        /\ known' \subseteq known \cup cellsRead
        /\ Return("commit", "NO_ERROR") \/ Return("commit", "IO_ERROR")
        /\ UNCHANGED <<entryVars, fileVars, callVars, outside>>
  BY DEF WtkCommitMmf
<1>2. \A c \in Cell : c < cbFile => file[c] \in Value
  BY Sizes DEF TypeOK, Cell, FileCell
<1>3. mem' \in [Cell -> Value]
  BY <1>1, <1>2, ValueAssumption DEF TypeOK
<1>4. committed' \in [Page -> BOOLEAN] /\ writable' \in [Page -> BOOLEAN]
      /\ modified' \in [Page -> BOOLEAN]
  BY <1>1 DEF TypeOK
<1>5. ret' \in [call : Calls, rc : Codes]
  BY <1>1 DEF Return, Calls, Codes
<1>6. known' \subseteq Cell
  BY <1>1 DEF TypeOK
<1> QED BY <1>1, <1>3, <1>4, <1>5, <1>6 DEF TypeInv, TypeOK, SizeFits, Offset, entryVars, fileVars,
                                            callVars

\* Every step keeps the types, one case per call.
LEMMA NextType == TypeInv /\ [Next]_vars => TypeInv'
<1> SUFFICES ASSUME TypeInv, [Next]_vars PROVE TypeInv'
  OBVIOUS
<1>1. CASE UNCHANGED vars
  BY <1>1 DEF vars, entryVars, pageVars, fileVars, callVars, history, TypeInv, TypeOK,
              SizeFits, Offset
<1>2. CASE Next
  <2>1. Typed
    BY <1>2 DEF Next, Typed, TypeInv
  <2>2. \A first, last \in Page : {p \in Page : first <= p /\ p <= last} \in SUBSET Page
    OBVIOUS
  <2> QED BY <1>2, <2>1, <2>2, AllocType, GoneType, AppReadType, AppWriteType, UpdateType,
             RevertType, SetSizeType, CommitType DEF Next
<1> QED BY <1>1, <1>2

\* Every variable of the buffer stays in its type: in particular no page is
\* loaded from or stored to a place behind the largest file.
THEOREM TypeCorrect == Spec => []TypeOK
<1>1. TypeInv => TypeOK
  BY DEF TypeInv
<1> QED BY <1>1, InitType, NextType, PTL DEF Spec

-----------------------------------------------------------------------------
(* The state of the pages, the file and the size *)

\* What every step lemma below assumes and shows.
Before == TypeOK /\ BufferInv /\ UNCHANGED mode
After  == TypeInv' => BufferInv'

\* How the file is mapped does not change.
LEMMA ModeFixed ==
  ASSUME UNCHANGED mode
  PROVE  /\ Offset' = Offset /\ Source' = Source /\ Access' = Access /\ Memory' = Memory
         /\ HasHandle' = HasHandle /\ ValidHandle' = ValidHandle /\ (ValidHandle => HasHandle)
BY DEF Offset, Source, Access, Memory, HasHandle, ValidHandle

\* A known cell has a place in the file, and the page that holds it begins
\* below the current size.
LEMMA KnownCell ==
  ASSUME TypeOK, KnownInSize, NEW c \in known
  PROVE  /\ c \in Cell /\ c \in Nat /\ c < ulCurrentSize
         /\ PageOf(c) \in Page /\ PageOf(c) \in Nat
         /\ PageStart(PageOf(c)) \in Nat /\ PageStart(PageOf(c)) < ulCurrentSize
         /\ c < PageStart(PageOf(c)) + PageSize
         /\ Offset + c \in FileCell /\ Offset + c \in Nat
<1>1. c \in Cell /\ c \in Nat /\ c < ulCurrentSize /\ ulCurrentSize \in Nat
  BY Sizes DEF TypeOK, KnownInSize
<1>2. PageOf(c) \in Page /\ PageStart(PageOf(c)) <= c /\ c < PageStart(PageOf(c)) + PageSize
  BY <1>1, PageOfCell, CellInPage
<1>3. PageStart(PageOf(c)) \in Nat
  BY <1>2, PageInBuffer
<1>4. PageStart(PageOf(c)) < ulCurrentSize /\ PageOf(c) \in Nat
  <2>1. PageOf(c) \in Nat
    BY <1>1, CellInPage
  <2> QED BY <2>1, <1>1, <1>2, <1>3
<1>5. Offset + c \in FileCell /\ Offset + c \in Nat
  BY <1>1, OffsetFits, Sizes
<1> QED BY <1>1, <1>2, <1>3, <1>4, <1>5

\* A new buffer has no pages, and knows what the file holds.
LEMMA NewEntryStep ==
  ASSUME Before, NEW n \in Nat, ~used, NewEntry(n), UNCHANGED <<callVars, outside>>,
         \A c \in Cell : c < n => HasHandle /\ Offset + c < cbFile',
         Source # "handle" => n <= MaxSize
  PROVE  After
<1> SUFFICES ASSUME TypeInv' PROVE BufferInv'
  BY DEF After
<1> USE DEF Before, BufferInv
<1>m. /\ Offset' = Offset /\ Source' = Source /\ Access' = Access
      /\ HasHandle' = HasHandle /\ ValidHandle' = ValidHandle /\ (ValidHandle => HasHandle)
  BY ModeFixed
<1>a. /\ used' = TRUE /\ ulCurrentSize' = n /\ ret' = [call |-> "alloc", rc |-> "NO_ERROR"]
      /\ \A p \in Page : ~committed'[p] /\ ~writable'[p] /\ ~modified'[p]
      /\ known' = {c \in Cell : c < n} /\ outside' = outside /\ pc' = "idle"
  BY DEF NewEntry, NoPages, Return, UnusedEmpty, callVars
<1>1. WritableCommitted'
  BY <1>m, <1>a DEF WritableCommitted
<1>2. UnusedEmpty'
  BY <1>m, <1>a DEF UnusedEmpty
<1>3. KnownInSize'
  BY <1>m, <1>a DEF KnownInSize
<1>4. KnownInFile'
  BY <1>m, <1>a DEF KnownInFile
<1>5. UpdateAllowed'
  BY <1>m, <1>a DEF UpdateAllowed
<1>6. StoredSoFar'
  BY <1>m, <1>a DEF StoredSoFar
<1>7. ModifiedStaysFlagged'
  BY <1>m, <1>a DEF ModifiedStaysFlagged
<1>8. CleanPagesAreStored'
  BY <1>m, <1>a, PageOfCell DEF CleanPagesAreStored
<1>9. SizeInsideBuffer'
  BY <1>m, <1>a DEF SizeInsideBuffer
<1>10. StoredIsInFile'
  BY <1>m, <1>a DEF StoredIsInFile
<1> QED BY <1>1, <1>2, <1>3, <1>4, <1>5, <1>6, <1>7, <1>8, <1>9, <1>10 DEF TypeInv, BufferInv

\* A refused call leaves no buffer, although it may have emptied the file.
LEMMA AllocRefusedStep ==
  ASSUME Before, NEW code, ~used, AllocRefused(code), UNCHANGED <<callVars, outside>>
  PROVE  After
<1> SUFFICES ASSUME TypeInv' PROVE BufferInv'
  BY DEF After
<1> USE DEF Before, BufferInv
<1>m. /\ Offset' = Offset /\ Source' = Source /\ Access' = Access
      /\ HasHandle' = HasHandle /\ ValidHandle' = ValidHandle /\ (ValidHandle => HasHandle)
  BY ModeFixed
<1>a. /\ UNCHANGED <<used, ulCurrentSize, committed, writable, modified, outside>>
      /\ known' = {} /\ pc' = "idle" /\ known = {} /\ ret'.call = "alloc"
  BY DEF AllocRefused, Return, UnusedEmpty, callVars, entryVars, pageVars, history
<1>1. WritableCommitted'
  BY <1>m, <1>a DEF WritableCommitted
<1>2. UnusedEmpty'
  BY <1>m, <1>a DEF UnusedEmpty
<1>3. KnownInSize'
  BY <1>m, <1>a DEF KnownInSize
<1>4. KnownInFile'
  BY <1>m, <1>a DEF KnownInFile
<1>5. UpdateAllowed'
  BY <1>m, <1>a DEF UpdateAllowed
<1>6. StoredSoFar'
  BY <1>m, <1>a DEF StoredSoFar
<1>7. ModifiedStaysFlagged'
  BY <1>m, <1>a DEF ModifiedStaysFlagged
<1>8. CleanPagesAreStored'
  BY <1>m, <1>a DEF CleanPagesAreStored
<1>9. SizeInsideBuffer'
  BY <1>m, <1>a DEF SizeInsideBuffer
<1>10. StoredIsInFile'
  BY <1>m, <1>a DEF StoredIsInFile
<1> QED BY <1>1, <1>2, <1>3, <1>4, <1>5, <1>6, <1>7, <1>8, <1>9, <1>10 DEF TypeInv, BufferInv

\* An allocation starts with no page, and knows what the file holds.
LEMMA AllocStep == ASSUME Before, Alloc PROVE After
<1> USE DEF Before
<1>1. UNCHANGED <<callVars, outside>> /\ ~used
  BY DEF Alloc
<1>2. /\ Source = "name" => Offset = 0 /\ HasHandle
      /\ Source = "handle" => HasHandle
      /\ Offset \in Nat /\ cbFile \in Nat
  BY OffsetFits, Sizes DEF HasHandle, TypeOK
<1>3. ASSUME NEW code, AllocRefused(code) PROVE After
  BY <1>1, <1>3, AllocRefusedStep
<1>4. CASE AllocByName
  <2>1. CASE \E code : AllocRefused(code)
    BY <2>1, <1>3
  <2>2. CASE ~(cbFile' > MaxSize) /\ NewEntry(cbFile')
    <3>1. Source = "name" /\ cbFile' \in {0, cbFile}
      BY <1>4, <2>2 DEF AllocByName, fileVars, NewEntry, AllocRefused, Return
    <3>2. cbFile' \in Nat /\ cbFile' <= MaxSize
      BY <3>1, <1>2, <2>2, Sizes
    <3>3. \A c \in Cell : c < cbFile' => HasHandle /\ Offset + c < cbFile'
      BY <3>1, <1>2, Sizes
    <3> QED BY <3>1, <3>2, <3>3, <2>2, <1>1, NewEntryStep
  <2> QED BY <1>4, <2>1, <2>2 DEF AllocByName
<1>5. CASE AllocInMemory
  <2>1. \A c \in Cell : c < 0 => HasHandle /\ Offset + c < cbFile'
    BY Sizes
  <2> QED BY <1>5, <2>1, <1>1, <1>3, Sizes, NewEntryStep DEF AllocInMemory
<1>6. CASE AllocByHandle
  <2>1. CASE \E code : AllocRefused(code)
    BY <2>1, <1>3
  <2>2. CASE ~(cbFile < Offset) /\ NewEntry(cbFile - Offset)
    <3>1. Source = "handle" /\ cbFile' = cbFile
      BY <1>6 DEF AllocByHandle, fileVars
    <3>2. cbFile - Offset \in Nat
      BY <2>2, <1>2
    <3>3. \A c \in Cell : c < cbFile - Offset => HasHandle /\ Offset + c < cbFile'
      BY <3>1, <1>2, Sizes
    <3> QED BY <3>1, <3>2, <3>3, <2>2, <1>1, NewEntryStep
  <2> QED BY <1>6, <2>1, <2>2 DEF AllocByHandle
<1>7. CASE AllocByNoHandle
  <2>1. \A c \in Cell : c < 0 => HasHandle /\ Offset + c < cbFile'
    BY Sizes
  <2> QED BY <1>7, <2>1, <1>1, <1>3, Sizes, NewEntryStep DEF AllocByNoHandle
<1> QED BY <1>4, <1>5, <1>6, <1>7 DEF Alloc

\* When the buffer is gone nothing is known of it any more.
LEMMA GoneStep ==
  ASSUME Before, WtkFreeMmf \/ Crash
  PROVE  After
<1> SUFFICES ASSUME TypeInv' PROVE BufferInv'
  BY DEF After
<1> USE DEF Before, BufferInv
<1>m. /\ Offset' = Offset /\ Source' = Source /\ Access' = Access
      /\ HasHandle' = HasHandle /\ ValidHandle' = ValidHandle /\ (ValidHandle => HasHandle)
  BY ModeFixed
<1>a. /\ used' = FALSE /\ ulCurrentSize' = 0 /\ known' = {} /\ pc' = "idle" /\ outside' = outside
      /\ \A p \in Page : ~committed'[p] /\ ~writable'[p] /\ ~modified'[p]
      /\ ret'.call \in {"free", "none"}
  BY DEF WtkFreeMmf, Crash, Gone, NoPages, Return, Idle, callVars
<1>1. WritableCommitted'
  BY <1>m, <1>a, Sizes DEF WritableCommitted
<1>2. UnusedEmpty'
  BY <1>m, <1>a, Sizes DEF UnusedEmpty
<1>3. KnownInSize'
  BY <1>m, <1>a, Sizes DEF KnownInSize
<1>4. KnownInFile'
  BY <1>m, <1>a, Sizes DEF KnownInFile
<1>5. UpdateAllowed'
  BY <1>m, <1>a, Sizes DEF UpdateAllowed
<1>6. StoredSoFar'
  BY <1>m, <1>a, Sizes DEF StoredSoFar
<1>7. ModifiedStaysFlagged'
  BY <1>m, <1>a, Sizes DEF ModifiedStaysFlagged
<1>8. CleanPagesAreStored'
  BY <1>m, <1>a, Sizes DEF CleanPagesAreStored
<1>9. SizeInsideBuffer'
  BY <1>m, <1>a, Sizes DEF SizeInsideBuffer
<1>10. StoredIsInFile'
  BY <1>m, <1>a, Sizes DEF StoredIsInFile
<1> QED BY <1>1, <1>2, <1>3, <1>4, <1>5, <1>6, <1>7, <1>8, <1>9, <1>10 DEF TypeInv, BufferInv

\* The access part that all page faults share: which page gets committed, and
\* what it then holds.
LEMMA Fault ==
  ASSUME Before, NEW c \in Cell, c < MaxSize, NEW kind, Handled(c, kind)
  PROVE  /\ PageOf(c) \in Page
         /\ committed' = [committed EXCEPT ![PageOf(c)] = TRUE]
         /\ writable' = [writable EXCEPT ![PageOf(c)] = GetsWrite(kind)]
         /\ ~committed[PageOf(c)] \/ (kind = "write" /\ ~writable[PageOf(c)])
         /\ ulCurrentSize <= ulCurrentSize'
         /\ ulCurrentSize' <= MaxSize \/ ulCurrentSize' = ulCurrentSize
<1>1. PageOf(c) \in Page
  BY PageOfCell
<1>2. ulCurrentSize' = Extended(c) /\ TypeOK /\ SizeFits
  BY DEF Handled, Before, BufferInv
<1>3. ulCurrentSize <= Extended(c) /\ (Extended(c) <= MaxSize \/ Extended(c) = ulCurrentSize)
  BY <1>2, ExtendedSize
<1> QED BY <1>1, <1>2, <1>3 DEF Handled, Accessible

\* A page loaded from the file agrees with it wherever the cell is known.
LEMMA LoadedKnown ==
  ASSUME TypeOK, KnownInSize, KnownInFile, NEW p \in Page, ~committed[p]
  PROVE  \A c \in known : PageOf(c) = p =>
           Loaded(p)[c] = file[Offset + c] /\ Offset + c < cbFile
<1> SUFFICES ASSUME NEW c \in known, PageOf(c) = p
             PROVE  Loaded(p)[c] = file[Offset + c] /\ Offset + c < cbFile
  OBVIOUS
<1>1. HasHandle /\ Offset + c < cbFile
  BY DEF KnownInFile
<1>2. c \in Cell /\ PageStart(p) < ulCurrentSize
  BY KnownCell
<1> QED BY <1>1, <1>2 DEF Loaded, Loads

\* A fault that is passed on changes one page at most: it may commit it, keeps
\* or sets its PAG_WRITE, and gives up what is known of it where a load failed.
LEMMA UnhandledEffect ==
  ASSUME Before, NEW c \in Cell, NEW kind, Unhandled(c, kind)
  PROVE  LET p == PageOf(c) IN
         /\ p \in Page /\ UNCHANGED <<ulCurrentSize, modified>> /\ known' \subseteq known
         /\ \/ UNCHANGED <<committed, writable, mem, known>>
            \/ /\ committed' = [committed EXCEPT ![p] = TRUE]
               /\ \/ /\ writable' = [writable EXCEPT ![p] = TRUE]
                     /\ ~committed[p]
                     /\ \A d \in Cell : PageOf(d) # p => mem'[d] = mem[d]
                     /\ known' \subseteq known
                  \/ committed[p] /\ UNCHANGED <<writable, mem, known>>
<1>1. PageOf(c) \in Page
  BY PageOfCell
<1>2. UNCHANGED <<ulCurrentSize, modified>>
  BY DEF Unhandled
<1>3. CASE UNCHANGED <<pageVars, known>>
  BY <1>1, <1>2, <1>3 DEF pageVars
<1>4. CASE /\ ~committed[PageOf(c)]
           /\ committed' = [committed EXCEPT ![PageOf(c)] = TRUE]
           /\ writable' = [writable EXCEPT ![PageOf(c)] = TRUE]
           /\ mem' = Blank(PageOf(c))
           /\ known' = known \ CellsOf(PageOf(c))
  <2>1. \A d \in Cell : PageOf(d) # PageOf(c) => mem'[d] = mem[d]
    BY <1>4 DEF Blank
  <2> QED BY <1>1, <1>2, <1>4, <2>1
<1>5. CASE /\ committed' = [committed EXCEPT ![PageOf(c)] = TRUE]
           /\ writable' = [writable EXCEPT
                             ![PageOf(c)] = writable[PageOf(c)] \/ ~committed[PageOf(c)]]
           /\ mem' = (IF committed[PageOf(c)] THEN mem ELSE Loaded(PageOf(c)))
           /\ UNCHANGED known
  <2>1. CASE committed[PageOf(c)]
    <3>1. writable' = writable
      BY <1>5, <2>1 DEF Before, TypeOK
    <3> QED BY <1>1, <1>2, <1>5, <2>1, <3>1
  <2>2. CASE ~committed[PageOf(c)]
    <3>1. \A d \in Cell : PageOf(d) # PageOf(c) => mem'[d] = mem[d]
      BY <1>5, <2>2 DEF Loaded
    <3>2. writable' = [writable EXCEPT ![PageOf(c)] = TRUE]
      BY <1>5, <2>2
    <3> QED BY <1>1, <1>2, <1>5, <2>2, <3>1, <3>2
  <2> QED BY <2>1, <2>2
<1> QED BY <1>3, <1>4, <1>5 DEF Unhandled

\* A fault that is passed on leaves what is still known recoverable.
LEMMA UnhandledStep ==
  ASSUME Before, NEW c \in Cell, NEW kind, Idle, Unhandled(c, kind),
         UNCHANGED <<used, fModified, fileVars, callVars, outside>>
  PROVE  After
<1> SUFFICES ASSUME TypeInv' PROVE BufferInv'
  BY DEF After
<1> USE DEF Before, BufferInv
<1>m. /\ Offset' = Offset /\ Source' = Source /\ Access' = Access
      /\ HasHandle' = HasHandle /\ ValidHandle' = ValidHandle /\ (ValidHandle => HasHandle)
  BY ModeFixed
<1>a. UNCHANGED <<used, file, cbFile, pc, outside>> /\ pc = "idle" /\ used
      /\ ret'.call = "access"
  BY DEF Unhandled, Return, fileVars, callVars, Idle
<1>b. /\ PageOf(c) \in Page /\ UNCHANGED <<ulCurrentSize, modified>> /\ known' \subseteq known
      /\ \/ UNCHANGED <<committed, writable, mem, known>>
         \/ /\ committed' = [committed EXCEPT ![PageOf(c)] = TRUE]
            /\ \/ /\ writable' = [writable EXCEPT ![PageOf(c)] = TRUE]
                  /\ ~committed[PageOf(c)]
                  /\ \A d \in Cell : PageOf(d) # PageOf(c) => mem'[d] = mem[d]
               \/ committed[PageOf(c)] /\ UNCHANGED <<writable, mem, known>>
  BY UnhandledEffect
<1>c. \A d \in known : d \in Cell /\ PageOf(d) \in Page
  BY KnownCell
<1>1. WritableCommitted'
  BY <1>m, <1>a, <1>b DEF WritableCommitted, TypeOK
<1>2. UnusedEmpty'
  BY <1>m, <1>a, <1>b DEF UnusedEmpty, TypeOK
<1>3. KnownInSize'
  BY <1>m, <1>a, <1>b DEF KnownInSize, TypeOK
<1>4. KnownInFile'
  BY <1>m, <1>a, <1>b, <1>c DEF KnownInFile, TypeOK
<1>5. UpdateAllowed'
  BY <1>m, <1>a, <1>b DEF UpdateAllowed, TypeOK
<1>6. StoredSoFar'
  BY <1>m, <1>a, <1>b DEF StoredSoFar, TypeOK
<1>7. ModifiedStaysFlagged'
  BY <1>m, <1>a, <1>b DEF ModifiedStaysFlagged, TypeOK
<1>8. CleanPagesAreStored'
  BY <1>m, <1>a, <1>b, <1>c DEF CleanPagesAreStored, TypeOK
<1>9. SizeInsideBuffer'
  BY <1>m, <1>a, <1>b DEF SizeInsideBuffer, TypeOK
<1>10. StoredIsInFile'
  BY <1>m, <1>a, <1>b DEF StoredIsInFile, TypeOK
<1> QED BY <1>1, <1>2, <1>3, <1>4, <1>5, <1>6, <1>7, <1>8, <1>9, <1>10 DEF TypeInv, BufferInv

\* A page that is loaded agrees with the file.
LEMMA ReadFaultStep ==
  ASSUME Before, NEW c \in Cell, c < MaxSize, Idle, Handled(c, "read"),
         mem' = (IF committed[PageOf(c)] THEN mem ELSE Loaded(PageOf(c))),
         Return("access", "NO_ERROR"), UNCHANGED history,
         UNCHANGED <<used, fModified, fileVars, callVars, outside>>
  PROVE  After
<1> SUFFICES ASSUME TypeInv' PROVE BufferInv'
  BY DEF After
<1> USE DEF Before, BufferInv
<1>m. /\ Offset' = Offset /\ Source' = Source /\ Access' = Access
      /\ HasHandle' = HasHandle /\ ValidHandle' = ValidHandle /\ (ValidHandle => HasHandle)
  BY ModeFixed
<1>a. UNCHANGED <<used, file, cbFile, pc, outside, modified, known>> /\ c < MaxSize /\ pc = "idle"
      /\ used /\ ret'.call = "access"
      /\ mem' = (IF committed[PageOf(c)] THEN mem ELSE Loaded(PageOf(c)))
  BY DEF Return, fileVars, callVars, history, Idle
<1>b. /\ PageOf(c) \in Page /\ ~committed[PageOf(c)]
      /\ committed' = [committed EXCEPT ![PageOf(c)] = TRUE]
      /\ writable' = [writable EXCEPT ![PageOf(c)] = GetsWrite("read")]
      /\ ulCurrentSize <= ulCurrentSize'
      /\ ulCurrentSize' <= MaxSize \/ ulCurrentSize' = ulCurrentSize
  BY <1>a, Fault
<1>c. \A d \in known : d \in Cell /\ PageOf(d) \in Page
  BY KnownCell
<1>d. \A d \in Cell : PageOf(d) # PageOf(c) => mem'[d] = mem[d]
  BY <1>a, <1>b DEF Loaded
<1>e. \A d \in known : PageOf(d) = PageOf(c) =>
         mem'[d] = file[Offset + d] /\ Offset + d < cbFile
  BY <1>a, <1>b, LoadedKnown
<1>f. \A d \in known : d \in Nat /\ ulCurrentSize \in Nat /\ ulCurrentSize' \in Nat
  BY KnownCell DEF TypeInv, TypeOK
<1>1. WritableCommitted'
  BY <1>m, <1>a, <1>b DEF WritableCommitted, TypeOK
<1>2. UnusedEmpty'
  BY <1>m, <1>a, <1>b DEF UnusedEmpty, TypeOK
<1>3. KnownInSize'
  BY <1>m, <1>a, <1>b, <1>f DEF KnownInSize
<1>4. KnownInFile'
  BY <1>m, <1>a, <1>b, <1>c DEF KnownInFile, TypeOK
<1>5. UpdateAllowed'
  BY <1>m, <1>a, <1>b DEF UpdateAllowed, TypeOK
<1>6. StoredSoFar'
  BY <1>m, <1>a, <1>b DEF StoredSoFar, TypeOK
<1>7. ModifiedStaysFlagged'
  BY <1>m, <1>a, <1>b DEF ModifiedStaysFlagged, TypeOK
<1>8. CleanPagesAreStored'
  BY <1>m, <1>a, <1>b, <1>c, <1>d, <1>e DEF CleanPagesAreStored, TypeOK
<1>9. SizeInsideBuffer'
  BY <1>m, <1>a, <1>b DEF SizeInsideBuffer
<1>10. StoredIsInFile'
  BY <1>m, <1>a, <1>b DEF StoredIsInFile, TypeOK
<1> QED BY <1>1, <1>2, <1>3, <1>4, <1>5, <1>6, <1>7, <1>8, <1>9, <1>10 DEF TypeInv, BufferInv

\* A write needs PAG_WRITE, so the page it modifies is flagged.
LEMMA WriteStep ==
  ASSUME Before, NEW c \in Cell, NEW v \in AppValue, c < MaxSize, Idle,
         UNCHANGED <<used, fModified, fileVars, callVars, outside>>,
         \/ /\ Accessible(PageOf(c), "write")
            /\ UNCHANGED <<committed, writable, ulCurrentSize>>
            /\ Put(mem, c, v)
         \/ /\ Handled(c, "write")
            /\ Put(IF committed[PageOf(c)] THEN mem ELSE Loaded(PageOf(c)), c, v)
  PROVE  After
<1> SUFFICES ASSUME TypeInv' PROVE BufferInv'
  BY DEF After
<1> USE DEF Before, BufferInv
<1>m. /\ Offset' = Offset /\ Source' = Source /\ Access' = Access
      /\ HasHandle' = HasHandle /\ ValidHandle' = ValidHandle /\ (ValidHandle => HasHandle)
  BY ModeFixed
<1>a. UNCHANGED <<used, file, cbFile, pc, outside>> /\ pc = "idle" /\ used /\ ret'.call = "access"
      /\ modified' = [modified EXCEPT ![PageOf(c)] = TRUE] /\ known' \subseteq known \cup {c}
      /\ (c \in known' /\ c \notin known => c < ulCurrentSize')
  BY DEF Put, Return, fileVars, callVars, Idle
<1>b. /\ PageOf(c) \in Page
      /\ committed' = [committed EXCEPT ![PageOf(c)] = TRUE]
      /\ writable' = [writable EXCEPT ![PageOf(c)] = TRUE]
      /\ ulCurrentSize <= ulCurrentSize'
      /\ ulCurrentSize' <= MaxSize \/ ulCurrentSize' = ulCurrentSize
  <2>1. CASE Handled(c, "write")
    BY <2>1, Fault DEF GetsWrite
  <2>2. CASE Accessible(PageOf(c), "write") /\ UNCHANGED <<committed, writable, ulCurrentSize>>
    BY <2>2, PageOfCell DEF Accessible, TypeOK
  <2> QED BY <2>1, <2>2
<1>c. \A d \in known : d \in Cell /\ PageOf(d) \in Page
  BY KnownCell
<1>d. \A d \in Cell : PageOf(d) # PageOf(c) => mem'[d] = mem[d]
  BY DEF Put, Loaded, TypeOK
<1>f. /\ \A d \in known : d \in Nat /\ d < ulCurrentSize
      /\ ulCurrentSize \in Nat /\ ulCurrentSize' \in Nat
  BY KnownCell DEF TypeInv, TypeOK
<1>1. WritableCommitted'
  BY <1>m, <1>a, <1>b DEF WritableCommitted, TypeOK
<1>2. UnusedEmpty'
  BY <1>m, <1>a, <1>b DEF UnusedEmpty, TypeOK
<1>3. KnownInSize'
  BY <1>m, <1>a, <1>b, <1>f DEF KnownInSize
<1>4. KnownInFile'
  BY <1>m, <1>a, <1>b, <1>c DEF KnownInFile, TypeOK
<1>5. UpdateAllowed'
  BY <1>m, <1>a, <1>b DEF UpdateAllowed, TypeOK
<1>6. StoredSoFar'
  BY <1>m, <1>a, <1>b DEF StoredSoFar, TypeOK
<1>7. ModifiedStaysFlagged'
  BY <1>m, <1>a, <1>b DEF ModifiedStaysFlagged, TypeOK
<1>8. CleanPagesAreStored'
  BY <1>m, <1>a, <1>b, <1>c, <1>d DEF CleanPagesAreStored, TypeOK
<1>9. SizeInsideBuffer'
  BY <1>m, <1>a, <1>b DEF SizeInsideBuffer
<1>10. StoredIsInFile'
  BY <1>m, <1>a, <1>b DEF StoredIsInFile, TypeOK
<1> QED BY <1>1, <1>2, <1>3, <1>4, <1>5, <1>6, <1>7, <1>8, <1>9, <1>10 DEF TypeInv, BufferInv

\* Every access keeps the invariant, served by a fault or not.
LEMMA AccessStep ==
  ASSUME Before, NEW c \in Cell, AppRead(c) \/ \E v \in AppValue : AppWrite(c, v) PROVE After
BY UnhandledStep, ReadFaultStep, WriteStep DEF AppRead, AppWrite

\* At the beginning nothing is stored, and nothing is claimed to be.
LEMMA UpdateBeginStep ==
  ASSUME Before, UpdateBegin
  PROVE  After
<1> SUFFICES ASSUME TypeInv' PROVE BufferInv'
  BY DEF After
<1> USE DEF Before, BufferInv
<1>m. /\ Offset' = Offset /\ Source' = Source /\ Access' = Access
      /\ HasHandle' = HasHandle /\ ValidHandle' = ValidHandle /\ (ValidHandle => HasHandle)
  BY ModeFixed
<1>a. /\ UNCHANGED <<used, ulCurrentSize, committed, writable, mem>>
      /\ UNCHANGED <<file, cbFile, outside, modified, known>>
      /\ used /\ pc = "idle"
      /\ \/ ret'.rc # "NO_ERROR" /\ pc' = "idle"
         \/ /\ pc' = "update" /\ pos' = 0 /\ ret' = [call |-> "none", rc |-> "NO_ERROR"]
            /\ HasHandle /\ Access # "READONLY"
  BY DEF UpdateBegin, Return, Idle, entryVars, pageVars, fileVars, callVars, history
<1>b. \A d \in known : d \in Cell /\ PageOf(d) \in Nat
  BY KnownCell
<1>1. WritableCommitted'
  BY <1>m, <1>a DEF WritableCommitted, Contents
<1>2. UnusedEmpty'
  BY <1>m, <1>a DEF UnusedEmpty, Contents
<1>3. KnownInSize'
  BY <1>m, <1>a DEF KnownInSize, Contents
<1>4. KnownInFile'
  BY <1>m, <1>a DEF KnownInFile, Contents
<1>5. UpdateAllowed'
  BY <1>m, <1>a DEF UpdateAllowed, Contents
<1>6. StoredSoFar'
  BY <1>m, <1>a, <1>b DEF StoredSoFar
<1>7. ModifiedStaysFlagged'
  BY <1>m, <1>a DEF ModifiedStaysFlagged, Contents
<1>8. CleanPagesAreStored'
  BY <1>m, <1>a DEF CleanPagesAreStored, Contents
<1>9. SizeInsideBuffer'
  BY <1>m, <1>a DEF SizeInsideBuffer, Contents
<1>10. StoredIsInFile'
  BY <1>m, <1>a DEF StoredIsInFile, Contents
<1> QED BY <1>1, <1>2, <1>3, <1>4, <1>5, <1>6, <1>7, <1>8, <1>9, <1>10 DEF TypeInv, BufferInv

\* What the loop does to a page it has finished.
LEMMA DecommitEffect ==
  ASSUME TypeOK, NEW p \in Page, Decommit({p})
  PROVE  /\ ~committed'[p] /\ ~writable'[p]
         /\ \A q \in Page : q # p => committed'[q] = committed[q] /\ writable'[q] = writable[q]
         /\ \A c \in Cell : PageOf(c) # p => mem'[c] = mem[c]
BY DEF Decommit, TypeOK

\* What can be read in a cell does not depend on the page being in memory, as
\* long as memory and file agree.
LEMMA ContentsStored ==
  ASSUME TypeOK, KnownInSize, KnownInFile, NEW c \in known,
         committed[PageOf(c)] => mem[c] = file[Offset + c] /\ Offset + c < cbFile
  PROVE  file[Offset + c] = Contents(c) /\ Offset + c < cbFile
<1>1. ~committed[PageOf(c)] => HasHandle /\ Offset + c < cbFile
  BY DEF KnownInFile
<1>2. PageStart(PageOf(c)) < ulCurrentSize
  BY KnownCell
<1> QED BY <1>1, <1>2 DEF Contents

\* A modified page is stored as a whole before it loses its flag.
LEMMA UpdateWriteStep ==
  ASSUME Before, UpdateWritePage
  PROVE  After
<1> SUFFICES ASSUME TypeInv' PROVE BufferInv'
  BY DEF After
<1> USE DEF Before, BufferInv
<1>m. /\ Offset' = Offset /\ Source' = Source /\ Access' = Access
      /\ HasHandle' = HasHandle /\ ValidHandle' = ValidHandle /\ (ValidHandle => HasHandle)
  BY ModeFixed
<1>a. /\ UNCHANGED <<used, ulCurrentSize, pc, loopRc, outside, ret, known>>
      /\ pc = "update" /\ loopRc = "NO_ERROR" /\ pos \in Page /\ PageStart(pos) < ulCurrentSize
      /\ writable[pos] /\ pos' = pos + 1 /\ modified' = [modified EXCEPT ![pos] = FALSE]
  BY DEF UpdateWritePage, InLoop, entryVars
<1>b. Store(pos, PageSize)
  BY <1>a, WholePageStored DEF UpdateWritePage
<1>c. /\ cbFile \in Nat /\ cbFile' \in Nat /\ cbFile <= cbFile'
      /\ \A c \in Cell : PageOf(c) # pos => file'[Offset + c] = file[Offset + c]
      /\ \A c \in Cell : PageOf(c) = pos => file'[Offset + c] = mem[c] /\ Offset + c < cbFile'
  BY <1>a, <1>b, StoreEffect, Sizes DEF TypeOK
<1>d. /\ committed'[pos] => UNCHANGED mem
      /\ ~writable'[pos]
      /\ committed'[pos] => committed[pos]
      /\ \A q \in Page : q # pos => committed'[q] = committed[q] /\ writable'[q] = writable[q]
      /\ \A c \in Cell : PageOf(c) # pos => mem'[c] = mem[c]
  <2>1. CASE Decommit({pos})
    BY <2>1, <1>a, DecommitEffect
  <2>2. CASE writable' = [writable EXCEPT ![pos] = FALSE] /\ UNCHANGED <<committed, mem>>
    BY <2>2, <1>a DEF TypeOK
  <2> QED BY <2>1, <2>2 DEF UpdateWritePage
<1>e. \A c \in known :
        /\ c \in Cell /\ PageOf(c) \in Page /\ PageOf(c) \in Nat
        /\ Offset + c \in Nat
  BY KnownCell
<1>f. HasHandle
  BY <1>a DEF UpdateAllowed
<1>g. KnownInFile'
  BY <1>m, <1>a, <1>c, <1>d, <1>e, <1>f DEF KnownInFile
<1>h. CleanPagesAreStored'
  BY <1>m, <1>a, <1>c, <1>d, <1>e DEF CleanPagesAreStored
<1>i. KnownInSize'
  BY <1>a DEF KnownInSize
<1>j. pos \in Nat
  BY <1>a, Sizes
<1>k. ASSUME NEW c \in known, PageOf(c) < pos'
      PROVE  Offset + c < cbFile' /\ file'[Offset + c] = Contents(c)'
  <2>1. (committed[PageOf(c)])' => mem'[c] = file'[Offset + c] /\ Offset + c < cbFile'
    <3>1. CASE PageOf(c) = pos
      BY <3>1, <1>c, <1>d, <1>e
    <3>2. CASE PageOf(c) # pos
      <4>1. PageOf(c) < pos
        BY <3>2, <1>k, <1>a, <1>e, <1>j
      <4>2. Offset + c < cbFile /\ file[Offset + c] = Contents(c)
        BY <4>1, <1>a DEF StoredSoFar
      <4>3. (committed[PageOf(c)])' => mem[c] = file[Offset + c]
        BY <4>2, <3>2, <1>d, <1>e DEF Contents
      <4>4. Offset + c < cbFile'
        BY <4>2, <1>c, <1>e
      <4> QED BY <4>3, <4>4, <3>2, <1>c, <1>d, <1>e
    <3> QED BY <3>1, <3>2
  <2>2. HasHandle' /\ (PageStart(PageOf(c)) < ulCurrentSize)'
    BY <1>a, <1>f, <1>m, KnownCell DEF PageStart, PageOf
  <2>3. ~(committed[PageOf(c)])' => Offset + c < cbFile'
    BY <1>g, <1>a, <1>m DEF KnownInFile
  <2> QED BY <2>1, <2>2, <2>3, <1>m DEF Contents
<1>1. WritableCommitted'
  BY <1>m, <1>a, <1>d DEF WritableCommitted, TypeOK
<1>2. UnusedEmpty'
  BY <1>m, <1>a, <1>d DEF UnusedEmpty, TypeOK
<1>3. KnownInSize'
  BY <1>i
<1>4. KnownInFile'
  BY <1>g
<1>5. UpdateAllowed'
  BY <1>m, <1>a DEF UpdateAllowed
<1>6. StoredSoFar'
  BY <1>m, <1>a, <1>k DEF StoredSoFar
<1>7. ModifiedStaysFlagged'
  BY <1>m, <1>a, <1>d DEF ModifiedStaysFlagged, TypeOK
<1>8. CleanPagesAreStored'
  BY <1>h
<1>9. SizeInsideBuffer'
  BY <1>m, <1>a DEF SizeInsideBuffer
<1>10. StoredIsInFile'
  BY <1>a DEF UpdateAllowed, StoredIsInFile
<1> QED BY <1>1, <1>2, <1>3, <1>4, <1>5, <1>6, <1>7, <1>8, <1>9, <1>10 DEF TypeInv, BufferInv

\* A page without PAG_WRITE holds nothing that would be lost.
LEMMA UpdateSkipStep ==
  ASSUME Before, UpdateSkipPage
  PROVE  After
<1> SUFFICES ASSUME TypeInv' PROVE BufferInv'
  BY DEF After
<1> USE DEF Before, BufferInv
<1>m. /\ Offset' = Offset /\ Source' = Source /\ Access' = Access
      /\ HasHandle' = HasHandle /\ ValidHandle' = ValidHandle /\ (ValidHandle => HasHandle)
  BY ModeFixed
<1>a. /\ UNCHANGED <<used, ulCurrentSize, file, cbFile, pc, loopRc, outside, ret, modified, known>>
      /\ pc = "update" /\ loopRc = "NO_ERROR" /\ pos \in Page /\ PageStart(pos) < ulCurrentSize
      /\ ~writable[pos] /\ pos' = pos + 1
  BY DEF UpdateSkipPage, InLoop, entryVars, fileVars, history
<1>b. /\ ~writable'[pos] /\ committed'[pos] => committed[pos] /\ UNCHANGED mem
      /\ \A q \in Page : q # pos => committed'[q] = committed[q] /\ writable'[q] = writable[q]
      /\ \A c \in Cell : PageOf(c) # pos => mem'[c] = mem[c]
      /\ ~writable'[pos]
  <2>1. CASE Decommit({pos})
    BY <2>1, <1>a, DecommitEffect
  <2>2. CASE UNCHANGED pageVars
    BY <2>2, <1>a DEF pageVars
  <2> QED BY <2>1, <2>2 DEF UpdateSkipPage
<1>c. HasHandle /\ Access # "READONLY"
  BY <1>a DEF UpdateAllowed
<1>d. \A c \in known :
        /\ c \in Cell /\ PageOf(c) \in Page /\ PageOf(c) \in Nat
        /\ Offset + c \in Nat
  BY KnownCell
<1>e. \A c \in known : PageOf(c) = pos /\ committed[pos] =>
        Offset + c < cbFile /\ mem[c] = file[Offset + c]
  BY <1>a, <1>c DEF CleanPagesAreStored
<1>f. \A c \in known : PageOf(c) = pos => Offset + c < cbFile
  BY <1>e DEF KnownInFile
<1>g. KnownInFile'
  BY <1>m, <1>a, <1>b, <1>c, <1>d, <1>f DEF KnownInFile
<1>h. CleanPagesAreStored'
  BY <1>m, <1>a, <1>b, <1>d DEF CleanPagesAreStored
<1>j. pos \in Nat
  BY <1>a, Sizes
<1>k. ASSUME NEW c \in known, PageOf(c) < pos'
      PROVE  Offset + c < cbFile' /\ file'[Offset + c] = Contents(c)'
  <2>1. Offset + c < cbFile /\ file[Offset + c] = Contents(c)
    <3>1. CASE PageOf(c) = pos
      BY <3>1, <1>e, ContentsStored
    <3>2. CASE PageOf(c) # pos
      <4>1. PageOf(c) < pos
        BY <3>2, <1>k, <1>a, <1>d, <1>j
      <4> QED BY <4>1, <1>a DEF StoredSoFar
    <3> QED BY <3>1, <3>2
  <2>2. (committed[PageOf(c)])' => committed[PageOf(c)] /\ mem'[c] = mem[c]
    BY <1>b, <1>d
  <2>3. /\ HasHandle' /\ (PageStart(PageOf(c)) < ulCurrentSize)'
        /\ PageStart(PageOf(c)) < ulCurrentSize
    BY <1>a, <1>c, <1>m, KnownCell DEF PageStart, PageOf
  <2> QED BY <2>1, <2>2, <2>3, <1>a, <1>c, <1>m DEF Contents
<1>1. WritableCommitted'
  BY <1>m, <1>a, <1>b DEF WritableCommitted, TypeOK
<1>2. UnusedEmpty'
  BY <1>m, <1>a, <1>b DEF UnusedEmpty, TypeOK
<1>3. KnownInSize'
  BY <1>m, <1>a DEF KnownInSize
<1>4. KnownInFile'
  BY <1>g
<1>5. UpdateAllowed'
  BY <1>m, <1>a DEF UpdateAllowed
<1>6. StoredSoFar'
  BY <1>m, <1>a, <1>k DEF StoredSoFar
<1>7. ModifiedStaysFlagged'
  BY <1>m, <1>a, <1>b DEF ModifiedStaysFlagged, TypeOK
<1>8. CleanPagesAreStored'
  BY <1>h
<1>9. SizeInsideBuffer'
  BY <1>m, <1>a DEF SizeInsideBuffer
<1>10. StoredIsInFile'
  BY <1>a DEF UpdateAllowed, StoredIsInFile
<1> QED BY <1>1, <1>2, <1>3, <1>4, <1>5, <1>6, <1>7, <1>8, <1>9, <1>10 DEF TypeInv, BufferInv

\* A write that fails touches the place of its page in the file only.
LEMMA UpdateFailStep ==
  ASSUME Before, UpdateFailPage
  PROVE  After
<1> SUFFICES ASSUME TypeInv' PROVE BufferInv'
  BY DEF After
<1> USE DEF Before, BufferInv
<1>m. /\ Offset' = Offset /\ Source' = Source /\ Access' = Access
      /\ HasHandle' = HasHandle /\ ValidHandle' = ValidHandle /\ (ValidHandle => HasHandle)
  BY ModeFixed
<1>a. /\ UNCHANGED <<used, ulCurrentSize, committed, writable, mem>>
      /\ UNCHANGED <<pc, pos, outside, ret, modified, known>>
      /\ pc = "update" /\ pos \in Page /\ PageStart(pos) < ulCurrentSize /\ writable[pos]
      /\ loopRc' = "IO_ERROR"
  BY DEF UpdateFailPage, InLoop, entryVars, pageVars, history
<1>b. /\ cbFile \in Nat /\ cbFile' \in Nat /\ cbFile <= cbFile'
      /\ \A c \in Cell : PageOf(c) # pos => file'[Offset + c] = file[Offset + c]
  <2>1. CASE UNCHANGED fileVars
    BY <2>1, Sizes DEF fileVars, TypeOK
  <2>2. CASE \E n \in 0 .. BytesToWrite(pos) - 1 : Store(pos, n)
    <3>1. PICK n \in 0 .. PageSize : Store(pos, n)
      BY <2>2, <1>a, WholePageStored, Sizes
    <3> QED BY <3>1, <1>a, StoreEffect, Sizes DEF TypeOK
  <2> QED BY <2>1, <2>2 DEF UpdateFailPage
<1>c. \A c \in known : c \in Cell /\ PageOf(c) \in Page /\ Offset + c \in Nat
  BY KnownCell
<1>1. WritableCommitted'
  BY <1>m, <1>a DEF WritableCommitted
<1>2. UnusedEmpty'
  BY <1>m, <1>a DEF UnusedEmpty
<1>3. KnownInSize'
  BY <1>m, <1>a DEF KnownInSize
<1>4. KnownInFile'
  BY <1>m, <1>a, <1>b, <1>c DEF KnownInFile
<1>5. UpdateAllowed'
  BY <1>m, <1>a DEF UpdateAllowed
<1>6. StoredSoFar'
  BY <1>m, <1>a DEF StoredSoFar
<1>7. ModifiedStaysFlagged'
  BY <1>m, <1>a DEF ModifiedStaysFlagged
<1>8. CleanPagesAreStored'
  BY <1>m, <1>a, <1>b, <1>c DEF CleanPagesAreStored
<1>9. SizeInsideBuffer'
  BY <1>m, <1>a DEF SizeInsideBuffer
<1>10. StoredIsInFile'
  BY <1>a DEF UpdateAllowed, StoredIsInFile
<1> QED BY <1>1, <1>2, <1>3, <1>4, <1>5, <1>6, <1>7, <1>8, <1>9, <1>10 DEF TypeInv, BufferInv

\* Only a file passed by its handle can be longer than the buffer.
LEMMA UpdateOutsideStep ==
  ASSUME Before, UpdateOutside
  PROVE  After
<1> SUFFICES ASSUME TypeInv' PROVE BufferInv'
  BY DEF After
<1> USE DEF Before, BufferInv
<1>m. /\ Offset' = Offset /\ Source' = Source /\ Access' = Access
      /\ HasHandle' = HasHandle /\ ValidHandle' = ValidHandle /\ (ValidHandle => HasHandle)
  BY ModeFixed
<1>a. /\ UNCHANGED <<used, ulCurrentSize, committed, writable, mem>>
      /\ UNCHANGED <<pc, ret, modified, known>>
      /\ pc = "update" /\ loopRc = "NO_ERROR" /\ pos \notin Page /\ PageStart(pos) < ulCurrentSize
      /\ pos' \in Nat /\ pos \in Nat /\ ulCurrentSize \in Nat
      /\ loopRc' # "NO_ERROR" \/ pos' = pos + 1
  BY DEF UpdateOutside, InLoop, entryVars, pageVars, history, TypeOK
<1>b. NumPages * PageSize <= PageStart(pos) /\ PageStart(pos) \in Nat
  BY <1>a, BehindBuffer
<1>e. /\ cbFile \in Nat /\ cbFile' \in Nat /\ cbFile <= cbFile'
      /\ \A c \in Cell : file'[Offset + c] = file[Offset + c]
  <2>1. UNCHANGED fileVars \/ StoreForeign
    BY DEF UpdateOutside
  <2> QED BY <2>1, <1>a, ForeignEffect DEF fileVars, TypeOK
<1>f. \A c \in known : c \in Cell /\ PageOf(c) \in Page /\ Offset + c \in Nat
  BY KnownCell
<1>c. Source = "handle"
  <2>1. ~(ulCurrentSize <= MaxSize)
    BY <1>a, <1>b, Sizes
  <2> QED BY <2>1 DEF SizeInsideBuffer
<1>d. \A c \in known : PageOf(c) \in Nat /\ PageOf(c) < pos
  <2> SUFFICES ASSUME NEW c \in known PROVE PageOf(c) \in Nat /\ PageOf(c) < pos
    OBVIOUS
  <2>1. PageOf(c) \in Page
    BY KnownCell
  <2> QED BY <2>1, <1>a, Sizes DEF Page
<1>1. WritableCommitted'
  BY <1>m, <1>a DEF WritableCommitted, Contents
<1>2. UnusedEmpty'
  BY <1>m, <1>a DEF UnusedEmpty, Contents
<1>3. KnownInSize'
  BY <1>m, <1>a DEF KnownInSize, Contents
<1>4. KnownInFile'
  BY <1>m, <1>a, <1>e, <1>f DEF KnownInFile, Contents
<1>5. UpdateAllowed'
  BY <1>m, <1>a DEF UpdateAllowed, Contents
<1>6. StoredSoFar'
  BY <1>m, <1>a, <1>d, <1>e, <1>f DEF StoredSoFar, Contents
<1>7. ModifiedStaysFlagged'
  BY <1>m, <1>a DEF ModifiedStaysFlagged, Contents
<1>8. CleanPagesAreStored'
  BY <1>m, <1>a, <1>e, <1>f DEF CleanPagesAreStored, Contents
<1>9. SizeInsideBuffer'
  BY <1>m, <1>c DEF SizeInsideBuffer
<1>10. StoredIsInFile'
  BY <1>a DEF UpdateAllowed, StoredIsInFile
<1> QED BY <1>1, <1>2, <1>3, <1>4, <1>5, <1>6, <1>7, <1>8, <1>9, <1>10 DEF TypeInv, BufferInv

\* When the loop is through without an error, all known pages lie behind it.
LEMMA UpdateFinishStep ==
  ASSUME Before, UpdateFinish
  PROVE  After
<1> SUFFICES ASSUME TypeInv' PROVE BufferInv'
  BY DEF After
<1> USE DEF Before, BufferInv
<1>m. /\ Offset' = Offset /\ Source' = Source /\ Access' = Access
      /\ HasHandle' = HasHandle /\ ValidHandle' = ValidHandle /\ (ValidHandle => HasHandle)
  BY ModeFixed
<1>a. /\ UNCHANGED <<used, ulCurrentSize, committed, writable, mem>>
      /\ UNCHANGED <<loopRc, outside, modified, known>>
      /\ pc = "update" /\ ~InLoop /\ pc' = "idle"
  BY DEF UpdateFinish, pageVars, history
<1>b. \/ /\ ret' = [call |-> "update", rc |-> "NO_ERROR"]
         /\ cbFile' = ulCurrentSize + Offset
         /\ file' = [f \in FileCell |-> IF f < cbFile' THEN file[f] ELSE Undef]
      \/ ret' = [call |-> "update", rc |-> "IO_ERROR"] /\ UNCHANGED <<file, cbFile>>
  BY DEF UpdateFinish, Return, fileVars
<1>c. /\ ulCurrentSize \in Nat /\ Offset \in Nat
      /\ \A c \in known : /\ c \in Cell /\ PageOf(c) \in Page /\ c < ulCurrentSize /\ c \in Nat
                          /\ Offset + c \in FileCell
  BY KnownCell, OffsetFits DEF TypeOK
<1>d. \A c \in known : /\ file'[Offset + c] = file[Offset + c]
                       /\ Offset + c < cbFile => Offset + c < cbFile'
  BY <1>b, <1>c
<1>e. HasHandle
  BY <1>a DEF UpdateAllowed
<1>f. KnownInFile'
  BY <1>m, <1>a, <1>c, <1>d, <1>e DEF KnownInFile
<1>g. ASSUME loopRc = "NO_ERROR", NEW c \in known
      PROVE  file[Offset + c] = Contents(c) /\ Offset + c < cbFile
  <2>1. pos \in Nat /\ ~(PageStart(pos) < ulCurrentSize)
    BY <1>a, <1>g DEF InLoop, TypeOK
  <2>2. PageOf(c) \in Nat /\ PageStart(PageOf(c)) \in Nat /\ PageStart(PageOf(c)) < ulCurrentSize
    BY KnownCell
  <2>3. PageOf(c) < pos
    <3>1. PageOf(c) # pos
      BY <2>1, <2>2
    <3>2. pos < PageOf(c) => /\ PageStart(pos) + PageSize <= PageStart(PageOf(c))
                             /\ PageStart(pos) \in Int
      BY <2>1, <2>2, PageOrder
    <3>3. ~(pos < PageOf(c))
      BY <3>2, <2>1, <2>2, <1>c, Sizes
    <3> QED BY <3>1, <3>3, <2>1, <2>2
  <2> QED BY <2>3, <1>a, <1>g DEF StoredSoFar
<1>h. ASSUME loopRc = "NO_ERROR", NEW c \in known PROVE file'[Offset + c] = Contents(c)'
  <2>1. file[Offset + c] = Contents(c) /\ Offset + c < cbFile
    BY <1>g, <1>h
  <2>2. PageStart(PageOf(c)) < ulCurrentSize /\ (PageStart(PageOf(c)) < ulCurrentSize)'
    BY <1>a, KnownCell DEF PageStart, PageOf
  <2>3. file'[Offset + c] = file[Offset + c] /\ Offset + c < cbFile'
    BY <2>1, <1>d
  <2> QED BY <2>1, <2>2, <2>3, <1>a, <1>e, <1>m DEF Contents
<1>1. WritableCommitted'
  BY <1>m, <1>a DEF WritableCommitted
<1>2. UnusedEmpty'
  BY <1>m, <1>a DEF UnusedEmpty
<1>3. KnownInSize'
  BY <1>m, <1>a DEF KnownInSize
<1>4. KnownInFile'
  BY <1>f
<1>5. UpdateAllowed'
  BY <1>m, <1>a DEF UpdateAllowed
<1>6. StoredSoFar'
  BY <1>m, <1>a DEF StoredSoFar
<1>7. ModifiedStaysFlagged'
  BY <1>m, <1>a DEF ModifiedStaysFlagged
<1>8. CleanPagesAreStored'
  BY <1>m, <1>a, <1>c, <1>d DEF CleanPagesAreStored
<1>9. SizeInsideBuffer'
  BY <1>m, <1>a DEF SizeInsideBuffer
<1>10. StoredIsInFile'
  <2> SUFFICES ASSUME ret'.rc = "NO_ERROR", loopRc = "NO_ERROR"
               PROVE  cbFile' = Offset + ulCurrentSize
                      /\ \A c \in known : file'[Offset + c] = Contents(c)'
    BY <1>a, <1>m DEF StoredIsInFile
  <2>1. cbFile' = Offset + ulCurrentSize
    BY <1>b, <1>c
  <2> QED BY <2>1, <1>h
<1> QED BY <1>1, <1>2, <1>3, <1>4, <1>5, <1>6, <1>7, <1>8, <1>9, <1>10 DEF TypeInv, BufferInv

\* Every step of WtkUpdateMmf keeps the invariant.
LEMMA UpdateStep == ASSUME Before, WtkUpdateMmf PROVE After
BY UpdateBeginStep, UpdateWriteStep, UpdateSkipStep, UpdateFailStep, UpdateOutsideStep,
   UpdateFinishStep DEF WtkUpdateMmf

\* What is known after a revert is what the file holds.
LEMMA RevertStep ==
  ASSUME Before, WtkRevertMmf
  PROVE  After
<1> SUFFICES ASSUME TypeInv' PROVE BufferInv'
  BY DEF After
<1> USE DEF Before, BufferInv
<1>m. /\ Offset' = Offset /\ Source' = Source /\ Access' = Access
      /\ HasHandle' = HasHandle /\ ValidHandle' = ValidHandle /\ (ValidHandle => HasHandle)
  BY ModeFixed
<1>a. /\ UNCHANGED <<used, ulCurrentSize, file, cbFile, pc>> /\ pc = "idle" /\ used
      /\ ret'.call = "revert" /\ ulCurrentSize \in Nat
  BY DEF WtkRevertMmf, entryVars, fileVars, callVars, Return, Idle, TypeOK
<1>b. \/ ~HasHandle /\ UNCHANGED <<committed, writable, mem, outside, modified, known>>
      \/ /\ HasHandle
         /\ \A p \in Page : /\ committed'[p] <=> committed[p] /\ ~(PageStart(p) < ulCurrentSize)
                            /\ writable'[p] <=> writable[p] /\ ~(PageStart(p) < ulCurrentSize)
                            /\ modified'[p] <=> modified[p] /\ ~(PageStart(p) < ulCurrentSize)
         /\ known' \subseteq InFile(ulCurrentSize)
         /\ Source # "handle" => outside' = outside
  <2>1. Source # "handle" => ~(ulCurrentSize > NumPages * PageSize)
    BY Sizes, <1>a DEF SizeInsideBuffer
  <2>2. CASE ~HasHandle
    BY <2>2 DEF WtkRevertMmf, pageVars, history
  <2>3. CASE HasHandle
    <3>1. \A p \in Page : /\ committed'[p] <=> committed[p] /\ ~(PageStart(p) < ulCurrentSize)
                          /\ writable'[p] <=> writable[p] /\ ~(PageStart(p) < ulCurrentSize)
                          /\ modified'[p] <=> modified[p] /\ ~(PageStart(p) < ulCurrentSize)
      BY <2>3 DEF WtkRevertMmf, Decommit
    <3>2. known' \subseteq InFile(ulCurrentSize)
      BY <2>3 DEF WtkRevertMmf
    <3>3. Source # "handle" => outside' = outside
      BY <2>1, <2>3 DEF WtkRevertMmf, TypeOK
    <3> QED BY <2>3, <3>1, <3>2, <3>3
  <2> QED BY <2>2, <2>3
<1>c. /\ \A c \in InFile(ulCurrentSize) : c \in Cell /\ c < ulCurrentSize /\ Offset + c < cbFile
      /\ \A c \in known : c \in Cell /\ PageOf(c) \in Page
  BY KnownCell DEF InFile
<1>d. \A c \in InFile(ulCurrentSize) : PageOf(c) \in Page /\ PageStart(PageOf(c)) < ulCurrentSize
  <2> SUFFICES ASSUME NEW c \in InFile(ulCurrentSize)
               PROVE  PageOf(c) \in Page /\ PageStart(PageOf(c)) < ulCurrentSize
    OBVIOUS
  <2>1. c \in Cell /\ c \in Nat /\ c < ulCurrentSize
    BY <1>c, Sizes
  <2>2. PageOf(c) \in Page /\ PageStart(PageOf(c)) <= c
    BY <2>1, PageOfCell, CellInPage
  <2>3. PageStart(PageOf(c)) \in Nat
    BY <2>2, PageInBuffer
  <2> QED BY <2>1, <2>2, <2>3, <1>a
<1>1. WritableCommitted'
  BY <1>m, <1>a, <1>b DEF WritableCommitted
<1>2. UnusedEmpty'
  BY <1>m, <1>a, <1>b DEF UnusedEmpty
<1>3. KnownInSize'
  BY <1>m, <1>a, <1>b, <1>c, <1>d DEF KnownInSize
<1>4. KnownInFile'
  BY <1>m, <1>a, <1>b, <1>c, <1>d DEF KnownInFile
<1>5. UpdateAllowed'
  BY <1>m, <1>a, <1>b DEF UpdateAllowed
<1>6. StoredSoFar'
  BY <1>m, <1>a, <1>b DEF StoredSoFar
<1>7. ModifiedStaysFlagged'
  BY <1>m, <1>a, <1>b DEF ModifiedStaysFlagged
<1>8. CleanPagesAreStored'
  BY <1>m, <1>a, <1>b, <1>c, <1>d DEF CleanPagesAreStored
<1>9. SizeInsideBuffer'
  BY <1>m, <1>a, <1>b DEF SizeInsideBuffer
<1>10. StoredIsInFile'
  BY <1>m, <1>a, <1>b DEF StoredIsInFile
<1> QED BY <1>1, <1>2, <1>3, <1>4, <1>5, <1>6, <1>7, <1>8, <1>9, <1>10 DEF TypeInv, BufferInv

\* What lies behind the new size is forgotten.
LEMMA SetSizeStep ==
  ASSUME Before, NEW n \in 0 .. MaxSize + 1, WtkSetMmfSize(n)
  PROVE  After
<1> SUFFICES ASSUME TypeInv' PROVE BufferInv'
  BY DEF After
<1> USE DEF Before, BufferInv
<1>m. /\ Offset' = Offset /\ Source' = Source /\ Access' = Access
      /\ HasHandle' = HasHandle /\ ValidHandle' = ValidHandle /\ (ValidHandle => HasHandle)
  BY ModeFixed
<1>a. /\ UNCHANGED <<used, committed, writable, mem, file, cbFile, pc, outside, modified>>
      /\ pc = "idle" /\ used /\ ret'.call = "setsize"
      /\ known' \subseteq known
      /\ \/ UNCHANGED <<ulCurrentSize, known>>
         \/ ulCurrentSize' <= MaxSize /\ \A c \in known' : c < ulCurrentSize'
  BY Sizes DEF WtkSetMmfSize, pageVars, fileVars, callVars, Return, Idle
<1>1. WritableCommitted'
  BY <1>m, <1>a DEF WritableCommitted
<1>2. UnusedEmpty'
  BY <1>m, <1>a DEF UnusedEmpty
<1>3. KnownInSize'
  BY <1>m, <1>a DEF KnownInSize
<1>4. KnownInFile'
  BY <1>m, <1>a DEF KnownInFile
<1>5. UpdateAllowed'
  BY <1>m, <1>a DEF UpdateAllowed
<1>6. StoredSoFar'
  BY <1>m, <1>a DEF StoredSoFar
<1>7. ModifiedStaysFlagged'
  BY <1>m, <1>a DEF ModifiedStaysFlagged
<1>8. CleanPagesAreStored'
  BY <1>m, <1>a DEF CleanPagesAreStored
<1>9. SizeInsideBuffer'
  BY <1>m, <1>a DEF SizeInsideBuffer
<1>10. StoredIsInFile'
  BY <1>m, <1>a DEF StoredIsInFile
<1> QED BY <1>1, <1>2, <1>3, <1>4, <1>5, <1>6, <1>7, <1>8, <1>9, <1>10 DEF TypeInv, BufferInv

\* A page that is committed gets PAG_WRITE, so it counts as modified.
LEMMA CommitStep ==
  ASSUME Before, NEW range \in SUBSET Page, WtkCommitMmf(range)
  PROVE  After
<1> SUFFICES ASSUME TypeInv' PROVE BufferInv'
  BY DEF After
<1> USE DEF Before, BufferInv
<1>m. /\ Offset' = Offset /\ Source' = Source /\ Access' = Access
      /\ HasHandle' = HasHandle /\ ValidHandle' = ValidHandle /\ (ValidHandle => HasHandle)
  BY ModeFixed
<1>a. PICK done \in SUBSET range, read \in SUBSET range :
        LET cellsRead == {c \in Cell : PageOf(c) \in read} IN
        /\ read \subseteq done
        /\ committed' = [p \in Page |-> committed[p] \/ p \in done]
        /\ writable'  = [p \in Page |-> IF p \in done THEN Access # "READONLY"
                                        ELSE writable[p]]
        /\ mem' = [c \in Cell |->
                     IF c \notin cellsRead THEN mem[c]
                     ELSE IF ~HasHandle THEN Undef
                     ELSE IF c < cbFile THEN file[c] ELSE mem[c]]
        /\ modified' = [p \in Page |-> modified[p] /\ p \notin read]
        /\ known' = {c \in known : PageOf(c) \in done => committed[PageOf(c)] /\ c \notin cellsRead}
                    \cup (IF ValidHandle /\ Offset = 0
                          THEN cellsRead \cap InFile(ulCurrentSize) ELSE {})
  BY DEF WtkCommitMmf
<1>b. /\ UNCHANGED <<used, ulCurrentSize, file, cbFile, pc, outside>> /\ pc = "idle" /\ used
      /\ ret'.call = "commit"
  BY DEF WtkCommitMmf, Return, Idle, entryVars, fileVars, callVars
<1>c. \A p \in Page :
        /\ p \in done => committed'[p] /\ (writable'[p] <=> Access # "READONLY")
        /\ p \notin done => committed'[p] = committed[p] /\ writable'[p] = writable[p]
        /\ modified'[p] => modified[p]
  BY <1>a DEF TypeOK
<1>d. \A c \in Cell : PageOf(c) \notin done => mem'[c] = mem[c]
  BY <1>a
<1>e. \A c \in known' :
        /\ c \in Cell /\ PageOf(c) \in Page /\ c < ulCurrentSize
        /\ PageOf(c) \notin done => c \in known
  BY <1>a, KnownCell, PageOfCell DEF InFile
<1>1. WritableCommitted'
  BY <1>m, <1>b, <1>c DEF WritableCommitted
<1>2. UnusedEmpty'
  BY <1>m, <1>b, <1>c DEF UnusedEmpty
<1>3. KnownInSize'
  BY <1>m, <1>b, <1>e DEF KnownInSize
<1>4. KnownInFile'
  BY <1>m, <1>b, <1>c, <1>e DEF KnownInFile
<1>5. UpdateAllowed'
  BY <1>m, <1>b, <1>c DEF UpdateAllowed
<1>6. StoredSoFar'
  BY <1>m, <1>b, <1>c DEF StoredSoFar
<1>7. ModifiedStaysFlagged'
  BY <1>m, <1>b, <1>c DEF ModifiedStaysFlagged
<1>8. CleanPagesAreStored'
  BY <1>m, <1>b, <1>c, <1>d, <1>e DEF CleanPagesAreStored
<1>9. SizeInsideBuffer'
  BY <1>m, <1>b, <1>c DEF SizeInsideBuffer
<1>10. StoredIsInFile'
  BY <1>m, <1>b, <1>c DEF StoredIsInFile
<1> QED BY <1>1, <1>2, <1>3, <1>4, <1>5, <1>6, <1>7, <1>8, <1>9, <1>10 DEF TypeInv, BufferInv

\* At first there is no buffer, and the invariant holds of none.
LEMMA InitInv == Init => BufferInv
<1> SUFFICES ASSUME Init PROVE BufferInv
  OBVIOUS
<1>1. SizeFits
  BY InitType DEF TypeInv
<1>2. /\ \A p \in Page : ~committed[p] /\ ~writable[p] /\ ~modified[p]
      /\ known = {} /\ pc = "idle" /\ ret.call = "none" /\ ulCurrentSize = 0 /\ ~outside
  BY DEF Init
<1> QED BY <1>1, <1>2, Sizes
       DEF BufferInv, WritableCommitted, UnusedEmpty, KnownInSize, KnownInFile,
           UpdateAllowed, StoredSoFar, ModifiedStaysFlagged, CleanPagesAreStored,
             SizeInsideBuffer, StoredIsInFile

\* Every step keeps the types and the invariant, one case per call.
LEMMA NextInv == TypeInv /\ BufferInv /\ [Next]_vars => (TypeInv /\ BufferInv)'
<1> SUFFICES ASSUME TypeInv, BufferInv, [Next]_vars PROVE (TypeInv /\ BufferInv)'
  OBVIOUS
<1>1. TypeInv'
  BY NextType
<1>2. CASE UNCHANGED vars
  BY <1>2 DEF vars, entryVars, pageVars, fileVars, callVars, history, TypeInv, TypeOK, BufferInv,
    SizeFits, WritableCommitted, UnusedEmpty, KnownInSize, KnownInFile, UpdateAllowed, StoredSoFar,
    ModifiedStaysFlagged, CleanPagesAreStored, SizeInsideBuffer, StoredIsInFile, Contents,
    Offset, Source, Access, HasHandle
<1>3. CASE Next
  <2>1. Before
    BY <1>3 DEF Next, Before, TypeInv
  <2>2. \A first, last \in Page : {p \in Page : first <= p /\ p <= last} \in SUBSET Page
    OBVIOUS
  <2>3. After
    BY <1>3, <2>1, <2>2, AllocStep, GoneStep, AccessStep, UpdateStep, RevertStep, SetSizeStep,
       CommitStep DEF Next
  <2> QED BY <1>1, <2>3 DEF After
<1> QED BY <1>1, <1>2, <1>3

\* The state of the pages, the file and the size agree at every moment, also in
\* the middle of WtkUpdateMmf.
THEOREM BufferCorrect == Spec => []BufferInv
<1> QED BY InitType, InitInv, NextInv, PTL DEF Spec

\* No page the application has modified is without the flags by which
\* WtkUpdateMmf finds it.
THEOREM ModifiedFlagged == Spec => []ModifiedStaysFlagged
<1>1. BufferInv => ModifiedStaysFlagged
  BY DEF BufferInv
<1> QED BY <1>1, BufferCorrect, PTL

\* What WtkUpdateMmf passes over and releases is in the file.
THEOREM CleanStored == Spec => []CleanPagesAreStored
<1>1. BufferInv => CleanPagesAreStored
  BY DEF BufferInv
<1> QED BY <1>1, BufferCorrect, PTL

\* The loops over the pages of a buffer WtkAllocMmf allocated stay inside it.
THEOREM SizeInside == Spec => []SizeInsideBuffer
<1>1. BufferInv => SizeInsideBuffer
  BY DEF BufferInv
<1> QED BY <1>1, BufferCorrect, PTL

\* An update whose loop ran without an error has stored all the application
\* knows of the buffer.
THEOREM UpdateStores == Spec => []StoredIsInFile
<1>1. BufferInv => StoredIsInFile
  BY DEF BufferInv
<1> QED BY <1>1, BufferCorrect, PTL

-----------------------------------------------------------------------------
(* The part of the file in front of the buffer *)

\* No step of WtkUpdateMmf writes in front of the offset.
LEMMA UpdateFront ==
  ASSUME Before, WtkUpdateMmf, NEW f \in FileCell, f < Offset
  PROVE  file'[f] = file[f]
<1> USE DEF Before
<1>1. CASE UNCHANGED fileVars
  BY <1>1 DEF fileVars
<1>2. CASE UpdateWritePage
  <2>1. pos \in Page /\ PageStart(pos) < ulCurrentSize
    BY <1>2 DEF UpdateWritePage, InLoop
  <2>2. Store(pos, PageSize)
    BY <1>2, <2>1, WholePageStored DEF UpdateWritePage, BufferInv
  <2> QED BY <2>1, <2>2, StoreEffect, Sizes
<1>3. CASE UpdateFailPage /\ ~UNCHANGED fileVars
  <2>1. pos \in Page /\ PageStart(pos) < ulCurrentSize
    BY <1>3 DEF UpdateFailPage, InLoop
  <2>2. PICK n \in 0 .. PageSize : Store(pos, n)
    BY <1>3, <2>1, WholePageStored, Sizes DEF UpdateFailPage, BufferInv
  <2> QED BY <2>1, <2>2, StoreEffect
<1>4. CASE UpdateFinish /\ ~UNCHANGED fileVars
  <2>1. /\ cbFile' = ulCurrentSize + Offset
        /\ file' = [g \in FileCell |-> IF g < cbFile' THEN file[g] ELSE Undef]
    BY <1>4 DEF UpdateFinish
  <2>2. f < cbFile'
    BY <2>1, OffsetFits, Sizes DEF TypeOK
  <2> QED BY <2>1, <2>2
<1>5. CASE UpdateOutside /\ ~UNCHANGED fileVars
  <2>1. StoreForeign /\ pos \notin Page
    BY <1>5 DEF UpdateOutside
  <2> QED BY <2>1, ForeignEffect
<1> QED BY <1>1, <1>2, <1>3, <1>4, <1>5 DEF WtkUpdateMmf, UpdateBegin, UpdateSkipPage

\* Whatever an application does with a buffer that begins at an offset of an
\* open file, the file in front of the offset stays as it is.
THEOREM FrontKept == Spec => FrontUntouched
<1>1. TypeInv /\ BufferInv /\ [Next]_vars =>
        [\A f \in FileCell : f < Offset => file'[f] = file[f]]_vars
  <2> SUFFICES ASSUME TypeInv, BufferInv, Next, NEW f \in FileCell, f < Offset
               PROVE  file'[f] = file[f]
    OBVIOUS
  <2>1. Before
    BY DEF Next, Before, TypeInv
  <2>2. CASE Alloc
    <3>1. Source # "name"
      BY <2>1, OffsetFits, Sizes DEF Before
    <3> QED BY <2>2, <3>1 DEF Alloc, AllocByName, AllocInMemory, AllocByHandle, AllocByNoHandle,
                              fileVars
  <2>3. CASE WtkUpdateMmf
    BY <2>1, <2>3, UpdateFront
  <2>4. CASE UNCHANGED fileVars
    BY <2>4 DEF fileVars
  <2> QED BY <2>2, <2>3, <2>4
          DEF Next, WtkFreeMmf, Crash, Gone, AppRead, AppWrite, WtkRevertMmf, WtkSetMmfSize,
              WtkCommitMmf
<1> QED BY <1>1, InitType, InitInv, NextInv, PTL DEF Spec, FrontUntouched

-----------------------------------------------------------------------------
(* The buffer keeps its promise *)

\* A known cell holds what is in memory, or else in the file.
Holds(c) == IF committed[PageOf(c)] THEN mem[c] ELSE file[Offset + c]

\* The contents the promise sees.
Content == [c \in known |-> Contents(c)]

\* What the steps of the refinement assume and show.
Both == Before /\ TypeInv' /\ BufferInv' /\ NoFileBehind

\* The contents do not depend on the size or on the length of the file.
LEMMA ContentHolds == TypeOK /\ BufferInv => Content = [c \in known |-> Holds(c)]
<1> SUFFICES ASSUME TypeOK, BufferInv, NEW c \in known PROVE Contents(c) = Holds(c)
  BY DEF Content
<1>1. ~committed[PageOf(c)] => HasHandle /\ Offset + c < cbFile
  BY DEF BufferInv, KnownInFile
<1>2. PageStart(PageOf(c)) < ulCurrentSize
  BY KnownCell DEF BufferInv
<1> QED BY <1>1, <1>2 DEF Contents, Holds

\* Before and after a step: what the known cells hold, and where they lie.
LEMMA ContentsOfBoth ==
  ASSUME Both
  PROVE  /\ Content = [c \in known |-> Holds(c)] /\ Content' = [c \in known' |-> Holds(c)']
         /\ \A c : Holds(c)' = IF committed'[PageOf(c)] THEN mem'[c] ELSE file'[Offset + c]
         /\ \A c \in known : /\ c \in Cell /\ PageOf(c) \in Page /\ Offset + c \in FileCell
                             /\ c < ulCurrentSize
         /\ \A c \in known' : c \in Cell /\ PageOf(c) \in Page /\ c < ulCurrentSize'
<1>1. Content' = [c \in known' |-> Holds(c)']
  <2>1. (TypeOK /\ BufferInv => Content = [c \in known |-> Holds(c)])'
    BY ContentHolds, PTL
  <2> QED BY <2>1 DEF Both, TypeInv
<1>2. \A c \in known' : c \in Cell /\ c < ulCurrentSize'
  BY DEF Both, TypeInv, TypeOK, BufferInv, KnownInSize
<1> QED BY <1>1, <1>2, ContentHolds, KnownCell, PageOfCell, ModeFixed
        DEF Both, Before, BufferInv, Holds, PageOf

\* What a step did, by the call that has returned.
LEMMA DidNext ==
  /\ ret'.call = "alloc" => Did' = IF ret'.rc = "NO_ERROR" THEN "open" ELSE "refused"
  /\ ret'.call = "free" => Did' = "close"
  /\ ret'.call = "access" => Did' = IF ret'.rc = "NO_ERROR" THEN "access" ELSE "trap"
  /\ ret'.call = "setsize" => Did' = "resize"
  /\ ret'.call = "update" =>
       Did' = IF ret'.rc = "NO_ERROR" /\ loopRc' = "NO_ERROR" THEN "stored" ELSE "update"
  /\ ret'.call \in {"none", "revert", "commit"} => Did' = ret'.call
BY DEF Did

\* An allocation is the opening of a buffer, or is refused.
LEMMA AllocKeepsPromise ==
  ASSUME Both, Alloc
  PROVE  Promise!Open \/ Promise!OpenRefused
<1>1. known = {}
  BY DEF Alloc, Both, Before, BufferInv, UnusedEmpty
<1>2. UNCHANGED <<file, cbFile>> \/ (cbFile' = 0 /\ file' = [f \in FileCell |-> Undef])
  BY DEF Alloc, AllocByName, AllocInMemory, AllocByHandle, AllocByNoHandle, fileVars
<1>3. CASE \E n \in Nat : NewEntry(n)
  <2>1. PICK n \in Nat : NewEntry(n)
    BY <1>3
  <2>2. /\ ulCurrentSize' = n /\ known' = {c \in Cell : c < n} /\ Did' = "open"
        /\ \A p \in Page : ~committed'[p]
    BY <2>1, DidNext DEF NewEntry, NoPages, Return
  <2>3. Content' = [c \in {d \in Cell : d < ulCurrentSize'} |-> file'[Offset + c]]
    BY <2>2, ContentsOfBoth
  <2> QED BY <1>1, <1>2, <2>2, <2>3 DEF Promise!Open, Promise!Known, Promise!FileCell, FileCell, Content
<1>4. CASE \E code : code # "NO_ERROR" /\ AllocRefused(code)
  <2>1. /\ UNCHANGED <<ulCurrentSize, known>> /\ Did' = "refused"
    BY <1>4, DidNext DEF AllocRefused, Return, entryVars, history
  <2>2. Content' = Content
    BY <1>1, <2>1, ContentsOfBoth
  <2> QED BY <1>1, <1>2, <2>1, <2>2
          DEF Promise!OpenRefused, Promise!Known, Promise!FileCell, FileCell, Content
<1>5. cbFile' \in Nat /\ cbFile \in Nat /\ Offset \in Nat /\ (~(cbFile < Offset) => cbFile - Offset \in Nat)
      /\ 0 \in Nat
  BY OffsetFits, Sizes DEF Both, Before, TypeInv, TypeOK
<1> QED BY <1>3, <1>4, <1>5 DEF Alloc, AllocByName, AllocInMemory, AllocByHandle, AllocByNoHandle

\* The buffer is gone.
LEMMA GoneKeepsPromise ==
  ASSUME Both, WtkFreeMmf \/ Crash
  PROVE  Promise!Close
<1>1. ulCurrentSize' = 0 /\ known' = {} /\ UNCHANGED <<file, cbFile>> /\ Did' \in {"close", "none"}
  BY DidNext DEF WtkFreeMmf, Crash, Gone, Return, fileVars
<1>2. Content' = [c \in {} |-> Undef]
  BY <1>1, ContentsOfBoth
<1> QED BY <1>1, <1>2 DEF Promise!Close, Promise!Empty, Content

\* A page that the handler commits and loads shows what was known before.
LEMMA LoadKeepsContent ==
  ASSUME Both, NEW p \in Page, UNCHANGED <<file, known>>,
         committed' = [committed EXCEPT ![p] = TRUE],
         mem' = IF committed[p] THEN mem ELSE Loaded(p)
  PROVE  Content' = Content
<1>1. ASSUME NEW c \in known PROVE Holds(c)' = Holds(c)
  <2>1. c \in Cell /\ PageOf(c) \in Page
    BY ContentsOfBoth
  <2>2. CASE committed[p] \/ PageOf(c) # p
    BY <2>1, <2>2, ContentsOfBoth DEF Holds, Loaded, Both, Before, TypeOK
  <2>3. CASE ~committed[p] /\ PageOf(c) = p
    <3>1. Loaded(p)[c] = file[Offset + c]
      BY <2>3, LoadedKnown DEF Both, Before, BufferInv
    <3> QED BY <2>1, <2>3, <3>1, ContentsOfBoth DEF Holds, Both, Before, TypeOK
  <2> QED BY <2>2, <2>3
<1> QED BY <1>1, ContentsOfBoth

\* A read that is served changes nothing but, perhaps, the size.
LEMMA ReadKeepsPromise ==
  ASSUME Both, NEW c \in Cell, c < MaxSize, Handled(c, "read"),
         mem' = (IF committed[PageOf(c)] THEN mem ELSE Loaded(PageOf(c))),
         Return("access", "NO_ERROR"), UNCHANGED history, UNCHANGED fileVars
  PROVE  Promise!Read
<1>1. /\ PageOf(c) \in Page /\ committed' = [committed EXCEPT ![PageOf(c)] = TRUE]
      /\ ulCurrentSize' >= ulCurrentSize
  BY Fault DEF Both, Before, TypeInv, TypeOK
<1>2. UNCHANGED <<file, cbFile, known>> /\ Did' = "access"
  BY DidNext DEF Return, history, fileVars
<1>3. Content' = Content
  BY <1>1, <1>2, LoadKeepsContent
<1> QED BY <1>1, <1>2, <1>3 DEF Promise!Read, Content

\* A write is known, wherever it lies below the size.
LEMMA WriteKeepsPromise ==
  ASSUME Both, NEW c \in Cell, NEW v \in AppValue, c < MaxSize, UNCHANGED fileVars,
         \/ /\ Accessible(PageOf(c), "write")
            /\ UNCHANGED <<committed, writable, ulCurrentSize>>
            /\ Put(mem, c, v)
         \/ /\ Handled(c, "write")
            /\ Put(IF committed[PageOf(c)] THEN mem ELSE Loaded(PageOf(c)), c, v)
  PROVE  Promise!Write(c, v)
<1> DEFINE p == PageOf(c)
           before == IF committed[p] THEN mem ELSE Loaded(p)
<1>1. p \in Page
  BY PageOfCell
<1>2. /\ committed' = [committed EXCEPT ![p] = TRUE] /\ ulCurrentSize' >= ulCurrentSize
      /\ mem' = [before EXCEPT ![c] = v]
      /\ known' = IF c < ulCurrentSize' THEN known \cup {c} ELSE known
      /\ Did' = "access"
  <2>1. Put(before, c, v)
    BY DEF Accessible
  <2>2. committed' = [committed EXCEPT ![p] = TRUE] /\ ulCurrentSize' >= ulCurrentSize
    <3>1. CASE Handled(c, "write")
      BY <3>1, Fault DEF Both, Before, TypeInv, TypeOK
    <3>2. CASE Accessible(p, "write") /\ UNCHANGED <<committed, ulCurrentSize>>
      BY <1>1, <3>2 DEF Accessible, Both, Before, TypeInv, TypeOK
    <3> QED BY <3>1, <3>2
  <2>3. ret' = [call |-> "access", rc |-> "NO_ERROR"]
    BY <2>1 DEF Put, Return
  <2> HIDE DEF before
  <2> QED BY <2>1, <2>2, <2>3, DidNext DEF Put
<1>3. UNCHANGED <<file, cbFile>>
  BY DEF fileVars
<1>4. before \in [Cell -> Value]
  BY <1>1, LoadedType DEF Both, Before, TypeOK
<1>5. ASSUME NEW d \in known, d # c PROVE Holds(d)' = Holds(d)
  <2>1. d \in Cell /\ PageOf(d) \in Page
    BY ContentsOfBoth
  <2>2. CASE committed[p] \/ PageOf(d) # p
    BY <1>2, <1>3, <1>4, <1>5, <2>1, <2>2, ContentsOfBoth DEF Holds, Loaded, Both, Before, TypeOK
  <2>3. CASE ~committed[p] /\ PageOf(d) = p
    <3>1. Loaded(p)[d] = file[Offset + d]
      BY <1>1, <2>3, LoadedKnown DEF Both, Before, BufferInv
    <3> QED BY <1>2, <1>3, <1>4, <1>5, <2>1, <2>3, <3>1, ContentsOfBoth DEF Holds, Both, Before, TypeOK
  <2> QED BY <2>2, <2>3
<1>6. Holds(c)' = v
  BY <1>1, <1>2, <1>4, ContentsOfBoth DEF Both, Before, TypeOK
<1>7. c < ulCurrentSize' => Content' = [d \in known \cup {c} |-> IF d = c THEN v ELSE Content[d]]
  BY <1>2, <1>5, <1>6, ContentsOfBoth
<1>8. ~(c < ulCurrentSize') => Content' = Content
  <2>1. ~(c < ulCurrentSize') => c \notin known
    <3>1. c \in Nat /\ ulCurrentSize \in Nat /\ ulCurrentSize' \in Nat
      BY Sizes DEF Both, Before, TypeInv, TypeOK
    <3> QED BY <1>2, <3>1, ContentsOfBoth
  <2> QED BY <1>2, <1>5, <2>1, ContentsOfBoth
<1>9. DOMAIN Content = known
  BY DEF Content
<1> QED BY <1>2, <1>3, <1>7, <1>8 DEF Promise!Write, Promise!Known, Content

\* An access that is not served loses at most what the file has of its page.
LEMMA TrapKeepsPromise ==
  ASSUME Both, NEW c \in Cell, NEW kind, Unhandled(c, kind), UNCHANGED fileVars
  PROVE  Promise!Trap
<1> DEFINE p == PageOf(c)
<1>1. p \in Page /\ UNCHANGED <<ulCurrentSize, file, cbFile>> /\ Did' = "trap"
  BY PageOfCell, DidNext DEF Unhandled, Return, fileVars
<1>2. /\ known' \subseteq known /\ \A d \in known' : Holds(d)' = Holds(d)
      /\ \A d \in known \ known' : Offset + d < cbFile /\ Holds(d) = file[Offset + d]
  <2>1. CASE UNCHANGED <<pageVars, known>>
    BY <1>1, <2>1, ContentsOfBoth DEF pageVars, Holds
  <2>2. CASE /\ ~committed[p] /\ committed' = [committed EXCEPT ![p] = TRUE]
             /\ mem' = Blank(p) /\ known' = known \ CellsOf(p)
    <3>1. \A d \in known' : d \in Cell /\ PageOf(d) \in Page /\ PageOf(d) # p
      BY <2>2, ContentsOfBoth DEF CellsOf
    <3>2. \A d \in known' : committed'[PageOf(d)] = committed[PageOf(d)] /\ mem'[d] = mem[d]
      BY <2>2, <3>1 DEF Blank, Both, Before, TypeOK
    <3>3. \A d \in known \ known' : Offset + d < cbFile /\ ~committed[PageOf(d)]
      BY <2>2 DEF CellsOf, Both, Before, BufferInv, KnownInFile
    <3> QED BY <1>1, <2>2, <3>2, <3>3, ContentsOfBoth DEF Holds
  <2>3. CASE /\ committed' = [committed EXCEPT ![p] = TRUE] /\ UNCHANGED known
             /\ mem' = IF committed[p] THEN mem ELSE Loaded(p)
    <3>1. Content' = Content
      BY <1>1, <2>3, LoadKeepsContent
    <3>2. \A d \in known : Content'[d] = Content[d]
      BY <3>1
    <3> QED BY <2>3, <3>2, ContentsOfBoth
  <2> QED BY <2>1, <2>2, <2>3 DEF Unhandled
<1>3. Content' = [d \in known \cap known' |-> Content[d]]
  BY <1>2, ContentsOfBoth
<1>4. DOMAIN Content = known /\ DOMAIN Content' = known'
  BY ContentsOfBoth
<1>5. \A d \in known \ known' : Offset + d < cbFile /\ Content[d] = file[Offset + d]
  BY <1>2, ContentsOfBoth
<1> QED BY <1>1, <1>3, <1>4, <1>5 DEF Promise!Trap, Promise!Keep, Promise!Known, Content

\* Every access is a read, a write or a trap of the promise.
LEMMA AccessKeepsPromise ==
  ASSUME Both, NEW c \in Cell
  PROVE  /\ AppRead(c) => Promise!Read \/ Promise!Trap
         /\ \A v \in AppValue : AppWrite(c, v) => Promise!Write(c, v) \/ Promise!Trap
<1>1. ASSUME AppRead(c) PROVE Promise!Read \/ Promise!Trap
  BY <1>1, ReadKeepsPromise, TrapKeepsPromise DEF AppRead
<1>2. ASSUME NEW v \in AppValue, AppWrite(c, v) PROVE Promise!Write(c, v) \/ Promise!Trap
  BY <1>2, WriteKeepsPromise, TrapKeepsPromise DEF AppWrite
<1> QED BY <1>1, <1>2

\* A step of WtkUpdateMmf that keeps the size, what is known and what it holds, and
\* changes the file only behind the offset, where it stores what the buffer holds.
LEMMA StorePartOfPromise ==
  ASSUME Both, UNCHANGED <<ulCurrentSize, known>>, Did' \in {"none", "update"},
         \A f \in FileCell : f < Offset => file'[f] = file[f],
         \A c \in known : file'[Offset + c] \in {file[Offset + c], Holds(c)},
         \A c \in known : Holds(c)' = Holds(c)
  PROVE  Promise!StorePart
<1>1. Content' = Content
  BY ContentsOfBoth
<1>2. DOMAIN Content = known /\ \A c \in known : Content[c] = Holds(c)
  BY ContentsOfBoth
<1> QED BY <1>1, <1>2 DEF Promise!StorePart, Promise!Known, Promise!FileCell, FileCell, Content

\* The call begins, or is refused.
LEMMA BeginKeepsPromise ==
  ASSUME Both, UpdateBegin
  PROVE  Promise!Refuse
<1>1. /\ UNCHANGED <<ulCurrentSize, known, committed, mem, file, cbFile>>
      /\ Did' \in {"update", "none"}
  BY DidNext DEF UpdateBegin, Return, entryVars, history, pageVars, fileVars
<1>2. \A c \in known : Holds(c)' = Holds(c)
  BY <1>1, ContentsOfBoth DEF Holds
<1>3. Content' = Content
  BY <1>1, <1>2, ContentsOfBoth
<1> QED BY <1>1, <1>3 DEF Promise!Refuse, Content

\* A page that is stored as a whole is in the file when it is released.
LEMMA WritePageKeepsPromise ==
  ASSUME Both, UpdateWritePage
  PROVE  Promise!StorePart
<1>1. /\ UNCHANGED <<ulCurrentSize, ret, known>> /\ pc = "update" /\ pos \in Page
      /\ PageStart(pos) < ulCurrentSize /\ writable[pos]
  BY DEF UpdateWritePage, InLoop, entryVars
<1>2. Store(pos, PageSize)
  BY <1>1, WholePageStored DEF UpdateWritePage, Both, Before, BufferInv
<1>3. /\ \A f \in FileCell : f < Offset => file'[f] = file[f]
      /\ \A c \in Cell : PageOf(c) # pos => file'[Offset + c] = file[Offset + c]
      /\ \A c \in Cell : PageOf(c) = pos => file'[Offset + c] = mem[c]
  BY <1>1, <1>2, StoreEffect, Sizes DEF Both, Before
<1>4. committed[pos]
  BY <1>1 DEF Both, Before, BufferInv, WritableCommitted
<1>5. /\ committed'[pos] => UNCHANGED mem
      /\ \A q \in Page : q # pos => committed'[q] = committed[q]
      /\ \A c \in Cell : PageOf(c) # pos => mem'[c] = mem[c]
  <2>1. CASE Decommit({pos})
    BY <2>1, <1>1, DecommitEffect DEF Both, Before
  <2>2. CASE UNCHANGED <<committed, mem>>
    BY <2>2
  <2> QED BY <2>1, <2>2 DEF UpdateWritePage
<1>6. ASSUME NEW c \in known
      PROVE  Holds(c)' = Holds(c) /\ file'[Offset + c] \in {file[Offset + c], Holds(c)}
  <2>1. c \in Cell /\ PageOf(c) \in Page
    BY ContentsOfBoth
  <2>2. CASE PageOf(c) = pos
    BY <2>1, <2>2, <1>3, <1>4, <1>5, ContentsOfBoth DEF Holds
  <2>3. CASE PageOf(c) # pos
    BY <2>1, <2>3, <1>3, <1>5, ContentsOfBoth DEF Holds
  <2> QED BY <2>2, <2>3
<1>7. Did' = "none"
  BY <1>1, DidNext DEF Both, Before, BufferInv, UpdateAllowed
<1> QED BY <1>1, <1>3, <1>6, <1>7, StorePartOfPromise

\* A page that is passed over is in the file already.
LEMMA SkipPageKeepsPromise ==
  ASSUME Both, UpdateSkipPage
  PROVE  Promise!StorePart
<1>1. /\ UNCHANGED <<ulCurrentSize, ret, known, file>> /\ pc = "update" /\ pos \in Page /\ ~writable[pos]
  BY DEF UpdateSkipPage, InLoop, entryVars, fileVars, history
<1>2. /\ committed'[pos] => committed[pos] /\ UNCHANGED mem
      /\ \A q \in Page : q # pos => committed'[q] = committed[q]
      /\ \A c \in Cell : PageOf(c) # pos => mem'[c] = mem[c]
  <2>1. CASE Decommit({pos})
    BY <2>1, <1>1, DecommitEffect DEF Both, Before
  <2>2. CASE UNCHANGED pageVars
    BY <2>2 DEF pageVars
  <2> QED BY <2>1, <2>2 DEF UpdateSkipPage
<1>3. \A c \in known : PageOf(c) = pos /\ committed[pos] => mem[c] = file[Offset + c]
  BY <1>1 DEF Both, Before, BufferInv, CleanPagesAreStored, UpdateAllowed
<1>4. ASSUME NEW c \in known PROVE Holds(c)' = Holds(c)
  <2>1. c \in Cell /\ PageOf(c) \in Page
    BY ContentsOfBoth
  <2>2. CASE PageOf(c) = pos
    BY <2>1, <2>2, <1>1, <1>2, <1>3, ContentsOfBoth DEF Holds
  <2>3. CASE PageOf(c) # pos
    BY <2>1, <2>3, <1>1, <1>2, ContentsOfBoth DEF Holds
  <2> QED BY <2>2, <2>3
<1>5. Did' = "none"
  BY <1>1, DidNext DEF Both, Before, BufferInv, UpdateAllowed
<1> QED BY <1>1, <1>4, <1>5, StorePartOfPromise

\* A store that fails has written a part of what the buffer holds.
LEMMA FailPageKeepsPromise ==
  ASSUME Both, UpdateFailPage
  PROVE  Promise!StorePart
<1>1. /\ UNCHANGED <<ulCurrentSize, ret, known, committed, mem>> /\ pc = "update" /\ pos \in Page
      /\ PageStart(pos) < ulCurrentSize /\ writable[pos]
  BY DEF UpdateFailPage, InLoop, entryVars, pageVars, history
<1>2. committed[pos]
  BY <1>1 DEF Both, Before, BufferInv, WritableCommitted
<1>3. /\ \A f \in FileCell : f < Offset => file'[f] = file[f]
      /\ \A c \in Cell : PageOf(c) # pos => file'[Offset + c] = file[Offset + c]
      /\ \A c \in Cell : file'[Offset + c] \in {file[Offset + c], mem[c]}
  <2>1. CASE UNCHANGED fileVars
    BY <2>1 DEF fileVars
  <2>2. CASE \E n \in 0 .. BytesToWrite(pos) - 1 : Store(pos, n)
    <3>1. PICK n \in 0 .. PageSize : Store(pos, n)
      BY <2>2, <1>1, WholePageStored, Sizes DEF Both, Before, BufferInv
    <3>2. ASSUME NEW c \in Cell PROVE file'[Offset + c] \in {file[Offset + c], mem[c]}
      <4>1. Offset + c \in FileCell /\ (Offset + c) - Offset = c
        BY OffsetFits, Sizes DEF Both, Before
      <4> QED BY <3>1, <4>1 DEF Store
    <3> QED BY <3>1, <3>2, <1>1, StoreEffect DEF Both, Before
  <2> QED BY <2>1, <2>2 DEF UpdateFailPage
<1>4. ASSUME NEW c \in known
      PROVE  Holds(c)' = Holds(c) /\ file'[Offset + c] \in {file[Offset + c], Holds(c)}
  <2>1. c \in Cell /\ PageOf(c) \in Page
    BY ContentsOfBoth
  <2>2. CASE PageOf(c) = pos
    BY <2>1, <2>2, <1>1, <1>2, <1>3, ContentsOfBoth DEF Holds
  <2>3. CASE PageOf(c) # pos
    BY <2>1, <2>3, <1>1, <1>3, ContentsOfBoth DEF Holds
  <2> QED BY <2>2, <2>3
<1>5. Did' = "none"
  BY <1>1, DidNext DEF Both, Before, BufferInv, UpdateAllowed
<1> QED BY <1>1, <1>3, <1>4, <1>5, StorePartOfPromise

\* What is stored behind the buffer does not concern what is known of it.
LEMMA OutsideKeepsPromise ==
  ASSUME Both, UpdateOutside
  PROVE  Promise!StorePart
<1>1. /\ UNCHANGED <<ulCurrentSize, ret, known, committed, mem>> /\ pc = "update" /\ pos \notin Page
      /\ pos \in Nat
  BY DEF UpdateOutside, InLoop, entryVars, pageVars, history, Both, Before, TypeOK
<1>2. /\ \A f \in FileCell : f < Offset => file'[f] = file[f]
      /\ \A c \in Cell : file'[Offset + c] = file[Offset + c]
  <2>1. UNCHANGED fileVars \/ StoreForeign
    BY DEF UpdateOutside
  <2> QED BY <2>1, <1>1, ForeignEffect DEF fileVars, Both, Before
<1>3. \A c \in known : Holds(c)' = Holds(c) /\ file'[Offset + c] = file[Offset + c]
  BY <1>1, <1>2, ContentsOfBoth DEF Holds
<1>4. Did' = "none"
  BY <1>1, DidNext DEF Both, Before, BufferInv, UpdateAllowed
<1> QED BY <1>1, <1>2, <1>3, <1>4, StorePartOfPromise

\* The call reports success only when all that is known is in the file.
LEMMA FinishKeepsPromise ==
  ASSUME Both, UpdateFinish
  PROVE  Promise!StorePart \/ Promise!Stored
<1>1. /\ UNCHANGED <<ulCurrentSize, committed, mem, known, loopRc>> /\ ret'.call = "update"
      /\ \/ /\ ret'.rc = "NO_ERROR" /\ cbFile' = ulCurrentSize + Offset
            /\ file' = [f \in FileCell |-> IF f < cbFile' THEN file[f] ELSE Undef]
         \/ ret'.rc = "IO_ERROR" /\ UNCHANGED <<file, cbFile>>
  BY DEF UpdateFinish, pageVars, history, Return, fileVars
<1>2. ulCurrentSize \in Nat /\ Offset \in Nat /\ FileCell \subseteq Nat
  BY OffsetFits, Sizes DEF Both, Before, TypeOK
<1>3. \A f \in FileCell : f < Offset => file'[f] = file[f]
  BY <1>1, <1>2
<1>4. ASSUME NEW c \in known PROVE file'[Offset + c] = file[Offset + c] /\ Holds(c)' = Holds(c)
  <2>1. c \in Cell /\ c \in Nat /\ Offset + c \in FileCell /\ c < ulCurrentSize
    BY ContentsOfBoth, Sizes
  <2>2. file'[Offset + c] = file[Offset + c]
    BY <1>1, <1>2, <2>1
  <2> QED BY <1>1, <2>2, ContentsOfBoth DEF Holds
<1>5. CASE ret'.rc = "NO_ERROR" /\ loopRc' = "NO_ERROR"
  <2>1. \A c \in known : file'[Offset + c] = Contents(c)' /\ cbFile' = (Offset + ulCurrentSize)'
    <3>1. ret' = [call |-> "update", rc |-> "NO_ERROR"]
      BY <1>5 DEF UpdateFinish, Return
    <3>2. StoredIsInFile'
      BY DEF Both, BufferInv
    <3> QED BY <1>1, <1>5, <3>1, <3>2, ModeFixed DEF StoredIsInFile, Both, Before
  <2>2. \A c \in known : Contents(c)' = Holds(c)'
    <3>1. \A c \in known : Content'[c] = Contents(c)' /\ Content'[c] = Holds(c)'
      BY <1>1, ContentsOfBoth DEF Content
    <3> QED BY <3>1
  <2>3. Content' = Content /\ DOMAIN Content = known /\ \A c \in known : Content[c] = Holds(c)
    BY <1>1, <1>4, ContentsOfBoth
  <2>4. cbFile' = Offset + ulCurrentSize
    BY <1>1, <1>2, <1>5
  <2>5. Did' = "stored"
    BY <1>1, <1>5, DidNext
  <2> QED BY <1>1, <1>3, <1>4, <2>1, <2>2, <2>3, <2>4, <2>5
          DEF Promise!Stored, Promise!Known, Promise!FileCell, FileCell, Content
<1>6. CASE ~(ret'.rc = "NO_ERROR" /\ loopRc' = "NO_ERROR")
  <2>1. Did' = "update"
    BY <1>1, <1>6, DidNext
  <2> QED BY <1>1, <1>3, <1>4, <2>1, StorePartOfPromise
<1> QED BY <1>5, <1>6

\* Reverting asks for the file again, where there is one.
LEMMA RevertKeepsPromise ==
  ASSUME Both, WtkRevertMmf
  PROVE  Promise!Discard \/ Promise!Refuse
<1>1. UNCHANGED <<ulCurrentSize, file, cbFile>> /\ Did' = "revert"
  BY DidNext DEF WtkRevertMmf, entryVars, fileVars, Return
<1>2. CASE ~HasHandle
  <2>1. UNCHANGED <<committed, mem, known>>
    BY <1>2 DEF WtkRevertMmf, pageVars, history
  <2>2. Content' = Content
    BY <1>1, <2>1, ContentsOfBoth DEF Holds
  <2> QED BY <1>1, <2>2 DEF Promise!Refuse, Content
<1>3. CASE HasHandle
  <2>1. /\ \A p \in Page : PageStart(p) < ulCurrentSize => ~committed'[p]
        /\ known' = IF ValidHandle THEN InFile(ulCurrentSize) ELSE {}
    BY <1>3 DEF WtkRevertMmf, Decommit
  <2>2. ~ValidHandle => InFile(ulCurrentSize) = {}
    <3>1. ASSUME ~ValidHandle, NEW c \in Cell, Offset + c < cbFile PROVE FALSE
      <4>1. Source = "memory"
        BY <1>3, <3>1, ModeAssumption DEF HasHandle, ValidHandle, Source, Mode, Both, Before, TypeOK
      <4>2. cbFile = 0
        BY <4>1 DEF Both, NoFileBehind
      <4> QED BY <3>1, <4>2, OffsetFits, Sizes DEF Both, Before
    <3> QED BY <3>1 DEF InFile
  <2>3. known' = InFile(ulCurrentSize)
    BY <2>1, <2>2
  <2>4. ASSUME NEW c \in known' PROVE Holds(c)' = file[Offset + c]
    <3>1. c \in Cell /\ c \in Nat /\ c < ulCurrentSize /\ PageOf(c) \in Page
      BY <1>1, ContentsOfBoth, Sizes
    <3>2. PageStart(PageOf(c)) < ulCurrentSize
      <4>1. PageStart(PageOf(c)) <= c /\ PageStart(PageOf(c)) \in Nat
        BY <3>1, CellInPage, PageInBuffer
      <4> QED BY <3>1, <4>1 DEF Both, Before, TypeOK
    <3> QED BY <1>1, <2>1, <3>1, <3>2, ContentsOfBoth
  <2>5. Content' = [c \in InFile(ulCurrentSize) |-> file[Offset + c]]
    BY <2>3, <2>4, ContentsOfBoth
  <2> QED BY <1>1, <2>5 DEF Promise!Discard, Promise!InFile, InFile, Content
<1> QED BY <1>2, <1>3

\* What lies behind a new size is forgotten.
LEMMA SetSizeKeepsPromise ==
  ASSUME Both, NEW n \in 0 .. MaxSize + 1, WtkSetMmfSize(n)
  PROVE  Promise!Resize \/ Promise!Refuse
<1>1. UNCHANGED <<committed, mem, file, cbFile>> /\ Did' = "resize"
  BY DidNext DEF WtkSetMmfSize, pageVars, fileVars, Return
<1>2. \A c : Holds(c)' = Holds(c)
  BY <1>1, ContentsOfBoth DEF Holds
<1>3. CASE n > MaxSize
  <2>1. UNCHANGED <<ulCurrentSize, known>>
    BY <1>3 DEF WtkSetMmfSize
  <2>2. Content' = Content
    BY <1>2, <2>1, ContentsOfBoth
  <2> QED BY <1>1, <2>1, <2>2 DEF Promise!Refuse, Content
<1>4. CASE ~(n > MaxSize)
  <2>1. ulCurrentSize' = n /\ known' = {c \in known : c < n} /\ n \in 0 .. MaxSize
    BY <1>4, Sizes DEF WtkSetMmfSize
  <2>2. known' = known \cap {c \in Cell : c < ulCurrentSize'}
    BY <2>1, ContentsOfBoth
  <2>3. Content' = [c \in known \cap {d \in Cell : d < ulCurrentSize'} |-> Content[c]]
    BY <1>2, <2>2, ContentsOfBoth
  <2>4. DOMAIN Content = known
    BY DEF Content
  <2> QED BY <1>1, <2>1, <2>3, <2>4 DEF Promise!Resize, Promise!Keep, Promise!Known, Content
<1> QED BY <1>3, <1>4

\* Committing pages reads the file into some of them.
LEMMA CommitKeepsPromise ==
  ASSUME Both, NEW range \in SUBSET Page, WtkCommitMmf(range)
  PROVE  Promise!Reload
<1>1. PICK done \in SUBSET range, read \in SUBSET range :
        LET cellsRead == {c \in Cell : PageOf(c) \in read} IN
        /\ read \subseteq done
        /\ committed' = [p \in Page |-> committed[p] \/ p \in done]
        /\ mem' = [c \in Cell |->
                     IF c \notin cellsRead THEN mem[c]
                     ELSE IF ~HasHandle THEN Undef
                     ELSE IF c < cbFile THEN file[c] ELSE mem[c]]
        /\ known' = {c \in known : PageOf(c) \in done => committed[PageOf(c)] /\ c \notin cellsRead}
                    \cup (IF ValidHandle /\ Offset = 0
                          THEN cellsRead \cap InFile(ulCurrentSize) ELSE {})
  BY DEF WtkCommitMmf
<1>2. UNCHANGED <<ulCurrentSize, file, cbFile>> /\ Did' = "commit"
  BY DidNext DEF WtkCommitMmf, Return, entryVars, fileVars
<1>3. ASSUME NEW c \in known'
      PROVE  \/ c \in known /\ Holds(c)' = Holds(c)
             \/ c \in InFile(ulCurrentSize) /\ Holds(c)' = file[Offset + c]
  <2>1. c \in Cell /\ PageOf(c) \in Page
    BY ContentsOfBoth
  <2>2. CASE c \in known /\ (PageOf(c) \in done => committed[PageOf(c)] /\ PageOf(c) \notin read)
    BY <1>1, <1>2, <2>1, <2>2, ContentsOfBoth DEF Holds, Both, Before, TypeOK
  <2>3. CASE /\ ValidHandle /\ Offset = 0
             /\ PageOf(c) \in read /\ c \in InFile(ulCurrentSize)
    <3>1. committed'[PageOf(c)] /\ HasHandle
      BY <1>1, <2>1, <2>3, ModeFixed DEF Both, Before
    <3>2. c \in Nat /\ Offset + c = c /\ c < cbFile
      BY <2>1, <2>3, Sizes DEF InFile
    <3> QED BY <1>1, <1>2, <2>1, <2>3, <3>1, <3>2, ContentsOfBoth
  <2> QED BY <1>1, <2>1, <2>2, <2>3
<1>4. /\ DOMAIN Content' = known' /\ \A c \in known' : Content'[c] = Holds(c)'
      /\ DOMAIN Content = known /\ \A c \in known : Content[c] = Holds(c)
  BY ContentsOfBoth
<1>5. \A c \in DOMAIN Content' :
        \/ c \in known /\ Content'[c] = Content[c]
        \/ c \in InFile(ulCurrentSize) /\ Content'[c] = file[Offset + c]
  BY <1>3, <1>4
<1> QED BY <1>2, <1>4, <1>5 DEF Promise!Reload, Promise!Known, Promise!InFile, InFile, Content

\* A buffer in memory has no file to begin with, and no step gives it one.
LEMMA InitNoFile == Init => NoFileBehind
<1>1. \A m \in Modes : m.source = "memory" => m.length = 0
  BY ModeAssumption
<1> QED BY <1>1 DEF Init, NoFileBehind, Source

\* No step stores a buffer in memory.
LEMMA NextNoFile == NoFileBehind /\ [Next]_vars => NoFileBehind'
<1> SUFFICES ASSUME NoFileBehind, [Next]_vars, Source' = "memory" PROVE cbFile' = 0
  BY DEF NoFileBehind
<1>1. Source = "memory" /\ cbFile = 0 /\ ~ValidHandle
  BY DEF Next, vars, Source, NoFileBehind, ValidHandle
<1>2. cbFile' = cbFile
  BY <1>1 DEF Next, vars, fileVars, Alloc, AllocByName, AllocInMemory, AllocByHandle, AllocByNoHandle,
      WtkFreeMmf, Crash, Gone, AppRead, AppWrite, WtkUpdateMmf, UpdateBegin, UpdateWritePage,
      UpdateSkipPage, UpdateFailPage, UpdateOutside, UpdateFinish, WtkRevertMmf, WtkSetMmfSize,
      WtkCommitMmf
<1> QED BY <1>1, <1>2

\* The promise begins as the buffer does.
LEMMA InitKeepsPromise == Init => Promise!Init
<1> SUFFICES ASSUME Init PROVE Promise!Init
  OBVIOUS
<1>1. /\ TypeOK /\ known = {} /\ ulCurrentSize = 0 /\ Did = "none"
  BY InitType DEF Init, TypeInv, Did
<1>2. Content = [c \in {} |-> Undef]
  BY <1>1 DEF Content
<1>3. Offset \in Nat /\ file \in [FileCell -> Value] /\ cbFile \in 0 .. FileMax
  BY <1>1, OffsetFits DEF TypeOK
<1> QED BY <1>1, <1>2, <1>3 DEF Promise!Init, Promise!Empty, Promise!FileCell, FileCell, Content

\* Each step of the buffer is one of the promise, or none.
LEMMA NextKeepsPromise ==
  TypeInv /\ BufferInv /\ NoFileBehind /\ [Next]_vars => [Promise!Next]_(Promise!vars)
<1> SUFFICES ASSUME TypeInv, BufferInv, NoFileBehind, [Next]_vars
             PROVE  [Promise!Next]_(Promise!vars)
  OBVIOUS
<1>1. CASE UNCHANGED vars
  <2>1. UNCHANGED <<ulCurrentSize, known, committed, mem, file, cbFile, mode, ret, loopRc>>
    BY <1>1 DEF vars, entryVars, pageVars, fileVars, callVars, history
  <2>2. Content' = Content /\ Did' = Did /\ Offset' = Offset
    BY <2>1 DEF Content, Contents, Did, Offset, HasHandle, Source
  <2> QED BY <2>1, <2>2 DEF Promise!vars, Content
<1>2. CASE Next
  <2>1. Both
    BY <1>2, NextInv DEF Next, Both, Before, TypeInv
  <2>2. UNCHANGED Offset
    BY <2>1, ModeFixed DEF Both, Before
  <2>3. \A first, last \in Page : {p \in Page : first <= p /\ p <= last} \in SUBSET Page
    OBVIOUS
  <2>4. \/ Promise!Open \/ Promise!OpenRefused \/ Promise!Close
        \/ Promise!Read \/ (\E c \in Cell, v \in AppValue : Promise!Write(c, v)) \/ Promise!Trap
        \/ Promise!Resize \/ Promise!Refuse
        \/ Promise!StorePart \/ Promise!Stored
        \/ Promise!Discard \/ Promise!Reload
    <3>1. CASE Alloc \/ WtkFreeMmf \/ Crash
      BY <2>1, <3>1, AllocKeepsPromise, GoneKeepsPromise
    <3>2. CASE \E c \in Cell : AppRead(c) \/ \E v \in AppValue : AppWrite(c, v)
      BY <2>1, <3>2, AccessKeepsPromise
    <3>3. CASE WtkUpdateMmf
      BY <2>1, <3>3, BeginKeepsPromise, WritePageKeepsPromise, SkipPageKeepsPromise,
         FailPageKeepsPromise, OutsideKeepsPromise, FinishKeepsPromise DEF WtkUpdateMmf
    <3>4. CASE WtkRevertMmf \/ \E n \in 0 .. MaxSize + 1 : WtkSetMmfSize(n)
      BY <2>1, <3>4, RevertKeepsPromise, SetSizeKeepsPromise
    <3>5. CASE \E first, last \in Page :
                 first <= last /\ WtkCommitMmf({p \in Page : first <= p /\ p <= last})
      BY <2>1, <2>3, <3>5, CommitKeepsPromise
    <3> QED BY <1>2, <3>1, <3>2, <3>3, <3>4, <3>5 DEF Next
  <2> QED BY <2>2, <2>4 DEF Promise!Next
<1> QED BY <1>1, <1>2

\* The buffer implements its promise, whatever the sizes, the file and the mode.
THEOREM PromiseKept == Spec => KeepsPromise
<1> QED BY InitType, InitInv, NextInv, InitNoFile, NextNoFile, InitKeepsPromise, NextKeepsPromise, PTL
        DEF Spec, KeepsPromise, Promise!Spec

=============================================================================
