-------------------------- MODULE MmfEntries_proofs --------------------------
(***************************************************************************)
(* Proofs about the MMF manager: the table of the managers of threads      *)
(* (MmfTable), for any number of threads, slots and objects, and the       *)
(* entries of the managers, which are built on it (MmfEntries).            *)
(*                                                                         *)
(* The managers' table stays correct while buffers are allocated, updated  *)
(* and freed, and when threads call WtkTerminateMmf for each other: each   *)
(* step of MmfEntries is one of MmfTable, leaves its variables alone, or   *)
(* is such a call, which in orderly circumstances reads only managers that *)
(* are allocated.                                                          *)
(*                                                                         *)
(* The entries stay correct with it.  The files and the memory are seen as *)
(* a state of their own (FileSystem), the buffers of all managers as one   *)
(* function from places to entries (Held): lemmas say what freeing, adding *)
(* and changing one of them does to the two parts of the invariant,        *)
(* BuffersFit and StampsFit, and each step is then one or several of them. *)
(***************************************************************************)
EXTENDS MmfEntries, FoldLemmas, WellFoundedInduction, TLAPS

-----------------------------------------------------------------------------
(* The table of managers, by itself.                                       *)

\* A set of slots that is not empty has a largest one: where the search of the
\* table, which goes on after a match, ends.
LEMMA LargestSlot ==
  ASSUME NEW S \in SUBSET Slot, S # {}
  PROVE  \E s \in S : \A r \in S : r <= s
<1> DEFINE Distance == {MMF_MAXINSTANCES - s : s \in S}
<1>1. MMF_MAXINSTANCES \in Nat
  BY TableAssumption
<1>2. \A s \in S : s \in Nat /\ s < MMF_MAXINSTANCES
  BY <1>1 DEF Slot
<1>3. Distance \subseteq Nat /\ Distance # {}
  BY <1>1, <1>2
<1>4. PICK d \in Distance : \A e \in Distance : ~(<<e, d>> \in OpToRel(<, Nat))
  <2> HIDE DEF Distance
  <2> QED BY <1>3, WFMin, NatLessThanWellFounded
<1>5. PICK s \in S : d = MMF_MAXINSTANCES - s
  BY <1>4
<1>6. ASSUME NEW r \in S PROVE r <= s
  <2>1. MMF_MAXINSTANCES - r \in Distance
    OBVIOUS
  <2>2. ~(<<MMF_MAXINSTANCES - r, d>> \in OpToRel(<, Nat))
    BY <1>4, <2>1
  <2>3. ~(MMF_MAXINSTANCES - r < MMF_MAXINSTANCES - s)
    BY <2>2, <1>1, <1>2, <1>5, <1>3, <2>1 DEF OpToRel
  <2> QED BY <2>3, <1>1, <1>2
<1> QED BY <1>6

\* The search returns a manager from the table, or nothing.
LEMMA LocatedInTable ==
  ASSUME TypeOK, NEW t \in Thread
  PROVE  /\ Located(t) \in Object \cup {NoObject}
         /\ SlotsOf(t) # {} => \E s \in SlotsOf(t) : Located(t) = apmmf[s]
<1>1. SlotsOf(t) \in SUBSET Slot
  BY DEF SlotsOf, Used
<1>2. CASE SlotsOf(t) = {}
  BY <1>2 DEF Located
<1>3. CASE SlotsOf(t) # {}
  <2>1. \E s \in SlotsOf(t) : \A r \in SlotsOf(t) : r <= s
    BY <1>1, <1>3, LargestSlot
  <2> DEFINE last == CHOOSE s \in SlotsOf(t) : \A r \in SlotsOf(t) : r <= s
  <2>2. last \in SlotsOf(t)
    BY <2>1
  <2>3. Located(t) = apmmf[last]
    BY <1>3 DEF Located
  <2>4. apmmf[last] \in Object \cup {NoObject}
    BY <2>2, <1>1 DEF TypeOK
  <2> QED BY <2>2, <2>3, <2>4
<1> QED BY <1>2, <1>3

-----------------------------------------------------------------------------
(* Types *)

TypeInv == TypeOK /\ NewKnown

\* In the first states every variable has its type.
LEMMA InitType == Init => TypeInv
<1> SUFFICES ASSUME Init PROVE TypeInv
  OBVIOUS
<1>1. mode \in Mode
  BY TableAssumption DEF Init
<1>2. mode.initialized \in BOOLEAN
  BY <1>1 DEF Mode
<1>3. fInitialized \in BOOLEAN
  BY <1>2, Zenon DEF Init
<1>4. apmmf \in [Slot -> Object \cup {NoObject}] /\ slot \in [Thread -> Slot]
  BY TableAssumption DEF Init, Slot
<1>5. /\ tid \in [Object -> Thread \cup {NoThread}]
      /\ chain \in [Thread -> SUBSET Object]
      /\ new \in [Thread -> Object \cup {NoObject}]
      /\ hmmf \in [Thread -> Object \cup {NoObject}]
  BY DEF Init
<1>6. NewKnown
  BY DEF Init, NewKnown
<1>7. pc \in [Thread -> {"idle"}] /\ rc \in [Thread -> {"NO_ERROR"}]
  BY DEF Init
<1>8. mode \in Modes /\ mutex = NoThread /\ allocated = {} /\ useAfterFree \in BOOLEAN
  BY DEF Init
<1> QED BY <1>3, <1>4, <1>5, <1>6, <1>7, <1>8 DEF TypeInv, TypeOK

\* Every step keeps the types, one case per action.
LEMMA NextType == TypeInv /\ [Next]_vars => TypeInv'
<1> SUFFICES ASSUME TypeInv, [Next]_vars PROVE TypeInv'
  OBVIOUS
<1>0. TypeOK /\ NewKnown
  BY DEF TypeInv
<1> USE DEF TypeInv, TypeOK, NewKnown, Goto, Return
<1>1. CASE UNCHANGED vars
  BY <1>1 DEF vars, tableVars, heapVars, threadVars
<1>2. CASE Next
  <2>0. 0 \in Slot /\ mode.threads \subseteq Thread
    BY TableAssumption DEF Slot, Mode
  <2> USE <2>0 DEF tableVars, heapVars, threadVars
  <2>s. UNCHANGED mode
    BY <1>2 DEF Next
  <2>1. PICK t \in mode.threads :
       \/ WtkInitializeMmf(t)
       \/ InitializeTest(t) \/ InitializeClear(t) \/ InitializeMark(t)
       \/ LocateManager(t)
       \/ CreateScan(t) \/ CreateNothing(t) \/ CreateEnter(t)
       \/ CreateRegister(t) \/ CreateFail(t)
       \/ UseHandle(t)
       \/ WtkTerminateMmf(t) \/ TerminateFree(t)
       \/ ThreadEnds(t)
    BY <1>2 DEF Next
  <2>2. CASE WtkInitializeMmf(t)
    BY <2>2, <2>s DEF WtkInitializeMmf
  <2>3. CASE InitializeTest(t)
    BY <2>3, <2>s DEF InitializeTest
  <2>4. CASE InitializeClear(t)
    BY <2>4, <2>s DEF InitializeClear
  <2>5. CASE InitializeMark(t)
    BY <2>5, <2>s DEF InitializeMark
  <2>6. CASE LocateManager(t)
    BY <2>6, <2>s, LocatedInTable DEF LocateManager, Search
  <2>7. CASE CreateScan(t)
    BY <2>7, <2>s DEF CreateScan, FreeSlots
  <2>8. CASE CreateNothing(t)
    BY <2>8, <2>s DEF CreateNothing
  <2>9. CASE CreateEnter(t)
    BY <2>9, <2>s, TableAssumption DEF CreateEnter
  <2>10. CASE CreateRegister(t)
    BY <2>10, <2>s DEF CreateRegister
  <2>11. CASE CreateFail(t)
    BY <2>11, <2>s DEF CreateFail
  <2>12. CASE UseHandle(t)
    BY <2>12, <2>s DEF UseHandle, Search
  <2>13. CASE WtkTerminateMmf(t)
    BY <2>13, <2>s DEF WtkTerminateMmf, ChainAfter
  <2>14. CASE TerminateFree(t)
    <3>1. tid' \in [Object -> Thread \cup {NoThread}]
      BY <2>14 DEF TerminateFree
    <3>2. apmmf' \in [Slot -> Object \cup {NoObject}] /\ slot' \in [Thread -> Slot]
      BY <2>14 DEF TerminateFree, SlotAfter
    <3> QED BY <2>14, <2>s, <3>1, <3>2 DEF TerminateFree
  <2>15. CASE ThreadEnds(t)
    BY <2>15, <2>s DEF ThreadEnds
  <2> QED BY <2>1, <2>2, <2>3, <2>4, <2>5, <2>6, <2>7, <2>8, <2>9, <2>10, <2>11,
             <2>12, <2>13, <2>14, <2>15
<1> QED BY <1>1, <1>2

\* Every variable of the table of managers stays in its type, whatever fails
\* and however the first calls overlap.
THEOREM TypeCorrect == Spec => []TypeOK
<1>1. TypeInv => TypeOK
  BY DEF TypeInv
<1> QED BY <1>1, InitType, NextType, PTL DEF Spec

-----------------------------------------------------------------------------
(* The table in orderly circumstances *)

\* With one manager per thread, the search finds it wherever it is.
LEMMA LocatedIsOnly ==
  ASSUME TypeOK, OneEntry, NEW t \in Thread, NEW s \in SlotsOf(t)
  PROVE  Located(t) = apmmf[s]
<1>1. PICK r \in SlotsOf(t) : Located(t) = apmmf[r]
  BY LocatedInTable
<1>2. r = s
  BY DEF OneEntry
<1> QED BY <1>1, <1>2

\* The steps at which a thread holds the mutex.
Section == {"enter", "register", "free"}

\* What every step lemma below assumes.
Before(t) == TypeOK /\ NewKnown /\ Orderly /\ OrderlyInv /\ t \in Thread /\ UNCHANGED mode

\* While a thread is in a section no other thread is, and none is while the
\* mutex is free.
LEMMA Exclusion ==
  ASSUME TypeOK, MutexOwner, NEW t \in Thread
  PROVE  /\ mutex = NoThread => pc[t] \notin Section
         /\ \A u \in Thread : pc[t] \in Section /\ u # t => pc[u] \notin Section
BY TableAssumption DEF MutexOwner, Section

\* The handle of a thread is what the search finds for the thread.
LEMMA HandleLocated ==
  ASSUME NEW t \in Thread, TypeOK, OneEntry, HandleEntered, hmmf[t] # NoObject
  PROVE  /\ \E s \in SlotsOf(t) : apmmf[s] = hmmf[t]
         /\ \A s \in SlotsOf(t) : apmmf[s] = hmmf[t]
         /\ Located(t) = hmmf[t]
<1>1. PICK s \in Slot : apmmf[s] = hmmf[t] /\ tid[hmmf[t]] = t
  BY DEF HandleEntered
<1>2. s \in SlotsOf(t)
  BY <1>1 DEF SlotsOf, Used
<1>3. Located(t) = hmmf[t]
  BY <1>1, <1>2, LocatedIsOnly
<1> QED BY <1>1, <1>2, <1>3 DEF OneEntry

\* A thread that enters WtkInitializeMmf disturbs nothing.
LEMMA OrderlyWtkInitializeMmf == ASSUME NEW t, Before(t), WtkInitializeMmf(t) PROVE OrderlyInv'
<1> USE DEF Before, TypeOK, OrderlyInv, WtkInitializeMmf, Goto, Return, tableVars, heapVars
<1>1. TableInitialized' /\ MutexOwner' /\ EntriesAllocated' /\ EntriesDistinct'
  BY DEF TableInitialized, MutexOwner, EntriesAllocated, EntriesDistinct
<1>2. OneEntry' /\ NoneYet' /\ HandleRegistered'
  BY DEF OneEntry, NoneYet, HandleRegistered, SlotsOf, Used
<1>3. /\ SlotStillFree' /\ NewEntered' /\ HandleEntered' /\ FreedEntered'
      /\ OnlyHandleRegistered' /\ (~useAfterFree)'
  BY DEF SlotStillFree, NewEntered, HandleEntered, FreedEntered, OnlyHandleRegistered
<1> QED BY <1>1, <1>2, <1>3 DEF OrderlyInv

\* The flag is set, so the table is not cleared.
LEMMA OrderlyInitializeTest == ASSUME NEW t, Before(t), InitializeTest(t) PROVE OrderlyInv'
<1> USE DEF Before, TypeOK, OrderlyInv, InitializeTest, Goto, Return, tableVars, heapVars
<1>1. TableInitialized' /\ MutexOwner' /\ EntriesAllocated' /\ EntriesDistinct'
  BY DEF TableInitialized, MutexOwner, EntriesAllocated, EntriesDistinct
<1>2. OneEntry' /\ NoneYet' /\ HandleRegistered'
  BY DEF OneEntry, NoneYet, HandleRegistered, SlotsOf, Used
<1>3. /\ SlotStillFree' /\ NewEntered' /\ HandleEntered' /\ FreedEntered'
      /\ OnlyHandleRegistered' /\ (~useAfterFree)'
  BY DEF SlotStillFree, NewEntered, HandleEntered, FreedEntered, OnlyHandleRegistered
<1> QED BY <1>1, <1>2, <1>3 DEF OrderlyInv

\* The search returns the one manager of the thread, which is its handle if it
\* has one; if it finds none, the thread has none in the table.
LEMMA OrderlyLocateManager == ASSUME NEW t, Before(t), LocateManager(t) PROVE OrderlyInv'
<1> USE DEF Before, TypeOK, OrderlyInv, LocateManager, Goto, Return, tableVars, heapVars
<1>a. hmmf[t] = NoObject => chain[t] = {}
  BY TableAssumption DEF OnlyHandleRegistered
<1>b. hmmf[t] # NoObject => Located(t) = hmmf[t]
  BY HandleLocated
<1>1. TableInitialized' /\ MutexOwner' /\ EntriesAllocated' /\ EntriesDistinct'
  BY DEF TableInitialized, MutexOwner, EntriesAllocated, EntriesDistinct
<1>2. OneEntry'
  BY DEF OneEntry, SlotsOf, Used
<1>3. SlotStillFree' /\ NewEntered' /\ FreedEntered' /\ (~useAfterFree)'
  BY DEF SlotStillFree, NewEntered, FreedEntered, Search, EntriesAllocated, Used
<1>4. NoneYet'
  <2>1. Located(t) = NoObject => SlotsOf(t) = {}
    BY LocatedIsOnly DEF SlotsOf, Used
  <2> QED BY <2>1 DEF NoneYet, SlotsOf, Used
<1>5. HandleEntered'
  <2>1. Located(t) # NoObject => \E s \in SlotsOf(t) : apmmf[s] = Located(t)
    BY LocatedInTable DEF Located
  <2>2. Located(t) # NoObject =>
          tid[Located(t)] = t /\ \E s \in Slot : apmmf[s] = Located(t)
    BY <2>1 DEF SlotsOf, Used
  <2> QED BY <2>2 DEF HandleEntered
<1>6. OnlyHandleRegistered'
  BY <1>a, <1>b DEF OnlyHandleRegistered
<1>7. HandleRegistered'
  <2>1. \A s \in SlotsOf(t) : apmmf[s] = Located(t)
    BY LocatedIsOnly
  <2>2. ~mode.abandons /\ Located(t) # NoObject => hmmf[t] = Located(t)
    <3>1. SUFFICES ASSUME ~mode.abandons, Located(t) # NoObject PROVE hmmf[t] = Located(t)
      OBVIOUS
    <3>2. PICK s \in SlotsOf(t) : apmmf[s] = Located(t)
      BY <3>1, LocatedInTable DEF Located
    <3> QED BY <3>1, <3>2 DEF HandleRegistered
  <2>3. ~mode.abandons => hmmf' = hmmf
    BY <2>2
  <2> QED BY <2>3 DEF HandleRegistered, SlotsOf, Used
<1> QED BY <1>1, <1>2, <1>3, <1>4, <1>5, <1>6, <1>7 DEF OrderlyInv

\* The thread takes the mutex, which no thread holds, and has found a free slot.
LEMMA OrderlyCreateScan == ASSUME NEW t, Before(t), CreateScan(t) PROVE OrderlyInv'
<1> USE DEF Before, TypeOK, OrderlyInv, CreateScan, Goto, Return, tableVars, heapVars
<1>1. TableInitialized' /\ EntriesAllocated' /\ EntriesDistinct'
  BY DEF TableInitialized, EntriesAllocated, EntriesDistinct
<1>2. OneEntry' /\ NoneYet' /\ HandleRegistered'
  BY DEF OneEntry, NoneYet, HandleRegistered, SlotsOf, Used
<1>3. NewEntered' /\ HandleEntered' /\ FreedEntered' /\ OnlyHandleRegistered' /\ (~useAfterFree)'
  BY DEF NewEntered, HandleEntered, FreedEntered, OnlyHandleRegistered
<1>4. MutexOwner'
  <2>1. \A u \in Thread : pc[u] \notin Section
    BY Exclusion DEF MutexFree
  <2>2. mutex' = t /\ pc' = [pc EXCEPT ![t] = "enter"]
    OBVIOUS
  <2> QED BY <2>1, <2>2 DEF MutexOwner, Section
<1>5. SlotStillFree'
  BY Exclusion DEF SlotStillFree, FreeSlots, Section
<1> QED BY <1>1, <1>2, <1>3, <1>4, <1>5 DEF OrderlyInv

\* Nothing is entered.
LEMMA OrderlyCreateNothing == ASSUME NEW t, Before(t), CreateNothing(t) PROVE OrderlyInv'
<1> USE DEF Before, TypeOK, OrderlyInv, CreateNothing, Goto, Return, tableVars, heapVars
<1>1. TableInitialized' /\ MutexOwner' /\ EntriesAllocated' /\ EntriesDistinct'
  BY DEF TableInitialized, MutexOwner, EntriesAllocated, EntriesDistinct
<1>2. OneEntry' /\ NoneYet' /\ HandleRegistered'
  BY DEF OneEntry, NoneYet, HandleRegistered, SlotsOf, Used
<1>3. /\ SlotStillFree' /\ NewEntered' /\ HandleEntered' /\ FreedEntered'
      /\ OnlyHandleRegistered' /\ (~useAfterFree)'
  BY DEF SlotStillFree, NewEntered, HandleEntered, FreedEntered, OnlyHandleRegistered
<1> QED BY <1>1, <1>2, <1>3 DEF OrderlyInv

\* A fresh object goes to a slot that was free, with the id of a thread that had
\* no manager.
LEMMA OrderlyCreateEnter == ASSUME NEW t, Before(t), CreateEnter(t) PROVE OrderlyInv'
<1> USE DEF Before, TypeOK, OrderlyInv, CreateEnter, Goto, Return, tableVars, heapVars
<1>a. PICK o \in Object \ allocated :
        /\ apmmf' = [apmmf EXCEPT ![slot[t]] = o]
        /\ allocated' = allocated \cup {o}
        /\ tid' = [tid EXCEPT ![o] = t]
        /\ new' = [new EXCEPT ![t] = o]
  OBVIOUS
<1>b. o # NoObject /\ \A s \in Slot : apmmf[s] # o
  BY TableAssumption DEF EntriesAllocated
<1>c. \A u \in Thread : u # t => pc[u] \notin Section
  BY Exclusion DEF Section
<1>d. apmmf[slot[t]] = NoObject /\ slot[t] \in Slot
  BY DEF SlotStillFree
<1>e. \A s \in Slot : s # slot[t] => apmmf'[s] = apmmf[s]
  BY <1>a
<1>f. \A q \in Object : q # o => tid'[q] = tid[q]
  BY <1>a
<1>g. apmmf'[slot[t]] = o /\ tid'[o] = t /\ new'[t] = o
  BY <1>a, <1>d
<1>h. \A s \in Slot : s # slot[t] /\ apmmf[s] # NoObject => tid'[apmmf'[s]] = tid[apmmf[s]]
  BY <1>b, <1>e, <1>f
<1>i. \A u \in Thread : SlotsOf(u)' = IF u = t THEN SlotsOf(u) \cup {slot[t]} ELSE SlotsOf(u)
  <2> SUFFICES ASSUME NEW u \in Thread, NEW s \in Slot
               PROVE  s \in SlotsOf(u)' <=> s \in SlotsOf(u) \/ (u = t /\ s = slot[t])
    BY <1>d DEF SlotsOf, Used
  <2>1. CASE s = slot[t]
    BY <2>1, <1>b, <1>d, <1>g DEF SlotsOf, Used
  <2>2. CASE s # slot[t]
    BY <2>2, <1>e, <1>h DEF SlotsOf, Used
  <2> QED BY <2>1, <2>2
<1>1. TableInitialized' /\ MutexOwner'
  BY DEF TableInitialized, MutexOwner
<1>2. OnlyHandleRegistered' /\ (~useAfterFree)'
  BY DEF OnlyHandleRegistered
<1>3. EntriesAllocated'
  BY <1>a DEF EntriesAllocated
<1>4. EntriesDistinct'
  BY <1>b, <1>e, <1>g DEF EntriesDistinct
<1>5. OneEntry'
  BY <1>i DEF OneEntry, NoneYet
<1>6. NoneYet'
  BY <1>c, <1>i DEF NoneYet, Section
<1>7. SlotStillFree'
  BY <1>c DEF SlotStillFree, Section
<1>8. NewEntered'
  BY <1>c, <1>g DEF NewEntered, Section
<1>9. HandleEntered'
  <2> SUFFICES ASSUME NEW u \in Thread, hmmf[u] # NoObject
               PROVE  tid'[hmmf[u]] = u /\ \E s \in Slot : apmmf'[s] = hmmf[u]
    BY DEF HandleEntered
  <2>1. PICK s \in Slot : apmmf[s] = hmmf[u] /\ tid[hmmf[u]] = u
    BY DEF HandleEntered
  <2>2. s # slot[t]
    BY <2>1, <1>d
  <2> QED BY <2>1, <2>2, <1>e, <1>h
<1>10. FreedEntered'
  BY <1>c DEF FreedEntered, Section
<1>11. HandleRegistered'
  <2>1. \A u \in Thread : u # t => SlotsOf(u)' = SlotsOf(u) /\ pc'[u] = pc[u]
    BY <1>i
  <2>2. \A u \in Thread : u # t => \A s \in SlotsOf(u) : s # slot[t]
    BY <1>d DEF SlotsOf, Used
  <2> QED BY <2>1, <2>2, <1>e DEF HandleRegistered, SlotsOf, Used
<1> QED BY <1>1, <1>2, <1>3, <1>4, <1>5, <1>6, <1>7, <1>8, <1>9, <1>10, <1>11 DEF OrderlyInv

\* The new manager becomes the handle and is registered.
LEMMA OrderlyCreateRegister == ASSUME NEW t, Before(t), CreateRegister(t) PROVE OrderlyInv'
<1> USE DEF Before, TypeOK, OrderlyInv, CreateRegister, Goto, Return, tableVars, heapVars
<1>a. \A u \in Thread : u # t => pc[u] \notin Section
  BY Exclusion DEF Section
<1>b. new[t] # NoObject /\ apmmf[slot[t]] = new[t] /\ tid[new[t]] = t /\ slot[t] \in Slot
  BY DEF NewKnown, NewEntered
<1>c. slot[t] \in SlotsOf(t)
  BY <1>b DEF SlotsOf, Used
<1>d. hmmf[t] # NoObject => hmmf[t] = new[t]
  BY <1>b, <1>c, HandleLocated
<1>e. chain[t] \subseteq {new[t]}
  BY <1>d, TableAssumption DEF OnlyHandleRegistered
<1>1. TableInitialized' /\ EntriesAllocated' /\ EntriesDistinct'
  BY DEF TableInitialized, EntriesAllocated, EntriesDistinct
<1>2. OneEntry' /\ NoneYet'
  BY DEF OneEntry, NoneYet, SlotsOf, Used
<1>3. FreedEntered' /\ (~useAfterFree)'
  BY DEF FreedEntered
<1>4. MutexOwner'
  BY <1>a, TableAssumption DEF MutexOwner, Section
<1>5. SlotStillFree'
  BY <1>a DEF SlotStillFree, Section
<1>6. NewEntered'
  BY <1>a DEF NewEntered, Section
<1>7. HandleEntered'
  BY <1>b DEF HandleEntered
<1>8. OnlyHandleRegistered'
  BY <1>e DEF OnlyHandleRegistered
<1>9. HandleRegistered'
  <2>1. \A s \in SlotsOf(t) : s = slot[t]
    BY <1>c DEF OneEntry
  <2>2. \A u \in Thread : SlotsOf(u)' = SlotsOf(u)
    BY DEF SlotsOf, Used
  <2> QED BY <1>b, <2>1, <2>2 DEF HandleRegistered
<1> QED BY <1>1, <1>2, <1>3, <1>4, <1>5, <1>6, <1>7, <1>8, <1>9 DEF OrderlyInv

\* A call on a buffer only searches.
LEMMA OrderlyUseHandle == ASSUME NEW t, Before(t), UseHandle(t) PROVE OrderlyInv'
<1> USE DEF Before, TypeOK, OrderlyInv, UseHandle, Goto, Return, tableVars, heapVars
<1>1. TableInitialized' /\ MutexOwner' /\ EntriesAllocated' /\ EntriesDistinct'
  BY DEF TableInitialized, MutexOwner, EntriesAllocated, EntriesDistinct
<1>2. OneEntry' /\ NoneYet' /\ HandleRegistered'
  BY DEF OneEntry, NoneYet, HandleRegistered, SlotsOf, Used
<1>3. /\ SlotStillFree' /\ NewEntered' /\ HandleEntered' /\ FreedEntered'
      /\ OnlyHandleRegistered' /\ (~useAfterFree)'
  BY DEF SlotStillFree, NewEntered, HandleEntered, FreedEntered, OnlyHandleRegistered, Search,
         EntriesAllocated, Used
<1> QED BY <1>1, <1>2, <1>3 DEF OrderlyInv

\* The handle is in the table, and unless the system refuses, its handler is
\* deregistered under the mutex.
LEMMA OrderlyWtkTerminateMmf == ASSUME NEW t, Before(t), WtkTerminateMmf(t) PROVE OrderlyInv'
<1> USE DEF Before, TypeOK, OrderlyInv, WtkTerminateMmf, Goto, Return, tableVars, heapVars
<1>1. TableInitialized' /\ EntriesAllocated' /\ EntriesDistinct'
  BY DEF TableInitialized, EntriesAllocated, EntriesDistinct
<1>2. OneEntry' /\ NoneYet'
  BY DEF OneEntry, NoneYet, SlotsOf, Used
<1>3. SlotStillFree' /\ NewEntered' /\ (~useAfterFree)'
  BY DEF SlotStillFree, NewEntered, EntriesAllocated
<1>4. MutexOwner'
  <2>1. \A u \in Thread : pc[u] \notin Section
    BY Exclusion DEF MutexFree
  <2>2. \/ mutex' = mutex /\ pc' = [pc EXCEPT ![t] = "idle"]
        \/ mutex' = t /\ pc' = [pc EXCEPT ![t] = "free"]
    OBVIOUS
  <2>3. \A u \in Thread : mutex # u
    BY <2>1 DEF MutexOwner, Section
  <2> QED BY <2>1, <2>2, <2>3 DEF MutexOwner, Section
<1>5. HandleEntered'
  BY DEF HandleEntered
<1>6. FreedEntered'
  BY Exclusion DEF FreedEntered, ChainAfter, Section
<1>7. OnlyHandleRegistered'
  <2>1. {s \in Slot : apmmf[s] = hmmf[t]} # {}
    BY DEF HandleEntered
  <2> QED BY <2>1 DEF OnlyHandleRegistered, ChainAfter
<1>8. HandleRegistered'
  <2>1. {s \in Slot : apmmf[s] = hmmf[t]} # {}
    BY DEF HandleEntered
  <2> QED BY <2>1 DEF HandleRegistered, SlotsOf, Used, ChainAfter
<1> QED BY <1>1, <1>2, <1>3, <1>4, <1>5, <1>6, <1>7, <1>8 DEF OrderlyInv

\* The one slot that holds the manager is cleared, and nothing else refers to it.
LEMMA OrderlyTerminateFree == ASSUME NEW t, Before(t), TerminateFree(t) PROVE OrderlyInv'
<1> USE DEF Before, TypeOK, OrderlyInv, TerminateFree, Goto, Return, tableVars, heapVars
<1>a. \A u \in Thread : u # t => pc[u] \notin Section
  BY Exclusion DEF Section
<1>b. /\ hmmf[t] # NoObject /\ apmmf[slot[t]] = hmmf[t] /\ hmmf[t] \notin chain[t]
      /\ slot[t] \in Slot /\ tid[hmmf[t]] = t
  BY DEF FreedEntered, HandleEntered
<1>c. /\ apmmf' = [apmmf EXCEPT ![slot[t]] = NoObject]
      /\ allocated' = allocated \ {hmmf[t]}
      /\ \A o \in Object : o # hmmf[t] => tid'[o] = tid[o]
  BY DEF SlotAfter
<1>d. \A s \in Slot : s # slot[t] => apmmf'[s] = apmmf[s] /\ apmmf[s] # hmmf[t]
  BY <1>b, <1>c DEF EntriesDistinct
<1>e. apmmf'[slot[t]] = NoObject
  BY <1>b, <1>c
<1>f. \A s \in Slot : s # slot[t] /\ apmmf[s] # NoObject => tid'[apmmf'[s]] = tid[apmmf[s]]
  BY <1>c, <1>d
<1>g. slot[t] \in SlotsOf(t)
  BY <1>b DEF SlotsOf, Used
<1>h. \A u \in Thread : SlotsOf(u)' = SlotsOf(u) \ {slot[t]}
  <2> SUFFICES ASSUME NEW u \in Thread, NEW s \in Slot
               PROVE  s \in SlotsOf(u)' <=> s \in SlotsOf(u) /\ s # slot[t]
    BY DEF SlotsOf, Used
  <2>1. CASE s = slot[t]
    BY <2>1, <1>e DEF SlotsOf, Used
  <2>2. CASE s # slot[t]
    BY <2>2, <1>d, <1>f DEF SlotsOf, Used
  <2> QED BY <2>1, <2>2
<1>i. \A u \in Thread : u # t /\ hmmf[u] # NoObject => hmmf[u] # hmmf[t]
  BY <1>b DEF HandleEntered
<1>j. /\ pc' = [pc EXCEPT ![t] = "idle"] /\ hmmf' = [hmmf EXCEPT ![t] = NoObject]
      /\ mutex' = NoThread /\ slot' = [slot EXCEPT ![t] = 0]
      /\ UNCHANGED <<fInitialized, chain, new>>
  OBVIOUS
<1>k. \A u \in Thread : u # t => hmmf'[u] = hmmf[u] /\ pc'[u] = pc[u]
  BY <1>j
<1>l. pc'[t] = "idle" /\ hmmf'[t] = NoObject
  BY <1>j
<1>1. TableInitialized'
  BY DEF TableInitialized
<1>2. MutexOwner'
  BY <1>a, <1>j, TableAssumption DEF MutexOwner, Section
<1>3. EntriesAllocated'
  BY <1>c, <1>d, <1>e DEF EntriesAllocated
<1>4. EntriesDistinct'
  BY <1>d, <1>e DEF EntriesDistinct
<1>5. OneEntry'
  BY <1>h DEF OneEntry
<1>6. NoneYet'
  BY <1>h, <1>k, <1>l DEF NoneYet
<1>7. SlotStillFree'
  BY <1>a, <1>j DEF SlotStillFree, Section
<1>8. NewEntered'
  BY <1>a, <1>j DEF NewEntered, Section
<1>9. HandleEntered'
  <2> SUFFICES ASSUME NEW u \in Thread, hmmf'[u] # NoObject
               PROVE  tid'[hmmf'[u]] = u /\ \E s \in Slot : apmmf'[s] = hmmf'[u]
    BY DEF HandleEntered
  <2>1. u # t /\ hmmf'[u] = hmmf[u] /\ hmmf[u] # NoObject
    BY <1>k, <1>l
  <2>2. PICK s \in Slot : apmmf[s] = hmmf[u] /\ tid[hmmf[u]] = u
    BY <2>1 DEF HandleEntered
  <2>3. s # slot[t]
    BY <2>1, <2>2, <1>b, <1>i
  <2> QED BY <2>1, <2>2, <2>3, <1>d, <1>f
<1>10. FreedEntered'
  BY <1>a, <1>j DEF FreedEntered, Section
<1>11. OnlyHandleRegistered'
  BY <1>b, <1>j DEF OnlyHandleRegistered
<1>12. HandleRegistered'
  <2> SUFFICES ASSUME ~mode.abandons, NEW u \in Thread
               PROVE  /\ hmmf'[u] # NoObject /\ pc'[u] # "free" => hmmf'[u] \in chain'[u]
                      /\ \A s \in SlotsOf(u)' : apmmf'[s] = hmmf'[u] \/ pc'[u] = "register"
    BY DEF HandleRegistered
  <2>1. CASE u = t
    BY <2>1, <1>g, <1>h, <1>l DEF OneEntry
  <2>2. CASE u # t
    <3>1. \A s \in SlotsOf(u)' : s \in SlotsOf(u) /\ s \in Slot /\ s # slot[t]
      BY <1>h DEF SlotsOf, Used
    <3> QED BY <3>1, <2>2, <1>d, <1>j, <1>k DEF HandleRegistered
  <2> QED BY <2>1, <2>2
<1>13. (~useAfterFree)'
  BY <1>b DEF EntriesAllocated
<1> QED BY <1>1, <1>2, <1>3, <1>4, <1>5, <1>6, <1>7, <1>8, <1>9, <1>10, <1>11,
            <1>12, <1>13 DEF OrderlyInv

\* The handle and the handlers of the thread go together; a manager stays behind
\* only where threads may end early.
LEMMA OrderlyThreadEnds == ASSUME NEW t, Before(t), ThreadEnds(t) PROVE OrderlyInv'
<1> USE DEF Before, TypeOK, OrderlyInv, ThreadEnds, Goto, Return, tableVars, heapVars
<1>1. TableInitialized' /\ MutexOwner' /\ EntriesAllocated' /\ EntriesDistinct'
  BY DEF TableInitialized, MutexOwner, EntriesAllocated, EntriesDistinct
<1>2. OneEntry' /\ NoneYet' /\ HandleRegistered'
  BY DEF OneEntry, NoneYet, HandleRegistered, SlotsOf, Used
<1>3. /\ SlotStillFree' /\ NewEntered' /\ HandleEntered' /\ FreedEntered'
      /\ OnlyHandleRegistered' /\ (~useAfterFree)'
  BY DEF SlotStillFree, NewEntered, HandleEntered, FreedEntered, OnlyHandleRegistered
<1> QED BY <1>1, <1>2, <1>3 DEF OrderlyInv

\* The table is empty at first, and no thread has a handle.
LEMMA InitOrderly == Init => TableInv
BY TableAssumption
   DEF Init, TableInv, OrderlyInv, Orderly, NewKnown, TableInitialized, MutexOwner,
       EntriesAllocated, EntriesDistinct, OneEntry, NoneYet, SlotStillFree, NewEntered,
       HandleEntered, FreedEntered, OnlyHandleRegistered, HandleRegistered, SlotsOf, Used

\* Every step keeps the invariant: in orderly circumstances by the lemmas above,
\* and the circumstances do not change.
LEMMA NextOrderly == TypeOK /\ TableInv /\ [Next]_vars => TableInv'
<1> SUFFICES ASSUME TypeOK, TableInv, [Next]_vars PROVE TableInv'
  OBVIOUS
<1>1. TypeInv'
  BY NextType DEF TypeInv, TableInv
<1>2. ASSUME Orderly' PROVE OrderlyInv'
  <2>1. UNCHANGED mode
    BY DEF Next, vars
  <2>2. Orderly /\ NewKnown /\ OrderlyInv
    BY <1>2, <2>1 DEF Orderly, TableInv
  <2>3. CASE UNCHANGED vars
    BY <2>2, <2>3
       DEF vars, tableVars, heapVars, threadVars, OrderlyInv, TableInitialized, MutexOwner,
           EntriesAllocated, EntriesDistinct, OneEntry, NoneYet, SlotStillFree, NewEntered,
           HandleEntered, FreedEntered, OnlyHandleRegistered, HandleRegistered, SlotsOf, Used
  <2>4. CASE Next
    <3>1. PICK t \in mode.threads :
       \/ WtkInitializeMmf(t)
       \/ InitializeTest(t) \/ InitializeClear(t) \/ InitializeMark(t)
       \/ LocateManager(t)
       \/ CreateScan(t) \/ CreateNothing(t) \/ CreateEnter(t)
       \/ CreateRegister(t) \/ CreateFail(t)
       \/ UseHandle(t)
       \/ WtkTerminateMmf(t) \/ TerminateFree(t)
       \/ ThreadEnds(t)
      BY <2>4 DEF Next
    <3>2. Before(t)
      <4>1. t \in Thread
        BY TableAssumption DEF TypeOK, Mode
      <4> QED BY <4>1, <2>1, <2>2 DEF Before
    \* In orderly circumstances the first call has returned, and no call fails
    \* while a manager is set up.
    <3>3. ~InitializeClear(t) /\ ~InitializeMark(t)
      BY <3>2 DEF Before, OrderlyInv, TableInitialized, InitializeClear, InitializeMark
    <3>4. ~CreateFail(t)
      BY <3>2 DEF Before, Orderly, CreateFail, MayFail
    <3> QED BY <3>1, <3>2, <3>3, <3>4, OrderlyWtkInitializeMmf, OrderlyInitializeTest,
               OrderlyLocateManager, OrderlyCreateScan, OrderlyCreateNothing,
               OrderlyCreateEnter, OrderlyCreateRegister, OrderlyUseHandle,
               OrderlyWtkTerminateMmf, OrderlyTerminateFree, OrderlyThreadEnds
  <2> QED BY <2>3, <2>4
<1> QED BY <1>1, <1>2 DEF TypeInv, TableInv

\* The table, the heap, the handles and the registered handlers agree.
THEOREM TableCorrect == Spec => []TableInv
<1>1. Init => TypeOK /\ TableInv
  BY InitType, InitOrderly DEF TypeInv
<1>2. TypeOK /\ TableInv /\ [Next]_vars => (TypeOK /\ TableInv)'
  <2>1. TypeOK /\ TableInv => TypeInv
    BY DEF TypeInv, TableInv
  <2> QED BY <2>1, NextType, NextOrderly DEF TypeInv
<1> QED BY <1>1, <1>2, PTL DEF Spec

\* No search reads a freed manager and none is freed twice, for any number of
\* threads: what WtkTerminateMmf and __locateMMFHandler rely on.
THEOREM NeverUsedAfterFree == Spec => []NoUseAfterFree
<1>1. TableInv => NoUseAfterFree
  BY DEF TableInv, OrderlyInv, NoUseAfterFree
<1> QED BY <1>1, TableCorrect, PTL

\* The invariant is what the property says of the handles.
LEMMA HandlesValid == TypeOK /\ TableInv => HandleStaysValid
<1> SUFFICES ASSUME TypeOK, OrderlyInv, NEW t \in Thread,
                    hmmf[t] # NoObject, pc[t] # "free"
             PROVE  /\ Located(t) = hmmf[t]
                    /\ \A r, s \in Slot : apmmf[r] = hmmf[t] /\ apmmf[s] = hmmf[t] => r = s
                    /\ ~mode.abandons => hmmf[t] \in chain[t]
  BY DEF HandleStaysValid, TableInv
<1>1. Located(t) = hmmf[t]
  BY HandleLocated DEF OrderlyInv
<1>2. \A r, s \in Slot : apmmf[r] = hmmf[t] /\ apmmf[s] = hmmf[t] => r = s
  BY DEF OrderlyInv, EntriesDistinct
<1>3. ~mode.abandons => hmmf[t] \in chain[t]
  BY DEF OrderlyInv, HandleRegistered
<1> QED BY <1>1, <1>2, <1>3

\* The handle of a thread is what __locateMMFHandler finds, in one slot only,
\* and unless threads end early its fault handler is registered.
THEOREM HandleValid == Spec => []HandleStaysValid
BY HandlesValid, TypeCorrect, TableCorrect, PTL

\* No handler of a freed manager stays registered with the system.
THEOREM RegisteredAllocated == Spec => []HandlersAllocated
<1>1. TypeOK /\ TableInv => HandlersAllocated
  <2> SUFFICES ASSUME TypeOK, OrderlyInv, NEW t \in Thread, NEW o \in chain[t]
               PROVE  o \in allocated
    BY DEF HandlersAllocated, TableInv
  <2>1. o = hmmf[t] /\ o # NoObject
    BY TableAssumption DEF OrderlyInv, OnlyHandleRegistered, TypeOK
  <2>2. PICK s \in Slot : apmmf[s] = o
    BY <2>1 DEF OrderlyInv, HandleEntered
  <2> QED BY <2>1, <2>2 DEF OrderlyInv, EntriesAllocated
<1> QED BY <1>1, TypeCorrect, TableCorrect, PTL

\* The table never holds two managers of one thread.
THEOREM OneManager == Spec => []OneManagerPerThread
<1>1. TableInv => OneManagerPerThread
  BY DEF TableInv, OrderlyInv, OneEntry, OneManagerPerThread, SlotsOf, Used
<1> QED BY <1>1, TableCorrect, PTL

-----------------------------------------------------------------------------
(* The table with the entries.                                             *)

\* A call on a buffer is, for the table, a use of the handle.
LEMMA TableSteps == ASSUME NEW t \in mode.threads, ThreadStep(t) PROVE Next
<1> DEFINE Step ==
      \/ WtkInitializeMmf(t)
      \/ InitializeTest(t) \/ InitializeClear(t) \/ InitializeMark(t)
      \/ LocateManager(t)
      \/ CreateScan(t) \/ CreateNothing(t) \/ CreateEnter(t)
      \/ CreateRegister(t) \/ CreateFail(t)
      \/ UseHandle(t)
      \/ WtkTerminateMmf(t) \/ TerminateFree(t)
      \/ ThreadEnds(t)
<1>1. UNCHANGED mode
  BY DEF ThreadStep
<1>2. ASSUME BufferStep(t) PROVE UseHandle(t)
  BY <1>2 DEF BufferStep, AllocNamed, AllocNamedFails, AllocWithoutFile,
              WtkAllocMmfFileEx, AllocFileExFails, WtkUpdateMmf, WtkFreeMmf, BufferCall
<1>3. Step
  BY <1>2 DEF ThreadStep, TableStep, CreateEntries, TerminateEntries, TerminateRelease
<1> QED BY <1>1, <1>3 DEF Next

\* What one thread does to the manager of another leaves the table as it is.
LEMMA ForeignKeepsTable ==
  ASSUME TypeOK, TableInv, NEW t \in mode.threads, NEW u \in mode.threads,
         TerminateForeign(t, u)
  PROVE  (TypeOK /\ TableInv)'
<1>1. UNCHANGED <<mode, fInitialized, apmmf, mutex, allocated, tid, chain, pc, slot, new, hmmf, rc>>
  BY DEF TerminateForeign, tableVars, threadVars
<1>2. useAfterFree' \in BOOLEAN
  BY DEF TerminateForeign, TypeOK
<1>3. TypeOK'
  BY <1>1, <1>2 DEF TypeOK
<1>4. NewKnown'
  BY <1>1 DEF TableInv, NewKnown
<1>5. ASSUME Orderly PROVE useAfterFree' = useAfterFree
  <2>1. PICK s \in Slot : apmmf[s] = hmmf[u] /\ apmmf[s] # NoObject
    BY DEF TerminateForeign
  <2>2. hmmf[u] \in allocated
    BY <1>5, <2>1 DEF TableInv, OrderlyInv, EntriesAllocated
  <2> QED BY <2>2 DEF TerminateForeign, TypeOK
<1>6. ASSUME Orderly' PROVE OrderlyInv'
  <2>1. Orderly
    BY <1>1, <1>6 DEF Orderly
  <2>2. UNCHANGED useAfterFree
    BY <1>5, <2>1
  <2> QED
    BY <1>1, <2>1, <2>2
       DEF TableInv, OrderlyInv, TableInitialized, MutexOwner, EntriesAllocated, EntriesDistinct,
           OneEntry, NoneYet, SlotStillFree, NewEntered, HandleEntered, FreedEntered,
           OnlyHandleRegistered, HandleRegistered, SlotsOf, Used
<1> QED BY <1>3, <1>4, <1>6 DEF TableInv

\* The table, the heap, the handles and the registered handlers agree also
\* when the managers have buffers.
THEOREM TableCorrectWithEntries == EntriesSpec => [](TypeOK /\ TableInv)
<1>1. EntriesInit => TypeOK /\ TableInv
  BY InitType, InitOrderly DEF TypeInv, EntriesInit
<1>2. TypeOK /\ TableInv /\ [EntriesNext]_<<vars, entryVars>> => (TypeOK /\ TableInv)'
  <2> SUFFICES ASSUME TypeOK, TableInv, [EntriesNext]_<<vars, entryVars>>
               PROVE  (TypeOK /\ TableInv)'
    OBVIOUS
  <2>1. ASSUME [Next]_vars PROVE (TypeOK /\ TableInv)'
    BY <2>1, NextType, NextOrderly DEF TypeInv, TableInv
  <2>2. ASSUME NEW t \in mode.threads, ThreadStep(t) PROVE (TypeOK /\ TableInv)'
    BY <2>1, <2>2, TableSteps
  <2>3. ASSUME NEW t \in mode.threads, NEW u \in mode.threads, TerminateForeign(t, u)
        PROVE  (TypeOK /\ TableInv)'
    BY <2>3, ForeignKeepsTable
  <2>4. ASSUME (\E f \in File : OpenFile(f)) \/ (\E h \in appHandles : CloseFile(h)) \/ Tick
        PROVE  UNCHANGED vars
    BY <2>4 DEF OpenFile, CloseFile, Tick
  <2> QED BY <2>1, <2>2, <2>3, <2>4 DEF EntriesNext
<1> QED BY <1>1, <1>2, PTL DEF EntriesSpec

\* A thread that calls WtkTerminateMmf with the handle of another, which frees
\* the buffers before it fails, does not make a search read a freed manager.
THEOREM NeverUsedAfterFreeWithEntries == EntriesSpec => []NoUseAfterFree
<1>1. TableInv => NoUseAfterFree
  BY DEF TableInv, OrderlyInv, NoUseAfterFree
<1> QED BY <1>1, TableCorrectWithEntries, PTL

\* Nor does the other thread lose its manager, its handle or its handler.
THEOREM HandleValidWithEntries == EntriesSpec => []HandleStaysValid
BY HandlesValid, TableCorrectWithEntries, PTL

-----------------------------------------------------------------------------
(* Freeing a buffer *)

\* Closing, stamping and freeing keep the types.
LEMMA CloseTyped ==
  ASSUME clock \in Nat, NEW s \in FileSystem(clock), NEW h
  PROVE  DosClose(s, h) \in FileSystem(clock)
<1> USE DEF FileSystem
<1>1. CASE h \notin DOMAIN s.open
  BY <1>1 DEF DosClose
<1>2. CASE h \in DOMAIN s.open
  <2> DEFINE o == [x \in DOMAIN s.open \ {h} |-> s.open[x]]
             st == IF s.open[h].written THEN [s.stamp EXCEPT ![s.open[h].file] = clock] ELSE s.stamp
  <2>0. PICK H \in SUBSET Handle : s.open \in [H -> [file : File, written : BOOLEAN]]
    OBVIOUS
  <2>1. DosClose(s, h) = [open |-> o, memory |-> s.memory, stamp |-> st]
    BY <1>2 DEF DosClose
  <2>2. o \in [H \ {h} -> [file : File, written : BOOLEAN]] /\ H \ {h} \in SUBSET Handle
    BY <2>0
  <2>3. st \in [File -> 0 .. clock] /\ s.memory \in SUBSET Memory
    BY <1>2, <2>0
  <2>4. o \in UNION {[G -> [file : File, written : BOOLEAN]] : G \in SUBSET Handle}
    BY <2>2
  <2> HIDE DEF o, st
  <2> QED BY <2>1, <2>3, <2>4
<1> QED BY <1>1, <1>2

\* So does the stamping of a file.
LEMMA StampTyped ==
  ASSUME clock \in Nat, NEW s \in FileSystem(clock), NEW f \in File, NEW time \in 0 .. clock
  PROVE  DosSetPathInfo(s, f, time) \in FileSystem(clock)
<1>1. s.stamp \in [File -> 0 .. clock]
  BY DEF FileSystem
<1>2. [s.stamp EXCEPT ![f] = time] \in [File -> 0 .. clock]
  BY <1>1
<1> QED BY <1>2 DEF FileSystem, DosSetPathInfo

\* And so does the freeing of an entry, which closes and stamps its file.
LEMMA DestroyTyped ==
  ASSUME clock \in Nat, NEW s \in FileSystem(clock), NEW e \in MmfEntry, e.dtModified <= clock
  PROVE  DestroyEntry(s, e) \in FileSystem(clock)
<1> DEFINE freed == [s EXCEPT !.memory = @ \ {e.pvData}]
<1>1. freed \in FileSystem(clock)
  BY DEF FileSystem
<1>2. DosClose(freed, e.hfile) \in FileSystem(clock)
  BY <1>1, CloseTyped
<1>3. e.dtModified \in 0 .. clock /\ e.szFile \in File \cup {NoFile}
  BY DEF MmfEntry
<1>4. e.szFile # NoFile =>
        DosSetPathInfo(DosClose(freed, e.hfile), e.szFile, e.dtModified) \in FileSystem(clock)
  BY <1>2, <1>3, StampTyped
<1> HIDE DEF freed
<1> QED BY <1>1, <1>2, <1>4 DEF DestroyEntry, freed

\* The open files after one of them is closed.
Without(files, h) == [x \in DOMAIN files \ {h} |-> files[x]]

\* What closing a handle does, of a file that is open or of none.
LEMMA CloseEffect ==
  ASSUME clock \in Nat, NEW s \in FileSystem(clock), NEW h
  PROVE  LET d == DosClose(s, h) IN
         /\ d.memory = s.memory /\ d.open = Without(s.open, h)
         /\ \A f \in File : ~(h \in DOMAIN s.open /\ s.open[h].file = f /\ s.open[h].written)
               => d.stamp[f] = s.stamp[f]
<1> USE DEF FileSystem
<1>0. PICK H \in SUBSET Handle : s.open \in [H -> [file : File, written : BOOLEAN]]
  OBVIOUS
<1>1. CASE h \notin DOMAIN s.open
  <2>1. Without(s.open, h) = s.open
    BY <1>0, <1>1 DEF Without
  <2> QED BY <1>1, <2>1 DEF DosClose
<1>2. CASE h \in DOMAIN s.open
  BY <1>0, <1>2 DEF DosClose, Without
<1> QED BY <1>1, <1>2

\* What freeing a buffer does: its memory and its handle are gone, and the stamps
\* of files that neither the handle nor the entry's name is for stay.
LEMMA DestroyEffect ==
  ASSUME clock \in Nat, NEW s \in FileSystem(clock), NEW e \in MmfEntry,
         MMFENTRY_USED(e), e.fFileOpened <=> e.hfile # None
  PROVE  LET d == DestroyEntry(s, e) IN
         /\ d.memory = s.memory \ {e.pvData} /\ d.open = Without(s.open, e.hfile)
         /\ \A f \in File :
              f # e.szFile
              /\ ~(e.hfile \in DOMAIN s.open /\ s.open[e.hfile].file = f /\ s.open[e.hfile].written)
              => d.stamp[f] = s.stamp[f]
         /\ ~e.fModified /\ ~(e.hfile \in DOMAIN s.open /\ s.open[e.hfile].written)
              => d.stamp = s.stamp
         /\ e.szFile # NoFile /\ e.fModified /\ e.hfile # None /\ ~IsOpen(d.open, e.szFile)
              => d.stamp[e.szFile] = e.dtModified
<1> DEFINE freed == [s EXCEPT !.memory = @ \ {e.pvData}]
           closed == DosClose(freed, e.hfile)
<1>1. freed \in FileSystem(clock) /\ freed.open = s.open /\ freed.stamp = s.stamp
      /\ freed.memory = s.memory \ {e.pvData}
  BY DEF FileSystem
<1> HIDE DEF freed
<1>2. /\ closed.memory = freed.memory /\ closed.open = Without(s.open, e.hfile)
      /\ \A f \in File : ~(e.hfile \in DOMAIN s.open /\ s.open[e.hfile].file = f /\ s.open[e.hfile].written)
           => closed.stamp[f] = s.stamp[f]
      /\ closed \in FileSystem(clock)
  BY <1>1, CloseEffect, CloseTyped
<1>3. closed.stamp \in [File -> 0 .. clock] /\ s.stamp \in [File -> 0 .. clock]
  BY <1>2 DEF FileSystem
<1> HIDE DEF closed
<1>4. CASE e.hfile = None
  <2>1. DestroyEntry(s, e) = freed
    BY <1>4 DEF DestroyEntry, freed
  <2>2. Without(s.open, None) = s.open
    <3>1. None \notin DOMAIN s.open
      BY EntriesAssumption DEF FileSystem
    <3>2. s.open = [x \in DOMAIN s.open |-> s.open[x]]
      BY DEF FileSystem
    <3> QED BY <3>1, <3>2 DEF Without
  <2> QED BY <1>1, <1>4, <2>1, <2>2
<1>5. CASE e.hfile # None
  <2>1. CASE e.fModified /\ e.szFile # NoFile
    <3>1. DestroyEntry(s, e) = DosSetPathInfo(closed, e.szFile, e.dtModified)
      BY <1>5, <2>1 DEF DestroyEntry, freed, closed
    <3>2. e.szFile \in File
      BY <2>1 DEF MmfEntry
    <3>3. CASE IsOpen(closed.open, e.szFile)
      <4>1. DestroyEntry(s, e) = closed
        BY <3>1, <3>3 DEF DosSetPathInfo
      <4> QED BY <4>1, <1>1, <1>2, <1>3, <1>5, <2>1, <3>3
    <3>4. CASE ~IsOpen(closed.open, e.szFile)
      <4>1. DestroyEntry(s, e) = [closed EXCEPT !.stamp[e.szFile] = e.dtModified]
        BY <3>1, <3>4 DEF DosSetPathInfo
      <4>2. DestroyEntry(s, e) = [open |-> closed.open, memory |-> closed.memory,
                                  stamp |-> [closed.stamp EXCEPT ![e.szFile] = e.dtModified]]
        BY <4>1, <1>2 DEF FileSystem
      <4> QED BY <4>2, <1>1, <1>2, <1>3, <1>5, <2>1, <3>2
    <3> QED BY <3>3, <3>4
  <2>2. CASE ~(e.fModified /\ e.szFile # NoFile)
    <3>1. DestroyEntry(s, e) = closed
      BY <1>5, <2>2 DEF DestroyEntry, freed, closed
    <3> QED BY <3>1, <1>1, <1>2, <1>3, <1>5, <2>2
  <2> QED BY <2>1, <2>2
<1> QED BY <1>4, <1>5

\* What is left of the buffers without one of them.
AllBut(held, b) == [c \in DOMAIN held \ {b} |-> held[c]]

\* The buffers with a new one at place p.
AndOne(held, p, e) == [c \in DOMAIN held \cup {p} |-> IF c = p THEN e ELSE held[c]]

\* After a buffer is freed, the files and the memory are those of the others.
LEMMA DestroyFits ==
  ASSUME clock \in Nat, NEW s \in FileSystem(clock), NEW P, NEW held \in [P -> MmfEntry],
         NEW kept, NEW b \in P, BuffersFit(s, held, kept)
  PROVE  BuffersFit(DestroyEntry(s, held[b]), AllBut(held, b), kept)
<1> DEFINE d == DestroyEntry(s, held[b])
           rest == AllBut(held, b)
<1>1. d.memory = s.memory \ {held[b].pvData} /\ d.open = Without(s.open, held[b].hfile)
  BY DestroyEffect DEF BuffersFit
<1>2. DOMAIN rest = P \ {b} /\ \A c \in P \ {b} : rest[c] = held[c]
  BY DEF AllBut
<1> HIDE DEF d, rest
<1>3. d.memory = {rest[c].pvData : c \in DOMAIN rest}
  BY <1>1, <1>2 DEF BuffersFit
<1>4. DOMAIN d.open = kept \cup ({rest[c].hfile : c \in DOMAIN rest} \ {Invalid, None})
  <2>1. DOMAIN d.open = DOMAIN s.open \ {held[b].hfile}
    BY <1>1 DEF Without
  <2>2. DOMAIN s.open = kept \cup ({held[c].hfile : c \in P} \ {Invalid, None})
    BY DEF BuffersFit
  <2>3. held[b].hfile \notin kept
    BY DEF BuffersFit
  <2>4. \A c \in P \ {b} : held[c].hfile \in {Invalid, None} \/ held[c].hfile # held[b].hfile
    BY DEF BuffersFit
  <2>5. {rest[c].hfile : c \in DOMAIN rest} = {held[c].hfile : c \in P \ {b}}
    BY <1>2
  <2> QED BY <2>1, <2>2, <2>3, <2>4, <2>5
<1>5. /\ \A c \in DOMAIN rest :
           /\ MMFENTRY_USED(rest[c])
           /\ rest[c].fFileOpened <=> rest[c].hfile # None
           /\ rest[c].hfile \notin kept
      /\ \A a, c \in DOMAIN rest : a # c =>
           /\ rest[a].pvData # rest[c].pvData
           /\ rest[a].hfile \in {Invalid, None} \/ rest[a].hfile # rest[c].hfile
  BY <1>2 DEF BuffersFit
<1> QED BY <1>3, <1>4, <1>5 DEF BuffersFit, d, rest

\* A buffer that is freed leaves the right stamp on the file it holds by name, and
\* none on another.
LEMMA DestroyStamps ==
  ASSUME clock \in Nat, NEW s \in FileSystem(clock), NEW P, NEW held \in [P -> MmfEntry],
         NEW kept, NEW upd \in [File -> Nat \cup {-1}], NEW b \in P,
         BuffersFit(s, held, kept), StampsFit(s, held, upd)
  PROVE  StampsFit(DestroyEntry(s, held[b]), AllBut(held, b), upd)
<1> DEFINE d == DestroyEntry(s, held[b])
           e == held[b]
           rest == AllBut(held, b)
<1>1. /\ d.open = Without(s.open, e.hfile)
      /\ \A f \in File :
           f # e.szFile
           /\ ~(e.hfile \in DOMAIN s.open /\ s.open[e.hfile].file = f /\ s.open[e.hfile].written)
           => d.stamp[f] = s.stamp[f]
      /\ ~e.fModified /\ ~(e.hfile \in DOMAIN s.open /\ s.open[e.hfile].written)
           => d.stamp = s.stamp
      /\ e.szFile # NoFile /\ e.fModified /\ e.hfile # None /\ ~IsOpen(d.open, e.szFile)
           => d.stamp[e.szFile] = e.dtModified
  BY DestroyEffect DEF BuffersFit
<1>2. DOMAIN rest = P \ {b} /\ \A c \in P \ {b} : rest[c] = held[c]
  BY DEF AllBut
<1>3. DOMAIN d.open = DOMAIN s.open \ {e.hfile} /\ \A h \in DOMAIN d.open : d.open[h] = s.open[h]
  BY <1>1 DEF Without
<1>0. DOMAIN s.open \cap {Invalid, None} = {}
  BY EntriesAssumption DEF FileSystem
<1>n. \A f \in File : f # NoFile
  BY EntriesAssumption
\* No two buffers have one name.
<1>4. \A c \in P : held[c].szFile # NoFile =>
        /\ held[c].hfile \in DOMAIN s.open
        /\ \A h \in DOMAIN s.open : s.open[h].file = held[c].szFile <=> h = held[c].hfile
        /\ held[c].fModified => held[c].dtModified = upd[held[c].szFile]
  BY DEF StampsFit
<1>5. \A c \in P \ {b} : held[c].szFile # NoFile => held[c].hfile # e.hfile
  BY <1>0, <1>4 DEF BuffersFit
<1> HIDE DEF d, rest, e
<1>6. \A c \in DOMAIN rest : rest[c].szFile # NoFile =>
        /\ rest[c].hfile \in DOMAIN d.open
        /\ \A h \in DOMAIN d.open : d.open[h].file = rest[c].szFile <=> h = rest[c].hfile
        /\ rest[c].fModified => rest[c].dtModified = upd[rest[c].szFile]
  BY <1>2, <1>3, <1>4, <1>5
<1>7. ASSUME NEW f \in File, upd[f] >= 0
      PROVE  \/ /\ d.stamp[f] = upd[f]
                /\ \A h \in DOMAIN d.open : d.open[h].file = f => ~d.open[h].written
             \/ \E c \in DOMAIN rest :
                  rest[c].szFile = f /\ rest[c].fModified /\ rest[c].dtModified = upd[f]
  <2>1. CASE \E c \in P \ {b} :
               held[c].szFile = f /\ held[c].fModified /\ held[c].dtModified = upd[f]
    BY <2>1, <1>2
  <2>2. CASE e.szFile = f /\ e.fModified /\ e.dtModified = upd[f]
    <3>1. e.hfile \in DOMAIN s.open /\ \A h \in DOMAIN d.open : d.open[h].file # f
      BY <2>2, <1>n, <1>3, <1>4 DEF e
    <3>2. ~IsOpen(d.open, f) /\ e.hfile # None
      BY <3>1, <1>0 DEF IsOpen
    <3> QED BY <3>1, <3>2, <2>2, <1>1, <1>n
  <2>3. CASE /\ s.stamp[f] = upd[f]
             /\ \A h \in DOMAIN s.open : s.open[h].file = f => ~s.open[h].written
    <3>1. CASE f # e.szFile
      BY <3>1, <2>3, <1>1, <1>3
    <3>2. CASE f = e.szFile /\ e.fModified
      BY <3>2, <2>2, <1>n, <1>4 DEF e
    <3>3. CASE f = e.szFile /\ ~e.fModified
      <4>1. ~(e.hfile \in DOMAIN s.open /\ s.open[e.hfile].written)
        BY <3>3, <2>3, <1>n, <1>4 DEF e
      <4> QED BY <4>1, <3>3, <2>3, <1>1, <1>3
    <3> QED BY <3>1, <3>2, <3>3
  <2>4. \/ /\ s.stamp[f] = upd[f]
           /\ \A h \in DOMAIN s.open : s.open[h].file = f => ~s.open[h].written
        \/ \E c \in P :
             held[c].szFile = f /\ held[c].fModified /\ held[c].dtModified = upd[f]
    BY <1>7 DEF StampsFit
  <2> QED BY <2>1, <2>2, <2>3, <2>4 DEF e
<1> QED BY <1>6, <1>7 DEF StampsFit, d, rest, e

\* Freeing all buffers of a manager frees them one after the other.
LEMMA DestroyFold ==
  ASSUME clock \in Nat, NEW s \in FileSystem(clock), NEW es \in Seq(MmfEntry),
         \A i \in DOMAIN es : es[i].dtModified <= clock
  PROVE  \E after \in [0 .. Len(es) -> FileSystem(clock)] :
           /\ after[0] = s
           /\ \A k \in 1 .. Len(es) : after[k] = DestroyEntry(after[k - 1], es[k])
           /\ FoldLeft(DestroyEntry, s, es) = after[Len(es)]
<1> DEFINE A == FileSystem(clock)
           B == {e \in MmfEntry : e.dtModified <= clock}
           f == [x \in A \X B |-> DestroyEntry(x[1], x[2])]
           n == Len(es)
           Step(g, S) == IF S = {} THEN s ELSE DestroyEntry(g[S \ {Max(S)}], es[Max(S)])
           iter == CHOOSE g : g = [S \in SUBSET (1 .. n) |-> Step(g, S)]
<1>1. f \in [A \X B -> A] /\ \A a \in A, e \in B : f[<<a, e>>] = DestroyEntry(a, e)
  BY DestroyTyped
<1>2. n \in Nat /\ es \in [1 .. n -> B] /\ DOMAIN es = 1 .. n
  OBVIOUS
<1> HIDE DEF A, B, f, n
<1>3. PICK g \in [SUBSET (1 .. n) -> A] : IsFold(f, s, n, es, g)
  <2>1. s \in A
    BY DEF A
  <2>2. f \in [A \X B -> A] /\ n \in Nat /\ es \in [1 .. n -> B]
    BY <1>1, <1>2
  <2> HIDE DEF Step, iter
  <2> QED BY ONLY <2>1, <2>2, FoldExists
<1>4. ASSUME NEW S \in SUBSET (1 .. n) PROVE g[S] = Step(g, S)
  <2>1. CASE S = {}
    BY <2>1, <1>3 DEF FoldStep, IsFold
  <2>2. CASE S # {}
    <3>1. Max(S) \in 1 .. n
      BY <2>2, <1>2, MaxIsLargest
    <3>2. g[S \ {Max(S)}] \in A /\ es[Max(S)] \in B
      BY <3>1, <1>2, <1>3
    <3> QED BY <2>2, <3>2, <1>1, <1>3 DEF FoldStep, IsFold
  <2> QED BY <2>1, <2>2
<1>5. iter = [S \in SUBSET (1 .. n) |-> Step(iter, S)]
  <2>1. g = [S \in SUBSET (1 .. n) |-> Step(g, S)]
    BY <1>3, <1>4
  <2> HIDE DEF Step
  <2> QED BY <2>1
<1>6. FoldLeft(DestroyEntry, s, es) = iter[1 .. n]
  BY <1>2 DEF FoldLeft, MapThenFoldSet
<1> HIDE DEF iter
<1> DEFINE after == [k \in 0 .. n |-> iter[1 .. k]]
<1>7. \A k \in 0 .. n : 1 .. k \in SUBSET (1 .. n)
  BY <1>2
<1>8. after[0] = s
  BY <1>2, <1>5, <1>7
<1>9. \A k \in 1 .. n : after[k] = DestroyEntry(after[k - 1], es[k])
  <2> SUFFICES ASSUME NEW k \in 1 .. n PROVE after[k] = DestroyEntry(after[k - 1], es[k])
    OBVIOUS
  <2>1. k \in Nat /\ k # 0 /\ k - 1 \in 0 .. n /\ k \in 0 .. n
    BY <1>2
  <2>2. 1 .. k # {} /\ Max(1 .. k) = k /\ (1 .. k) \ {Max(1 .. k)} = 1 .. (k - 1)
    BY <2>1, MaxOfPrefix
  <2>3. iter[1 .. k] = Step(iter, 1 .. k)
    BY <1>5, <1>7, <2>1
  <2> QED BY <2>1, <2>2, <2>3
<1>10. \A k \in 0 .. n : after[k] \in A
  <2> DEFINE T == {k \in Nat : k <= n => after[k] \in A}
  <2>1. 0 \in T
    BY <1>8 DEF A
  <2>2. ASSUME NEW k \in Nat, k \in T PROVE k + 1 \in T
    <3> HIDE DEF after
    <3> SUFFICES ASSUME k + 1 <= n PROVE after[k + 1] \in A
      OBVIOUS
    <3>1. k + 1 \in 1 .. n /\ (k + 1) - 1 = k /\ after[k] \in A
      BY <2>2, <1>2
    <3>2. es[k + 1] \in MmfEntry /\ es[k + 1].dtModified <= clock
      BY <3>1, <1>2
    <3>3. after[k + 1] = DestroyEntry(after[k], es[k + 1])
      BY <3>1, <1>9
    <3> QED BY <3>1, <3>2, <3>3, DestroyTyped DEF A
  <2> HIDE DEF T
  <2>3. Nat \subseteq T
    BY <2>1, <2>2, NatSetInduction
  <2> HIDE DEF after
  <2>4. \A k \in 0 .. n : k \in Nat /\ k <= n
    BY <1>2
  <2> QED BY <2>3, <2>4 DEF T
<1>11. after \in [0 .. n -> A]
  BY <1>10
<1>12. FoldLeft(DestroyEntry, s, es) = after[n]
  BY <1>2, <1>6
<1> HIDE DEF after
<1> QED BY <1>8, <1>9, <1>11, <1>12 DEF A, n

\* The entries of the places are entries.
LEMMA HeldTyped ==
  ASSUME EntriesOfTable
  PROVE  /\ Held \in [Places -> MmfEntry]
         /\ \A b \in Places : Held[b].dtModified <= clock
         /\ \A b \in Places : b[1] \in Object /\ b[2] \in Nat /\ b[2] \in DOMAIN apmmfentry[b[1]] /\ b = <<b[1], b[2]>>
         /\ \A o \in Object : \A i \in DOMAIN apmmfentry[o] :
              /\ i \in 1 .. ulMaxFiles
              /\ <<o, i>> \in Places <=> MMFENTRY_USED(apmmfentry[o][i])
              /\ <<o, i>> \in Places => Held[<<o, i>>] = apmmfentry[o][i]
<1>1. \A o \in Object : apmmfentry[o] \in Seq(MmfEntry)
  BY DEF EntriesOfTable
<1>2. \A o \in Object : Len(apmmfentry[o]) <= ulMaxFiles /\ ulMaxFiles \in Nat
  BY EntriesAssumption DEF EntriesOfTable
<1>3. \A o \in Object : \A i \in DOMAIN apmmfentry[o] :
        i \in 1 .. ulMaxFiles /\ apmmfentry[o][i] \in MmfEntry /\ apmmfentry[o][i].dtModified <= clock
  <2> SUFFICES ASSUME NEW o \in Object, NEW i \in DOMAIN apmmfentry[o]
               PROVE  i \in 1 .. ulMaxFiles /\ apmmfentry[o][i] \in MmfEntry
    BY DEF EntriesOfTable
  <2>1. apmmfentry[o] \in Seq(MmfEntry) /\ Len(apmmfentry[o]) \in Nat
    BY <1>1
  <2>2. i \in 1 .. Len(apmmfentry[o])
    BY <2>1
  <2> QED BY <2>1, <2>2, <1>2
<1>4. \A b \in Places : b[1] \in Object /\ b[2] \in Nat /\ b[2] \in DOMAIN apmmfentry[b[1]] /\ b = <<b[1], b[2]>>
  BY DEF Places
<1>5. \A b \in Places : Held[b] = apmmfentry[b[1]][b[2]] /\ Held[b] \in MmfEntry /\ Held[b].dtModified <= clock
  BY <1>3, <1>4 DEF Held, Entry
<1>6. Held \in [Places -> MmfEntry]
  BY <1>5 DEF Held
<1>7. ASSUME NEW o \in Object, NEW i \in DOMAIN apmmfentry[o]
      PROVE  <<o, i>> \in Places <=> MMFENTRY_USED(apmmfentry[o][i])
  BY <1>3 DEF Places, Entry
<1> QED BY <1>3, <1>4, <1>5, <1>6, <1>7

\* Freeing all buffers of a manager leaves the files, the memory and the stamps
\* of the buffers of the others.
LEMMA DestroyAll ==
  ASSUME clock \in Nat, EntriesOfTable, Files \in FileSystem(clock), updated \in [File -> Nat \cup {-1}],
         NEW o \in Object, NEW kept, BuffersFit(Files, Held, kept)
  PROVE  LET d == FoldLeft(DestroyEntry, Files, apmmfentry[o])
             rest == [b \in {b \in Places : b[1] # o} |-> Held[b]]
         IN  /\ d \in FileSystem(clock)
             /\ BuffersFit(d, rest, kept)
             /\ StampsFit(Files, Held, updated) => StampsFit(d, rest, updated)
<1> DEFINE es == apmmfentry[o]
           n == Len(es)
           left(k) == {b \in Places : ~(b[1] = o /\ b[2] <= k)}
           held(k) == [b \in left(k) |-> Held[b]]
<1>1. es \in Seq(MmfEntry) /\ n \in Nat /\ DOMAIN es = 1 .. n /\ \A i \in DOMAIN es : es[i].dtModified <= clock
  <2>1. es \in Seq(MmfEntry) /\ \A i \in DOMAIN es : es[i].dtModified <= clock
    BY DEF EntriesOfTable
  <2> HIDE DEF es
  <2> QED BY <2>1
<1> HIDE DEF n
<1>2. PICK after \in [0 .. n -> FileSystem(clock)] :
           /\ after[0] = Files
           /\ \A k \in 1 .. n : after[k] = DestroyEntry(after[k - 1], es[k])
           /\ FoldLeft(DestroyEntry, Files, es) = after[n]
  <2> HIDE DEF es
  <2> QED BY <1>1, DestroyFold DEF n
<1> DEFINE Fits(k) == /\ BuffersFit(after[k], held(k), kept)
                      /\ StampsFit(Files, Held, updated) => StampsFit(after[k], held(k), updated)
<1>3. \A b \in Places : b[2] \in Nat /\ b = <<b[1], b[2]>>
  BY HeldTyped
<1>4. Fits(0)
  <2>1. left(0) = Places
    <3>1. \A b \in Places : ~(b[2] <= 0)
      BY DEF Places
    <3> HIDE DEF Fits
    <3> QED BY <3>1
  <2>2. held(0) = Held
    BY <2>1 DEF Held
  <2> QED BY <2>2, <1>2
<1>5. ASSUME NEW k \in Nat, k + 1 <= n, Fits(k) PROVE Fits(k + 1)
  <2> DEFINE b == <<o, k + 1>>
  <2>1. k + 1 \in DOMAIN es /\ k \in 0 .. n /\ (k + 1) - 1 = k /\ k + 1 \in 1 .. n
    BY <1>1, <1>5
  <2>2. after[k + 1] = DestroyEntry(after[k], es[k + 1]) /\ after[k] \in FileSystem(clock)
    BY <1>2, <2>1
  <2>3. /\ b \in Places <=> MMFENTRY_USED(es[k + 1])
        /\ b \in Places => Held[b] = es[k + 1]
    BY <2>1, HeldTyped
  <2>4. left(k + 1) = left(k) \ {b}
    BY <1>3
  <2>5. CASE ~MMFENTRY_USED(es[k + 1])
    <3>1. left(k + 1) = left(k)
      BY <2>3, <2>4, <2>5
    <3>2. held(k + 1) = held(k)
      BY <3>1
    <3>3. after[k + 1] = after[k]
      BY <2>2, <2>5 DEF DestroyEntry
    <3> HIDE DEF held
    <3> QED BY <3>2, <3>3, <1>5
  <2>6. CASE MMFENTRY_USED(es[k + 1])
    <3>1. b \in left(k) /\ held(k)[b] = es[k + 1]
      BY <2>3, <2>6
    <3>2. held(k + 1) = AllBut(held(k), b)
      BY <2>4 DEF AllBut
    <3>3. held(k) \in [left(k) -> MmfEntry]
      BY HeldTyped
    <3>4. BuffersFit(after[k], held(k), kept)
      BY <1>5
    <3> HIDE DEF held, left, b, es
    <3>5. BuffersFit(DestroyEntry(after[k], held(k)[b]), AllBut(held(k), b), kept)
      BY <2>2, <3>1, <3>3, <3>4, DestroyFits
    <3>6. StampsFit(Files, Held, updated) =>
            StampsFit(DestroyEntry(after[k], held(k)[b]), AllBut(held(k), b), updated)
      BY <2>2, <3>1, <3>3, <3>4, <1>5, DestroyStamps
    <3> QED BY <3>1, <3>2, <3>5, <3>6, <2>2
  <2> QED BY <2>5, <2>6
<1>6. Fits(n)
  <2> DEFINE T == {k \in Nat : k <= n => Fits(k)}
  <2> HIDE DEF Fits
  <2>1. 0 \in T
    BY <1>4
  <2>2. ASSUME NEW k \in Nat, k \in T PROVE k + 1 \in T
    BY <2>2, <1>1, <1>5
  <2> HIDE DEF T
  <2>3. Nat \subseteq T
    BY <2>1, <2>2, NatSetInduction
  <2> QED BY <2>3, <1>1 DEF T
<1>7. left(n) = {b \in Places : b[1] # o}
  <2>1. \A b \in Places : b[1] = o => b[2] <= n
    BY <1>1, HeldTyped
  <2> QED BY <2>1
<1>8. held(n) = [b \in {b \in Places : b[1] # o} |-> Held[b]]
  BY <1>7
<1>9. after[n] \in FileSystem(clock)
  BY <1>1, <1>2
<1> HIDE DEF held
<1> QED BY <1>2, <1>6, <1>8, <1>9

-----------------------------------------------------------------------------
(* Buffers that come, change and go *)

\* What every step lemma below assumes.
EntriesBefore == TypeOK /\ NewKnown /\ Orderly /\ OrderlyInv /\ EntriesInv

\* While the mutex is free, no thread is in a section; the entries of the object a
\* thread's handle is for are then not about to be freed.
LEMMA NoSection ==
  ASSUME EntriesBefore, MutexFree
  PROVE  \A t \in Thread : pc[t] \notin {"enter", "register", "free"}
BY TableAssumption DEF EntriesBefore, OrderlyInv, MutexOwner, TypeOK, MutexFree

\* Entry i of the manager o becomes e.
EntryBecomes(o, i, e) == apmmfentry' = [apmmfentry EXCEPT ![o] = [@ EXCEPT ![i] = e]]

\* An entry of a manager in the table changes.
LEMMA EntryChanges ==
  ASSUME EntriesBefore, MutexFree, UNCHANGED <<apmmf, pc, new, hmmf>>, clock' = clock,
         NEW o \in Object, \E s \in Slot : apmmf[s] = o,
         NEW i \in DOMAIN apmmfentry[o], NEW e \in MmfEntry, e.dtModified <= clock,
         EntryBecomes(o, i, e)
  PROVE  /\ EntriesOfTable'
         /\ MMFENTRY_USED(e) => Held' = AndOne(Held, <<o, i>>, e)
         /\ ~MMFENTRY_USED(e) => Held' = AllBut(Held, <<o, i>>)
         /\ \A p \in Object : \A k \in DOMAIN apmmfentry'[p] :
              /\ k \in DOMAIN apmmfentry[p]
              /\ apmmfentry'[p][k] = IF p = o /\ k = i THEN e ELSE apmmfentry[p][k]
<1>0. EntriesOfTable /\ i \in 1 .. ulMaxFiles
  BY HeldTyped DEF EntriesBefore, EntriesInv
<1>1. /\ apmmfentry' \in [Object -> Seq(MmfEntry)]
      /\ \A p \in Object : p # o => apmmfentry'[p] = apmmfentry[p]
      /\ apmmfentry'[o] = [apmmfentry[o] EXCEPT ![i] = e]
      /\ Len(apmmfentry'[o]) = Len(apmmfentry[o])
      /\ DOMAIN apmmfentry'[o] = DOMAIN apmmfentry[o]
  <2>1. apmmfentry \in [Object -> Seq(MmfEntry)]
    BY <1>0 DEF EntriesOfTable
  <2>2. apmmfentry[o] \in Seq(MmfEntry)
    BY <2>1
  <2>3. /\ [apmmfentry[o] EXCEPT ![i] = e] \in Seq(MmfEntry)
        /\ Len([apmmfentry[o] EXCEPT ![i] = e]) = Len(apmmfentry[o])
        /\ DOMAIN [apmmfentry[o] EXCEPT ![i] = e] = DOMAIN apmmfentry[o]
    BY <2>2
  <2> QED BY <2>1, <2>2, <2>3 DEF EntryBecomes
<1>2. \A p \in Object : \A k \in DOMAIN apmmfentry'[p] :
        /\ k \in DOMAIN apmmfentry[p]
        /\ apmmfentry'[p][k] = IF p = o /\ k = i THEN e ELSE apmmfentry[p][k]
  BY <1>1
<1>3. EntriesOfTable'
  <2>1. \A p \in Object :
       /\ Len(apmmfentry'[p]) \in {0, ulMaxFiles}
       /\ (\A s \in Slot : apmmf'[s] # p) => apmmfentry'[p] = <<>>
       /\ \A k \in DOMAIN apmmfentry'[p] : apmmfentry'[p][k].dtModified <= clock'
    BY <1>0, <1>1, <1>2 DEF EntriesOfTable
  <2>2. \A t \in Thread : pc'[t] # "register" /\ pc'[t] # "free"
    BY NoSection
  <2> QED BY <1>1, <2>1, <2>2 DEF EntriesOfTable
<1>4. Places' = IF MMFENTRY_USED(e) THEN Places \cup {<<o, i>>} ELSE Places \ {<<o, i>>}
  <2>1. ASSUME NEW p \in Object, NEW k \in 1 .. ulMaxFiles
        PROVE  <<p, k>> \in Places' <=>
                 k \in DOMAIN apmmfentry[p]
                 /\ MMFENTRY_USED(IF p = o /\ k = i THEN e ELSE apmmfentry[p][k])
    <3>1. <<p, k>> \in Places' <=> k \in DOMAIN apmmfentry'[p] /\ MMFENTRY_USED(apmmfentry'[p][k])
      BY DEF Places, Entry
    <3>2. DOMAIN apmmfentry'[p] = DOMAIN apmmfentry[p]
      BY <1>1
    <3> QED BY <3>1, <3>2, <1>2
  <2>2. ASSUME NEW p \in Object, NEW k \in 1 .. ulMaxFiles
        PROVE  <<p, k>> \in Places <=> k \in DOMAIN apmmfentry[p] /\ MMFENTRY_USED(apmmfentry[p][k])
    BY DEF Places, Entry
  <2>3. Places \subseteq Object \X (1 .. ulMaxFiles) /\ Places' \subseteq Object \X (1 .. ulMaxFiles)
    BY DEF Places
  <2>4. ASSUME NEW b \in Object \X (1 .. ulMaxFiles)
        PROVE  b \in Places' <=> b \in (IF MMFENTRY_USED(e) THEN Places \cup {<<o, i>>} ELSE Places \ {<<o, i>>})
    <3>1. PICK p \in Object, k \in 1 .. ulMaxFiles : b = <<p, k>>
      OBVIOUS
    <3> QED BY <3>1, <2>1, <2>2, <1>0
  <2> QED BY <2>3, <2>4, <1>0
<1>5. \A b \in Places' : Held'[b] = IF b = <<o, i>> THEN e ELSE Held[b]
  <2> SUFFICES ASSUME NEW b \in Places' PROVE Held'[b] = IF b = <<o, i>> THEN e ELSE Held[b]
    OBVIOUS
  <2>1. /\ b[1] \in Object /\ b[2] \in DOMAIN apmmfentry'[b[1]] /\ b = <<b[1], b[2]>>
        /\ Held'[b] = apmmfentry'[b[1]][b[2]]
    BY DEF Places, Held, Entry
  <2>2. b # <<o, i>> => b \in Places /\ Held[b] = apmmfentry[b[1]][b[2]]
    BY <1>4 DEF Held, Entry
  <2> QED BY <2>1, <2>2, <1>2
<1>6. DOMAIN Held' = Places' /\ Held' = [b \in Places' |-> Held'[b]]
  BY DEF Held
<1>7. DOMAIN Held = Places
  BY DEF Held
<1>8. MMFENTRY_USED(e) => Held' = AndOne(Held, <<o, i>>, e)
  BY <1>4, <1>5, <1>6, <1>7 DEF AndOne
<1>9. ~MMFENTRY_USED(e) => Held' = AllBut(Held, <<o, i>>)
  BY <1>4, <1>5, <1>6, <1>7 DEF AllBut
<1> QED BY <1>2, <1>3, <1>8, <1>9

\* A new buffer whose memory is new, and whose handle is new or no handle.
LEMMA AddFits ==
  ASSUME NEW s, NEW d, NEW P, NEW held \in [P -> MmfEntry], NEW kept, BuffersFit(s, held, kept),
         NEW p, p \notin P, NEW e \in MmfEntry, MMFENTRY_USED(e), e.fFileOpened <=> e.hfile # None,
         e.pvData \notin s.memory, d.memory = s.memory \cup {e.pvData},
         \/ /\ e.hfile \in {Invalid, None} /\ kept \subseteq Handle
            /\ DOMAIN d.open = DOMAIN s.open
         \/ /\ e.hfile \in Handle \ DOMAIN s.open
            /\ DOMAIN d.open = DOMAIN s.open \cup {e.hfile}
  PROVE  BuffersFit(d, AndOne(held, p, e), kept)
<1> DEFINE grown == AndOne(held, p, e)
<1>1. DOMAIN grown = P \cup {p} /\ grown[p] = e /\ \A c \in P : grown[c] = held[c]
  BY DEF AndOne
<1> HIDE DEF grown
<1>2. Handle \cap {Invalid, None} = {}
  BY EntriesAssumption
<1>3. d.memory = {grown[c].pvData : c \in DOMAIN grown}
  BY <1>1 DEF BuffersFit
<1>4. DOMAIN s.open = kept \cup ({held[c].hfile : c \in P} \ {Invalid, None})
  BY DEF BuffersFit
<1>5. {grown[c].hfile : c \in DOMAIN grown} = {held[c].hfile : c \in P} \cup {e.hfile}
  BY <1>1
<1>6. DOMAIN d.open = kept \cup ({grown[c].hfile : c \in DOMAIN grown} \ {Invalid, None})
  BY <1>2, <1>4, <1>5
<1>7. e.hfile \notin kept
  BY <1>2, <1>4
<1>8. \A c \in P : e.pvData # held[c].pvData
  BY DEF BuffersFit
<1>9. \A c \in P : e.hfile \in {Invalid, None} \/ e.hfile # held[c].hfile
  BY <1>2, <1>4
<1>10. \A c \in DOMAIN grown :
           /\ MMFENTRY_USED(grown[c])
           /\ grown[c].fFileOpened <=> grown[c].hfile # None
           /\ grown[c].hfile \notin kept
  BY <1>1, <1>7 DEF BuffersFit
<1>11. \A b, c \in DOMAIN grown : b # c =>
           /\ grown[b].pvData # grown[c].pvData
           /\ grown[b].hfile \in {Invalid, None} \/ grown[b].hfile # grown[c].hfile
  BY <1>1, <1>8, <1>9 DEF BuffersFit
<1> QED BY <1>3, <1>6, <1>10, <1>11 DEF BuffersFit, grown

\* It has the file of its name for itself, or no name, and a file that no other
\* buffer has by name.
LEMMA AddStamps ==
  ASSUME NEW s, NEW d, NEW P, NEW held \in [P -> MmfEntry], NEW upd, StampsFit(s, held, upd),
         NEW p, p \notin P, NEW e \in MmfEntry, ~e.fModified, d.stamp = s.stamp,
         \A h \in DOMAIN s.open : d.open[h] = s.open[h],
         \/ DOMAIN d.open = DOMAIN s.open /\ e.szFile = NoFile
         \/ /\ e.hfile \notin DOMAIN s.open
            /\ DOMAIN d.open = DOMAIN s.open \cup {e.hfile}
            /\ ~d.open[e.hfile].written
            /\ \A c \in P : held[c].szFile # NoFile => held[c].szFile # d.open[e.hfile].file
            /\ e.szFile # NoFile => /\ d.open[e.hfile].file = e.szFile
                                   /\ \A h \in DOMAIN s.open : s.open[h].file # e.szFile
  PROVE  StampsFit(d, AndOne(held, p, e), upd)
<1> DEFINE grown == AndOne(held, p, e)
<1>1. DOMAIN grown = P \cup {p} /\ grown[p] = e /\ \A c \in P : grown[c] = held[c]
  BY DEF AndOne
<1> HIDE DEF grown
<1>2. \A c \in P : grown[c].szFile # NoFile =>
       /\ grown[c].hfile \in DOMAIN d.open
       /\ \A h \in DOMAIN d.open : d.open[h].file = grown[c].szFile <=> h = grown[c].hfile
       /\ grown[c].fModified => grown[c].dtModified = upd[grown[c].szFile]
  BY <1>1 DEF StampsFit
<1>3. e.szFile # NoFile =>
       /\ e.hfile \in DOMAIN d.open
       /\ \A h \in DOMAIN d.open : d.open[h].file = e.szFile <=> h = e.hfile
  OBVIOUS
<1>4. ASSUME NEW f \in File, upd[f] >= 0
      PROVE  \/ /\ d.stamp[f] = upd[f]
                /\ \A h \in DOMAIN d.open : d.open[h].file = f => ~d.open[h].written
             \/ \E c \in DOMAIN grown :
                  grown[c].szFile = f /\ grown[c].fModified /\ grown[c].dtModified = upd[f]
  <2>1. CASE /\ s.stamp[f] = upd[f]
             /\ \A h \in DOMAIN s.open : s.open[h].file = f => ~s.open[h].written
    BY <2>1
  <2>2. CASE \E c \in P : held[c].szFile = f /\ held[c].fModified /\ held[c].dtModified = upd[f]
    BY <2>2, <1>1
  <2> QED BY <1>4, <2>1, <2>2 DEF StampsFit
<1>5. \A c \in DOMAIN grown : grown[c].szFile # NoFile =>
       /\ grown[c].hfile \in DOMAIN d.open
       /\ \A h \in DOMAIN d.open : d.open[h].file = grown[c].szFile <=> h = grown[c].hfile
       /\ grown[c].fModified => grown[c].dtModified = upd[grown[c].szFile]
  BY <1>1, <1>2, <1>3
<1> QED BY <1>4, <1>5 DEF StampsFit, grown

\* What a call on a buffer relies on and leaves alone.
LEMMA BufferCallFacts ==
  ASSUME EntriesBefore, UNCHANGED mode, NEW t \in mode.threads, BufferCall(t)
  PROVE  /\ hmmf[t] \in Object /\ \E s \in Slot : apmmf[s] = hmmf[t]
         /\ apmmfentry[hmmf[t]] \in Seq(MmfEntry)
         /\ MutexFree /\ UNCHANGED <<apmmf, pc, new, hmmf, bufferMode>> /\ clock' = clock
<1>1. t \in Thread
  BY TableAssumption DEF EntriesBefore, TypeOK, Mode
<1>2. hmmf[t] \in Object /\ \E s \in Slot : apmmf[s] = hmmf[t]
  BY <1>1 DEF EntriesBefore, OrderlyInv, HandleEntered, BufferCall, UseHandle, TypeOK
<1> QED BY <1>2 DEF BufferCall, UseHandle, Changes, tableVars, EntriesBefore, EntriesInv, EntriesOfTable

\* A free entry is that of no place, and after orderly calls it is all zero.
LEMMA FreeEntry ==
  ASSUME EntriesBefore, NEW o \in Object, NEW i, i \in FreeEntries(o)
  PROVE  /\ i \in DOMAIN apmmfentry[o] /\ <<o, i>> \notin Places
         /\ apmmfentry[o][i] \in MmfEntry /\ apmmfentry[o][i].pvData = Null
         /\ apmmfentry[o][i].dtModified <= clock
         /\ ~bufferMode.fails => apmmfentry[o][i] = Unused
<1>1. i \in DOMAIN apmmfentry[o] /\ ~MMFENTRY_USED(apmmfentry[o][i])
  BY DEF FreeEntries
<1>2. apmmfentry[o] \in Seq(MmfEntry)
  BY DEF EntriesBefore, EntriesInv, EntriesOfTable
<1>3. apmmfentry[o][i] \in MmfEntry
  BY <1>1, <1>2
<1> QED BY <1>1, <1>3, HeldTyped DEF EntriesBefore, EntriesInv, EntriesOfTable, MMFENTRY_USED

\* Free entries that are all zero stay so if an entry that gets used changes.
UnusedZero ==
  \A o \in Object : \A i \in DOMAIN apmmfentry[o] :
    ~MMFENTRY_USED(apmmfentry[o][i]) => apmmfentry[o][i] = Unused

\* A new buffer in a free entry.
LEMMA NewBufferHeld ==
  ASSUME EntriesBefore, UNCHANGED mode, NEW t \in mode.threads, BufferCall(t),
         NEW i, i \in FreeEntries(hmmf[t]), NEW e \in MmfEntry, MMFENTRY_USED(e),
         e.fModified = apmmfentry[hmmf[t]][i].fModified, e.dtModified = apmmfentry[hmmf[t]][i].dtModified,
         EntryBecomes(hmmf[t], i, e)
  PROVE  /\ <<hmmf[t], i>> \notin Places
         /\ EntriesOfTable'
         /\ Held' = AndOne(Held, <<hmmf[t], i>>, e)
         /\ ~bufferMode.fails => ~e.fModified /\ (UnusedZero => UnusedZero')
<1> DEFINE o == hmmf[t]
<1>0. o \in Object /\ \E s \in Slot : apmmf[s] = o
  BY BufferCallFacts
<1>c. MutexFree /\ UNCHANGED <<apmmf, pc, new, hmmf>> /\ clock' = clock
  BY BufferCallFacts
<1>1. /\ i \in DOMAIN apmmfentry[o] /\ <<o, i>> \notin Places
      /\ apmmfentry[o][i] \in MmfEntry /\ apmmfentry[o][i].dtModified <= clock
      /\ ~bufferMode.fails => apmmfentry[o][i] = Unused
  BY <1>0, FreeEntry
<1> HIDE DEF o
<1>5. /\ EntriesOfTable'
      /\ Held' = AndOne(Held, <<o, i>>, e)
      /\ \A p \in Object : \A k \in DOMAIN apmmfentry'[p] :
           /\ k \in DOMAIN apmmfentry[p]
           /\ apmmfentry'[p][k] = IF p = o /\ k = i THEN e ELSE apmmfentry[p][k]
  <2>1. e.dtModified <= clock /\ EntryBecomes(o, i, e)
    BY <1>1 DEF o
  <2> QED BY <1>0, <1>c, <1>1, <2>1, EntryChanges
<1>8. ~bufferMode.fails => ~e.fModified
  BY <1>1 DEF Unused, o
<1>9. UnusedZero => UnusedZero'
  BY <1>5 DEF UnusedZero
<1> QED BY <1>1, <1>5, <1>8, <1>9 DEF o

\* The entry of a new buffer.
LEMMA NewEntry ==
  ASSUME EntriesBefore, UNCHANGED mode, NEW t \in mode.threads, BufferCall(t),
         NEW i, i \in FreeEntries(hmmf[t]), NEW m \in Memory, NEW hfile \in Handle \cup {Invalid, None},
         NEW name \in File \cup {NoFile},
         NewBuffer(hmmf[t], i, m, hfile, hfile # None, name)
  PROVE  /\ m \notin memory /\ memory' = memory \cup {m}
         /\ \E e \in MmfEntry :
              /\ MMFENTRY_USED(e) /\ (e.fFileOpened <=> e.hfile # None)
              /\ e.hfile = hfile /\ e.pvData = m /\ e.szFile = name
              /\ <<hmmf[t], i>> \notin Places
              /\ EntriesOfTable'
              /\ Held' = AndOne(Held, <<hmmf[t], i>>, e)
              /\ ~bufferMode.fails => ~e.fModified /\ (UnusedZero => UnusedZero')
<1> DEFINE e == [apmmfentry[hmmf[t]][i] EXCEPT !.hfile = hfile, !.fFileOpened = (hfile # None),
                                               !.pvData = m, !.szFile = name]
<1>1. hmmf[t] \in Object
  BY BufferCallFacts
<1>2. apmmfentry[hmmf[t]][i] \in MmfEntry
  BY <1>1, FreeEntry
<1>3. /\ e \in MmfEntry /\ e.hfile = hfile /\ e.pvData = m /\ e.szFile = name
      /\ e.fFileOpened <=> e.hfile # None
      /\ e.fModified = apmmfentry[hmmf[t]][i].fModified
      /\ e.dtModified = apmmfentry[hmmf[t]][i].dtModified
  BY <1>2 DEF MmfEntry
<1>4. MMFENTRY_USED(e)
  BY <1>3, EntriesAssumption DEF MMFENTRY_USED
<1>5. EntryBecomes(hmmf[t], i, e)
  BY DEF NewBuffer, EntryBecomes
<1> HIDE DEF e
<1>6. /\ <<hmmf[t], i>> \notin Places
      /\ EntriesOfTable'
      /\ Held' = AndOne(Held, <<hmmf[t], i>>, e)
      /\ ~bufferMode.fails => ~e.fModified /\ (UnusedZero => UnusedZero')
  BY <1>3, <1>4, <1>5, NewBufferHeld
<1> QED BY <1>3, <1>4, <1>6 DEF NewBuffer

\* Opening a file: the handle is new, and the file was not written through it.
LEMMA OpeningTyped ==
  ASSUME Files \in FileSystem(clock), NEW h \in Handle, h \notin DOMAIN open, NEW f \in File,
         open' = WithHandle(h, f)
  PROVE  /\ open' \in UNION {[H -> [file : File, written : BOOLEAN]] : H \in SUBSET Handle}
         /\ DOMAIN open' = DOMAIN open \cup {h}
         /\ open'[h] = [file |-> f, written |-> FALSE]
         /\ \A x \in DOMAIN open : open'[x] = open[x]
<1>1. PICK H \in SUBSET Handle : open \in [H -> [file : File, written : BOOLEAN]]
  BY DEF FileSystem, Files
<1>2. open' \in [H \cup {h} -> [file : File, written : BOOLEAN]] /\ H \cup {h} \in SUBSET Handle
  BY <1>1 DEF WithHandle
<1> QED BY <1>1, <1>2 DEF WithHandle

\* The files of a step that changes the parts of the file system.
LEMMA FilesTypedNext ==
  ASSUME open' \in UNION {[H -> [file : File, written : BOOLEAN]] : H \in SUBSET Handle},
         memory' \subseteq Memory, stamp' \in [File -> 0 .. clock'], clock' \in Nat
  PROVE  Files' \in FileSystem(clock')
BY DEF Files, FileSystem

\* What the invariant says of the files, the memory and the stamps.
LEMMA FilesParts ==
  ASSUME EntriesBefore
  PROVE  /\ open \in UNION {[H -> [file : File, written : BOOLEAN]] : H \in SUBSET Handle}
         /\ memory \subseteq Memory /\ stamp \in [File -> 0 .. clock] /\ clock \in Nat
         /\ Files.open = open /\ Files.memory = memory /\ Files.stamp = stamp
         /\ DOMAIN open \subseteq Handle
         /\ \A h \in DOMAIN open : open[h].file \in File /\ open[h].written \in BOOLEAN
BY DEF EntriesBefore, EntriesInv, Files, FileSystem

\* A file is opened for a buffer alone.
LEMMA AllocNamedFits ==
  ASSUME EntriesBefore, UNCHANGED mode, NEW t \in mode.threads, NEW f \in File, AllocNamed(t, f)
  PROVE  EntriesInv'
<1>1. PICK i \in DOMAIN apmmfentry[hmmf[t]], h \in Handle, m \in Memory :
        /\ IsNew(h) /\ IsFirst(i, FreeEntries(hmmf[t]))
        /\ NewBuffer(hmmf[t], i, m, h, TRUE, f)
        /\ open' = WithHandle(h, f)
  BY DEF AllocNamed
<1>2. BufferCall(t) /\ ~IsOpen(open, f) /\ UNCHANGED <<stamp, appHandles, lost, updated>>
  BY DEF AllocNamed
<1>3. h \in Handle \ DOMAIN open /\ i \in FreeEntries(hmmf[t])
  BY <1>1 DEF IsNew, IsFirst
<1> DEFINE p == <<hmmf[t], i>>
<1>4. m \notin memory /\ memory' = memory \cup {m}
      /\ \E e \in MmfEntry :
           /\ MMFENTRY_USED(e) /\ (e.fFileOpened <=> e.hfile # None)
           /\ e.hfile = h /\ e.pvData = m /\ e.szFile = f
           /\ p \notin Places /\ EntriesOfTable' /\ Held' = AndOne(Held, p, e)
           /\ ~bufferMode.fails => ~e.fModified /\ (UnusedZero => UnusedZero')
  <2>1. h # None
    BY EntriesAssumption
  <2>2. NewBuffer(hmmf[t], i, m, h, h # None, f)
    BY <1>1, <2>1
  <2> QED BY <1>2, <1>3, <2>2, NewEntry
<1>5. PICK e \in MmfEntry :
           /\ MMFENTRY_USED(e) /\ (e.fFileOpened <=> e.hfile # None)
           /\ e.hfile = h /\ e.pvData = m /\ e.szFile = f
           /\ p \notin Places /\ EntriesOfTable' /\ Held' = AndOne(Held, p, e)
           /\ ~bufferMode.fails => ~e.fModified /\ (UnusedZero => UnusedZero')
  BY <1>4
<1> HIDE DEF p
<1>6. /\ open' \in UNION {[H -> [file : File, written : BOOLEAN]] : H \in SUBSET Handle}
      /\ DOMAIN open' = DOMAIN open \cup {h} /\ open'[h] = [file |-> f, written |-> FALSE]
      /\ \A x \in DOMAIN open : open'[x] = open[x]
  BY <1>1, <1>3, OpeningTyped DEF EntriesBefore, EntriesInv
<1>7. bufferMode' = bufferMode /\ clock' = clock
  BY <1>2, BufferCallFacts
<1>8. Files' \in FileSystem(clock')
  BY <1>2, <1>4, <1>6, <1>7, FilesParts, FilesTypedNext
<1>9. Held \in [Places -> MmfEntry] /\ \A c \in Places : Held[c].szFile # NoFile => Held[c].szFile \in File
  BY HeldTyped DEF EntriesBefore, EntriesInv, MmfEntry
<1>k. BuffersFit(Files, Held, appHandles \cup lost)
  BY DEF EntriesBefore, EntriesInv
<1>f. Files'.memory = memory' /\ Files'.open = open' /\ Files'.stamp = stamp'
  BY DEF Files
<1>10. BuffersFit(Files', Held', appHandles \cup lost)
  <2>1. /\ m \notin Files.memory /\ Files'.memory = Files.memory \cup {m}
        /\ h \in Handle \ DOMAIN Files.open /\ DOMAIN Files'.open = DOMAIN Files.open \cup {h}
    BY <1>3, <1>4, <1>6, <1>f, FilesParts
  <2>2. \/ /\ e.hfile \in {Invalid, None} /\ (appHandles \cup lost) \subseteq Handle
           /\ DOMAIN Files'.open = DOMAIN Files.open
        \/ /\ e.hfile \in Handle \ DOMAIN Files.open
           /\ DOMAIN Files'.open = DOMAIN Files.open \cup {e.hfile}
    BY <1>5, <2>1
  <2>3. /\ e.pvData \notin Files.memory /\ Files'.memory = Files.memory \cup {e.pvData}
        /\ p \notin Places /\ Held \in [Places -> MmfEntry] /\ MMFENTRY_USED(e)
        /\ e.fFileOpened <=> e.hfile # None
    BY <1>5, <1>9, <2>1
  <2>4. BuffersFit(Files', AndOne(Held, p, e), appHandles \cup lost)
    BY <2>2, <2>3, <1>k, AddFits
  <2> QED BY <2>4, <1>5
<1>11. ~bufferMode.fails => StampsFit(Files', Held', updated)
  <2> SUFFICES ASSUME ~bufferMode.fails PROVE StampsFit(Files', Held', updated)
    OBVIOUS
  <2>1. StampsFit(Files, Held, updated)
    BY DEF EntriesBefore, EntriesInv
  <2>2. \A x \in DOMAIN open : open[x].file # f
    BY <1>2 DEF IsOpen
  <2>3. \A c \in Places : Held[c].szFile # NoFile => Held[c].szFile # f
    BY <2>1, <2>2, <1>9, FilesParts DEF StampsFit
  <2>4. /\ Files'.stamp = Files.stamp /\ \A x \in DOMAIN Files.open : Files'.open[x] = Files.open[x]
        /\ p \notin Places /\ Held \in [Places -> MmfEntry] /\ ~e.fModified
    BY <1>2, <1>5, <1>6, <1>9, <1>f, FilesParts
  <2>5. /\ e.hfile \notin DOMAIN Files.open
        /\ DOMAIN Files'.open = DOMAIN Files.open \cup {e.hfile}
        /\ ~Files'.open[e.hfile].written
        /\ \A c \in Places : Held[c].szFile # NoFile => Held[c].szFile # Files'.open[e.hfile].file
        /\ e.szFile # NoFile => /\ Files'.open[e.hfile].file = e.szFile
                               /\ \A x \in DOMAIN Files.open : Files.open[x].file # e.szFile
    BY <1>3, <1>5, <1>6, <1>f, <2>2, <2>3, FilesParts
  <2>6. StampsFit(Files', AndOne(Held, p, e), updated)
    BY <2>1, <2>4, <2>5, AddStamps
  <2> QED BY <2>6, <1>5
<1> QED BY <1>2, <1>5, <1>7, <1>8, <1>10, <1>11 DEF EntriesBefore, EntriesInv, UnusedZero

\* The entries held before a step.
LEMMA HeldBefore ==
  ASSUME EntriesBefore
  PROVE  /\ Held \in [Places -> MmfEntry] /\ DOMAIN Held = Places
         /\ \A c \in Places : Held[c].szFile # NoFile => Held[c].szFile \in File
         /\ BuffersFit(Files, Held, appHandles \cup lost)
         /\ ~bufferMode.fails => StampsFit(Files, Held, updated) /\ UnusedZero
BY HeldTyped DEF EntriesBefore, EntriesInv, MmfEntry, UnusedZero

\* A buffer without a file has no handle, and after orderly calls no name.
LEMMA AllocWithoutFileFits ==
  ASSUME EntriesBefore, UNCHANGED mode, NEW t \in mode.threads, NEW hfile \in {Invalid, None},
         AllocWithoutFile(t, hfile)
  PROVE  EntriesInv'
<1> DEFINE name(i) == apmmfentry[hmmf[t]][i].szFile
<1>1. PICK i \in DOMAIN apmmfentry[hmmf[t]], m \in Memory :
        /\ IsFirst(i, FreeEntries(hmmf[t]))
        /\ NewBuffer(hmmf[t], i, m, hfile, hfile = Invalid, name(i))
  BY DEF AllocWithoutFile
<1>2. BufferCall(t) /\ UNCHANGED <<open, stamp, appHandles, lost, updated>>
  BY DEF AllocWithoutFile
<1>3. i \in FreeEntries(hmmf[t]) /\ hmmf[t] \in Object
  BY <1>1, <1>2, BufferCallFacts DEF IsFirst
<1>n. name(i) \in File \cup {NoFile} /\ (~bufferMode.fails => name(i) = NoFile)
  <2>1. /\ apmmfentry[hmmf[t]][i] \in MmfEntry
        /\ ~bufferMode.fails => apmmfentry[hmmf[t]][i] = Unused
    BY <1>3, FreeEntry
  <2> QED BY <2>1 DEF MmfEntry, Unused
<1> DEFINE p == <<hmmf[t], i>>
<1>4. m \notin memory /\ memory' = memory \cup {m}
      /\ \E e \in MmfEntry :
           /\ MMFENTRY_USED(e) /\ (e.fFileOpened <=> e.hfile # None)
           /\ e.hfile = hfile /\ e.pvData = m /\ e.szFile = name(i)
           /\ p \notin Places /\ EntriesOfTable' /\ Held' = AndOne(Held, p, e)
           /\ ~bufferMode.fails => ~e.fModified /\ (UnusedZero => UnusedZero')
  <2> HIDE DEF name
  <2>1. (hfile = Invalid) = (hfile # None)
    BY EntriesAssumption
  <2>2. NewBuffer(hmmf[t], i, m, hfile, hfile # None, name(i))
    BY <1>1, <2>1
  <2> QED BY <1>2, <1>3, <1>n, <2>2, NewEntry
<1>5. PICK e \in MmfEntry :
           /\ MMFENTRY_USED(e) /\ (e.fFileOpened <=> e.hfile # None)
           /\ e.hfile = hfile /\ e.pvData = m /\ e.szFile = name(i)
           /\ p \notin Places /\ EntriesOfTable' /\ Held' = AndOne(Held, p, e)
           /\ ~bufferMode.fails => ~e.fModified /\ (UnusedZero => UnusedZero')
  BY <1>4
<1> HIDE DEF p, name
<1>6. bufferMode' = bufferMode /\ clock' = clock
  BY <1>2, BufferCallFacts
<1>7. Files' \in FileSystem(clock')
  BY <1>2, <1>4, <1>6, FilesParts, FilesTypedNext
<1>f. Files'.memory = memory' /\ Files'.open = open' /\ Files'.stamp = stamp'
  BY DEF Files
<1>8. BuffersFit(Files', Held', appHandles \cup lost)
  <2>1. \/ /\ e.hfile \in {Invalid, None} /\ (appHandles \cup lost) \subseteq Handle
           /\ DOMAIN Files'.open = DOMAIN Files.open
        \/ /\ e.hfile \in Handle \ DOMAIN Files.open
           /\ DOMAIN Files'.open = DOMAIN Files.open \cup {e.hfile}
    BY <1>2, <1>5, <1>f, FilesParts DEF EntriesBefore, EntriesInv
  <2>2. /\ e.pvData \notin Files.memory /\ Files'.memory = Files.memory \cup {e.pvData}
        /\ p \notin Places /\ MMFENTRY_USED(e) /\ (e.fFileOpened <=> e.hfile # None)
    BY <1>4, <1>5, <1>f, FilesParts
  <2>3. BuffersFit(Files', AndOne(Held, p, e), appHandles \cup lost)
    BY <2>1, <2>2, HeldBefore, AddFits
  <2> QED BY <2>3, <1>5
<1>9. ~bufferMode.fails => StampsFit(Files', Held', updated)
  <2> SUFFICES ASSUME ~bufferMode.fails PROVE StampsFit(Files', Held', updated)
    OBVIOUS
  <2>1. /\ Files'.stamp = Files.stamp /\ \A x \in DOMAIN Files.open : Files'.open[x] = Files.open[x]
        /\ p \notin Places /\ ~e.fModified
        /\ DOMAIN Files'.open = DOMAIN Files.open /\ e.szFile = NoFile
    BY <1>2, <1>5, <1>f, <1>n, FilesParts
  <2>2. StampsFit(Files', AndOne(Held, p, e), updated)
    BY <2>1, HeldBefore, AddStamps
  <2> QED BY <2>2, <1>5
<1> QED BY <1>2, <1>5, <1>6, <1>7, <1>8, <1>9, HeldBefore DEF EntriesBefore, EntriesInv, UnusedZero

\* A duplicate of a handle of the application is new, and its file is none that
\* a buffer has by name.
LEMMA AllocFileExFits ==
  ASSUME EntriesBefore, UNCHANGED mode, NEW t \in mode.threads, NEW hfile \in appHandles,
         WtkAllocMmfFileEx(t, hfile)
  PROVE  EntriesInv'
<1> DEFINE name(i) == apmmfentry[hmmf[t]][i].szFile
           f == open[hfile].file
<1>1. PICK i \in DOMAIN apmmfentry[hmmf[t]], h \in Handle, m \in Memory :
        /\ IsNew(h) /\ IsFirst(i, FreeEntries(hmmf[t]))
        /\ NewBuffer(hmmf[t], i, m, h, TRUE, name(i))
        /\ open' = WithHandle(h, f)
  BY DEF WtkAllocMmfFileEx
<1>2. BufferCall(t) /\ UNCHANGED <<stamp, appHandles, lost, updated>>
  BY DEF WtkAllocMmfFileEx
<1>3. h \in Handle \ DOMAIN open /\ i \in FreeEntries(hmmf[t]) /\ hmmf[t] \in Object
  BY <1>1, <1>2, BufferCallFacts DEF IsNew, IsFirst
<1>n. name(i) \in File \cup {NoFile} /\ (~bufferMode.fails => name(i) = NoFile)
  <2>1. /\ apmmfentry[hmmf[t]][i] \in MmfEntry
        /\ ~bufferMode.fails => apmmfentry[hmmf[t]][i] = Unused
    BY <1>3, FreeEntry
  <2> QED BY <2>1 DEF MmfEntry, Unused
<1>a. hfile \in DOMAIN open /\ f \in File
  BY HeldBefore, FilesParts DEF BuffersFit
<1> DEFINE p == <<hmmf[t], i>>
<1>4. m \notin memory /\ memory' = memory \cup {m}
      /\ \E e \in MmfEntry :
           /\ MMFENTRY_USED(e) /\ (e.fFileOpened <=> e.hfile # None)
           /\ e.hfile = h /\ e.pvData = m /\ e.szFile = name(i)
           /\ p \notin Places /\ EntriesOfTable' /\ Held' = AndOne(Held, p, e)
           /\ ~bufferMode.fails => ~e.fModified /\ (UnusedZero => UnusedZero')
  <2> HIDE DEF name
  <2>1. h # None
    BY EntriesAssumption
  <2>2. NewBuffer(hmmf[t], i, m, h, h # None, name(i))
    BY <1>1, <2>1
  <2> QED BY <1>2, <1>3, <1>n, <2>2, NewEntry
<1>5. PICK e \in MmfEntry :
           /\ MMFENTRY_USED(e) /\ (e.fFileOpened <=> e.hfile # None)
           /\ e.hfile = h /\ e.pvData = m /\ e.szFile = name(i)
           /\ p \notin Places /\ EntriesOfTable' /\ Held' = AndOne(Held, p, e)
           /\ ~bufferMode.fails => ~e.fModified /\ (UnusedZero => UnusedZero')
  BY <1>4
<1> HIDE DEF p, name, f
<1>6. /\ open' \in UNION {[H -> [file : File, written : BOOLEAN]] : H \in SUBSET Handle}
      /\ DOMAIN open' = DOMAIN open \cup {h} /\ open'[h] = [file |-> f, written |-> FALSE]
      /\ \A x \in DOMAIN open : open'[x] = open[x]
  BY <1>1, <1>3, <1>a, OpeningTyped DEF EntriesBefore, EntriesInv
<1>7. bufferMode' = bufferMode /\ clock' = clock
  BY <1>2, BufferCallFacts
<1>8. Files' \in FileSystem(clock')
  BY <1>2, <1>4, <1>6, <1>7, FilesParts, FilesTypedNext
<1>f. Files'.memory = memory' /\ Files'.open = open' /\ Files'.stamp = stamp'
  BY DEF Files
<1>9. BuffersFit(Files', Held', appHandles \cup lost)
  <2>1. \/ /\ e.hfile \in {Invalid, None} /\ (appHandles \cup lost) \subseteq Handle
           /\ DOMAIN Files'.open = DOMAIN Files.open
        \/ /\ e.hfile \in Handle \ DOMAIN Files.open
           /\ DOMAIN Files'.open = DOMAIN Files.open \cup {e.hfile}
    BY <1>3, <1>5, <1>6, <1>f, FilesParts
  <2>2. /\ e.pvData \notin Files.memory /\ Files'.memory = Files.memory \cup {e.pvData}
        /\ p \notin Places /\ MMFENTRY_USED(e) /\ (e.fFileOpened <=> e.hfile # None)
    BY <1>4, <1>5, <1>f, FilesParts
  <2>3. BuffersFit(Files', AndOne(Held, p, e), appHandles \cup lost)
    BY <2>1, <2>2, HeldBefore, AddFits
  <2> QED BY <2>3, <1>5
<1>10. ~bufferMode.fails => StampsFit(Files', Held', updated)
  <2> SUFFICES ASSUME ~bufferMode.fails PROVE StampsFit(Files', Held', updated)
    OBVIOUS
  <2>1. \A c \in Places : Held[c].szFile # NoFile => Held[c].szFile # f
    <3> SUFFICES ASSUME NEW c \in Places, Held[c].szFile # NoFile PROVE Held[c].szFile # f
      OBVIOUS
    <3>1. \A x \in DOMAIN open : open[x].file = Held[c].szFile <=> x = Held[c].hfile
      BY HeldBefore, FilesParts DEF StampsFit
    <3>2. Held[c].hfile \notin appHandles
      BY HeldBefore DEF BuffersFit
    <3> QED BY <3>1, <3>2, <1>a DEF f
  <2>2. /\ Files'.stamp = Files.stamp /\ \A x \in DOMAIN Files.open : Files'.open[x] = Files.open[x]
        /\ p \notin Places /\ ~e.fModified
    BY <1>2, <1>5, <1>6, <1>f, FilesParts
  <2>3. /\ e.hfile \notin DOMAIN Files.open
        /\ DOMAIN Files'.open = DOMAIN Files.open \cup {e.hfile}
        /\ ~Files'.open[e.hfile].written
        /\ \A c \in Places : Held[c].szFile # NoFile => Held[c].szFile # Files'.open[e.hfile].file
        /\ e.szFile # NoFile => /\ Files'.open[e.hfile].file = e.szFile
                               /\ \A x \in DOMAIN Files.open : Files.open[x].file # e.szFile
    BY <1>3, <1>5, <1>6, <1>f, <1>n, <2>1, FilesParts
  <2>4. StampsFit(Files', AndOne(Held, p, e), updated)
    BY <2>2, <2>3, HeldBefore, AddStamps
  <2> QED BY <2>4, <1>5
<1> QED BY <1>2, <1>5, <1>7, <1>8, <1>9, <1>10, HeldBefore DEF EntriesBefore, EntriesInv, UnusedZero

\* A call that fails leaves the buffers as they are.
LEMMA FailedHeld ==
  ASSUME EntriesBefore, UNCHANGED mode, NEW t \in mode.threads, BufferCall(t),
         NEW i, i \in FreeEntries(hmmf[t]), NEW e \in MmfEntry, e.pvData = Null,
         e.dtModified = apmmfentry[hmmf[t]][i].dtModified, EntryBecomes(hmmf[t], i, e)
  PROVE  EntriesOfTable' /\ Held' = Held
<1>1. /\ hmmf[t] \in Object /\ \E s \in Slot : apmmf[s] = hmmf[t]
      /\ MutexFree /\ UNCHANGED <<apmmf, pc, new, hmmf>> /\ clock' = clock
  BY BufferCallFacts
<1>2. /\ i \in DOMAIN apmmfentry[hmmf[t]] /\ <<hmmf[t], i>> \notin Places
      /\ e.dtModified <= clock
  BY <1>1, FreeEntry
<1>3. ~MMFENTRY_USED(e)
  BY DEF MMFENTRY_USED
<1> DEFINE o == hmmf[t]
<1> HIDE DEF o
<1>4. EntriesOfTable' /\ Held' = AllBut(Held, <<o, i>>)
  <2>1. /\ o \in Object /\ \E s \in Slot : apmmf[s] = o /\ i \in DOMAIN apmmfentry[o]
        /\ EntryBecomes(o, i, e)
    BY <1>1, <1>2 DEF o
  <2> QED BY <1>1, <1>2, <1>3, <2>1, EntryChanges
<1>5. AllBut(Held, <<o, i>>) = Held
  BY <1>2 DEF AllBut, Held, o
<1> QED BY <1>4, <1>5

\* A call with a name that fails leaves no file open.
LEMMA AllocNamedFailsFits ==
  ASSUME EntriesBefore, UNCHANGED mode, NEW t \in mode.threads, NEW f \in File, AllocNamedFails(t, f)
  PROVE  EntriesInv'
<1> DEFINE e(i) == [apmmfentry[hmmf[t]][i] EXCEPT !.szFile = f, !.hfile = Invalid]
<1>1. PICK i \in DOMAIN apmmfentry[hmmf[t]] :
        i \in FreeEntries(hmmf[t]) /\ EntryBecomes(hmmf[t], i, e(i))
  BY DEF AllocNamedFails, IsFirst, EntryBecomes
<1>2. /\ BufferCall(t) /\ bufferMode.fails
      /\ UNCHANGED <<open, memory, stamp, appHandles, lost, updated>>
  BY DEF AllocNamedFails, HandlesAfter
<1>3. /\ apmmfentry[hmmf[t]][i] \in MmfEntry /\ apmmfentry[hmmf[t]][i].pvData = Null
  BY <1>1, <1>2, FreeEntry, BufferCallFacts
<1>4. e(i) \in MmfEntry /\ e(i).pvData = Null /\ e(i).dtModified = apmmfentry[hmmf[t]][i].dtModified
  BY <1>3 DEF MmfEntry
<1> HIDE DEF e
<1>5. EntriesOfTable' /\ Held' = Held
  BY <1>1, <1>2, <1>4, FailedHeld
<1>6. bufferMode' = bufferMode /\ clock' = clock /\ Files' = Files
  BY <1>2, BufferCallFacts DEF Files
<1> QED BY <1>2, <1>5, <1>6 DEF EntriesBefore, EntriesInv, BuffersFit

\* The duplicate of a handle is lost.
LEMMA AllocFileExFailsFits ==
  ASSUME EntriesBefore, UNCHANGED mode, NEW t \in mode.threads, NEW hfile \in appHandles,
         AllocFileExFails(t, hfile)
  PROVE  EntriesInv'
<1> DEFINE e(i) == [apmmfentry[hmmf[t]][i] EXCEPT !.hfile = Invalid]
           f == open[hfile].file
<1>1. PICK i \in DOMAIN apmmfentry[hmmf[t]], h \in Handle :
        /\ i \in FreeEntries(hmmf[t]) /\ h \notin DOMAIN open
        /\ apmmfentry' = [apmmfentry EXCEPT ![hmmf[t]][i].hfile = Invalid]
        /\ open' = WithHandle(h, f)
        /\ lost' = lost \cup {h}
  BY DEF AllocFileExFails, IsFirst, IsNew
<1>2. /\ BufferCall(t) /\ bufferMode.fails
      /\ UNCHANGED <<memory, stamp, appHandles, updated>>
  BY DEF AllocFileExFails
<1>3. /\ apmmfentry[hmmf[t]][i] \in MmfEntry /\ apmmfentry[hmmf[t]][i].pvData = Null
  BY <1>1, <1>2, FreeEntry, BufferCallFacts
<1>4. /\ e(i) \in MmfEntry /\ e(i).pvData = Null /\ e(i).dtModified = apmmfentry[hmmf[t]][i].dtModified
      /\ EntryBecomes(hmmf[t], i, e(i))
  BY <1>1, <1>3 DEF MmfEntry, EntryBecomes
<1>a. hfile \in DOMAIN open /\ f \in File
  BY HeldBefore, FilesParts DEF BuffersFit
<1> HIDE DEF e, f
<1>5. EntriesOfTable' /\ Held' = Held
  BY <1>1, <1>2, <1>4, FailedHeld
<1>6. /\ open' \in UNION {[H -> [file : File, written : BOOLEAN]] : H \in SUBSET Handle}
      /\ DOMAIN open' = DOMAIN open \cup {h} /\ open'[h] = [file |-> f, written |-> FALSE]
      /\ \A x \in DOMAIN open : open'[x] = open[x]
  BY <1>1, <1>a, OpeningTyped DEF EntriesBefore, EntriesInv
<1>7. bufferMode' = bufferMode /\ clock' = clock
  BY <1>2, BufferCallFacts
<1>8. Files' \in FileSystem(clock')
  BY <1>2, <1>6, <1>7, FilesParts, FilesTypedNext
<1>9. BuffersFit(Files', Held', (appHandles \cup lost)')
  <2>1. /\ Files'.memory = Files.memory /\ DOMAIN Files'.open = DOMAIN Files.open \cup {h}
        /\ Held' = Held /\ (appHandles \cup lost)' = (appHandles \cup lost) \cup {h}
    BY <1>1, <1>2, <1>5, <1>6 DEF Files
  <2>2. BuffersFit(Files, Held, appHandles \cup lost) /\ h \notin DOMAIN Files.open /\ h \notin {Invalid, None}
    BY HeldBefore, <1>1, EntriesAssumption DEF Files
  <2>3. \A c \in DOMAIN Held : Held[c].hfile # h
    BY <2>2 DEF BuffersFit
  <2> QED BY <2>1, <2>2, <2>3 DEF BuffersFit
<1>10. appHandles' \cap lost' = {}
  <2>1. appHandles \subseteq DOMAIN open /\ appHandles \cap lost = {}
    BY HeldBefore, FilesParts DEF BuffersFit, EntriesBefore, EntriesInv
  <2> QED BY <2>1, <1>1, <1>2
<1> QED BY <1>1, <1>2, <1>5, <1>7, <1>8, <1>9, <1>10 DEF EntriesBefore, EntriesInv

\* An update marks the file as written and keeps its time in the entry.
LEMMA UpdateFits ==
  ASSUME EntriesBefore, UNCHANGED mode, NEW t \in mode.threads, NEW pv, WtkUpdateMmf(t, pv)
  PROVE  EntriesInv'
<1> DEFINE o == hmmf[t]
           was(i) == apmmfentry[o][i]
           e(i) == [was(i) EXCEPT !.fModified = TRUE, !.dtModified = clock]
           h(i) == was(i).hfile
           file(i) == open[h(i)].file
<1>1. PICK i \in DOMAIN apmmfentry[o] :
        /\ MMFENTRY_USED(was(i)) /\ h(i) \in DOMAIN open
        /\ open' = [open EXCEPT ![h(i)].written = TRUE]
        /\ EntryBecomes(o, i, e(i))
        /\ updated' = [updated EXCEPT ![file(i)] = IF was(i).szFile = file(i) THEN clock ELSE -1]
  <2>1. PICK i \in Locate(o, pv) :
        /\ h(i) \in DOMAIN open
        /\ open' = [open EXCEPT ![h(i)].written = TRUE]
        /\ EntryBecomes(o, i, e(i))
        /\ updated' = [updated EXCEPT ![file(i)] = IF was(i).szFile = file(i) THEN clock ELSE -1]
    BY DEF WtkUpdateMmf, EntryBecomes
  <2>2. i \in DOMAIN apmmfentry[o] /\ MMFENTRY_USED(was(i))
    BY <2>1 DEF Locate, MMFENTRY_USED
  <2> QED BY <2>1, <2>2
<1>2. /\ BufferCall(t) /\ UNCHANGED <<memory, stamp, appHandles, lost>>
  BY DEF WtkUpdateMmf
<1>3. /\ o \in Object /\ \E s \in Slot : apmmf[s] = o
      /\ MutexFree /\ UNCHANGED <<apmmf, pc, new, hmmf, bufferMode>> /\ clock' = clock
  BY <1>2, BufferCallFacts
<1> DEFINE p == <<o, i>>
<1>4. p \in Places /\ Held[p] = was(i) /\ was(i) \in MmfEntry
  <2>1. EntriesOfTable
    BY DEF EntriesBefore, EntriesInv
  <2>2. p \in Places /\ Held[p] = was(i)
    BY <1>1, <1>3, <2>1, HeldTyped
  <2> QED BY <2>1, <2>2, HeldTyped
<1>t. clock \in Nat /\ file(i) \in File
  BY <1>1, FilesParts
<1>5. /\ e(i) \in MmfEntry /\ MMFENTRY_USED(e(i)) /\ e(i).dtModified = clock /\ e(i).fModified
      /\ e(i).hfile = h(i) /\ e(i).szFile = was(i).szFile /\ e(i).pvData = was(i).pvData
      /\ e(i).fFileOpened = was(i).fFileOpened
  BY <1>1, <1>4, <1>t DEF MmfEntry, MMFENTRY_USED
<1> HIDE DEF o, was, e, h, file, p
<1>6. /\ EntriesOfTable' /\ Held' = AndOne(Held, p, e(i))
      /\ \A q \in Object : \A k \in DOMAIN apmmfentry'[q] :
           /\ k \in DOMAIN apmmfentry[q]
           /\ apmmfentry'[q][k] = IF q = o /\ k = i THEN e(i) ELSE apmmfentry[q][k]
  <2>1. e(i).dtModified <= clock
    BY <1>5, <1>t
  <2> QED BY <1>1, <1>3, <1>5, <2>1, EntryChanges DEF p
<1>7. /\ DOMAIN Held' = Places /\ Held'[p] = e(i) /\ \A c \in Places \ {p} : Held'[c] = Held[c]
  BY <1>4, <1>6, HeldBefore DEF AndOne
<1>8. /\ open' \in UNION {[H -> [file : File, written : BOOLEAN]] : H \in SUBSET Handle}
      /\ DOMAIN open' = DOMAIN open /\ \A x \in DOMAIN open : open'[x].file = open[x].file
      /\ \A x \in DOMAIN open : x # h(i) => open'[x] = open[x]
  <2>1. PICK H \in SUBSET Handle : open \in [H -> [file : File, written : BOOLEAN]]
    BY FilesParts
  <2>2. open' \in [H -> [file : File, written : BOOLEAN]]
    BY <1>1, <2>1
  <2> QED BY <1>1, <2>1, <2>2
<1>9. Files' \in FileSystem(clock')
  BY <1>2, <1>3, <1>8, FilesParts, FilesTypedNext
<1>f. /\ Files'.memory = Files.memory /\ Files'.open = open' /\ Files'.stamp = Files.stamp
      /\ Files.open = open
  BY <1>2 DEF Files
<1>10. BuffersFit(Files', Held', appHandles \cup lost)
  <2>1. BuffersFit(Files, Held, appHandles \cup lost) /\ DOMAIN Held = Places
    BY HeldBefore
  <2>2. \A c \in Places : /\ Held'[c].pvData = Held[c].pvData /\ Held'[c].hfile = Held[c].hfile
                           /\ Held'[c].fFileOpened = Held[c].fFileOpened
    BY <1>4, <1>5, <1>7 DEF h
  <2>3. {Held'[c].pvData : c \in Places} = {Held[c].pvData : c \in Places}
        /\ {Held'[c].hfile : c \in Places} = {Held[c].hfile : c \in Places}
    BY <2>2
  <2>4. \A c \in Places : MMFENTRY_USED(Held'[c])
    BY <2>1, <2>2 DEF BuffersFit, MMFENTRY_USED
  <2> QED BY <2>1, <2>2, <2>3, <2>4, <1>7, <1>8, <1>f DEF BuffersFit
<1>11. updated' \in [File -> Nat \cup {-1}] /\ \A f \in File : updated'[f] <= clock'
  <2>1. updated \in [File -> Nat \cup {-1}] /\ \A f \in File : updated[f] <= clock
    BY DEF EntriesBefore, EntriesInv
  <2> QED BY <2>1, <1>1, <1>3, <1>t
<1>12. ~bufferMode.fails => StampsFit(Files', Held', updated')
  <2> SUFFICES ASSUME ~bufferMode.fails PROVE StampsFit(Files', Held', updated')
    OBVIOUS
  <2>1. StampsFit(Files, Held, updated) /\ DOMAIN Held = Places
    BY HeldBefore
  <2>u. /\ \A f \in File : f # file(i) => updated'[f] = updated[f]
        /\ updated'[file(i)] = IF was(i).szFile = file(i) THEN clock ELSE -1
    <3>1. updated \in [File -> Nat \cup {-1}]
      BY DEF EntriesBefore, EntriesInv
    <3> QED BY <1>1, <1>t, <3>1
  <2>2. \A c \in Places : Held'[c].szFile = Held[c].szFile /\ Held'[c].hfile = Held[c].hfile
    BY <1>4, <1>5, <1>7 DEF h
  <2>3. ASSUME NEW c \in Places, Held[c].szFile # NoFile
        PROVE  /\ Held[c].hfile \in DOMAIN open
               /\ \A x \in DOMAIN open : open[x].file = Held[c].szFile <=> x = Held[c].hfile
               /\ Held[c].fModified => Held[c].dtModified = updated[Held[c].szFile]
               /\ Held[c].szFile \in File
    BY <2>1, <2>3, <1>f, HeldBefore DEF StampsFit
  <2>4. ASSUME NEW c \in Places, Held'[c].szFile # NoFile
        PROVE  /\ Held'[c].hfile \in DOMAIN open'
               /\ \A x \in DOMAIN open' : open'[x].file = Held'[c].szFile <=> x = Held'[c].hfile
               /\ Held'[c].fModified => Held'[c].dtModified = updated'[Held'[c].szFile]
    <3>1. /\ Held'[c].hfile \in DOMAIN open'
          /\ \A x \in DOMAIN open' : open'[x].file = Held'[c].szFile <=> x = Held'[c].hfile
      BY <2>2, <2>3, <2>4, <1>8
    <3>2. CASE c = p
      <4>1. was(i).szFile = file(i)
        BY <3>2, <2>2, <2>3, <2>4, <1>1, <1>4 DEF file, h
      <4> QED BY <4>1, <3>1, <3>2, <2>u, <1>5, <1>7
    <3>3. CASE c # p
      <4>1. Held'[c] = Held[c]
        BY <3>3, <1>7
      <4>2. Held[c].hfile # h(i)
        <5>1. Held[c].hfile \in DOMAIN open
          BY <2>3, <2>4, <4>1
        <5>2. Held[c].hfile \notin {Invalid, None}
          BY <5>1, FilesParts, EntriesAssumption
        <5>3. BuffersFit(Files, Held, appHandles \cup lost)
          BY HeldBefore
        <5> QED BY <5>2, <5>3, <3>3, <2>1, <1>4 DEF BuffersFit, h
      <4>3. file(i) # Held[c].szFile
        BY <4>1, <4>2, <2>3, <2>4, <1>1 DEF file
      <4> QED BY <3>1, <4>1, <4>3, <2>3, <2>4, <2>u
    <3> QED BY <3>2, <3>3
  <2>5. ASSUME NEW f \in File, updated'[f] >= 0
        PROVE  \/ /\ Files'.stamp[f] = updated'[f]
                  /\ \A x \in DOMAIN open' : open'[x].file = f => ~open'[x].written
               \/ \E c \in Places :
                    Held'[c].szFile = f /\ Held'[c].fModified /\ Held'[c].dtModified = updated'[f]
    <3>1. CASE f = file(i)
      <4>1. was(i).szFile = f /\ updated'[f] = clock
        BY <3>1, <2>5, <2>u
      <4> QED BY <4>1, <1>4, <1>5, <1>7
    <3>2. CASE f # file(i)
      <4>1. updated'[f] = updated[f]
        BY <3>2, <2>u
      <4>2. CASE \E c \in Places : Held[c].szFile = f /\ Held[c].fModified /\ Held[c].dtModified = updated[f]
        <5>1. PICK c \in Places : Held[c].szFile = f /\ Held[c].fModified /\ Held[c].dtModified = updated[f]
          BY <4>2
        <5>2. c # p
          <6>1. f # NoFile
            BY EntriesAssumption
          <6> QED BY <5>1, <6>1, <2>3, <1>1, <1>4, <3>2 DEF file, h
        <5> QED BY <5>1, <5>2, <4>1, <1>7
      <4>3. CASE /\ Files.stamp[f] = updated[f]
                 /\ \A x \in DOMAIN open : open[x].file = f => ~open[x].written
        BY <4>3, <4>1, <3>2, <1>8, <1>f DEF file
      <4> QED BY <4>1, <4>2, <4>3, <2>1, <2>5, <1>f DEF StampsFit
    <3> QED BY <3>1, <3>2
  <2> QED BY <2>4, <2>5, <1>7, <1>f DEF StampsFit
<1>13. UnusedZero => UnusedZero'
  BY <1>5, <1>6 DEF UnusedZero
<1> QED BY <1>2, <1>3, <1>6, <1>9, <1>10, <1>11, <1>12, <1>13, HeldBefore
        DEF EntriesBefore, EntriesInv, UnusedZero

\* A cleared entry is an entry.
LEMMA UnusedTyped == Unused \in MmfEntry /\ ~MMFENTRY_USED(Unused) /\ Unused.dtModified = 0
BY DEF Unused, MmfEntry, MMFENTRY_USED

\* The files after a step that leaves them as s.
LEMMA BecomesFiles ==
  ASSUME NEW s \in FileSystem(clock), Becomes(s)
  PROVE  Files' = s
BY DEF Becomes, Files, FileSystem

\* A buffer that is freed leaves the files of the others, and their stamps.
LEMMA FreeFits ==
  ASSUME EntriesBefore, UNCHANGED mode, NEW t \in mode.threads, NEW pv, WtkFreeMmf(t, pv)
  PROVE  EntriesInv'
<1> DEFINE o == hmmf[t]
           was(i) == apmmfentry[o][i]
<1>2. /\ BufferCall(t) /\ UNCHANGED <<appHandles, lost, updated>>
  BY DEF WtkFreeMmf
<1>3. /\ o \in Object /\ \E s \in Slot : apmmf[s] = o
      /\ MutexFree /\ UNCHANGED <<apmmf, pc, new, hmmf, bufferMode>> /\ clock' = clock
  BY <1>2, BufferCallFacts
<1>1. PICK i \in DOMAIN apmmfentry[o] :
        /\ MMFENTRY_USED(was(i)) /\ Becomes(DestroyEntry(Files, was(i)))
        /\ EntryBecomes(o, i, Unused)
  <2>1. PICK i \in Locate(o, pv) :
        /\ Becomes(DestroyEntry(Files, was(i)))
        /\ apmmfentry' = [apmmfentry EXCEPT ![o] = Cleared(@, {i})]
    BY DEF WtkFreeMmf
  <2>2. i \in DOMAIN apmmfentry[o] /\ MMFENTRY_USED(was(i))
    BY <2>1 DEF Locate, MMFENTRY_USED
  <2>3. Cleared(apmmfentry[o], {i}) = [apmmfentry[o] EXCEPT ![i] = Unused]
    <3>1. apmmfentry[o] \in Seq(MmfEntry)
      BY <1>3 DEF EntriesBefore, EntriesInv, EntriesOfTable
    <3>2. apmmfentry[o] = [k \in DOMAIN apmmfentry[o] |-> apmmfentry[o][k]]
      BY <3>1
    <3> QED BY <2>2, <3>2 DEF Cleared
  <2>4. EntryBecomes(o, i, Unused)
    BY <2>1, <2>3 DEF EntryBecomes
  <2> QED BY <2>1, <2>2, <2>4
<1> DEFINE p == <<o, i>>
<1>4. p \in Places /\ Held[p] = was(i) /\ was(i) \in MmfEntry /\ was(i).dtModified <= clock
  <2>1. EntriesOfTable
    BY DEF EntriesBefore, EntriesInv
  <2>2. p \in Places /\ Held[p] = was(i)
    BY <1>1, <1>3, <2>1, HeldTyped
  <2> QED BY <2>1, <2>2, HeldTyped
<1> HIDE DEF o, was, p
<1>5. /\ EntriesOfTable' /\ Held' = AllBut(Held, p)
      /\ \A q \in Object : \A k \in DOMAIN apmmfentry'[q] :
           /\ k \in DOMAIN apmmfentry[q]
           /\ apmmfentry'[q][k] = IF q = o /\ k = i THEN Unused ELSE apmmfentry[q][k]
  <2>1. 0 <= clock
    BY FilesParts
  <2> QED BY <1>1, <1>3, <2>1, UnusedTyped, EntryChanges DEF p
<1>6. Files \in FileSystem(clock) /\ clock \in Nat /\ updated \in [File -> Nat \cup {-1}]
  BY DEF EntriesBefore, EntriesInv
<1>7. DestroyEntry(Files, was(i)) \in FileSystem(clock)
  BY <1>4, <1>6, DestroyTyped
<1>8. Files' = DestroyEntry(Files, was(i))
  BY <1>1, <1>7, BecomesFiles
<1>9. BuffersFit(Files', Held', appHandles \cup lost)
  BY <1>4, <1>5, <1>6, <1>8, HeldBefore, DestroyFits
<1>10. ~bufferMode.fails => StampsFit(Files', Held', updated)
  BY <1>4, <1>5, <1>6, <1>8, HeldBefore, DestroyStamps
<1>11. UnusedZero => UnusedZero'
  BY <1>5, UnusedTyped DEF UnusedZero
<1>12. Files' \in FileSystem(clock')
  BY <1>3, <1>7, <1>8
<1> QED BY <1>2, <1>3, <1>5, <1>9, <1>10, <1>11, <1>12, HeldBefore
        DEF EntriesBefore, EntriesInv, UnusedZero

-----------------------------------------------------------------------------
(* All buffers of a manager *)

\* All entries of a manager are cleared.
LEMMA EntriesCleared ==
  ASSUME EntriesOfTable, NEW o \in Object,
         apmmfentry' = [apmmfentry EXCEPT ![o] = Cleared(@, DOMAIN @)]
  PROVE  /\ apmmfentry' \in [Object -> Seq(MmfEntry)]
         /\ \A q \in Object : Len(apmmfentry'[q]) = Len(apmmfentry[q])
         /\ \A q \in Object : q # o => apmmfentry'[q] = apmmfentry[q]
         /\ \A k \in DOMAIN apmmfentry'[o] :
              /\ k \in DOMAIN apmmfentry[o] /\ ~MMFENTRY_USED(apmmfentry'[o][k])
              /\ apmmfentry'[o][k] \in {Unused, apmmfentry[o][k]}
         /\ Held' = [b \in {b \in Places : b[1] # o} |-> Held[b]]
<1> DEFINE es == apmmfentry[o]
           cleared == Cleared(es, DOMAIN es)
<1>1. apmmfentry \in [Object -> Seq(MmfEntry)] /\ es \in Seq(MmfEntry) /\ Len(es) \in Nat
      /\ DOMAIN es = 1 .. Len(es)
  BY DEF EntriesOfTable
<1> HIDE DEF es
<1>2. cleared \in Seq(MmfEntry) /\ Len(cleared) = Len(es) /\ DOMAIN cleared = DOMAIN es
  <2>1. cleared = [k \in 1 .. Len(es) |-> IF MMFENTRY_USED(es[k]) THEN Unused ELSE es[k]]
    BY <1>1 DEF Cleared
  <2>2. \A k \in 1 .. Len(es) : es[k] \in MmfEntry
    BY <1>1
  <2>3. cleared \in [1 .. Len(es) -> MmfEntry]
    BY <2>1, <2>2, UnusedTyped
  <2> HIDE DEF cleared
  <2> QED BY <2>3, <1>1
<1>3. \A k \in DOMAIN es : /\ ~MMFENTRY_USED(cleared[k])
                            /\ cleared[k] \in {Unused, es[k]}
  BY UnusedTyped DEF Cleared
<1>4. apmmfentry'[o] = cleared /\ \A q \in Object : q # o => apmmfentry'[q] = apmmfentry[q]
  BY <1>1 DEF es
<1>5. apmmfentry' \in [Object -> Seq(MmfEntry)]
  BY <1>1, <1>2 DEF es
<1> HIDE DEF cleared
<1>6. \A b \in Object \X (1 .. ulMaxFiles) : b \in Places' <=> b \in Places /\ b[1] # o
  <2> SUFFICES ASSUME NEW q \in Object, NEW k \in 1 .. ulMaxFiles
               PROVE  <<q, k>> \in Places' <=> <<q, k>> \in Places /\ q # o
    OBVIOUS
  <2>1. <<q, k>> \in Places' <=> k \in DOMAIN apmmfentry'[q] /\ MMFENTRY_USED(apmmfentry'[q][k])
    BY DEF Places, Entry
  <2>2. <<q, k>> \in Places <=> k \in DOMAIN apmmfentry[q] /\ MMFENTRY_USED(apmmfentry[q][k])
    BY DEF Places, Entry
  <2> QED BY <2>1, <2>2, <1>2, <1>3, <1>4
<1>7. Places' = {b \in Places : b[1] # o}
  <2>1. Places \subseteq Object \X (1 .. ulMaxFiles) /\ Places' \subseteq Object \X (1 .. ulMaxFiles)
    BY DEF Places
  <2> QED BY <1>6, <2>1
<1>8. \A b \in Places' : Held'[b] = Held[b]
  <2> SUFFICES ASSUME NEW b \in Places' PROVE Held'[b] = Held[b]
    OBVIOUS
  <2>1. b \in Places /\ b[1] # o /\ b[1] \in Object
    BY <1>7 DEF Places
  <2>2. Held'[b] = apmmfentry'[b[1]][b[2]] /\ Held[b] = apmmfentry[b[1]][b[2]]
    BY <2>1 DEF Held, Entry
  <2> QED BY <2>1, <2>2, <1>4
<1>9. Held' = [b \in {b \in Places : b[1] # o} |-> Held[b]]
  BY <1>7, <1>8 DEF Held
<1> QED BY <1>2, <1>3, <1>4, <1>5, <1>9 DEF es

\* Freeing all buffers of a manager in the table, whose handler may be deregistered
\* in the same step.
LEMMA DestroyEntriesFits ==
  ASSUME EntriesBefore, UNCHANGED <<mode, apmmf, new, hmmf>>,
         NEW o \in Object, \E s \in Slot : apmmf[s] = o, DestroyEntries(o),
         \A t \in Thread : /\ pc'[t] # "register"
                           /\ pc'[t] = "free" => hmmf[t] = o
  PROVE  EntriesInv'
<1>1. /\ Becomes(FoldLeft(DestroyEntry, Files, apmmfentry[o]))
      /\ apmmfentry' = [apmmfentry EXCEPT ![o] = Cleared(@, DOMAIN @)]
      /\ UNCHANGED <<bufferMode, clock, appHandles, lost, updated>>
  BY DEF DestroyEntries
<1>2. EntriesOfTable /\ Files \in FileSystem(clock) /\ clock \in Nat /\ updated \in [File -> Nat \cup {-1}]
  BY DEF EntriesBefore, EntriesInv
<1>3. /\ apmmfentry' \in [Object -> Seq(MmfEntry)]
      /\ \A q \in Object : Len(apmmfentry'[q]) = Len(apmmfentry[q])
      /\ \A q \in Object : q # o => apmmfentry'[q] = apmmfentry[q]
      /\ \A k \in DOMAIN apmmfentry'[o] :
           /\ k \in DOMAIN apmmfentry[o] /\ ~MMFENTRY_USED(apmmfentry'[o][k])
           /\ apmmfentry'[o][k] \in {Unused, apmmfentry[o][k]}
      /\ Held' = [b \in {b \in Places : b[1] # o} |-> Held[b]]
  BY <1>1, <1>2, EntriesCleared
<1> DEFINE d == FoldLeft(DestroyEntry, Files, apmmfentry[o])
<1>4. /\ d \in FileSystem(clock)
      /\ BuffersFit(d, Held', appHandles \cup lost)
      /\ StampsFit(Files, Held, updated) => StampsFit(d, Held', updated)
  BY <1>2, <1>3, HeldBefore, DestroyAll
<1> HIDE DEF d
<1>5. Files' = d
  BY <1>1, <1>4, BecomesFiles DEF d
<1>6. EntriesOfTable'
  <2>1. \A q \in Object :
       /\ Len(apmmfentry'[q]) \in {0, ulMaxFiles}
       /\ (\A s \in Slot : apmmf'[s] # q) => apmmfentry'[q] = <<>>
       /\ \A k \in DOMAIN apmmfentry'[q] : apmmfentry'[q][k].dtModified <= clock'
    <3> SUFFICES ASSUME NEW q \in Object
                 PROVE  /\ Len(apmmfentry'[q]) \in {0, ulMaxFiles}
                        /\ (\A s \in Slot : apmmf'[s] # q) => apmmfentry'[q] = <<>>
                        /\ \A k \in DOMAIN apmmfentry'[q] : apmmfentry'[q][k].dtModified <= clock'
      OBVIOUS
    <3>1. CASE q # o
      BY <3>1, <1>1, <1>2, <1>3 DEF EntriesOfTable
    <3>2. CASE q = o
      <4>1. \A k \in DOMAIN apmmfentry[o] : apmmfentry[o][k].dtModified <= clock
        BY <1>2 DEF EntriesOfTable
      <4>2. \A k \in DOMAIN apmmfentry'[o] : apmmfentry'[o][k].dtModified <= clock
        BY <4>1, <1>2, <1>3, UnusedTyped
      <4>3. Len(apmmfentry[q]) \in {0, ulMaxFiles}
        BY <1>2 DEF EntriesOfTable
      <4> QED BY <3>2, <4>2, <4>3, <1>1, <1>3
    <3> QED BY <3>1, <3>2
  <2>2. \A t \in Thread : pc'[t] = "free" =>
          \A i \in DOMAIN apmmfentry'[hmmf'[t]] : ~MMFENTRY_USED(apmmfentry'[hmmf'[t]][i])
    BY <1>3
  <2> QED BY <1>3, <2>1, <2>2 DEF EntriesOfTable
<1>7. UnusedZero => UnusedZero'
  <2> SUFFICES ASSUME UnusedZero, NEW q \in Object, NEW k \in DOMAIN apmmfentry'[q],
                      ~MMFENTRY_USED(apmmfentry'[q][k])
               PROVE  apmmfentry'[q][k] = Unused
    BY DEF UnusedZero
  <2>1. CASE q # o
    BY <2>1, <1>3 DEF UnusedZero
  <2>2. CASE q = o
    BY <2>2, <1>3 DEF UnusedZero
  <2> QED BY <2>1, <2>2
<1>8. bufferMode' \in BufferModes[mode'] /\ clock' = clock /\ (appHandles \cup lost)' = appHandles \cup lost
  BY <1>1 DEF EntriesBefore, EntriesInv
<1> QED BY <1>1, <1>4, <1>5, <1>6, <1>7, <1>8, HeldBefore DEF EntriesBefore, EntriesInv, UnusedZero

-----------------------------------------------------------------------------
(* The application, time, and the steps of the table *)

\* A file that the application opens was open nowhere.
LEMMA OpenFileFits ==
  ASSUME EntriesBefore, NEW f \in File, OpenFile(f)
  PROVE  EntriesInv'
<1>1. PICK h \in Handle : /\ h \notin DOMAIN open /\ open' = WithHandle(h, f)
                          /\ appHandles' = appHandles \cup {h}
  BY DEF OpenFile, IsNew, IsFirst
<1>2. /\ ~IsOpen(open, f) /\ UNCHANGED <<vars, apmmfentry, memory, stamp, lost, updated, bufferMode, clock>>
  BY DEF OpenFile, Changes
<1>3. /\ open' \in UNION {[H -> [file : File, written : BOOLEAN]] : H \in SUBSET Handle}
      /\ DOMAIN open' = DOMAIN open \cup {h} /\ open'[h] = [file |-> f, written |-> FALSE]
      /\ \A x \in DOMAIN open : open'[x] = open[x]
  BY <1>1, OpeningTyped DEF EntriesBefore, EntriesInv
<1>4. Files' \in FileSystem(clock')
  BY <1>2, <1>3, FilesParts, FilesTypedNext
<1>5. Held' = Held /\ Places' = Places
  BY <1>2 DEF Held, Places, Entry
<1>f. Files'.memory = Files.memory /\ Files'.open = open' /\ Files'.stamp = Files.stamp /\ Files.open = open
  BY <1>2 DEF Files
<1>6. EntriesOfTable'
  BY <1>2 DEF EntriesBefore, EntriesInv, EntriesOfTable, vars, threadVars, tableVars
<1>7. BuffersFit(Files', Held', (appHandles \cup lost)')
  <2>1. BuffersFit(Files, Held, appHandles \cup lost) /\ h \notin DOMAIN Files.open /\ h \notin {Invalid, None}
    BY HeldBefore, <1>1, EntriesAssumption DEF Files
  <2>2. \A c \in DOMAIN Held : Held[c].hfile # h
    BY <2>1 DEF BuffersFit
  <2>3. (appHandles \cup lost)' = (appHandles \cup lost) \cup {h}
    BY <1>1, <1>2
  <2>4. DOMAIN Files'.open = DOMAIN Files.open \cup {h}
    BY <1>3, <1>f
  <2> QED BY <2>1, <2>2, <2>3, <2>4, <1>5, <1>f DEF BuffersFit
<1>8. ~bufferMode.fails => StampsFit(Files', Held', updated')
  <2> SUFFICES ASSUME ~bufferMode.fails PROVE StampsFit(Files', Held', updated')
    OBVIOUS
  <2>1. StampsFit(Files, Held, updated)
    BY HeldBefore
  <2>2. \A x \in DOMAIN open : open[x].file # f
    BY <1>2 DEF IsOpen
  <2>3. \A c \in DOMAIN Held : Held[c].szFile # NoFile =>
         /\ Held[c].hfile \in DOMAIN open'
         /\ \A x \in DOMAIN open' : open'[x].file = Held[c].szFile <=> x = Held[c].hfile
         /\ Held[c].fModified => Held[c].dtModified = updated[Held[c].szFile]
    BY <2>1, <2>2, <1>1, <1>3, <1>f DEF StampsFit
  <2>4. \A g \in File : updated[g] >= 0 =>
         \/ /\ Files'.stamp[g] = updated[g]
            /\ \A x \in DOMAIN open' : open'[x].file = g => ~open'[x].written
         \/ \E b \in DOMAIN Held :
              Held[b].szFile = g /\ Held[b].fModified /\ Held[b].dtModified = updated[g]
    BY <2>1, <1>3, <1>f DEF StampsFit
  <2> QED BY <2>3, <2>4, <1>2, <1>5, <1>f DEF StampsFit
<1>9. appHandles' \subseteq Handle /\ appHandles' \cap lost' = {}
  <2>1. lost \subseteq DOMAIN open /\ appHandles \cap lost = {} /\ appHandles \subseteq Handle
    BY HeldBefore, <1>f DEF BuffersFit, EntriesBefore, EntriesInv
  <2> QED BY <2>1, <1>1, <1>2
<1>10. mode' = mode /\ (UnusedZero => UnusedZero')
  BY <1>2 DEF vars, UnusedZero
<1> QED BY <1>2, <1>4, <1>6, <1>7, <1>8, <1>9, <1>10, HeldBefore DEF EntriesBefore, EntriesInv, UnusedZero

\* The application closes only handles of its own, of files that no buffer has by
\* name; if such a file was written, its last update was not by name.
LEMMA CloseFileFits ==
  ASSUME EntriesBefore, NEW h \in appHandles, CloseFile(h)
  PROVE  EntriesInv'
<1>1. Becomes(DosClose(Files, h)) /\ appHandles' = appHandles \ {h}
  BY DEF CloseFile
<1>2. UNCHANGED <<vars, bufferMode, apmmfentry, clock, lost, updated>>
  BY DEF CloseFile
<1>3. Files \in FileSystem(clock) /\ clock \in Nat
  BY DEF EntriesBefore, EntriesInv
<1> DEFINE d == DosClose(Files, h)
<1>4. /\ d \in FileSystem(clock) /\ d.memory = Files.memory
      /\ DOMAIN d.open = DOMAIN open \ {h} /\ \A x \in DOMAIN d.open : d.open[x] = open[x]
      /\ \A f \in File : ~(h \in DOMAIN open /\ open[h].file = f /\ open[h].written)
               => d.stamp[f] = Files.stamp[f]
  <2>1. Files.open = open
    BY DEF Files
  <2> HIDE DEF d
  <2>2. /\ d.memory = Files.memory /\ d.open = Without(Files.open, h)
        /\ \A f \in File : ~(h \in DOMAIN Files.open /\ Files.open[h].file = f /\ Files.open[h].written)
             => d.stamp[f] = Files.stamp[f]
    BY <1>3, CloseEffect DEF d
  <2>3. d \in FileSystem(clock)
    BY <1>3, CloseTyped DEF d
  <2> QED BY <2>1, <2>2, <2>3 DEF Without
<1> HIDE DEF d
<1>5. Files' = d
  BY <1>1, <1>4, BecomesFiles DEF d
<1>6. Held' = Held /\ Places' = Places
  BY <1>2 DEF Held, Places, Entry
<1>7. EntriesOfTable'
  BY <1>2 DEF EntriesBefore, EntriesInv, EntriesOfTable, vars, threadVars, tableVars
<1>b. /\ BuffersFit(Files, Held, appHandles \cup lost) /\ h \notin lost
      /\ h \in DOMAIN open /\ \A c \in DOMAIN Held : Held[c].hfile # h
  <2>1. BuffersFit(Files, Held, appHandles \cup lost) /\ h \notin lost
    BY HeldBefore DEF EntriesBefore, EntriesInv
  <2> QED BY <2>1, FilesParts DEF BuffersFit
<1>8. BuffersFit(d, Held, (appHandles \cup lost)')
  <2>1. (appHandles \cup lost)' = (appHandles \cup lost) \ {h}
    BY <1>1, <1>2, <1>b
  <2>2. DOMAIN d.open = DOMAIN Files.open \ {h}
    BY <1>4 DEF Files
  <2> QED BY <1>4, <1>b, <2>1, <2>2 DEF BuffersFit
<1>9. ~bufferMode.fails => StampsFit(d, Held, updated)
  <2> SUFFICES ASSUME ~bufferMode.fails PROVE StampsFit(d, Held, updated)
    OBVIOUS
  <2>1. StampsFit(Files, Held, updated) /\ Files.open = open
    BY HeldBefore DEF Files
  <2>2. ASSUME NEW c \in DOMAIN Held, Held[c].szFile # NoFile
        PROVE  /\ Held[c].hfile \in DOMAIN open
               /\ \A x \in DOMAIN open : open[x].file = Held[c].szFile <=> x = Held[c].hfile
               /\ Held[c].fModified => Held[c].dtModified = updated[Held[c].szFile]
    BY <2>1, <2>2 DEF StampsFit
  <2>3. ASSUME NEW c \in DOMAIN Held, Held[c].szFile # NoFile
        PROVE  /\ Held[c].hfile \in DOMAIN d.open
               /\ \A x \in DOMAIN d.open : d.open[x].file = Held[c].szFile <=> x = Held[c].hfile
               /\ Held[c].fModified => Held[c].dtModified = updated[Held[c].szFile]
    BY <2>2, <2>3, <1>4, <1>b
  <2>4. ASSUME NEW f \in File, updated[f] >= 0
        PROVE  \/ /\ d.stamp[f] = updated[f]
                  /\ \A x \in DOMAIN d.open : d.open[x].file = f => ~d.open[x].written
               \/ \E b \in DOMAIN Held :
                    Held[b].szFile = f /\ Held[b].fModified /\ Held[b].dtModified = updated[f]
    <3>1. CASE /\ Files.stamp[f] = updated[f]
               /\ \A x \in DOMAIN open : open[x].file = f => ~open[x].written
      BY <3>1, <1>4
    <3> QED BY <3>1, <2>1, <2>4 DEF StampsFit
  <2> QED BY <2>3, <2>4 DEF StampsFit
<1>10. mode' = mode /\ (UnusedZero => UnusedZero')
  BY <1>2 DEF vars, UnusedZero
<1>11. appHandles' \subseteq Handle /\ appHandles' \cap lost' = {}
  BY <1>1, <1>2 DEF EntriesBefore, EntriesInv
<1> QED BY <1>2, <1>4, <1>5, <1>6, <1>7, <1>8, <1>9, <1>10, <1>11, HeldBefore
        DEF EntriesBefore, EntriesInv, UnusedZero

\* Time goes by.
LEMMA TickFits ==
  ASSUME EntriesBefore, Tick
  PROVE  EntriesInv'
<1>1. /\ clock' = clock + 1 /\ clock \in Nat
      /\ UNCHANGED <<vars, bufferMode, apmmfentry, open, memory, stamp, appHandles, lost, updated>>
  BY FilesParts DEF Tick
<1>2. Held' = Held /\ Files' = Files
  BY <1>1 DEF Held, Places, Entry, Files
<1>3. Files' \in FileSystem(clock')
  <2>1. stamp' \in [File -> 0 .. clock']
    BY <1>1, FilesParts
  <2> QED BY <1>1, <2>1, FilesParts, FilesTypedNext
<1>4. EntriesOfTable'
  <2>1. \A o \in Object : \A i \in DOMAIN apmmfentry[o] : apmmfentry[o][i].dtModified <= clock'
    <3>1. \A o \in Object : \A i \in DOMAIN apmmfentry[o] :
            apmmfentry[o][i].dtModified \in Nat /\ apmmfentry[o][i].dtModified <= clock
      <4>1. \A o \in Object : apmmfentry[o] \in Seq(MmfEntry)
        BY DEF EntriesBefore, EntriesInv, EntriesOfTable
      <4>2. \A o \in Object : \A i \in DOMAIN apmmfentry[o] : apmmfentry[o][i] \in MmfEntry
        BY <4>1
      <4> QED BY <4>2 DEF EntriesBefore, EntriesInv, EntriesOfTable, MmfEntry
    <3> QED BY <1>1, <3>1
  <2> QED BY <1>1, <2>1 DEF EntriesBefore, EntriesInv, EntriesOfTable, vars, threadVars, tableVars
<1>5. \A f \in File : updated[f] <= clock'
  BY <1>1 DEF EntriesBefore, EntriesInv
<1> QED BY <1>1, <1>2, <1>3, <1>4, <1>5 DEF EntriesBefore, EntriesInv, vars

\* Steps that change neither entries nor files, and keep what is in the table:
\* the entries of the table's managers are still theirs.
LEMMA SameEntries ==
  ASSUME EntriesBefore, UNCHANGED mode, UNCHANGED entryVars, EntriesOfTable'
  PROVE  EntriesInv'
<1>1. Held' = Held /\ Files' = Files
  BY DEF entryVars, Held, Places, Entry, Files
<1> QED BY <1>1 DEF EntriesBefore, EntriesInv, entryVars, BuffersFit, StampsFit

\* The threads of a behaviour are threads.
LEMMA ModeThreads == ASSUME TypeOK PROVE mode.threads \subseteq Thread
BY TableAssumption DEF TypeOK, Mode

\* The steps of a thread between its calls and the sections: no object leaves
\* the table, and the one that is entered has no entries.
LEMMA TableStepFits ==
  ASSUME EntriesBefore, UNCHANGED mode, NEW t \in mode.threads, TableStep(t)
  PROVE  EntriesInv'
<1>1. UNCHANGED entryVars /\ UNCHANGED <<apmmfentry, clock>>
  BY DEF TableStep, entryVars
<1>2. t \in Thread
  BY ModeThreads DEF EntriesBefore
<1>3. TypeOK /\ EntriesOfTable
  BY DEF EntriesBefore, EntriesInv
<1>4. SUFFICES
        /\ \A o \in Object : (\A s \in Slot : apmmf'[s] # o) => apmmfentry[o] = <<>>
        /\ \A u \in Thread :
             /\ pc'[u] = "register" => apmmfentry[new'[u]] = <<>>
             /\ pc'[u] = "free" =>
                  \A i \in DOMAIN apmmfentry[hmmf'[u]] : ~MMFENTRY_USED(apmmfentry[hmmf'[u]][i])
  <2>1. EntriesOfTable'
    BY <1>1, <1>3, <1>4 DEF EntriesOfTable
  <2> QED BY <1>1, <2>1, SameEntries
<1>5. ASSUME UNCHANGED <<apmmf, new>>, pc'[t] \notin {"register", "free"},
             \A u \in Thread : u # t => pc'[u] = pc[u] /\ hmmf'[u] = hmmf[u]
      PROVE  /\ \A o \in Object : (\A s \in Slot : apmmf'[s] # o) => apmmfentry[o] = <<>>
             /\ \A u \in Thread :
                  /\ pc'[u] = "register" => apmmfentry[new'[u]] = <<>>
                  /\ pc'[u] = "free" =>
                       \A i \in DOMAIN apmmfentry[hmmf'[u]] : ~MMFENTRY_USED(apmmfentry[hmmf'[u]][i])
  BY <1>2, <1>3, <1>5 DEF EntriesOfTable
<1> DEFINE Quiet == /\ UNCHANGED <<apmmf, new>> /\ pc'[t] \notin {"register", "free"}
                    /\ \A u \in Thread : u # t => pc'[u] = pc[u] /\ hmmf'[u] = hmmf[u]
<1> USE DEF Goto, Return, tableVars, heapVars, TypeOK
<1>6. ASSUME WtkInitializeMmf(t) \/ InitializeTest(t) \/ InitializeMark(t) PROVE Quiet
  BY <1>2, <1>3, <1>6 DEF WtkInitializeMmf, InitializeTest, InitializeMark
<1>7. ~InitializeClear(t)
  BY <1>2 DEF InitializeClear, EntriesBefore, OrderlyInv, TableInitialized
<1>8. ASSUME LocateManager(t) \/ CreateScan(t) \/ CreateNothing(t) PROVE Quiet
  BY <1>2, <1>3, <1>8 DEF LocateManager, CreateScan, CreateNothing
<1>9. ASSUME UseHandle(t) PROVE Quiet
  BY <1>2, <1>3, <1>9 DEF UseHandle
<1>10. ASSUME ThreadEnds(t) PROVE Quiet
  BY <1>2, <1>3, <1>10 DEF ThreadEnds
<1>11. ~CreateFail(t)
  BY DEF CreateFail, EntriesBefore, Orderly, MayFail
<1>12. CASE CreateEnter(t)
  <2>1. PICK o \in Object \ allocated :
           apmmf' = [apmmf EXCEPT ![slot[t]] = o] /\ new' = [new EXCEPT ![t] = o]
    BY <1>12 DEF CreateEnter
  <2>2. /\ pc' = [pc EXCEPT ![t] = "register"] /\ hmmf' = hmmf /\ pc[t] = "enter"
    BY <1>12 DEF CreateEnter
  <2>3. apmmf[slot[t]] = NoObject /\ \A s \in Slot : apmmf[s] # o
    BY <1>2, <2>1, <2>2, TableAssumption DEF EntriesBefore, OrderlyInv, SlotStillFree, EntriesAllocated
  <2>4. apmmfentry[o] = <<>>
    BY <1>3, <2>3 DEF EntriesOfTable
  <2>5. \A p \in Object : (\A s \in Slot : apmmf'[s] # p) => \A s \in Slot : apmmf[s] # p
    BY <1>2, <1>3, <2>1, <2>3, TableAssumption
  <2>6. /\ new'[t] = o /\ pc'[t] = "register"
        /\ \A u \in Thread : u # t => pc'[u] = pc[u] /\ new'[u] = new[u]
    BY <1>2, <1>3, <2>1, <2>2
  <2> QED BY <1>3, <2>2, <2>4, <2>5, <2>6 DEF EntriesOfTable
<1> QED BY <1>5, <1>6, <1>7, <1>8, <1>9, <1>10, <1>11, <1>12 DEF TableStep

\* A new manager gets a table of entries that are all zero.
LEMMA CreateEntriesFits ==
  ASSUME EntriesBefore, UNCHANGED mode, NEW t \in mode.threads, CreateEntries(t)
  PROVE  EntriesInv'
<1> DEFINE o == new[t]
           fresh == [i \in 1 .. ulMaxFiles |-> Unused]
<1>1. /\ CreateRegister(t) /\ apmmfentry' = [apmmfentry EXCEPT ![o] = fresh]
      /\ UNCHANGED <<bufferMode, open, memory, stamp, clock, appHandles, lost, updated, calls>>
  BY DEF CreateEntries
<1>2. t \in Thread /\ TypeOK /\ EntriesOfTable
  BY ModeThreads DEF EntriesBefore, EntriesInv
<1>3. /\ pc[t] = "register" /\ pc' = [pc EXCEPT ![t] = "idle"] /\ hmmf' = [hmmf EXCEPT ![t] = o]
      /\ new' = [new EXCEPT ![t] = NoObject] /\ apmmf' = apmmf
  BY <1>1 DEF CreateRegister, Goto, Return
<1>4. o \in Object /\ apmmf[slot[t]] = o /\ slot[t] \in Slot
  <2>1. o # NoObject
    BY <1>2, <1>3 DEF EntriesBefore, NewKnown
  <2> QED BY <1>2, <1>3, <2>1 DEF EntriesBefore, OrderlyInv, NewEntered, TypeOK
<1>5. apmmfentry[o] = <<>>
  BY <1>2, <1>3 DEF EntriesOfTable
<1>6. fresh \in Seq(MmfEntry) /\ Len(fresh) = ulMaxFiles /\ DOMAIN fresh = 1 .. ulMaxFiles
      /\ \A i \in DOMAIN fresh : fresh[i] = Unused
  <2>1. ulMaxFiles \in Nat
    BY EntriesAssumption
  <2>2. fresh \in [1 .. ulMaxFiles -> MmfEntry]
    BY UnusedTyped
  <2> QED BY <2>1, <2>2
<1> HIDE DEF fresh
<1>7. /\ apmmfentry' \in [Object -> Seq(MmfEntry)] /\ apmmfentry'[o] = fresh
      /\ \A q \in Object : q # o => apmmfentry'[q] = apmmfentry[q]
  BY <1>1, <1>2, <1>4, <1>6 DEF EntriesOfTable
<1>8. EntriesOfTable'
  <2>1. \A q \in Object :
       /\ Len(apmmfentry'[q]) \in {0, ulMaxFiles}
       /\ (\A s \in Slot : apmmf'[s] # q) => apmmfentry'[q] = <<>>
       /\ \A k \in DOMAIN apmmfentry'[q] : apmmfentry'[q][k].dtModified <= clock'
    <3> SUFFICES ASSUME NEW q \in Object
                 PROVE  /\ Len(apmmfentry'[q]) \in {0, ulMaxFiles}
                        /\ (\A s \in Slot : apmmf'[s] # q) => apmmfentry'[q] = <<>>
                        /\ \A k \in DOMAIN apmmfentry'[q] : apmmfentry'[q][k].dtModified <= clock'
      OBVIOUS
    <3>1. CASE q # o
      BY <3>1, <1>1, <1>2, <1>3, <1>7 DEF EntriesOfTable
    <3>2. CASE q = o
      <4>1. 0 <= clock
        BY FilesParts
      <4> QED BY <3>2, <4>1, <1>1, <1>3, <1>4, <1>6, <1>7, UnusedTyped
    <3> QED BY <3>1, <3>2
  <2>2. \A u \in Thread : pc'[u] # "register" /\ pc'[u] # "free"
    <3>1. \A u \in Thread : u # t => pc[u] \notin Section
      BY <1>2, <1>3, Exclusion DEF EntriesBefore, OrderlyInv, Section
    <3> QED BY <1>2, <1>3, <3>1 DEF Section, TypeOK
  <2> QED BY <1>7, <2>1, <2>2 DEF EntriesOfTable
<1>9. Places' = Places
  <2>1. \A q \in Object : \A k \in 1 .. ulMaxFiles : <<q, k>> \in Places' <=> <<q, k>> \in Places
    <3> SUFFICES ASSUME NEW q \in Object, NEW k \in 1 .. ulMaxFiles
                 PROVE  <<q, k>> \in Places' <=> <<q, k>> \in Places
      OBVIOUS
    <3>1. <<q, k>> \in Places' <=> k \in DOMAIN apmmfentry'[q] /\ MMFENTRY_USED(apmmfentry'[q][k])
      BY DEF Places, Entry
    <3>2. <<q, k>> \in Places <=> k \in DOMAIN apmmfentry[q] /\ MMFENTRY_USED(apmmfentry[q][k])
      BY DEF Places, Entry
    <3>3. CASE q # o
      BY <3>1, <3>2, <3>3, <1>7
    <3>4. CASE q = o
      BY <3>1, <3>2, <3>4, <1>5, <1>6, <1>7, UnusedTyped
    <3> QED BY <3>3, <3>4
  <2>2. Places \subseteq Object \X (1 .. ulMaxFiles) /\ Places' \subseteq Object \X (1 .. ulMaxFiles)
    BY DEF Places
  <2>3. \A b \in Object \X (1 .. ulMaxFiles) : b = <<b[1], b[2]>> /\ b[1] \in Object /\ b[2] \in 1 .. ulMaxFiles
    OBVIOUS
  <2> QED BY <2>1, <2>2, <2>3
<1>10. Held' = Held
  <2>1. \A b \in Places : b[1] \in Object /\ b[1] # o
    BY <1>5 DEF Places
  <2> QED BY <2>1, <1>7, <1>9 DEF Held, Entry
<1>11. Files' = Files
  BY <1>1 DEF Files
<1>12. UnusedZero => UnusedZero'
  <2> SUFFICES ASSUME UnusedZero, NEW q \in Object, NEW k \in DOMAIN apmmfentry'[q],
                      ~MMFENTRY_USED(apmmfentry'[q][k])
               PROVE  apmmfentry'[q][k] = Unused
    BY DEF UnusedZero
  <2>1. CASE q # o
    BY <2>1, <1>7 DEF UnusedZero
  <2>2. CASE q = o
    BY <2>2, <1>6, <1>7
  <2> QED BY <2>1, <2>2
<1> QED BY <1>1, <1>8, <1>10, <1>11, <1>12 DEF EntriesBefore, EntriesInv, UnusedZero

\* The entries of a manager that is freed are freed with it; it has no buffers.
LEMMA TerminateReleaseFits ==
  ASSUME EntriesBefore, UNCHANGED mode, NEW t \in mode.threads, TerminateRelease(t)
  PROVE  EntriesInv'
<1> DEFINE o == hmmf[t]
<1>1. /\ TerminateFree(t) /\ apmmfentry' = [apmmfentry EXCEPT ![o] = <<>>]
      /\ UNCHANGED <<bufferMode, open, memory, stamp, clock, appHandles, lost, updated, calls>>
  BY DEF TerminateRelease
<1>2. t \in Thread /\ TypeOK /\ EntriesOfTable
  BY ModeThreads DEF EntriesBefore, EntriesInv
<1>3. /\ pc[t] = "free" /\ pc' = [pc EXCEPT ![t] = "idle"] /\ hmmf' = [hmmf EXCEPT ![t] = NoObject]
      /\ new' = new /\ apmmf' = [apmmf EXCEPT ![slot[t]] = NoObject]
  BY <1>1 DEF TerminateFree, Goto, Return, SlotAfter
<1>4. o \in Object /\ apmmf[slot[t]] = o /\ slot[t] \in Slot
  BY <1>2, <1>3 DEF EntriesBefore, OrderlyInv, FreedEntered, TypeOK
<1>5. \A i \in DOMAIN apmmfentry[o] : ~MMFENTRY_USED(apmmfentry[o][i])
  BY <1>2, <1>3 DEF EntriesOfTable
<1>6. <<>> \in Seq(MmfEntry) /\ Len(<<>>) = 0 /\ DOMAIN <<>> = {}
  OBVIOUS
<1>7. /\ apmmfentry' \in [Object -> Seq(MmfEntry)] /\ apmmfentry'[o] = <<>>
      /\ \A q \in Object : q # o => apmmfentry'[q] = apmmfentry[q]
  BY <1>1, <1>2, <1>4, <1>6 DEF EntriesOfTable
<1>8. EntriesOfTable'
  <2>1. \A q \in Object :
       /\ Len(apmmfentry'[q]) \in {0, ulMaxFiles}
       /\ (\A s \in Slot : apmmf'[s] # q) => apmmfentry'[q] = <<>>
       /\ \A k \in DOMAIN apmmfentry'[q] : apmmfentry'[q][k].dtModified <= clock'
    <3> SUFFICES ASSUME NEW q \in Object, q # o
                 PROVE  /\ Len(apmmfentry'[q]) \in {0, ulMaxFiles}
                        /\ (\A s \in Slot : apmmf'[s] # q) => apmmfentry'[q] = <<>>
                        /\ \A k \in DOMAIN apmmfentry'[q] : apmmfentry'[q][k].dtModified <= clock'
      BY <1>6, <1>7
    <3>1. (\A s \in Slot : apmmf'[s] # q) => \A s \in Slot : apmmf[s] # q
      BY <1>2, <1>3, <1>4 DEF TypeOK
    <3> QED BY <3>1, <1>1, <1>2, <1>7 DEF EntriesOfTable
  <2>2. \A u \in Thread : pc'[u] # "register" /\ pc'[u] # "free"
    <3>1. \A u \in Thread : u # t => pc[u] \notin Section
      BY <1>2, <1>3, Exclusion DEF EntriesBefore, OrderlyInv, Section
    <3> QED BY <1>2, <1>3, <3>1 DEF Section, TypeOK
  <2> QED BY <1>7, <2>1, <2>2 DEF EntriesOfTable
<1>9. \A b \in Places : b[1] \in Object /\ b[1] # o
  BY <1>5 DEF Places, Entry
<1>10. Places' = Places
  <2>1. ASSUME NEW b \in Object \X (1 .. ulMaxFiles) PROVE b \in Places' <=> b \in Places
    <3>1. CASE b[1] = o
      BY <3>1, <1>6, <1>7, <1>9 DEF Places
    <3>2. CASE b[1] # o
      BY <3>2, <1>7 DEF Places, Entry
    <3> QED BY <3>1, <3>2
  <2>2. Places \subseteq Object \X (1 .. ulMaxFiles) /\ Places' \subseteq Object \X (1 .. ulMaxFiles)
    BY DEF Places
  <2> QED BY <2>1, <2>2
<1>11. Held' = Held
  BY <1>7, <1>9, <1>10 DEF Held, Entry
<1>12. Files' = Files
  BY <1>1 DEF Files
<1>13. UnusedZero => UnusedZero'
  BY <1>6, <1>7 DEF UnusedZero
<1> QED BY <1>1, <1>8, <1>11, <1>12, <1>13 DEF EntriesBefore, EntriesInv, UnusedZero

\* A thread terminates its manager.
LEMMA TerminateEntriesFits ==
  ASSUME EntriesBefore, UNCHANGED mode, NEW t \in mode.threads, TerminateEntries(t)
  PROVE  EntriesInv'
<1>1. t \in Thread /\ TypeOK /\ EntriesOfTable
  BY ModeThreads DEF EntriesBefore, EntriesInv
<1>2. WtkTerminateMmf(t) /\ MutexFree /\ UNCHANGED <<apmmf, new>> /\ pc[t] = "idle" /\ hmmf[t] # NoObject
  BY DEF TerminateEntries, WtkTerminateMmf
<1>3. \E s \in Slot : apmmf[s] = hmmf[t]
  BY <1>1, <1>2 DEF EntriesBefore, OrderlyInv, HandleEntered
<1>4. DestroyEntries(hmmf[t]) /\ hmmf[t] \in Object
  BY <1>1, <1>2, <1>3 DEF TerminateEntries, TypeOK
<1>5. \A u \in Thread : pc[u] \notin {"enter", "register", "free"}
  BY <1>2, NoSection
<1>6. hmmf' = hmmf /\ \A u \in Thread : pc'[u] # "register" /\ (pc'[u] = "free" => hmmf[u] = hmmf[t])
  BY <1>1, <1>2, <1>3, <1>5 DEF WtkTerminateMmf, Goto, Return, TypeOK
<1> QED BY <1>2, <1>3, <1>4, <1>6, DestroyEntriesFits

\* A thread terminates the manager of another.
LEMMA TerminateForeignFits ==
  ASSUME EntriesBefore, NEW t \in mode.threads, NEW u \in mode.threads, TerminateForeign(t, u)
  PROVE  EntriesInv'
<1>1. /\ MutexFree /\ hmmf[u] # NoObject /\ (\E s \in Slot : apmmf[s] = hmmf[u])
      /\ DestroyEntries(hmmf[u]) /\ UNCHANGED <<mode, apmmf, pc, new, hmmf>>
  BY DEF TerminateForeign, tableVars, threadVars
<1>2. hmmf[u] \in Object
  BY <1>1, ModeThreads DEF EntriesBefore, TypeOK
<1>3. \A v \in Thread : pc[v] \notin {"enter", "register", "free"}
  BY <1>1, NoSection
<1> QED BY <1>1, <1>2, <1>3, DestroyEntriesFits

-----------------------------------------------------------------------------
(* The theorems about buffers *)

\* At the start there are no buffers and no files.
LEMMA EntriesInitFits == EntriesInit => EntriesInv
<1> SUFFICES ASSUME EntriesInit PROVE EntriesInv
  OBVIOUS
<1> USE EntriesAssumption DEF EntriesInit
<1>1. <<>> \in Seq(MmfEntry) /\ Len(<<>>) = 0 /\ DOMAIN <<>> = {}
  OBVIOUS
<1>2. apmmfentry \in [Object -> Seq(MmfEntry)] /\ \A o \in Object : apmmfentry[o] = <<>>
  BY <1>1
<1>3. Places = {} /\ Held = <<>>
  BY <1>1, <1>2 DEF Places, Held
<1>4. EntriesOfTable
  <2>1. \A t \in Thread : pc[t] = "idle"
    BY DEF Init
  <2> QED BY <1>1, <1>2, <2>1 DEF EntriesOfTable
<1>5. Files \in FileSystem(clock)
  <2>1. open \in [{} -> [file : File, written : BOOLEAN]]
    BY <1>1
  <2>2. open \in UNION {[H -> [file : File, written : BOOLEAN]] : H \in SUBSET Handle}
    BY <2>1
  <2>3. stamp \in [File -> 0 .. clock]
    OBVIOUS
  <2> QED BY <2>2, <2>3 DEF Files, FileSystem
<1>6. BuffersFit(Files, Held, appHandles \cup lost)
  BY <1>1, <1>3 DEF BuffersFit, Files
<1>7. StampsFit(Files, Held, updated)
  BY <1>1, <1>3 DEF StampsFit, Files
<1>8. updated \in [File -> Nat \cup {-1}] /\ \A f \in File : updated[f] <= clock
  OBVIOUS
<1> QED BY <1>1, <1>2, <1>4, <1>5, <1>6, <1>7, <1>8 DEF EntriesInv

LEMMA EntriesNextFits ==
  ASSUME EntriesBefore, [EntriesNext]_<<vars, entryVars>>
  PROVE  EntriesInv'
<1>1. ASSUME NEW t \in mode.threads, ThreadStep(t) PROVE EntriesInv'
  <2>1. UNCHANGED mode
    BY <1>1 DEF ThreadStep
  <2>2. ASSUME BufferStep(t) PROVE EntriesInv'
    BY <2>1, <2>2, AllocNamedFits, AllocNamedFailsFits, AllocWithoutFileFits, AllocFileExFits,
       AllocFileExFailsFits, UpdateFits, FreeFits DEF BufferStep
  <2> QED
    BY <1>1, <2>1, <2>2, TableStepFits, CreateEntriesFits, TerminateEntriesFits, TerminateReleaseFits
       DEF ThreadStep
<1>2. CASE UNCHANGED <<vars, entryVars>>
  <2>1. EntriesOfTable'
    BY <1>2 DEF EntriesBefore, EntriesInv, EntriesOfTable, vars, tableVars, threadVars, entryVars
  <2> QED BY <1>2, <2>1, SameEntries DEF vars
<1> QED BY <1>1, <1>2, TerminateForeignFits, OpenFileFits, CloseFileFits, TickFits DEF EntriesNext

\* No step changes the circumstances.
LEMMA ModeKept == [EntriesNext]_<<vars, entryVars>> => mode' = mode
BY DEF EntriesNext, ThreadStep, TerminateForeign, OpenFile, CloseFile, Tick, vars

\* In orderly circumstances the entries of the managers, the files and the memory
\* agree.
THEOREM EntriesCorrect == EntriesSpec => []OrderlyEntriesInv
<1>1. EntriesInit => OrderlyEntriesInv
  BY EntriesInitFits DEF OrderlyEntriesInv
<1>2. TypeOK /\ TableInv /\ OrderlyEntriesInv /\ [EntriesNext]_<<vars, entryVars>> => OrderlyEntriesInv'
  <2> SUFFICES ASSUME TypeOK, TableInv, OrderlyEntriesInv, [EntriesNext]_<<vars, entryVars>>, Orderly'
               PROVE  EntriesInv'
    BY DEF OrderlyEntriesInv
  <2>1. Orderly
    BY ModeKept DEF Orderly
  <2>2. EntriesBefore
    BY <2>1 DEF EntriesBefore, TableInv, OrderlyEntriesInv
  <2> QED BY <2>2, EntriesNextFits
<1> QED BY <1>1, <1>2, TableCorrectWithEntries, PTL DEF EntriesSpec

\* The buffers of the managers in the table are all there are.
LEMMA BuffersAreHeld ==
  ASSUME EntriesInv
  PROVE  Buffers = Places /\ Places = DOMAIN Held /\ \A b \in Places : Entry(b) = Held[b]
<1>1. \A o \in Object : (\A s \in Slot : apmmf[s] # o) => apmmfentry[o] = <<>>
  BY DEF EntriesInv, EntriesOfTable
<1>2. Buffers \subseteq Places
  BY DEF Buffers, Places, Entry
<1>3. ASSUME NEW b \in Places PROVE b \in Buffers
  <2>1. b[1] \in Object /\ b[2] \in DOMAIN apmmfentry[b[1]]
    BY <1>3 DEF Places
  <2>2. apmmfentry[b[1]] # <<>>
    BY <2>1
  <2> QED BY <1>1, <1>3, <2>1, <2>2 DEF Buffers, Places, Entry
<1> QED BY <1>2, <1>3 DEF Held

\* What the inductive invariant says of the buffers is what is promised of them.
LEMMA EntriesInvFits == OrderlyEntriesInv => EntriesFit
<1> SUFFICES ASSUME Orderly, EntriesInv
             PROVE  /\ EntriesTypeOK
                    /\ memory = {Entry(b).pvData : b \in Buffers}
                    /\ DOMAIN open = appHandles \cup lost \cup ({Entry(b).hfile : b \in Buffers} \ {Invalid, None})
                    /\ \A b, c \in Buffers : b # c =>
                         /\ Entry(b).pvData # Entry(c).pvData
                         /\ Entry(b).hfile \in {Invalid, None} \/ Entry(b).hfile # Entry(c).hfile
                    /\ \A b \in Buffers : Entry(b).hfile \notin appHandles \cup lost
                    /\ lost # {} => bufferMode.fails
  BY DEF OrderlyEntriesInv, EntriesFit
<1>1. Buffers = Places /\ Places = DOMAIN Held /\ \A b \in Places : Entry(b) = Held[b]
  BY BuffersAreHeld
<1>2. BuffersFit(Files, Held, appHandles \cup lost)
  BY DEF EntriesInv
<1>3. /\ memory = {Entry(b).pvData : b \in Buffers}
      /\ DOMAIN open = appHandles \cup lost \cup ({Entry(b).hfile : b \in Buffers} \ {Invalid, None})
  BY <1>1, <1>2 DEF BuffersFit, Files
<1>4. /\ \A b, c \in Buffers : b # c =>
           /\ Entry(b).pvData # Entry(c).pvData
           /\ Entry(b).hfile \in {Invalid, None} \/ Entry(b).hfile # Entry(c).hfile
      /\ \A b \in Buffers : Entry(b).hfile \notin appHandles \cup lost
  BY <1>1, <1>2 DEF BuffersFit, Files
<1>5. EntriesTypeOK
  <2>1. Files \in FileSystem(clock) /\ clock \in Nat
    BY DEF EntriesInv
  <2>2. PICK H \in SUBSET Handle : open \in [H -> [file : File, written : BOOLEAN]]
    BY <2>1 DEF Files, FileSystem
  <2>3. DOMAIN open \subseteq Handle /\ \A h \in DOMAIN open : open[h].file \in File
    BY <2>2
  <2>4. memory \subseteq Memory /\ \A f \in File : stamp[f] \in 0 .. clock
    BY <2>1 DEF Files, FileSystem
  <2>5. \A f \in File : updated[f] \in -1 .. clock
    BY <2>1 DEF EntriesInv
  <2>6. appHandles \subseteq DOMAIN open /\ lost \subseteq DOMAIN open
    BY <1>3
  <2> QED BY <2>3, <2>4, <2>5, <2>6 DEF EntriesTypeOK, EntriesInv, EntriesOfTable
<1> QED BY <1>3, <1>4, <1>5 DEF EntriesInv

\* Each buffer has memory and a file of its own, each open file an owner, and no
\* memory is left over, whatever threads do to each other's managers.
THEOREM EntriesAlwaysFit == EntriesSpec => []EntriesFit
BY EntriesCorrect, EntriesInvFits, PTL

\* The file of an update is closed only when no buffer of its name is left.
LEMMA EntriesInvStamps == OrderlyEntriesInv => StampIsThatOfUpdate
<1> SUFFICES ASSUME EntriesInv, ~bufferMode.fails,
                    NEW f \in File, ~IsOpen(open, f), updated[f] >= 0
             PROVE  stamp[f] = updated[f]
  BY DEF OrderlyEntriesInv, StampIsThatOfUpdate
<1>1. StampsFit(Files, Held, updated) /\ f # NoFile
  BY EntriesAssumption DEF EntriesInv
<1>2. \A b \in DOMAIN Held : Held[b].szFile # f
  <2> SUFFICES ASSUME NEW b \in DOMAIN Held, Held[b].szFile = f PROVE FALSE
    OBVIOUS
  <2>1. Held[b].hfile \in DOMAIN open /\ open[Held[b].hfile].file = f
    BY <1>1 DEF StampsFit, Files
  <2> QED BY <2>1 DEF IsOpen
<1> QED BY <1>1, <1>2 DEF StampsFit, Files

\* A closed file bears the time of its last update through a buffer of its name,
\* unless calls for buffers have failed.
THEOREM StampAlwaysThatOfUpdate == EntriesSpec => []StampIsThatOfUpdate
BY EntriesCorrect, EntriesInvStamps, PTL

=============================================================================
