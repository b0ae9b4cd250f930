------------------------------ MODULE MmfTable ------------------------------
(***************************************************************************)
(* The table of MMF managers (source/lib/wtkmmf.c).  Each thread of a      *)
(* process may have one manager: an object from the heap that is entered   *)
(* in the table apmmf, holds the id of its thread, and is registered as an *)
(* exception handler of that thread.  The table is searched, extended and  *)
(* reduced under the mutex fmtx_apmmf, but __initialize clears it without. *)
(*                                                                         *)
(* A step of a thread is what no other thread can see in parts: a section  *)
(* under the mutex is split where __initialize of another thread may fall  *)
(* between its stores.                                                     *)
(***************************************************************************)
EXTENDS Integers

CONSTANTS
  Thread,      \* thread ids; the system gives the id of an ended thread to a new one
  MMF_MAXINSTANCES,
  Object,      \* addresses malloc returns for an MMF structure
  NoThread, NoObject,
  Modes        \* the circumstances of a behaviour, see Mode

\* Indices of apmmf.
Slot == 0 .. MMF_MAXINSTANCES - 1

Mode ==
  [threads : SUBSET Thread, \* the threads that use the library
   initialized : BOOLEAN,   \* a first call of WtkInitializeMmf has returned
                            \* before any other thread calls it
   failures : SUBSET {"malloc", "calloc", "set", "unset"},  \* calls that may fail
   abandons : BOOLEAN]      \* threads may end without WtkTerminateMmf

ASSUME TableAssumption ==
  /\ MMF_MAXINSTANCES \in Nat \ {0}
  /\ NoThread \notin Thread /\ NoObject \notin Object
  /\ Modes \subseteq Mode

VARIABLES
  mode,          \* the same throughout a behaviour
  fInitialized,
  apmmf,         \* the table
  mutex,         \* the thread that holds fmtx_apmmf
  allocated,     \* the objects that are allocated
  tid,           \* the member tid of each object; of a freed object any value
  chain,         \* the managers registered as exception handlers of a thread
  pc, slot, new, \* per thread: the step it is at, the index its loop has
                 \* reached, and pmmfNew
  hmmf, rc,      \* per thread: the handle it has, and the last return code
  useAfterFree   \* the code has read or freed an object that was free

tableVars  == <<fInitialized, apmmf, mutex>>
heapVars   == <<allocated, tid, useAfterFree>>
threadVars == <<chain, pc, slot, new, hmmf, rc>>
vars       == <<mode, tableVars, heapVars, threadVars>>

MayFail(f) == f \in mode.failures

Init ==
  /\ mode \in Modes
  /\ fInitialized = mode.initialized
  /\ apmmf = [s \in Slot |-> NoObject]
  /\ mutex = NoThread
  /\ allocated = {} /\ tid = [o \in Object |-> NoThread]
  /\ chain = [t \in Thread |-> {}]
  /\ pc = [t \in Thread |-> "idle"] /\ slot = [t \in Thread |-> 0]
  /\ new = [t \in Thread |-> NoObject]
  /\ hmmf = [t \in Thread |-> NoObject]
  /\ rc = [t \in Thread |-> "NO_ERROR"]
  /\ useAfterFree = FALSE

Goto(t, step) == pc' = [pc EXCEPT ![t] = step]

Return(t, handle, code) ==
  /\ Goto(t, "idle")
  /\ hmmf' = [hmmf EXCEPT ![t] = handle]
  /\ rc' = [rc EXCEPT ![t] = code]

-----------------------------------------------------------------------------
(* Searching the table *)

Used(table) == {s \in Slot : table[s] # NoObject}
SlotsOf(t)  == {s \in Used(apmmf) : tid[apmmf[s]] = t}

\* Mutant of Located: the search ends at the first used slot.
LocatedFirst(t) ==
  IF \E s \in SlotsOf(t) : \A r \in Used(apmmf) : s <= r
  THEN apmmf[CHOOSE s \in SlotsOf(t) : \A r \in Used(apmmf) : s <= r]
  ELSE NoObject

\* The search goes on after a match, so the last one counts.
Located(t) ==
  IF SlotsOf(t) = {} THEN NoObject
  ELSE apmmf[CHOOSE s \in SlotsOf(t) : \A r \in SlotsOf(t) : r <= s]

\* The search reads each object in the table.
Search ==
  useAfterFree' = (useAfterFree \/ \E s \in Used(apmmf) : apmmf[s] \notin allocated)

\* Mutant of MutexFree: the section is not locked.
MutexIgnored == TRUE

MutexFree == mutex = NoThread

-----------------------------------------------------------------------------
(* WtkInitializeMmf *)

WtkInitializeMmf(t) ==
  /\ pc[t] = "idle"
  /\ Goto(t, "initialize")
  /\ UNCHANGED <<tableVars, heapVars, chain, slot, new, hmmf, rc>>

\* __initialize: the flag is tested, the table cleared and the flag set
\* without a lock.
InitializeTest(t) ==
  /\ pc[t] = "initialize"
  /\ Goto(t, IF fInitialized THEN "locate" ELSE "clear")
  /\ UNCHANGED <<tableVars, heapVars, chain, slot, new, hmmf, rc>>

InitializeClear(t) ==
  /\ pc[t] = "clear"
  /\ apmmf' = [s \in Slot |-> NoObject]
  /\ Goto(t, "mark")
  /\ UNCHANGED <<fInitialized, mutex, heapVars, chain, slot, new, hmmf, rc>>

InitializeMark(t) ==
  /\ pc[t] = "mark"
  /\ fInitialized' = TRUE
  /\ Goto(t, "locate")
  /\ UNCHANGED <<apmmf, mutex, heapVars, chain, slot, new, hmmf, rc>>

LocateManager(t) ==
  /\ pc[t] = "locate" /\ MutexFree
  /\ Search
  /\ IF Located(t) # NoObject
     THEN Return(t, Located(t), "ACCESS_DENIED")
     ELSE Goto(t, "create") /\ UNCHANGED <<hmmf, rc>>
  /\ UNCHANGED <<tableVars, allocated, tid, chain, slot, new>>

FreeSlots == {s \in Slot : apmmf[s] = NoObject}

\* __createNewMMFHandler takes the mutex and looks for the first free slot for
\* which malloc succeeds.
CreateScan(t) ==
  /\ pc[t] = "create" /\ MutexFree
  /\ Object # allocated
  /\ \E s \in FreeSlots :
       /\ (\E r \in FreeSlots : r < s) => MayFail("malloc")
       /\ slot' = [slot EXCEPT ![t] = s]
  /\ mutex' = t
  /\ Goto(t, "enter")
  /\ UNCHANGED <<fInitialized, apmmf, heapVars, chain, new, hmmf, rc>>

CreateNothing(t) ==
  /\ pc[t] = "create" /\ MutexFree
  /\ FreeSlots = {} \/ Object = allocated \/ MayFail("malloc")
  /\ Return(t, hmmf[t], "NOT_ENOUGH_MEMORY")
  /\ UNCHANGED <<tableVars, heapVars, chain, slot, new>>

CreateEnter(t) ==
  /\ pc[t] = "enter"
  /\ \E o \in Object \ allocated :
       /\ apmmf' = [apmmf EXCEPT ![slot[t]] = o]
       /\ allocated' = allocated \cup {o}
       /\ tid' = [tid EXCEPT ![o] = t]
       /\ new' = [new EXCEPT ![t] = o]
  /\ Goto(t, "register")
  /\ UNCHANGED <<fInitialized, mutex, useAfterFree, chain, slot, hmmf, rc>>

CreateRegister(t) ==
  /\ pc[t] = "register"
  /\ chain' = [chain EXCEPT ![t] = @ \cup {new[t]}]
  /\ mutex' = NoThread
  /\ new' = [new EXCEPT ![t] = NoObject] /\ slot' = [slot EXCEPT ![t] = 0]
  /\ Return(t, new[t], "NO_ERROR")
  /\ UNCHANGED <<fInitialized, apmmf, heapVars>>

\* If calloc or DosSetExceptionHandler fails, the object is freed, but it stays
\* in the table and its address is returned as a valid handle.
CreateFail(t) ==
  /\ pc[t] = "register"
  /\ MayFail("calloc") \/ MayFail("set")
  /\ allocated' = allocated \ {new[t]}
  /\ \E any \in Thread \cup {NoThread} : tid' = [tid EXCEPT ![new[t]] = any]
  /\ mutex' = NoThread
  /\ new' = [new EXCEPT ![t] = NoObject] /\ slot' = [slot EXCEPT ![t] = 0]
  /\ Return(t, new[t], "NO_ERROR")
  /\ UNCHANGED <<fInitialized, apmmf, useAfterFree, chain>>

-----------------------------------------------------------------------------
(* The other calls *)

\* Every call on a buffer first locates the manager of the thread and compares
\* it with the handle.
UseHandle(t) ==
  /\ pc[t] = "idle" /\ hmmf[t] # NoObject /\ MutexFree
  /\ Search
  /\ rc' = [rc EXCEPT ![t] = IF Located(t) = hmmf[t] THEN "NO_ERROR" ELSE "INVALID_HANDLE"]
  /\ UNCHANGED <<tableVars, allocated, tid, chain, pc, slot, new, hmmf>>

\* The exception handlers of the thread after DosUnsetExceptionHandler.
ChainAfter(t, o) == chain[t] \ {o}

\* __destroyMMFHandler: the manager is looked for by its address, its entries
\* are freed and its handler is deregistered.  If the system refuses that, or
\* the manager is not in the table, the call ends.
WtkTerminateMmf(t) ==
  LET found == {s \in Slot : apmmf[s] = hmmf[t]} IN
  /\ pc[t] = "idle" /\ hmmf[t] # NoObject /\ MutexFree
  /\ useAfterFree' = (useAfterFree \/ (found # {} /\ hmmf[t] \notin allocated))
  /\ \/ /\ found = {}
        /\ Return(t, NoObject, "INVALID_HANDLE")
        /\ UNCHANGED <<mutex, chain, slot>>
     \/ /\ found # {}
        /\ MayFail("unset") \/ hmmf[t] \notin chain[t]
        /\ Return(t, hmmf[t], "UNSET_FAILED")
        /\ UNCHANGED <<mutex, chain, slot>>
     \/ /\ hmmf[t] \in chain[t]
        /\ \E s \in found : /\ \A r \in found : s <= r
                            /\ slot' = [slot EXCEPT ![t] = s]
        /\ chain' = [chain EXCEPT ![t] = ChainAfter(t, hmmf[t])]
        /\ mutex' = t
        /\ Goto(t, "free")
        /\ UNCHANGED <<hmmf, rc>>
  /\ UNCHANGED <<fInitialized, apmmf, allocated, tid, new>>

\* Mutant of SlotAfter: the address of the freed manager stays in the table.
SlotAfterKept(o) == o

\* What a slot holds after its manager is destroyed.
SlotAfter(o) == NoObject

\* The object is freed and taken out of the table.
TerminateFree(t) ==
  /\ pc[t] = "free"
  /\ useAfterFree' = (useAfterFree \/ hmmf[t] \notin allocated)
  /\ allocated' = allocated \ {hmmf[t]}
  /\ \E any \in Thread \cup {NoThread} : tid' = [tid EXCEPT ![hmmf[t]] = any]
  /\ apmmf' = [apmmf EXCEPT ![slot[t]] = SlotAfter(hmmf[t])]
  /\ mutex' = NoThread
  /\ slot' = [slot EXCEPT ![t] = 0]
  /\ Return(t, NoObject, "NO_ERROR")
  /\ UNCHANGED <<fInitialized, chain, new>>

\* A thread ends; the system drops its exception handlers.  A new thread may
\* get its id.
ThreadEnds(t) ==
  /\ pc[t] = "idle"
  /\ hmmf[t] # NoObject => mode.abandons
  /\ chain' = [chain EXCEPT ![t] = {}]
  /\ Return(t, NoObject, "NO_ERROR")
  /\ UNCHANGED <<tableVars, heapVars, slot, new>>

Next ==
  /\ \E t \in mode.threads :
       \/ WtkInitializeMmf(t)
       \/ InitializeTest(t) \/ InitializeClear(t) \/ InitializeMark(t)
       \/ LocateManager(t)
       \/ CreateScan(t) \/ CreateNothing(t) \/ CreateEnter(t)
       \/ CreateRegister(t) \/ CreateFail(t)
       \/ UseHandle(t)
       \/ WtkTerminateMmf(t) \/ TerminateFree(t)
       \/ ThreadEnds(t)
  /\ UNCHANGED mode

Spec == Init /\ [][Next]_vars

-----------------------------------------------------------------------------
(* Properties *)

\* Every variable stays in its type.
TypeOK ==
  /\ mode \in Modes /\ fInitialized \in BOOLEAN
  /\ apmmf \in [Slot -> Object \cup {NoObject}]
  /\ mutex \in Thread \cup {NoThread}
  /\ allocated \subseteq Object /\ tid \in [Object -> Thread \cup {NoThread}]
  /\ chain \in [Thread -> SUBSET Object]
  /\ pc \in [Thread -> {"idle", "initialize", "clear", "mark", "locate", "create",
                        "enter", "register", "free"}]
  /\ slot \in [Thread -> Slot]
  /\ new \in [Thread -> Object \cup {NoObject}]
  /\ hmmf \in [Thread -> Object \cup {NoObject}]
  /\ rc \in [Thread -> {"NO_ERROR", "ACCESS_DENIED", "NOT_ENOUGH_MEMORY",
                        "INVALID_HANDLE", "UNSET_FAILED"}]
  /\ useAfterFree \in BOOLEAN

\* Circumstances in which the table can be relied on: no two threads make the
\* first call at the same time, and if memory is short, it is so at malloc.
Orderly == mode.initialized /\ mode.failures \subseteq {"malloc", "unset"}

\* The search never reads a manager that has been freed, and no manager is
\* freed twice.
NoUseAfterFree ==
  Orderly => ~useAfterFree

\* The manager of a thread that has a handle is in the table, where the page
\* fault handler and every call of the thread will find it, and nowhere else.
HandleStaysValid ==
  Orderly =>
    \A t \in Thread :
      hmmf[t] # NoObject /\ pc[t] # "free" =>
        /\ Located(t) = hmmf[t]
        /\ \A r, s \in Slot : apmmf[r] = hmmf[t] /\ apmmf[s] = hmmf[t] => r = s
        /\ ~mode.abandons => hmmf[t] \in chain[t]

\* No object is registered as exception handler of a thread once it is freed.
HandlersAllocated ==
  Orderly => \A t \in Thread : chain[t] \subseteq allocated

\* At most one manager in the table bears the id of a thread, so that it does
\* not matter that the search returns the last match.
OneManagerPerThread ==
  Orderly =>
    \A t \in Thread, r, s \in Slot :
      apmmf[r] # NoObject /\ apmmf[s] # NoObject /\ tid[apmmf[r]] = t /\ tid[apmmf[s]] = t
        => r = s

-----------------------------------------------------------------------------
(* The inductive invariant behind these properties *)

\* The first call has returned, so no thread clears the table.
TableInitialized == fInitialized /\ \A t \in Thread : pc[t] \notin {"clear", "mark"}

\* The mutex belongs to the thread that is inside a section it protects.
MutexOwner == \A t \in Thread : mutex = t <=> pc[t] \in {"enter", "register", "free"}

\* What is in the table is allocated, and there once.
EntriesAllocated == \A s \in Slot : apmmf[s] # NoObject => apmmf[s] \in allocated
EntriesDistinct  ==
  \A r, s \in Slot : apmmf[r] # NoObject /\ apmmf[r] = apmmf[s] => r = s

\* At most one manager bears the id of a thread, and none while one is created.
OneEntry      == \A t \in Thread : \A r, s \in SlotsOf(t) : r = s
NoneYet       == \A t \in Thread : pc[t] \in {"create", "enter"} => SlotsOf(t) = {}
SlotStillFree == \A t \in Thread : pc[t] = "enter" => apmmf[slot[t]] = NoObject
NewEntered    ==
  \A t \in Thread : pc[t] = "register" => apmmf[slot[t]] = new[t] /\ tid[new[t]] = t
NewKnown      == \A t \in Thread : pc[t] = "register" => new[t] # NoObject

\* The handle of a thread is the manager the table has for it.
HandleEntered ==
  \A t \in Thread :
    hmmf[t] # NoObject => tid[hmmf[t]] = t /\ \E s \in Slot : apmmf[s] = hmmf[t]
FreedEntered ==
  \A t \in Thread :
    pc[t] = "free" =>
      hmmf[t] # NoObject /\ apmmf[slot[t]] = hmmf[t] /\ hmmf[t] \notin chain[t]

\* Only the handle's manager is registered; unless threads end early, it is.
OnlyHandleRegistered == \A t \in Thread : chain[t] \subseteq {hmmf[t]}
HandleRegistered ==
  ~mode.abandons =>
    \A t \in Thread :
      /\ hmmf[t] # NoObject /\ pc[t] # "free" => hmmf[t] \in chain[t]
      /\ \A s \in SlotsOf(t) : apmmf[s] = hmmf[t] \/ pc[t] = "register"

OrderlyInv ==
  /\ TableInitialized /\ MutexOwner
  /\ EntriesAllocated /\ EntriesDistinct
  /\ OneEntry /\ NoneYet /\ SlotStillFree /\ NewEntered
  /\ HandleEntered /\ FreedEntered
  /\ OnlyHandleRegistered /\ HandleRegistered
  /\ ~useAfterFree

\* In every circumstance a registered manager is known; in orderly ones the
\* table, the heap, the handles and the exception handlers agree.
TableInv == NewKnown /\ (Orderly => OrderlyInv)

=============================================================================
