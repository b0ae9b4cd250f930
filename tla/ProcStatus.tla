----------------------------- MODULE ProcStatus -----------------------------
(***************************************************************************)
(* The process status manager (source/lib/wtkproc.c): a snapshot of the    *)
(* list of processes with memory for the caller's data, looking for a      *)
(* process by its name, waiting for one to appear, and killing a process   *)
(* with all its children.  Meanwhile processes start and end, so that the  *)
(* snapshot is out of date, and ids are given again.                       *)
(*                                                                         *)
(* The system makes a list of processes in one step, but takes a step of   *)
(* its own between any two of its calls.                                   *)
(***************************************************************************)
EXTENDS Integers, SequencesExt

CONSTANTS
  Pid, Kernel,    \* process ids, and those of the kernel, which are below 3
  Exe, NoModule,  \* names of executables; no module handle
  Data, NoData,   \* what the caller stores for a process; zeroes
  Wait,           \* values of ulWait and *pulMaxWait
  Modes           \* the circumstances of a behaviour, see Mode

Mode ==
  [pids    : SUBSET Pid,  \* the ids the system gives to processes
   exes    : SUBSET (Exe \cup {NoModule}),   \* what the processes execute
   reuse   : BOOLEAN,     \* it gives the id of a process that has ended again
   reserve : BOOLEAN,     \* ulReserveMem is not zero
   fails   : BOOLEAN,     \* there may be no memory for a new list
   calls   : SUBSET {"data", "kill", "wait"},  \* what the application does
   spawns   : Nat,         \* bound: how many processes start
   changes  : Nat]         \* bound: how many calls the application makes

ASSUME ProcessAssumption ==
  /\ Pid \subseteq Nat /\ Kernel \subseteq Pid /\ \A p \in Pid : p \in Kernel <=> p < 3
  /\ NoModule \notin Exe /\ NoData \notin Data
  /\ Wait \subseteq Nat

VARIABLES
  mode,
  system,      \* the list of processes
  used,        \* ids that have been given
  spawns, changes,   \* counters for the bounds
  hp,          \* a handle is open
  list, ulCrc, ulListLevelCount, pvPrivateMem,   \* members of PROCSTATBUF
  pc,          \* "idle", "kill", "look", "sleep", or "hang" in an endless loop
  stack,       \* of WtkKillProcess: the process and its children to be killed
  ulWait, ulMaxWait, pszExename,   \* parameters of WtkWaitProcess
  ret,         \* the last call that returned
  asOf,        \* history: the system when it was asked last
  attached,    \* history: what the memory of an id may hold
  target, killed, waited     \* history: what WtkKillProcess was to kill, and what it
                             \* has killed in which order; the time spent in a wait

systemVars == <<system, used, spawns>>
listVars   == <<list, ulCrc, ulListLevelCount, pvPrivateMem, asOf, attached>>
killVars   == <<stack, target, killed>>
waitVars   == <<ulWait, ulMaxWait, pszExename, waited>>
vars == <<mode, systemVars, changes, hp, listVars, pc, killVars, waitVars, ret>>

\* A process: its id, that of its parent, which may have ended, its executable.
IdsOf(l)      == {l[i].pid : i \in DOMAIN l}
Children(l, p) == SelectSeq(l, LAMBDA x : x.parent = p)

-----------------------------------------------------------------------------
(* The system *)

\* The processes of the kernel, which have no parents or each other.
Init ==
  /\ mode \in Modes
  /\ system = SetToSeq({[pid |-> k, parent |-> 1, exe |-> NoModule] : k \in Kernel})
  /\ used = Kernel /\ spawns = 0 /\ changes = 0
  /\ hp = FALSE /\ list = <<>> /\ ulCrc = 0 /\ ulListLevelCount = 0 /\ pvPrivateMem = <<>>
  /\ pc = "idle" /\ stack = <<>> /\ target = 0 /\ killed = <<>>
  /\ ulWait = 0 /\ ulMaxWait = 0 /\ pszExename = NoModule /\ waited = 0
  /\ ret = [call |-> "none"]
  /\ asOf = <<>> /\ attached = [p \in Pid |-> {NoData}]

\* A process starts another one.
Spawn(parent, pid, exe) ==
  /\ spawns < mode.spawns /\ parent \in IdsOf(system)
  /\ pid \in mode.pids \ IdsOf(system) /\ (pid \in used => mode.reuse)
  /\ exe \in mode.exes
  /\ system' = Append(system, [pid |-> pid, parent |-> parent, exe |-> exe])
  /\ used' = used \cup {pid} /\ spawns' = spawns + 1
  /\ UNCHANGED <<mode, changes, hp, listVars, pc, killVars, waitVars, ret>>

Without(l, p) == SelectSeq(l, LAMBDA x : x.pid # p)

Exit(pid) ==
  /\ pid \in IdsOf(system) \ Kernel
  /\ system' = Without(system, pid)
  /\ UNCHANGED <<mode, used, spawns, changes, hp, listVars, pc, killVars, waitVars, ret>>

-----------------------------------------------------------------------------
(* The list *)

SumOfIds(l) == FoldFunction(LAMBDA x, sum : x.pid + sum, 0, l)

\* Mutant of SearchesParent: it is searched for each process.
SearchesParentAlways(x) == TRUE

SearchesParent(x) == x.pid >= 3

\* The first entry that has the id of the parent, 0 if there is none.
ParentOf(l, i) ==
  LET found == {j \in DOMAIN l : l[i].parent = l[j].pid}
  IN  IF SearchesParent(l[i]) /\ found # {} THEN CHOOSE j \in found : \A k \in found : j <= k ELSE 0

\* The steps up from each entry until one has no parent; they never end if
\* entries are the parents of each other.  After as many steps as there are
\* entries the walk has come to an entry again.
Above(l, i, n) ==
  LET entry[k \in 0 .. n] == IF k = 0 THEN i ELSE IF entry[k-1] = 0 THEN 0 ELSE ParentOf(l, entry[k-1])
  IN  entry[n]

Endless(l)  == \E i \in DOMAIN l : Above(l, i, Len(l)) # 0

\* Mutant of Level: the walk counts the process too.
LevelWithSelf(l, i) == Cardinality({n \in 0 .. Len(l) : Above(l, i, n) # 0})

Level(l, i) == Cardinality({n \in 1 .. Len(l) : Above(l, i, n) # 0})

MaxLevel(l) == CHOOSE n \in 0 .. Len(l) : /\ \A i \in DOMAIN l : Level(l, i) <= n
                                          /\ n = 0 \/ \E i \in DOMAIN l : Level(l, i) = n

Memory(l) == [i \in DOMAIN l |-> NoData]

\* Mutant of ListChanged: the numbers of entries are compared.
ListChangedLength(l) == Len(l) # Len(list)

ListChanged(l) == SumOfIds(l) # ulCrc

\* A new list takes the place of the old one.
TakeList(l) ==
  /\ list' = l /\ ulCrc' = SumOfIds(l)
  /\ pvPrivateMem' = IF mode.reserve THEN Memory(l) ELSE <<>>
  /\ attached' = [p \in Pid |-> {NoData}]
  /\ ulListLevelCount' = IF Endless(l) THEN 0 ELSE MaxLevel(l)

\* WtkRefreshProcessStatus: what the caller goes on with is the step next.
Refresh(always, next) ==
  /\ asOf' = system
  /\ IF always \/ ListChanged(system)
     THEN TakeList(system) /\ pc' = IF Endless(system) THEN "hang" ELSE next
     ELSE /\ pc' = next /\ UNCHANGED <<list, ulCrc, ulListLevelCount, pvPrivateMem>>
          /\ attached' = [p \in Pid |-> attached[p] \cup {NoData}]

\* There is no memory for the list, which stays as it is.
RefreshFails(next) == mode.fails /\ pc' = next /\ UNCHANGED listVars

Return(r) == ret' = r /\ UNCHANGED <<killVars, waitVars>>

Calls(c) == /\ pc = "idle" /\ hp /\ c \in mode.calls
            /\ changes < mode.changes /\ changes' = changes + 1

WtkInitializeProcessStatus ==
  /\ pc = "idle" /\ ~hp
  /\ hp' = TRUE
  /\ Refresh(TRUE, "idle")
  /\ Return([call |-> "initialize"])
  /\ UNCHANGED <<mode, systemVars, changes>>

WtkRefreshProcessStatus(always) ==
  /\ Calls("data")
  /\ \/ Refresh(always, "idle") /\ Return([call |-> "refresh", rc |-> "NO_ERROR"])
     \/ RefreshFails("idle") /\ Return([call |-> "refresh", rc |-> "ERROR_NOT_ENOUGH_MEMORY"])
  /\ UNCHANGED <<mode, systemVars, hp>>

\* The list is freed, the memory for data is not.
WtkTerminateProcessStatus ==
  /\ pc = "idle" /\ hp
  /\ hp' = FALSE /\ list' = <<>> /\ ulCrc' = 0 /\ ulListLevelCount' = 0 /\ pvPrivateMem' = <<>>
  /\ asOf' = <<>> /\ attached' = [p \in Pid |-> {NoData}]
  /\ Return([call |-> "terminate"])
  /\ UNCHANGED <<mode, systemVars, changes, pc>>

\* WtkQueryProcessDetails: the caller asks for the memory of a process, finds in
\* it what is there, and stores something.
WtkQueryProcessDetails(i, data) ==
  /\ Calls("data") /\ mode.reserve /\ i \in DOMAIN list
  /\ Return([call |-> "details", pid |-> list[i].pid, found |-> pvPrivateMem[i]])
  /\ pvPrivateMem' = [pvPrivateMem EXCEPT ![i] = data]
  /\ attached' = [attached EXCEPT ![list[i].pid] = {data}]
  /\ UNCHANGED <<mode, systemVars, hp, list, ulCrc, ulListLevelCount, pc, asOf>>

-----------------------------------------------------------------------------
(* WtkQueryProcess and WtkWaitProcess *)

\* DosQueryModuleName fails for a process without a module, and its result is
\* not looked at: the name is that of the last process that has a module, or
\* for the first processes what was left on the stack.
NameSeen(l, i, left) ==
  LET named == {j \in 1 .. i : l[j].exe # NoModule}
  IN  IF named = {} THEN left ELSE l[CHOOSE j \in named : \A k \in named : k <= j].exe

Matches(l, exe, left) == SelectSeq([i \in DOMAIN l |-> i], LAMBDA i : NameSeen(l, i, left) = exe)

\* WtkWaitProcess with a handle.  ulMaxWait is 0 if no pointer is passed.
WtkWaitProcess(exe, wait, max) ==
  /\ Calls("wait")
  /\ max = 0 \/ max >= wait
  /\ exe \in mode.exes /\ pszExename' = exe /\ ulWait' = wait /\ ulMaxWait' = max /\ waited' = 0
  /\ pc' = "look"
  /\ UNCHANGED <<mode, systemVars, hp, listVars, killVars, ret>>

LookFinds(left) ==
  /\ pc = "look" /\ Matches(list, pszExename, left) # <<>>
  /\ pc' = "idle"
  /\ Return([call |-> "wait", rc |-> "NO_ERROR", process |-> list[Head(Matches(list, pszExename, left))]])
  /\ UNCHANGED <<mode, systemVars, changes, hp, listVars>>

TimeIsUp == ulWait = 0 \/ ulMaxWait < ulWait

LookFails(left) ==
  /\ pc = "look" /\ Matches(list, pszExename, left) = <<>>
  /\ \/ /\ TimeIsUp
        /\ pc' = "idle"
        /\ Return([call |-> "wait", rc |-> "ERROR_FILE_NOT_FOUND",
                      missed |-> {x \in ToSet(asOf) : x.exe = pszExename}])
     \/ /\ ~TimeIsUp
        /\ pc' = "sleep"
        /\ UNCHANGED <<killVars, waitVars, ret>>
  /\ UNCHANGED <<mode, systemVars, changes, hp, listVars>>

Rest == ulMaxWait - ulWait

\* The time has passed, and a new list is taken if the ids have changed.
WakeUp ==
  /\ pc = "sleep"
  /\ ulMaxWait' = Rest /\ waited' = waited + ulWait
  /\ Refresh(FALSE, "look") \/ RefreshFails("look")
  /\ UNCHANGED <<mode, systemVars, changes, hp, killVars, ulWait, pszExename, ret>>

-----------------------------------------------------------------------------
(* WtkKillProcess *)

Frame(p) == [pid |-> p, children |-> [i \in DOMAIN Children(list, p) |-> Children(list, p)[i].pid]]

WtkKillProcess(pid) ==
  /\ Calls("kill") /\ pid \in mode.pids
  /\ stack' = <<Frame(pid)>> /\ target' = pid /\ killed' = <<>>
  /\ pc' = "kill"
  /\ UNCHANGED <<mode, systemVars, hp, listVars, waitVars, ret>>

Top == Head(stack)

\* The next child is killed before its parent.
KillChild ==
  /\ pc = "kill" /\ Top.children # <<>>
  /\ stack' = <<Frame(Head(Top.children)), [Top EXCEPT !.children = Tail(@)]>> \o Tail(stack)
  \* bound: only processes that are each other's parents nest deeper
  /\ IF Len(stack) > Len(list) THEN pc' = "hang" ELSE pc' = pc
  /\ UNCHANGED <<mode, systemVars, changes, hp, listVars, waitVars, ret, target, killed>>

\* Mutant of MayKill: the process is not killed before its last child but one.
MayKillEarly == Len(Top.children) <= 1

MayKill == Top.children = <<>>

\* The process ends, or has ended already, or handles the exception.
KillSelf ==
  /\ pc = "kill" /\ MayKill
  /\ \/ system' = Without(system, Top.pid) /\ Top.pid \notin Kernel
     \/ UNCHANGED system
  /\ killed' = Append(killed, Top.pid)
  /\ stack' = Tail(stack)
  /\ IF Tail(stack) = <<>> THEN pc' = "idle" /\ ret' = [call |-> "kill", pid |-> target]
                           ELSE UNCHANGED <<pc, ret>>
  /\ UNCHANGED <<mode, used, spawns, changes, hp, listVars, target, waitVars>>

\* malloc fails: the process and its children are left, without an error.
KillFails ==
  /\ mode.fails /\ pc = "kill" /\ Children(list, Top.pid) # <<>>
  /\ Len(Top.children) = Len(Children(list, Top.pid))
  /\ stack' = Tail(stack)
  /\ IF Tail(stack) = <<>> THEN pc' = "idle" /\ ret' = [call |-> "killNot"] ELSE UNCHANGED <<pc, ret>>
  /\ UNCHANGED <<mode, systemVars, changes, hp, listVars, target, killed, waitVars>>

-----------------------------------------------------------------------------

Kill == KillChild \/ KillSelf \/ KillFails
Look == \E left \in Exe \cup {NoModule} : LookFinds(left) \/ LookFails(left)

\* The walk over the parents goes round, or the recursion goes deeper.
Loop == pc = "hang" /\ UNCHANGED vars

Next ==
  \/ \E parent \in Pid, pid \in Pid, exe \in Exe \cup {NoModule} : Spawn(parent, pid, exe)
  \/ \E pid \in Pid : Exit(pid)
  \/ WtkInitializeProcessStatus \/ WtkTerminateProcessStatus
  \/ \E always \in BOOLEAN : WtkRefreshProcessStatus(always)
  \/ \E i \in DOMAIN list, data \in Data : WtkQueryProcessDetails(i, data)
  \/ \E exe \in Exe, wait \in Wait, max \in Wait : WtkWaitProcess(exe, wait, max)
  \/ Look \/ WakeUp
  \/ \E pid \in Pid : WtkKillProcess(pid)
  \/ Kill \/ Loop

\* A call that has begun goes on: the thread runs, and sleep ends.
Fairness == WF_vars(Look) /\ WF_vars(WakeUp) /\ WF_vars(Kill)

Spec == Init /\ [][Next]_vars /\ Fairness
-----------------------------------------------------------------------------
(* Properties *)

TypeOK ==
  /\ mode \in Modes
  /\ IdsOf(system) \subseteq used /\ used \subseteq Pid
  /\ IdsOf(list) \subseteq Pid
  /\ Len(pvPrivateMem) = IF mode.reserve /\ hp THEN Len(list) ELSE 0
  /\ pc \in {"idle", "kill", "look", "sleep", "hang"}
  /\ ulMaxWait \in Nat /\ waited \in Nat
  /\ spawns \in 0 .. mode.spawns /\ changes \in 0 .. mode.changes

\* No two sets of ids have the same sum.
SumsDiffer(ids) ==
  LET Sum(S) == FoldSet(LAMBDA p, sum : p + sum, 0, S)
  IN  \A S, T \in SUBSET ids : Sum(S) = Sum(T) => S = T

Told == ~mode.reuse /\ SumsDiffer(mode.pids)

\* The processes below p: those in each set that holds p and the children of
\* all its members.
Closed(S, l)      == \A i \in DOMAIN l : l[i].pid >= 3 /\ l[i].parent \in S => l[i].pid \in S
Descendants(l, p) == {q \in IdsOf(l) \ {p} : \A S \in SUBSET IdsOf(l) : p \in S /\ Closed(S, l) => q \in S}
Ancestors(l, q)   == {p \in IdsOf(l) : q \in Descendants(l, p)}

\* The maximum level is that of the process with the most ancestors in the list.
LevelIsDepth ==
  hp /\ pc # "hang" =>
    LET depths == {Cardinality(Ancestors(list, p)) : p \in IdsOf(list)}
    IN  ulListLevelCount \in depths /\ \A d \in depths : d <= ulListLevelCount

\* Although it compares no more than the sum of the ids, a refresh that is asked
\* for changes only keeps no list that is out of date, if ids are not given
\* again and their sums tell them apart.
SnapshotIsCurrent == hp /\ Told => list = asOf

\* The memory of a process holds what the caller has stored for it since the last
\* refresh, and zeroes if it has stored nothing.  What it has stored before a
\* refresh is there or is gone: the code keeps it if the ids have the same sum, the
\* descriptions of the calls say that each refresh resets it (wtkproc.c:581, 741,
\* 1224).  Never is there what was stored for another process.
DataBelongs == \A i \in DOMAIN pvPrivateMem : pvPrivateMem[i] \in attached[list[i].pid]

\* What WtkRefreshProcessStatus leaves behind: a list that is as old as it may
\* be, the levels of its entries, and the memory that belongs to each.
ListIsRight ==
  /\ TypeOK
  /\ LevelIsDepth
  /\ SnapshotIsCurrent
  /\ DataBelongs

\* WtkKillProcess with children has killed the process and all its descendants
\* in the list, each once and before its parent.
KillsTheTree ==
  pc = "idle" /\ ret.call = "kill" /\ target \in IdsOf(list) /\ ~mode.fails =>
    /\ ToSet(killed) = {target} \cup Descendants(list, target)
    /\ \A i, j \in DOMAIN killed : i < j => /\ killed[i] # killed[j]
                                            /\ killed[j] \notin Descendants(list, killed[i])

\* WtkWaitProcess reports a process only if it has the name, or no module; and
\* reports that there is none only if there was none when it looked last.  It
\* never waits longer than it was told to, and gives up only when what is left of
\* the time is less than another wait.
WaitTellsTheTruth ==
  ret.call = "wait" =>
    /\ ret.rc = "NO_ERROR" => ret.process.exe \in {pszExename, NoModule}
    /\ ret.rc = "ERROR_FILE_NOT_FOUND" /\ Told => ret.missed = {}
    /\ ret.rc # "NO_ERROR" /\ pc = "idle" => ulWait = 0 \/ ulMaxWait < ulWait
    /\ ulMaxWait >= 0

\* Every call returns, if ids are not given again: the walk over the parents,
\* the wait and the recursion of WtkKillProcess end.
CallsReturn == ~mode.reuse => []<>(pc = "idle")
=============================================================================
