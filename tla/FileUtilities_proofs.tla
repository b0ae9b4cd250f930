------------------------- MODULE FileUtilities_proofs -------------------------
(***************************************************************************)
(* What the file utilities promise each thread while the others change the *)
(* directories, see FilesAreSeen and FilesAsAsked in FileUtilities, and    *)
(* the same with the dialog for directories among them (DirDialog).        *)
(***************************************************************************)
EXTENDS DirDialog, FoldLemmas, FiniteSetTheorems, TLAPS

(* The parts of a path, which are the directories above it.                *)
LEMMA PathParts ==
  ASSUME NEW p \in Path
  PROVE  /\ Len(p) \in Nat \ {0} /\ SubSeq(p, 1, Len(p)) = p
         /\ Parent(p) = SubSeq(p, 1, Len(p) - 1)
         /\ \A i \in 1..Len(p) : /\ SubSeq(p, 1, i) \in Path /\ Len(SubSeq(p, 1, i)) = i
                                 /\ i > 1 => Parent(SubSeq(p, 1, i)) = SubSeq(p, 1, i - 1)
<1>0. p \in Seq(Seq(Char)) /\ p # <<>>
  BY DEF Path
<1>1. Len(p) \in Nat \ {0} /\ SubSeq(p, 1, Len(p)) = p
  BY <1>0
<1>2. Parent(p) = SubSeq(p, 1, Len(p) - 1)
  BY DEF Parent, Front
<1>3. ASSUME NEW i \in 1..Len(p)
      PROVE  /\ SubSeq(p, 1, i) \in Path /\ Len(SubSeq(p, 1, i)) = i
             /\ i > 1 => Parent(SubSeq(p, 1, i)) = SubSeq(p, 1, i - 1)
  <2>1. SubSeq(p, 1, i) \in Seq(Seq(Char)) /\ Len(SubSeq(p, 1, i)) = i
    BY <1>0, <1>1
  <2>2. SubSeq(p, 1, i) # <<>>
    BY <2>1
  <2>3. ASSUME i > 1 PROVE Parent(SubSeq(p, 1, i)) = SubSeq(p, 1, i - 1)
    <3>1. Front(SubSeq(p, 1, i)) = SubSeq(SubSeq(p, 1, i), 1, i - 1)
      BY <2>1 DEF Front
    <3>2. SubSeq(SubSeq(p, 1, i), 1, i - 1) = SubSeq(p, 1, i - 1)
      BY <1>0, <1>1, <2>3
    <3> QED BY <3>1, <3>2 DEF Parent
  <2> QED BY <2>1, <2>2, <2>3 DEF Path
<1> QED BY <1>1, <1>2, <1>3

-----------------------------------------------------------------------------
(* The changes of the tree, by what they do to it.                         *)

Creates(p, e) == CanCreate(p) /\ p \in Path /\ e \in Entry /\ tree' = With(p, e)
Writes(p, e) == IsFile(p) /\ e \in Entry /\ e.kind = "file" /\ tree' = With(p, e)
Removes(p) ==
    /\ p \in DOMAIN tree /\ Children(p) = {} /\ p \notin Drives
    /\ tree' = Without(p)

(* A change that takes nothing from the other threads: directories stay,   *)
(* and files stay files.                                                   *)
Quiet == \A q : (IsDir(q)' <=> IsDir(q)) /\ (IsFile(q) => IsFile(q)')

(* Something new has its directory, and changes nothing else.              *)
LEMMA CreatedTree ==
  ASSUME TreeStands, NEW p, NEW e, Creates(p, e)
  PROVE  /\ TreeStands'
         /\ \A q : (IsDir(q) => IsDir(q)') /\ (IsFile(q) => IsFile(q)')
         /\ e.kind = "file" => Quiet
         /\ DOMAIN tree' = DOMAIN tree \cup {p} /\ tree'[p] = e
         /\ \A q \in DOMAIN tree : tree'[q] = tree[q]
<1>1. /\ DOMAIN tree' = DOMAIN tree \cup {p} /\ tree'[p] = e /\ p \notin DOMAIN tree
      /\ \A q \in DOMAIN tree : tree'[q] = tree[q]
      /\ tree' = [q \in DOMAIN tree' |-> tree'[q]]
  BY DEF Creates, With, CanCreate
<1>2. \A q : (IsDir(q) => IsDir(q)') /\ (IsFile(q) => IsFile(q)')
  BY <1>1 DEF IsDir, IsFile
<1>3. ASSUME e.kind = "file" PROVE Quiet
  BY <1>1, <1>2, <1>3 DEF IsDir, IsFile, Quiet
<1>4. \A q \in DOMAIN tree' : q \in Path /\ tree'[q] \in Entry /\ (Len(q) > 1 => IsDir(Parent(q)))'
  <2>1. ASSUME NEW q \in DOMAIN tree' PROVE q \in Path /\ tree'[q] \in Entry /\ (Len(q) > 1 => IsDir(Parent(q))')
    <3>1. CASE q = p
      BY <1>1, <1>2, <3>1 DEF Creates, CanCreate
    <3>2. CASE q \in DOMAIN tree
      BY <1>1, <1>2, <3>2 DEF TreeStands
    <3> QED BY <1>1, <3>1, <3>2
  <2> QED BY <2>1
<1>5. TreeStands'
  BY <1>1, <1>2, <1>4 DEF TreeStands, Parent
<1> QED BY <1>1, <1>2, <1>3, <1>5

(* A file that is written stays where it is.                               *)
LEMMA WrittenTree ==
  ASSUME TreeStands, NEW p, NEW e, Writes(p, e)
  PROVE  /\ TreeStands' /\ Quiet
         /\ DOMAIN tree' = DOMAIN tree /\ tree'[p] = e
         /\ \A q \in DOMAIN tree : q # p => tree'[q] = tree[q]
<1>1. /\ DOMAIN tree' = DOMAIN tree /\ tree'[p] = e /\ p \in DOMAIN tree /\ tree[p].kind = "file"
      /\ \A q \in DOMAIN tree : q # p => tree'[q] = tree[q]
      /\ tree' = [q \in DOMAIN tree' |-> tree'[q]]
  BY DEF Writes, With, IsFile
<1>2. Quiet
  BY <1>1 DEF IsDir, IsFile, Quiet, Writes
<1>3. ASSUME NEW q \in DOMAIN tree' PROVE q \in Path /\ tree'[q] \in Entry /\ (Len(q) > 1 => IsDir(Parent(q))')
  BY <1>1, <1>2 DEF TreeStands, Quiet, Writes
<1>4. TreeStands'
  BY <1>1, <1>2, <1>3 DEF TreeStands, Quiet, Parent
<1> QED BY <1>1, <1>2, <1>4

(* What has nothing in it and is no drive can go.                          *)
LEMMA RemovedTree ==
  ASSUME TreeStands, NEW p, Removes(p)
  PROVE  /\ TreeStands'
         /\ \A q : (IsDir(q)' <=> IsDir(q) /\ q # p) /\ (IsFile(q)' <=> IsFile(q) /\ q # p)
         /\ DOMAIN tree' = DOMAIN tree \ {p}
         /\ \A q \in DOMAIN tree' : tree'[q] = tree[q]
<1>1. /\ DOMAIN tree' = DOMAIN tree \ {p}
      /\ \A q \in DOMAIN tree' : tree'[q] = tree[q]
      /\ tree' = [q \in DOMAIN tree' |-> tree'[q]]
  BY DEF Removes, Without
<1>2. \A q : (IsDir(q)' <=> IsDir(q) /\ q # p) /\ (IsFile(q)' <=> IsFile(q) /\ q # p)
  BY <1>1 DEF IsDir, IsFile
<1>3. ASSUME NEW q \in DOMAIN tree' PROVE q \in Path /\ tree'[q] \in Entry /\ (Len(q) > 1 => IsDir(Parent(q))')
  <2>1. q \in DOMAIN tree /\ q \in Path /\ tree'[q] \in Entry
    BY <1>1 DEF TreeStands
  <2>2. ASSUME Len(q) > 1 PROVE IsDir(Parent(q))'
    <3>1. IsDir(Parent(q))
      BY <2>1, <2>2 DEF TreeStands
    <3>2. Parent(q) # p
      <4>1. SUFFICES ASSUME Parent(q) = p PROVE q \in Children(p)
        BY DEF Removes
      <4>2. Parent(q) = SubSeq(q, 1, Len(q) - 1) /\ Len(q) \in Nat \ {0}
        BY <2>1, PathParts
      <4>3. Len(p) = Len(q) - 1
        BY <2>1, <2>2, <4>1, <4>2, PathParts
      <4>4. Len(q) = Len(p) + 1
        BY <4>2, <4>3
      <4> QED BY <2>1, <4>1, <4>4 DEF Children, Parent
    <3> QED BY <1>2, <3>1, <3>2 DEF Parent
  <2> QED BY <2>1, <2>2
<1>4. \A d \in Drives : IsDir(d)'
  BY <1>2 DEF TreeStands, Removes
<1>5. TreeStands'
  BY <1>1, <1>3, <1>4 DEF TreeStands, Parent
<1> QED BY <1>1, <1>2, <1>5

(* The paths of the application are paths, and begin with a drive.         *)
LEMMA Given ==
  /\ \A p \in Paths : p \in Path /\ SubSeq(p, 1, 1) \in Drives
  /\ \A p \in Files : p \in Path
  /\ TmpDir \in Path /\ Boot \in Drives
  /\ \A d \in Drives : d \in Path /\ Len(d) = 1
BY PathAssumption

-----------------------------------------------------------------------------
(* What a step of a thread leaves of the rest.                             *)

(* The calls of the other threads go on where they are.                    *)
LEMMA OthersKept ==
  ASSUME CallsStand, NEW t \in Threads, Quiet,
         call' = [call EXCEPT ![t] = call'[t]],
         CallFits(call[t])', Passed(call[t])', clock' \in Nat, calls' \in Nat
  PROVE  CallsStand'
<1>1. call' \in [Threads -> Call]
  BY DEF CallsStand, CallFits
<1>2. ASSUME NEW u \in Threads, u # t PROVE (CallFits(call[u]) /\ Passed(call[u]))'
  <2> DEFINE c == call[u]
  <2>1. CallFits(c) /\ Passed(c) /\ call'[u] = c
    BY <1>2 DEF CallsStand
  <2> HIDE DEF c
  <2>2. CallFits(call[u])'
    BY <2>1 DEF CallFits, Quiet
  <2>3. Passed(call[u])'
    BY <2>1 DEF Passed, Quiet
  <2> QED BY <2>2, <2>3
<1> QED BY <1>1, <1>2 DEF CallsStand

(* What is still there is what it was.                                     *)
KindsStay == \A q \in DOMAIN tree : q \in DOMAIN tree' => tree'[q].kind = tree[q].kind

(* Or the step is against some of them, but not one that writes.           *)
LEMMA OthersDisturbed ==
  ASSUME CallsStand, KindsStay, NEW t \in Threads,
         call' = [DisturbedBy(t) EXCEPT ![t] = call'[t]],
         \A u \in Threads : \A q : u # t /\ call[u].op = "write" /\ call[u].path = q => IsFile(q)',
         CallFits(call[t])', Passed(call[t])', clock' \in Nat, calls' \in Nat
  PROVE  CallsStand'
<1>1. ASSUME NEW u \in Threads, u # t PROVE (CallFits(call[u]) /\ Passed(call[u]))'
  <2>0. PICK c : c = call[u]
    OBVIOUS
  <2>1. /\ CallFits(c) /\ Passed(c) /\ call'[u] = IF Against(c) THEN [c EXCEPT !.disturbed = TRUE] ELSE c
        /\ c.op = "write" => (c.path \in DOMAIN tree' /\ tree'[c.path].kind = "file")
    BY <1>1, <2>0 DEF CallsStand, DisturbedBy, IsFile
  <2>2. CASE ~Against(c)
    <3>1. call'[u] = c
      BY <2>1, <2>2
    <3>2. (CallFits(call[u]))'
      BY <2>1, <3>1 DEF CallFits, IsFile
    <3>3. ASSUME c.op = "create", ~c.disturbed
          PROVE  \/ \A i \in 1..(c.upto - 1) : IsDir(SubSeq(c.path, 1, i))'
                 \/ \E i \in 1..Len(c.path) : IsFile(SubSeq(c.path, 1, i))'
      <4>1. c.path \in Paths /\ c.upto \in 1..Len(c.path) /\ Len(c.path) \in Nat
        BY <2>1, <3>3, Given, PathParts DEF CallFits, Call, Idle
      <4>2. ASSUME NEW i \in 1..Len(c.path) PROVE ~Taken(SubSeq(c.path, 1, i))
        BY <2>2, <3>3 DEF Against, PartsOf
      <4>3. ASSUME NEW i \in 1..Len(c.path)
            PROVE  /\ IsDir(SubSeq(c.path, 1, i)) => IsDir(SubSeq(c.path, 1, i))'
                   /\ IsFile(SubSeq(c.path, 1, i)) => IsFile(SubSeq(c.path, 1, i))'
        BY <4>2 DEF Taken, IsDir, IsFile, KindsStay
      <4>4. \A i \in 1..(c.upto - 1) : i \in 1..Len(c.path)
        BY <4>1
      <4> QED BY <2>1, <3>3, <4>3, <4>4 DEF Passed
    <3>4. ASSUME c.op = "delete", ~c.disturbed, c.upto < Len(c.path)
          PROVE  /\ IsDir(SubSeq(c.path, 1, c.upto))'
                 /\ \A i \in (c.upto + 1)..Len(c.path) : ~IsDir(SubSeq(c.path, 1, i))'
      <4>1. c.path \in Paths /\ c.upto \in 1..Len(c.path) /\ Len(c.path) \in Nat
        BY <2>1, <3>4, Given, PathParts DEF CallFits, Call, Idle
      <4>2. ASSUME NEW i \in 1..Len(c.path) PROVE ~Taken(SubSeq(c.path, 1, i)) /\ ~Put(SubSeq(c.path, 1, i))
        BY <2>2, <3>4 DEF Against, PartsOf
      <4>3. ASSUME NEW i \in 1..Len(c.path)
            PROVE  IsDir(SubSeq(c.path, 1, i)) <=> IsDir(SubSeq(c.path, 1, i))'
        <5>1. PICK q : q = SubSeq(c.path, 1, i)
          OBVIOUS
        <5>2. q \in DOMAIN tree <=> q \in DOMAIN tree'
          BY <4>2, <5>1 DEF Taken, Put
        <5>3. q \in DOMAIN tree => tree'[q].kind = tree[q].kind
          BY <5>2 DEF KindsStay
        <5> QED BY <5>1, <5>2, <5>3 DEF IsDir
      <4>4. c.upto \in 1..Len(c.path) /\ \A i \in (c.upto + 1)..Len(c.path) : i \in 1..Len(c.path)
        BY <4>1
      <4> QED BY <2>1, <3>4, <4>3, <4>4 DEF Passed
    <3>5. Passed(c)'
      BY <3>3, <3>4 DEF Passed
    <3>6. (Passed(call[u]))'
      BY <3>1, <3>5 DEF Passed, IsDir, IsFile
    <3> QED BY <3>2, <3>6
  <2>3. CASE Against(c)
    <3> DEFINE d == [c EXCEPT !.disturbed = TRUE]
    <3>1. call'[u] = d
      BY <2>1, <2>3
    <3>2. c \in Call /\ c.op \in {"create", "delete"}
      BY <2>1, <2>3 DEF Against, CallFits
    <3>3. d \in Call /\ d.op = c.op /\ d.disturbed /\ d.path = c.path /\ d.upto = c.upto
      <4>1. c \in [op : {"create", "delete"}, path : Paths, upto : Nat, disturbed : BOOLEAN]
        BY <3>2 DEF Call, Idle
      <4>2. d \in [op : {"create", "delete"}, path : Paths, upto : Nat, disturbed : BOOLEAN]
        BY <4>1
      <4> QED BY <4>1, <4>2 DEF Call
    <3> HIDE DEF d
    <3>4. (CallFits(call[u]))'
      BY <2>1, <3>1, <3>2, <3>3 DEF CallFits
    <3>5. (Passed(call[u]))'
      BY <3>1, <3>3 DEF Passed
    <3> QED BY <3>4, <3>5
  <2> QED BY <2>2, <2>3
<1>2. call' = [u \in Threads |-> call'[u]] /\ \A u \in Threads : call'[u] \in Call
  BY <1>1 DEF CallsStand, CallFits, DisturbedBy
<1> QED BY <1>1, <1>2 DEF CallsStand

(* The searches lose no more than what is not there any more.              *)
LEMMA SearchesKept ==
  ASSUME SearchesStand, NEW t \in Threads,
         Remains(tree') \/ UNCHANGED search,
         answer' = [answer EXCEPT ![t] = answer'[t]],
         answer'[t] = answer[t] \/ answer'[t].op # "last"
  PROVE  SearchesStand'
<1>1. search' = [u \in Threads |-> search'[u]]
  BY DEF SearchesStand, Remains
<1>2. ASSUME NEW u \in Threads
      PROVE  /\ SearchFits(search[u])' /\ search'[u].given = search[u].given
             /\ search'[u].told = search[u].told /\ search'[u].lost = search[u].lost
             /\ search'[u].since \subseteq search[u].since
  <2> DEFINE f == search[u]
             D == DOMAIN tree'
  <2>1. SearchFits(f) /\ (search'[u] = f \/ search'[u] = [f EXCEPT !.since = @ \cap D])
    BY DEF SearchesStand, Remains
  <2> HIDE DEF f, D
  <2>2. /\ SearchFits(search[u])' /\ search'[u].given = f.given
        /\ search'[u].told = f.told /\ search'[u].lost = f.lost
        /\ search'[u].since \subseteq f.since
    BY <2>1 DEF SearchFits, Search
  <2> QED BY <2>2 DEF f
<1>3. answer' = [u \in Threads |-> answer'[u]]
  BY DEF SearchesStand
<1>4. ASSUME NEW u \in Threads, answer'[u].op = "last" PROVE search'[u].since \subseteq search'[u].given
  <2>1. answer[u].op = "last"
    BY <1>4 DEF SearchesStand
  <2> QED BY <1>2, <2>1 DEF SearchesStand
<1>5. search' \in [Threads -> Search]
  BY <1>1, <1>2 DEF SearchFits
<1> QED BY <1>2, <1>3, <1>4, <1>5 DEF SearchesStand

(* One thread goes on with its search.                                     *)
LEMMA SearchChanges ==
  ASSUME SearchesStand, NEW t \in Threads, NEW f, SearchFits(f), search' = [search EXCEPT ![t] = f],
         answer' = [answer EXCEPT ![t] = answer'[t]],
         answer'[t].op = "last" => f.since \subseteq f.given
  PROVE  SearchesStand'
<1>1. search' \in [Threads -> Search] /\ search'[t] = f
  BY DEF SearchesStand, SearchFits
<1>2. ASSUME NEW u \in Threads
      PROVE  SearchFits(search[u])' /\ (answer'[u].op = "last" => search'[u].since \subseteq search'[u].given)
  <2>0. PICK g : g = search'[u]
    OBVIOUS
  <2>1. CASE u = t
    <3>1. SearchFits(g) /\ g = f
      BY <1>1, <2>0, <2>1
    <3> QED BY <2>0, <2>1, <3>1 DEF SearchFits
  <2>2. CASE u # t
    <3>1. g = search[u] /\ answer'[u] = answer[u] /\ SearchFits(g)
      BY <2>0, <2>2 DEF SearchesStand
    <3> QED BY <2>0, <3>1 DEF SearchesStand, SearchFits
  <2> QED BY <2>1, <2>2
<1>3. answer' = [u \in Threads |-> answer'[u]]
  BY DEF SearchesStand
<1> QED BY <1>1, <1>2, <1>3 DEF SearchesStand

(* The temporary files stay, as files do that nobody erases by name.       *)
FilesLast == \A q : IsFile(q) => IsFile(q)' \/ q \in Files

LEMMA TmpFilesKept ==
  ASSUME TmpFilesStand, FilesLast, NEW t \in Threads,
         answer = [u \in Threads |-> answer[u]], answer' = [answer EXCEPT ![t] = answer'[t]],
         answer'[t] = answer[t] \/ answer'[t].op # "tmp"
  PROVE  TmpFilesStand'
<1>1. ASSUME NEW u \in Threads, answer'[u].op = "tmp" PROVE answer'[u] = answer[u]
  BY <1>1
<1>2. ASSUME NEW u \in Threads, answer'[u].op = "tmp" PROVE IsFile(answer[u].path)' \/ answer'[u].path \in Files
  <2> DEFINE q == answer[u].path
  <2>1. answer'[u].path = q /\ (IsFile(q) \/ q \in Files)
    BY <1>1, <1>2 DEF TmpFilesStand
  <2> HIDE DEF q
  <2> QED BY <2>1 DEF FilesLast, IsFile
<1>3. TmpFilesDiffer'
  BY <1>1 DEF TmpFilesStand, TmpFilesDiffer
<1> QED BY <1>2, <1>3 DEF TmpFilesStand

(* What is written now has a later version than any status.                *)
Versions ==
    /\ calls \in Nat /\ calls' \in Nat /\ calls <= calls'
    /\ \A p \in DOMAIN tree' : \/ p \in DOMAIN tree /\ tree'[p] = tree[p]
                               \/ tree'[p].kind = "dir" /\ tree'[p].version = 0
                               \/ tree'[p].version \in 2 * calls .. 2 * calls' + 1

LEMMA StatusesKept ==
  ASSUME StatusesStand, TreeStands, TreeStands', NEW t \in Threads, Versions, UNCHANGED status,
         answer = [u \in Threads |-> answer[u]], answer' = [answer EXCEPT ![t] = answer'[t]],
         answer'[t] = answer[t] \/ answer'[t].op # "modified"
  PROVE  StatusesStand'
<1>1. ASSUME NEW p \in DOMAIN tree' PROVE tree'[p].version <= 2 * calls' + 1
  <2>1. p \in DOMAIN tree /\ tree'[p] = tree[p] => tree[p].version <= 2 * calls + 1 /\ tree[p].version \in Nat
    BY DEF StatusesStand, TreeStands, Entry
  <2> QED BY <2>1 DEF Versions
<1>2. ASSUME NEW u \in Threads PROVE StatusFits(status[u])'
  <2> DEFINE f == status[u]
  <2>1. f \in Status /\ StatusFits(f) /\ status'[u] = f
    BY DEF StatusesStand
  <2> HIDE DEF f
  <2>2. CASE f.path = <<>>
    BY <2>1, <2>2 DEF StatusFits
  <2>3. CASE f.path # <<>>
    <3>1. f.version < 2 * calls' /\ f.version \in Nat /\ f.version < 2 * calls
      BY <2>1, <2>3 DEF StatusFits, Versions, Status, NoStatus
    <3>2. ASSUME f.path \in DOMAIN tree', tree'[f.path].kind = "file", tree'[f.path].version = f.version
          PROVE  f.path \in DOMAIN tree /\ tree'[f.path] = tree[f.path]
      BY <3>1, <3>2 DEF Versions
    <3>3. StatusFits(status[u])'
      BY <2>1, <3>1, <3>2 DEF StatusFits, IsFile, StatusOf, Differs
    <3> QED BY <3>3
  <2> QED BY <2>2, <2>3
<1>3. ModifiedIsSeen'
  <2>1. ASSUME NEW u \in Threads, answer'[u].op = "modified" PROVE answer'[u] = answer[u]
    BY <2>1
  <2> QED BY <2>1 DEF StatusesStand, ModifiedIsSeen
<1> QED BY <1>1, <1>2, <1>3 DEF StatusesStand

-----------------------------------------------------------------------------
(* The steps.                                                              *)

(* As long as the tree stays as it is, so does what depends on it.         *)
LEMMA SameTree ==
  ASSUME FilesInv, UNCHANGED tree
  PROVE  /\ TreeStands' /\ Quiet
         /\ UNCHANGED <<disk, curdir>> => DirsStand'
<1>1. TreeStands'
  BY DEF FilesInv, TreeStands, IsDir, Parent
<1>2. Quiet
  BY DEF Quiet, IsDir, IsFile
<1>3. UNCHANGED <<disk, curdir>> => DirsStand'
  BY DEF FilesInv, DirsStand, IsDir
<1> QED BY <1>1, <1>2, <1>3

(* A call that begins with no change of the tree.                          *)
LEMMA BeginsKeeps ==
  ASSUME FilesInv, NEW t \in Threads, NEW c, Begins(t, c), CallFits(c), Passed(c),
         UNCHANGED <<tree, clock, status>>
  PROVE  /\ TreeStands' /\ CallsStand' /\ StatusesStand' /\ TmpFilesStand'
         /\ UNCHANGED search => SearchesStand'
<1>1. TreeStands' /\ Quiet
  BY SameTree
<1>2. /\ call' = [call EXCEPT ![t] = call'[t]] /\ call'[t] = c
      /\ answer' = [answer EXCEPT ![t] = answer'[t]] /\ answer'[t] = NoAnswer
      /\ calls \in Nat /\ calls' = calls + 1
  BY DEF Begins, FilesInv, CallsStand, SearchesStand
<1>3. CallsStand'
  <2>1. CallFits(call[t])' /\ Passed(call[t])'
    BY <1>2 DEF CallFits, Passed, IsDir, IsFile
  <2>2. clock' \in Nat /\ calls' \in Nat
    BY <1>2 DEF FilesInv, CallsStand
  <2> QED BY <1>1, <1>2, <2>1, <2>2, OthersKept DEF FilesInv
<1>4. UNCHANGED search => SearchesStand'
  BY <1>2, SearchesKept DEF FilesInv, NoAnswer
<1>5. StatusesStand'
  <2>1. Versions
    BY <1>2 DEF Versions
  <2> QED BY <1>1, <1>2, <2>1, StatusesKept DEF FilesInv, NoAnswer, SearchesStand
<1>6. TmpFilesStand'
  BY <1>1, <1>2, TmpFilesKept DEF FilesInv, NoAnswer, SearchesStand, FilesLast, Quiet
<1> QED BY <1>1, <1>3, <1>4, <1>5, <1>6

LEMMA BeginsOfPaths ==
  ASSUME FilesInv, NEW t \in Threads, NEW path \in Paths,
         WtkCreatePath(t, path) \/ WtkDeletePath(t, path)
  PROVE  FilesInv'
<1> DEFINE c == [op |-> "create", path |-> path, upto |-> 1, disturbed |-> FALSE]
           d == [op |-> "delete", path |-> path, upto |-> Len(path), disturbed |-> FALSE]
<1>1. Len(path) \in Nat \ {0}
  BY Given, PathParts
<1>2. CallFits(c) /\ Passed(c)
  BY <1>1 DEF CallFits, Passed, Call
<1>3. CallFits(d) /\ Passed(d)
  BY <1>1 DEF CallFits, Passed, Call
<1>4. (Begins(t, c) \/ Begins(t, d)) /\ UNCHANGED <<tree, clock, search, status, disk, curdir>>
  BY DEF WtkCreatePath, WtkDeletePath
<1> HIDE DEF c, d
<1>5. TreeStands' /\ CallsStand' /\ SearchesStand' /\ StatusesStand' /\ TmpFilesStand'
  BY <1>2, <1>3, <1>4, BeginsKeeps
<1>6. DirsStand'
  BY <1>4, SameTree
<1> QED BY <1>5, <1>6 DEF FilesInv

LEMMA BeginsOfTmpFile ==
  ASSUME FilesInv, NEW t \in Threads, WtkCreateTmpFile(t)
  PROVE  FilesInv'
<1>1. PICK counter \in Counters : Begins(t, [op |-> "tmp", counter |-> counter, at |-> 0])
  BY DEF WtkCreateTmpFile
<1> DEFINE c == [op |-> "tmp", counter |-> counter, at |-> 0]
<1>2. CallFits(c) /\ Passed(c)
  BY PathAssumption DEF CallFits, Passed, Call
<1>3. Begins(t, c) /\ UNCHANGED <<tree, clock, search, status, disk, curdir>>
  BY <1>1 DEF WtkCreateTmpFile
<1> HIDE DEF c
<1>4. TreeStands' /\ CallsStand' /\ SearchesStand' /\ StatusesStand' /\ TmpFilesStand'
  BY <1>2, <1>3, BeginsKeeps
<1>5. DirsStand'
  BY <1>3, SameTree
<1> QED BY <1>4, <1>5 DEF FilesInv

LEMMA BeginsOfDirs ==
  ASSUME FilesInv, NEW t \in Threads,
         \/ \E path \in Paths : WtkSetCurrentDir(t, path)
         \/ \E asked \in Drives \cup {<<>>} : WtkQueryCurrentDir(t, asked)
  PROVE  FilesInv'
<1>1. ASSUME NEW path \in Paths, WtkSetCurrentDir(t, path) PROVE FilesInv'
  <2> DEFINE c == [op |-> "setdir", path |-> path]
  <2>1. CallFits(c) /\ Passed(c)
    BY DEF CallFits, Passed, Call
  <2>2. Begins(t, c) /\ UNCHANGED <<tree, clock, search, status, curdir>> /\ disk' = SubSeq(path, 1, 1)
    BY <1>1 DEF WtkSetCurrentDir
  <2> HIDE DEF c
  <2>3. TreeStands' /\ CallsStand' /\ SearchesStand' /\ StatusesStand' /\ TmpFilesStand'
    BY <2>1, <2>2, BeginsKeeps
  <2>4. DirsStand'
    BY <2>2, Given DEF FilesInv, DirsStand, IsDir
  <2> QED BY <2>3, <2>4 DEF FilesInv
<1>2. ASSUME NEW asked \in Drives \cup {<<>>}, WtkQueryCurrentDir(t, asked) PROVE FilesInv'
  <2> DEFINE c == [op |-> "querydir", drive |-> IF asked = <<>> THEN disk ELSE asked]
  <2>1. CallFits(c) /\ Passed(c)
    BY DEF CallFits, Passed, Call, FilesInv, DirsStand
  <2>2. Begins(t, c) /\ UNCHANGED <<tree, clock, search, status, disk, curdir>>
    BY <1>2 DEF WtkQueryCurrentDir
  <2> HIDE DEF c
  <2>3. TreeStands' /\ CallsStand' /\ SearchesStand' /\ StatusesStand' /\ TmpFilesStand'
    BY <2>1, <2>2, BeginsKeeps
  <2>4. DirsStand'
    BY <2>2, SameTree
  <2> QED BY <2>3, <2>4 DEF FilesInv
<1> QED BY <1>1, <1>2

(* A step within a call, or at its end.                                    *)
Moves(t, changed) ==
    /\ call' = [(IF changed THEN DisturbedBy(t) ELSE call) EXCEPT ![t] = call'[t]]
    /\ answer' = [answer EXCEPT ![t] = answer'[t]]
    /\ answer'[t] = answer[t] \/ answer'[t].op \notin {"last", "modified", "tmp"}

(* The other threads' files are files still.                               *)
FilesStay(t) == \A u \in Threads : \A q : u # t /\ call[u].op = "write" /\ call[u].path = q => IsFile(q)'
Careful(t) == FilesStay(t) /\ KindsStay /\ FilesLast

LEMMA QuietIsCareful ==
  ASSUME FilesInv, TreeStands', NEW t \in Threads, Quiet
  PROVE  Careful(t)
<1>1. FilesStay(t)
  BY DEF FilesStay, FilesInv, CallsStand, CallFits, Quiet
<1>2. KindsStay
  BY DEF KindsStay, Quiet, IsDir, IsFile, FilesInv, TreeStands, Entry
<1> QED BY <1>1, <1>2 DEF Careful, FilesLast, Quiet

LEMMA CallsKept ==
  ASSUME FilesInv, NEW t \in Threads, NEW changed \in BOOLEAN,
         call' = [(IF changed THEN DisturbedBy(t) ELSE call) EXCEPT ![t] = call'[t]],
         CallFits(call[t])', Passed(call[t])', TreeStands',
         Quiet \/ (changed /\ Careful(t)), clock' \in Nat, calls' \in Nat
  PROVE  CallsStand'
<1>1. CallsStand
  BY DEF FilesInv
<1>2. CASE ~changed
  BY <1>1, <1>2, OthersKept
<1>3. CASE changed
  <2>1. Careful(t)
    BY QuietIsCareful
  <2> QED BY <1>1, <1>3, <2>1, OthersDisturbed DEF Careful, FilesStay
<1> QED BY <1>2, <1>3

LEMMA MoveKeeps ==
  ASSUME FilesInv, NEW t \in Threads, NEW changed \in BOOLEAN, Moves(t, changed),
         CallFits(call[t])', Passed(call[t])', TreeStands', Versions,
         Quiet \/ (changed /\ Careful(t)),
         UNCHANGED <<clock, status>>
  PROVE  /\ CallsStand' /\ StatusesStand' /\ TmpFilesStand'
         /\ Remains(tree') \/ UNCHANGED search => SearchesStand'
<1>1. CallsStand'
  BY CallsKept DEF FilesInv, CallsStand, Versions, Moves
<1>2. Remains(tree') \/ UNCHANGED search => SearchesStand'
  BY SearchesKept DEF FilesInv, Moves
<1>3. StatusesStand'
  BY StatusesKept DEF FilesInv, Moves, SearchesStand
<1>4. FilesLast
  BY QuietIsCareful DEF Careful
<1>5. TmpFilesStand'
  BY <1>4, TmpFilesKept DEF FilesInv, Moves, SearchesStand
<1> QED BY <1>1, <1>2, <1>3, <1>5

(* What Goes and Returns do to the calls.                                  *)
LEMMA GoesMoves ==
  ASSUME FilesInv, NEW t \in Threads, NEW next, NEW changed \in BOOLEAN, Goes(t, next, changed)
  PROVE  Moves(t, changed) /\ call'[t] = next /\ UNCHANGED answer
BY DEF Goes, Moves, FilesInv, CallsStand, SearchesStand, DisturbedBy

LEMMA ReturnsMoves ==
  ASSUME FilesInv, NEW t \in Threads, NEW result, result.op \notin {"last", "modified", "tmp"},
         NEW changed \in BOOLEAN, Returns(t, result, changed)
  PROVE  /\ Moves(t, changed) /\ call'[t] = Idle /\ answer'[t] = result
         /\ CallFits(call[t])' /\ Passed(call[t])'
<1>1. Moves(t, changed) /\ call'[t] = Idle /\ answer'[t] = result
  BY DEF Returns, Moves, FilesInv, CallsStand, SearchesStand, DisturbedBy
<1> QED BY <1>1 DEF CallFits, Passed, Idle, Call

LEMMA SameVersions == ASSUME FilesInv, UNCHANGED tree, calls' \in Nat, calls <= calls' PROVE Versions
BY DEF Versions, FilesInv, CallsStand

(* A component of a path that is created is there then, if those before it *)
(* are and no file is in the way: otherwise it can be created.             *)
PassedTo(path, n) ==
    \/ \A i \in 1..n : IsDir(SubSeq(path, 1, i))
    \/ \E i \in 1..Len(path) : IsFile(SubSeq(path, 1, i))

ComponentStep(path, n) ==
    LET this == SubSeq(path, 1, n)
    IN  tree' = IF CanCreate(this) THEN With(this, Directory) ELSE tree

LEMMA ComponentTree ==
  ASSUME FilesInv, NEW path \in Paths, NEW n \in 1..Len(path), ComponentStep(path, n)
  PROVE  /\ TreeStands' /\ \A q : (IsDir(q) => IsDir(q)') /\ (IsFile(q) => IsFile(q)')
         /\ UNCHANGED tree \/ \E p : Creates(p, Directory)
         /\ CanCreate(SubSeq(path, 1, n)) => IsDir(SubSeq(path, 1, n))'
         /\ ~CanCreate(SubSeq(path, 1, n)) => UNCHANGED tree
<1> DEFINE this == SubSeq(path, 1, n)
<1>1. this \in Path
  BY Given, PathParts
<1>2. Directory \in Entry
  BY DEF Directory, Entry
<1>3. CASE CanCreate(this)
  <2>1. Creates(this, Directory)
    BY <1>1, <1>2, <1>3 DEF Creates, ComponentStep
  <2>2. /\ TreeStands' /\ \A q : (IsDir(q) => IsDir(q)') /\ (IsFile(q) => IsFile(q)')
        /\ this \in DOMAIN tree' /\ tree'[this] = Directory
    BY <2>1, CreatedTree DEF FilesInv
  <2>3. IsDir(SubSeq(path, 1, n))'
    BY <2>2 DEF IsDir, Directory
  <2> QED BY <1>3, <2>1, <2>2, <2>3
<1>4. CASE ~CanCreate(this)
  <2>1. UNCHANGED tree
    BY <1>4 DEF ComponentStep
  <2>2. TreeStands' /\ Quiet
    BY <2>1, SameTree
  <2> QED BY <1>4, <2>1, <2>2 DEF Quiet
<1> QED BY <1>3, <1>4

LEMMA ComponentIsThere ==
  ASSUME FilesInv, NEW path \in Paths, NEW n \in 1..Len(path), PassedTo(path, n - 1),
         ComponentStep(path, n)
  PROVE  \/ \A i \in 1..n : IsDir(SubSeq(path, 1, i))'
         \/ \E i \in 1..Len(path) : IsFile(SubSeq(path, 1, i)) /\ IsFile(SubSeq(path, 1, i))'
<1> DEFINE this == SubSeq(path, 1, n)
<1>1. /\ Len(path) \in Nat \ {0} /\ this \in Path /\ Len(this) = n
      /\ n > 1 => Parent(this) = SubSeq(path, 1, n - 1)
  BY Given, PathParts
<1>2. \A q : (IsDir(q) => IsDir(q)') /\ (IsFile(q) => IsFile(q)')
  BY ComponentTree
<1>3. CASE \E i \in 1..Len(path) : IsFile(SubSeq(path, 1, i))
  <2>1. PICK i \in 1..Len(path) : IsFile(SubSeq(path, 1, i))
    BY <1>3
  <2>2. IsFile(SubSeq(path, 1, i))'
    <3> DEFINE q == SubSeq(path, 1, i)
    <3> HIDE DEF q
    <3>1. IsFile(q) => IsFile(q)'
      BY <1>2
    <3> QED BY <2>1, <3>1 DEF q
  <2> QED BY <2>1, <2>2
<1>4. CASE ~(\E i \in 1..Len(path) : IsFile(SubSeq(path, 1, i)))
  <2>1. \A i \in 1..(n - 1) : IsDir(SubSeq(path, 1, i))
    BY <1>4 DEF PassedTo
  <2>2. IsDir(this)'
    <3>1. CASE CanCreate(this)
      BY <3>1, ComponentTree
    <3>2. CASE ~CanCreate(this)
      <4>1. n = 1 => IsDir(this)
        BY Given DEF FilesInv, TreeStands
      <4>2. ASSUME n > 1 PROVE this \in DOMAIN tree
        <5>1. n - 1 \in 1..(n - 1)
          BY <1>1, <4>2
        <5>2. IsDir(Parent(this))
          BY <1>1, <2>1, <4>2, <5>1
        <5> HIDE DEF this
        <5> QED BY <1>1, <3>2, <4>2, <5>2 DEF CanCreate
      <4>3. ~IsFile(this)
        BY <1>1, <1>4
      <4>4. IsDir(this)
        BY <1>1, <4>1, <4>2, <4>3 DEF FilesInv, TreeStands, IsDir, IsFile, Entry
      <4> QED BY <1>2, <4>4
    <3> QED BY <3>1, <3>2
  <2>3. ASSUME NEW i \in 1..n PROVE IsDir(SubSeq(path, 1, i))'
    <3>1. CASE i = n
      BY <2>2, <3>1
    <3>2. CASE i # n
      <4> DEFINE q == SubSeq(path, 1, i)
      <4>1. IsDir(q)
        BY <1>1, <2>1, <3>2
      <4> HIDE DEF q
      <4>2. IsDir(q)'
        BY <1>2, <4>1
      <4> QED BY <4>2 DEF q
    <3> QED BY <3>1, <3>2
  <2> QED BY <2>3
<1> QED BY <1>3, <1>4

(* WtkCreatePath: a component.                                             *)
LEMMA CreateComponentKeeps ==
  ASSUME FilesInv, NEW t \in Threads, CreateComponent(t)
  PROVE  FilesInv'
<1>0. PICK c : c = call[t]
  OBVIOUS
<1> DEFINE n == c.upto
           path == c.path
           this == SubSeq(path, 1, n)
           ok == CanCreate(this)
           d == [c EXCEPT !.upto = n + 1]
<1>1. c \in Call /\ c.op = "create" /\ path \in Paths /\ n \in 1..Len(path) /\ Passed(c)
  BY <1>0 DEF CreateComponent, FilesInv, CallsStand, CallFits, Call, Idle
<1>2. /\ tree' = IF ok THEN With(this, Directory) ELSE tree
      /\ Remains(tree') /\ UNCHANGED <<clock, disk, curdir, status, calls>>
      /\ n < Len(path) => Goes(t, d, ok)
      /\ ~(n < Len(path)) => Returns(t, [op |-> "create", ok |-> ok, path |-> path, sure |-> ~c.disturbed], ok)
  BY <1>0 DEF CreateComponent, TreeBecomes
<1>3. ok \in BOOLEAN /\ Len(path) \in Nat
  BY <1>1, Given, PathParts DEF CanCreate
<1>4. PassedTo(path, n - 1) \/ c.disturbed
  BY <1>1, <1>3 DEF Passed, PassedTo
<1> HIDE DEF n, path, ok
<1>5. ComponentStep(path, n)
  BY <1>2 DEF ComponentStep, ok
<1>6. /\ TreeStands' /\ \A q : (IsDir(q) => IsDir(q)') /\ (IsFile(q) => IsFile(q)')
      /\ UNCHANGED tree \/ \E p : Creates(p, Directory)
      /\ ~ok => UNCHANGED tree
  BY <1>1, <1>5, ComponentTree DEF ok
<1>7. Versions
  <2>1. ASSUME NEW p, Creates(p, Directory) PROVE Versions
    <3>1. DOMAIN tree' = DOMAIN tree \cup {p} /\ tree'[p] = Directory /\ \A q \in DOMAIN tree : tree'[q] = tree[q]
      BY <2>1, CreatedTree DEF FilesInv
    <3> QED BY <1>2, <3>1 DEF Versions, Directory, FilesInv, CallsStand
  <2>2. UNCHANGED tree => Versions
    BY <1>2, SameVersions DEF FilesInv, CallsStand
  <2> QED BY <1>6, <2>1, <2>2
<1>8. Quiet \/ (ok /\ Careful(t))
  <2>1. FilesStay(t) /\ FilesLast
    BY <1>6 DEF FilesStay, FilesLast, FilesInv, CallsStand, CallFits
  <2>2. KindsStay
    BY <1>6 DEF KindsStay, IsDir, IsFile, FilesInv, TreeStands, Entry
  <2>3. ~ok => Quiet
    BY <1>6, SameTree
  <2> QED BY <2>1, <2>2, <2>3 DEF Careful
<1>9. Moves(t, ok) /\ (CallFits(call[t]) /\ Passed(call[t]))'
  <2>1. CASE n < Len(path)
    <3>1. Moves(t, ok) /\ call'[t] = d
      BY <1>2, <1>3, <2>1, GoesMoves
    <3>2. d \in Call /\ d.op = "create" /\ d.path = path /\ d.upto = n + 1 /\ d.disturbed = c.disturbed
      BY <1>1, <1>3, <2>1 DEF Call, Idle, path
    <3>3. \/ \A i \in 1..n : IsDir(SubSeq(path, 1, i))'
          \/ \E i \in 1..Len(path) : IsFile(SubSeq(path, 1, i))'
          \/ c.disturbed
      BY <1>1, <1>4, <1>5, ComponentIsThere
    <3> HIDE DEF d
    <3>4. (CallFits(call[t]))'
      BY <1>1, <1>3, <2>1, <3>1, <3>2 DEF CallFits
    <3>5. (Passed(call[t]))'
      <4>0. PICK e : e = call'[t]
        OBVIOUS
      <4>1. e.op = "create" /\ e.path = path /\ e.upto - 1 = n /\ e.disturbed = c.disturbed
        BY <1>1, <1>3, <3>1, <3>2, <4>0
      <4> QED BY <3>3, <4>0, <4>1 DEF Passed, IsDir, IsFile
    <3> QED BY <3>1, <3>4, <3>5
  <2>2. CASE ~(n < Len(path))
    <3> DEFINE r == [op |-> "create", ok |-> ok, path |-> path, sure |-> ~c.disturbed]
    <3>1. Returns(t, r, ok) /\ r.op \notin {"last", "modified", "tmp"}
      BY <1>2, <2>2
    <3> HIDE DEF r
    <3> QED BY <1>3, <3>1, ReturnsMoves
  <2> QED BY <2>1, <2>2
<1>10. CallsStand' /\ SearchesStand' /\ StatusesStand' /\ TmpFilesStand'
  BY <1>2, <1>3, <1>6, <1>7, <1>8, <1>9, MoveKeeps
<1>11. DirsStand'
  BY <1>2, <1>6 DEF FilesInv, DirsStand
<1> QED BY <1>6, <1>10, <1>11 DEF FilesInv

(* WtkDeletePath: a component, which goes only if nobody needs it.         *)
LEMMA DeleteComponentKeeps ==
  ASSUME FilesInv, NEW t \in Threads, DeleteComponent(t)
  PROVE  FilesInv'
<1>0. PICK c : c = call[t]
  OBVIOUS
<1> DEFINE n == c.upto
           path == c.path
           this == SubSeq(path, 1, n)
           ok == CanDelete(this)
           d == [c EXCEPT !.upto = n - 1]
           r == [op |-> "delete", ok |-> n < Len(path), path |-> path, sure |-> ~c.disturbed]
<1>1. c \in Call /\ c.op = "delete" /\ path \in Paths /\ n \in 1..Len(path) /\ Passed(c)
  BY <1>0 DEF DeleteComponent, FilesInv, CallsStand, CallFits, Call, Idle
<1>2. /\ tree' = IF ok THEN Without(this) ELSE tree
      /\ Remains(tree') /\ UNCHANGED <<clock, disk, curdir, status, calls>>
      /\ ok => Goes(t, d, ok)
      /\ ~ok => Returns(t, r, ok)
  BY <1>0 DEF DeleteComponent, TreeBecomes
<1>3. ok \in BOOLEAN /\ Len(path) \in Nat \ {0}
  BY <1>1, Given, PathParts DEF CanDelete
<1>4. /\ this \in Path /\ Len(this) = n /\ (n > 1 => Parent(this) = SubSeq(path, 1, n - 1))
  BY <1>1, Given, PathParts
<1>5. /\ c.disturbed \/ n = Len(path) \/ \A i \in (n + 1)..Len(path) : ~IsDir(SubSeq(path, 1, i))
  BY <1>1, <1>3 DEF Passed
<1>6. CASE ok
  <2>1. n > 1 /\ IsDir(this) /\ Removes(this) /\ \A e \in Drives : curdir[e] # this
    <3>1. n > 1 /\ IsDir(this) /\ Children(this) = {} /\ \A e \in Drives : curdir[e] # this
      BY <1>4, <1>6 DEF CanDelete
    <3>2. this \notin Drives
      <4> HIDE DEF n, this
      <4>1. Len(this) = n
        BY <1>4
      <4> QED BY <3>1, <4>1, Given
    <3>3. tree' = Without(this)
      BY <1>2, <1>6
    <3> HIDE DEF this
    <3> QED BY <3>1, <3>2, <3>3 DEF Removes, IsDir
  <2> DEFINE top == SubSeq(path, 1, n - 1)
  <2>2. IsDir(top) /\ top # this
    <3>1. Len(top) = n - 1 /\ n - 1 # n
      BY <1>1, <1>3, <2>1, Given, PathParts
    <3>2. IsDir(Parent(this))
      BY <1>4, <2>1 DEF FilesInv, TreeStands, IsDir
    <3> QED BY <1>4, <2>1, <3>1, <3>2
  <2>3. ok = TRUE
    BY <1>6
  <2> HIDE DEF n, path, ok, this, top
  <2>4. /\ TreeStands'
        /\ \A q : (IsDir(q)' <=> IsDir(q) /\ q # this) /\ (IsFile(q)' <=> IsFile(q) /\ q # this)
        /\ DOMAIN tree' = DOMAIN tree \ {this}
        /\ \A q \in DOMAIN tree' : tree'[q] = tree[q]
    BY <2>1, RemovedTree DEF FilesInv
  <2>5. Versions
    BY <1>2, <2>4 DEF Versions, FilesInv, CallsStand
  <2>6. ~IsFile(this)
    BY <2>1 DEF IsDir, IsFile
  <2>7. Careful(t)
    <3>1. FilesStay(t)
      BY <2>4, <2>6 DEF FilesStay, FilesInv, CallsStand, CallFits
    <3> QED BY <2>4, <2>6, <3>1 DEF Careful, KindsStay, FilesLast
  <2>8. Moves(t, TRUE) /\ call'[t] = d
    BY <1>2, <2>3, GoesMoves
  <2>9. d \in Call /\ d.op = "delete" /\ d.path = path /\ d.upto = n - 1 /\ d.disturbed = c.disturbed
    BY <1>1, <1>3, <2>1 DEF Call, Idle, path, n
  <2> HIDE DEF d
  <2>10. (CallFits(call[t]))'
    BY <1>1, <1>3, <2>1, <2>8, <2>9 DEF CallFits
  <2>11. IsDir(top)'
    BY <2>2, <2>4
  <2>12. c.disturbed \/ \A i \in n..Len(path) : ~IsDir(SubSeq(path, 1, i))'
    <3> SUFFICES ASSUME ~c.disturbed, NEW i \in n..Len(path) PROVE ~IsDir(SubSeq(path, 1, i))'
      OBVIOUS
    <3>1. i = n \/ (n # Len(path) /\ i \in (n + 1)..Len(path))
      BY <1>1, <1>3
    <3> DEFINE q == SubSeq(path, 1, i)
    <3>2. q = this \/ ~IsDir(q)
      BY <1>5, <3>1 DEF this
    <3> HIDE DEF q
    <3>3. ~IsDir(q)'
      BY <2>4, <3>2
    <3> QED BY <3>3 DEF q
  <2>13. (Passed(call[t]))'
    <3>0. PICK e : e = call'[t]
      OBVIOUS
    <3>1. /\ e.op = "delete" /\ e.path = path /\ e.upto = n - 1 /\ e.upto + 1 = n /\ e.disturbed = c.disturbed
      BY <1>1, <1>3, <2>8, <2>9, <3>0
    <3>2. (SubSeq(e.path, 1, e.upto) \in DOMAIN tree' /\ tree'[SubSeq(e.path, 1, e.upto)].kind = "dir")
      BY <2>11, <3>1 DEF IsDir, top
    <3>3. e.disturbed \/ \A i \in (e.upto + 1)..Len(e.path) :
             ~(SubSeq(e.path, 1, i) \in DOMAIN tree' /\ tree'[SubSeq(e.path, 1, i)].kind = "dir")
      BY <2>12, <3>1 DEF IsDir
    <3>4. e.op # "create"
      BY <3>1
    <3> QED BY <3>0, <3>2, <3>3, <3>4 DEF Passed, IsDir, IsFile
  <2>14. CallsStand' /\ SearchesStand' /\ StatusesStand' /\ TmpFilesStand'
    BY <1>2, <2>4, <2>5, <2>7, <2>8, <2>10, <2>13, MoveKeeps
  <2>15. DirsStand'
    BY <1>2, <2>1, <2>4 DEF FilesInv, DirsStand
  <2> QED BY <2>4, <2>14, <2>15 DEF FilesInv
<1>7. CASE ~ok
  <2>1. UNCHANGED tree /\ Returns(t, r, FALSE) /\ r.op \notin {"last", "modified", "tmp"}
    BY <1>2, <1>3, <1>7
  <2> HIDE DEF r
  <2>2. Moves(t, FALSE) /\ CallFits(call[t])' /\ Passed(call[t])'
    BY <2>1, ReturnsMoves
  <2>3. TreeStands' /\ Quiet /\ DirsStand'
    BY <1>2, <2>1, SameTree
  <2>4. Versions
    BY <1>2, <2>1, SameVersions DEF FilesInv, CallsStand
  <2>5. CallsStand' /\ SearchesStand' /\ StatusesStand' /\ TmpFilesStand'
    BY <1>2, <2>2, <2>3, <2>4, MoveKeeps
  <2> QED BY <2>3, <2>5 DEF FilesInv
<1> QED BY <1>6, <1>7

(* A file that is created or written.                                      *)
LEMMA FileChange ==
  ASSUME FilesInv, NEW p, NEW e, Creates(p, e) \/ Writes(p, e), e.kind = "file",
         e.version \in 2 * calls .. 2 * calls' + 1 \/ (p \in DOMAIN tree /\ e = tree[p]),
         calls' \in Nat, calls <= calls', UNCHANGED <<disk, curdir>>
  PROVE  /\ TreeStands' /\ Quiet /\ Versions /\ DirsStand'
         /\ p \in DOMAIN tree' /\ tree'[p] = e
<1>1. /\ TreeStands' /\ Quiet /\ DOMAIN tree' = DOMAIN tree \cup {p} /\ tree'[p] = e
      /\ \A q \in DOMAIN tree : q # p => tree'[q] = tree[q]
  <2>1. CASE Creates(p, e)
    BY <2>1, CreatedTree DEF FilesInv
  <2>2. CASE Writes(p, e)
    <3>1. p \in DOMAIN tree
      BY <2>2 DEF Writes, IsFile
    <3> QED BY <2>2, <3>1, WrittenTree DEF FilesInv
  <2> QED BY <2>1, <2>2
<1>2. Versions
  BY <1>1 DEF Versions, FilesInv, CallsStand
<1>3. DirsStand'
  BY <1>1 DEF FilesInv, DirsStand, Quiet
<1> QED BY <1>1, <1>2, <1>3

(* The names of temporary files are names.                                 *)
LEMMA TmpFileIsPath ==
  ASSUME NEW counter \in Seq(Char) \ {<<>>}, NEW at \in Nat
  PROVE  TmpFile(counter, at) \in Path /\ (at + Wildcards) % Len(counter) \in Nat
<1>1. Wildcards \in Nat /\ TmpDir \in Seq(Seq(Char))
  BY PathAssumption DEF Path
<1>2. Len(counter) \in Nat \ {0} /\ counter \in [1..Len(counter) -> Char]
  OBVIOUS
<1>3. ASSUME NEW i \in 1..Wildcards PROVE Digit(counter, at + i - 1) \in Char
  <2> DEFINE k == at + i - 1
             n == Len(counter)
  <2>1. k \in Nat /\ n \in Nat /\ n > 0
    BY <1>1, <1>2
  <2> HIDE DEF k, n
  <2>2. k % n \in 0..(n - 1)
    BY <2>1
  <2>3. n - (k % n) \in 1..n
    BY <2>1, <2>2
  <2> QED BY <1>2, <2>3 DEF Digit, k, n
<1>4. [i \in 1..Wildcards |-> Digit(counter, at + i - 1)] \in Seq(Char)
  BY <1>1, <1>3
<1>5. TmpFile(counter, at) \in Seq(Seq(Char)) /\ TmpFile(counter, at) # <<>>
  BY <1>1, <1>4 DEF TmpFile
<1>6. (at + Wildcards) % Len(counter) \in Nat
  <2> DEFINE k == at + Wildcards
             n == Len(counter)
  <2>1. k \in Nat /\ n \in Nat /\ n > 0
    BY <1>1, <1>2
  <2> HIDE DEF k, n
  <2>2. k % n \in 0..(n - 1)
    BY <2>1
  <2> QED BY <2>1, <2>2 DEF k, n
<1> QED BY <1>5, <1>6 DEF Path

(* WtkCreateTmpFile: a name.                                               *)
LEMMA TryTmpFileKeeps ==
  ASSUME FilesInv, NEW t \in Threads, TryTmpFile(t)
  PROVE  FilesInv'
<1>0. PICK c : c = call[t]
  OBVIOUS
<1> DEFINE file == TmpFile(c.counter, c.at)
           next == (c.at + Wildcards) % Len(c.counter)
           d == [c EXCEPT !.at = next]
           r == [op |-> "tmp", path |-> file]
<1>1. c \in Call /\ c.op = "tmp" /\ c.counter \in Seq(Char) \ {<<>>} /\ c.at \in Nat
  BY <1>0 DEF TryTmpFile, FilesInv, CallsStand, CallFits, Call, Idle
<1>2. file \in Path /\ next \in Nat
  BY <1>1, TmpFileIsPath
<1>3. /\ tree' = IF CanCreate(file) THEN With(file, NewFile) ELSE tree
      /\ Remains(tree') /\ UNCHANGED <<clock, disk, curdir, status, calls>>
      /\ CanCreate(file) => Returns(t, r, TRUE)
      /\ ~CanCreate(file) => Goes(t, d, FALSE)
  BY <1>0 DEF TryTmpFile, TreeBecomes, Goes, Returns
<1>4. d \in Call /\ d.op = "tmp"
  BY <1>1, <1>2 DEF Call, Idle
<1>5. r.op = "tmp" /\ r.path = file
  OBVIOUS
<1>6. calls \in Nat /\ clock \in Nat
  BY DEF FilesInv, CallsStand
<1> HIDE DEF file, d, r
<1>7. CASE CanCreate(file)
  <2>1. NewFile \in Entry /\ NewFile.kind = "file" /\ NewFile.version = 2 * calls
    BY <1>6 DEF NewFile, Entry
  <2>2. Creates(file, NewFile)
    BY <1>2, <1>3, <1>7, <2>1 DEF Creates
  <2>3. TreeStands' /\ Quiet /\ Versions /\ DirsStand'
    <3>1. NewFile.version \in 2 * calls .. 2 * calls' + 1 /\ calls' \in Nat /\ calls <= calls'
      BY <1>3, <1>6, <2>1
    <3> QED BY <1>3, <2>1, <2>2, <3>1, FileChange
  <2>4. /\ call' = [DisturbedBy(t) EXCEPT ![t] = call'[t]] /\ call'[t] = Idle
        /\ answer' = [answer EXCEPT ![t] = answer'[t]] /\ answer'[t] = r
    BY <1>3, <1>7 DEF Returns, FilesInv, CallsStand, SearchesStand, DisturbedBy
  <2>5. CallsStand'
    <3>1. (CallFits(call[t]) /\ Passed(call[t]))'
      BY <2>4 DEF CallFits, Passed, Idle, Call
    <3> QED BY <1>3, <1>6, <2>3, <2>4, <3>1, CallsKept
  <2>6. SearchesStand' /\ StatusesStand'
    BY <1>3, <1>5, <2>3, <2>4, SearchesKept, StatusesKept DEF FilesInv, SearchesStand
  <2>7. file \notin DOMAIN tree /\ file \in DOMAIN tree' /\ tree'[file].kind = "file"
    BY <1>3, <1>7, <2>1 DEF CanCreate, With
  <2>8. ASSUME NEW u \in Threads, u # t, answer'[u].op = "tmp"
        PROVE  /\ answer'[u] = answer[u]
               /\ answer[u].path # file \/ answer[u].path \in Files
               /\ \/ answer[u].path \in DOMAIN tree' /\ tree'[answer[u].path].kind = "file"
                  \/ answer[u].path \in Files
    <3>1. answer'[u] = answer[u]
      BY <2>4, <2>8 DEF FilesInv, SearchesStand
    <3> DEFINE q == answer[u].path
    <3>2. IsFile(q) \/ q \in Files
      BY <2>8, <3>1 DEF FilesInv, TmpFilesStand
    <3> HIDE DEF q
    <3>3. IsFile(q) => q # file /\ q \in DOMAIN tree' /\ tree'[q].kind = "file"
      BY <2>3, <2>7 DEF Quiet, IsFile
    <3> QED BY <3>1, <3>2, <3>3 DEF q, IsFile
  <2>9. \A u \in Threads : answer'[u].op = "tmp" => IsFile(answer[u].path)' \/ answer'[u].path \in Files
    <3>1. IsFile(answer[t].path)'
      BY <1>5, <2>4, <2>7 DEF IsFile
    <3>2. ASSUME NEW u \in Threads, u # t, answer'[u].op = "tmp"
          PROVE  IsFile(answer[u].path)' \/ answer'[u].path \in Files
      BY <2>8, <3>2 DEF IsFile
    <3> QED BY <3>1, <3>2
  <2>10. TmpFilesDiffer'
    <3>1. SUFFICES ASSUME NEW u \in Threads, NEW v \in Threads, u # v, answer'[u].op = "tmp", answer'[v].op = "tmp"
                   PROVE  answer'[u].path # answer'[v].path \/ answer'[u].path \in Files
      BY DEF TmpFilesDiffer
    <3>2. CASE u # t /\ v # t
      <4>1. answer'[u] = answer[u] /\ answer'[v] = answer[v]
        BY <2>4, <3>2 DEF FilesInv, SearchesStand
      <4> QED BY <3>1, <4>1 DEF FilesInv, TmpFilesStand, TmpFilesDiffer
    <3>3. CASE u = t
      <4>1. answer'[u].path = file /\ answer'[v] = answer[v]
        BY <1>5, <2>4, <2>8, <3>1, <3>3
      <4> QED BY <2>8, <3>1, <3>3, <4>1
    <3>4. CASE v = t
      <4>1. answer'[v].path = file /\ answer'[u] = answer[u]
        BY <1>5, <2>4, <2>8, <3>1, <3>4
      <4> QED BY <2>8, <3>1, <3>4, <4>1
    <3> QED BY <3>2, <3>3, <3>4
  <2> QED BY <2>3, <2>5, <2>6, <2>9, <2>10 DEF FilesInv, TmpFilesStand
<1>8. CASE ~CanCreate(file)
  <2>1. UNCHANGED tree
    BY <1>3, <1>8
  <2>2. TreeStands' /\ Quiet /\ DirsStand'
    BY <1>3, <2>1, SameTree
  <2>3. Versions
    BY <1>3, <1>6, <2>1, SameVersions
  <2>4. Moves(t, FALSE) /\ call'[t] = d
    BY <1>3, <1>8, GoesMoves
  <2>5. (CallFits(call[t]) /\ Passed(call[t]))'
    BY <1>4, <2>4 DEF CallFits, Passed
  <2>6. CallsStand' /\ SearchesStand' /\ StatusesStand' /\ TmpFilesStand'
    BY <1>3, <2>2, <2>3, <2>4, <2>5, MoveKeeps
  <2> QED BY <2>2, <2>6 DEF FilesInv
<1> QED BY <1>7, <1>8

(* WtkWriteFile: the file is opened, and then written.                     *)
LEMMA WriteFileKeeps ==
  ASSUME FilesInv, NEW t \in Threads, NEW file \in Files, NEW fAppend \in BOOLEAN,
         WtkWriteFile(t, file, fAppend)
  PROVE  FilesInv'
<1> DEFINE old == IF IsFile(file) THEN tree[file] ELSE NewFile
           opened == IF fAppend THEN old
                     ELSE [old EXCEPT !.size = 0, !.stamp = clock, !.version = 2 * calls]
           c == [op |-> "write", path |-> file]
<1>1. /\ IsFile(file) \/ CanCreate(file)
      /\ Begins(t, c) /\ tree' = With(file, opened) /\ Remains(tree')
      /\ UNCHANGED <<clock, disk, curdir, status>>
  BY DEF WtkWriteFile, TreeBecomes
<1>2. calls \in Nat /\ clock \in Nat /\ calls' = calls + 1
  BY <1>1 DEF FilesInv, CallsStand, Begins
<1>3. NewFile \in Entry /\ NewFile.kind = "file" /\ NewFile.version = 2 * calls
  BY <1>2 DEF NewFile, Entry
<1>4. old \in Entry /\ old.kind = "file"
  BY <1>3 DEF FilesInv, TreeStands, IsFile
<1>5. /\ opened \in Entry /\ opened.kind = "file"
      /\ opened.version = 2 * calls \/ (IsFile(file) /\ opened = tree[file])
  <2> old = IF IsFile(file) THEN tree[file] ELSE NewFile
    OBVIOUS
  <2> HIDE DEF old
  <2> QED BY <1>2, <1>3, <1>4 DEF Entry
<1> HIDE DEF opened
<1>6. Creates(file, opened) \/ Writes(file, opened)
  BY <1>1, <1>5, Given DEF Creates, Writes
<1>7. /\ TreeStands' /\ Quiet /\ Versions /\ DirsStand'
      /\ file \in DOMAIN tree' /\ tree'[file] = opened
  <2>1. opened.version \in 2 * calls .. 2 * calls' + 1 \/ (file \in DOMAIN tree /\ opened = tree[file])
    BY <1>2, <1>5 DEF IsFile
  <2>2. calls' \in Nat /\ calls <= calls'
    BY <1>2
  <2> QED BY <1>1, <1>5, <1>6, <2>1, <2>2, FileChange
<1>8. Moves(t, FALSE) /\ (CallFits(call[t]) /\ Passed(call[t]))'
  <2>1. Moves(t, FALSE) /\ call'[t] = c
    BY <1>1 DEF Moves, Begins, NoAnswer, FilesInv, CallsStand, SearchesStand
  <2>2. file \in DOMAIN tree' /\ tree'[file].kind = "file"
    BY <1>5, <1>7
  <2>3. c \in Call /\ c.op = "write" /\ c.path = file
    BY DEF Call
  <2> HIDE DEF c
  <2> QED BY <2>1, <2>2, <2>3 DEF CallFits, Passed, IsFile
<1>9. CallsStand' /\ SearchesStand' /\ StatusesStand' /\ TmpFilesStand'
  BY <1>1, <1>7, <1>8, MoveKeeps
<1> QED BY <1>7, <1>9 DEF FilesInv

LEMMA WriteDataKeeps ==
  ASSUME FilesInv, NEW t \in Threads, WriteData(t)
  PROVE  FilesInv'
<1>0. PICK c : c = call[t]
  OBVIOUS
<1> DEFINE file == c.path
           written == [tree[file] EXCEPT !.size = @ + 1, !.stamp = clock, !.version = 2 * calls + 1]
           r == [op |-> "write", ok |-> TRUE]
<1>1. c \in Call /\ c.op = "write" /\ IsFile(file)
  BY <1>0 DEF WriteData, FilesInv, CallsStand, CallFits
<1>2. /\ tree' = With(file, written) /\ Remains(tree') /\ Returns(t, r, FALSE)
      /\ UNCHANGED <<clock, disk, curdir, status, calls>>
  BY <1>0 DEF WriteData, TreeBecomes
<1>3. calls \in Nat /\ clock \in Nat /\ calls' = calls
  BY <1>2 DEF FilesInv, CallsStand
<1>4. written \in Entry /\ written.kind = "file" /\ written.version = 2 * calls + 1
  <2>0. PICK e : e = tree[file]
    OBVIOUS
  <2>1. e \in Entry /\ e.kind = "file"
    BY <1>1, <2>0 DEF FilesInv, TreeStands, IsFile
  <2>2. written = [e EXCEPT !.size = @ + 1, !.stamp = clock, !.version = 2 * calls + 1]
    BY <2>0
  <2> HIDE DEF written
  <2>3. e.size + 1 \in Nat /\ 2 * calls + 1 \in Nat
    BY <1>3, <2>1 DEF Entry
  <2> DEFINE s == e.size + 1
             v == 2 * calls + 1
  <2>4. written = [e EXCEPT !.size = s, !.stamp = clock, !.version = v] /\ s \in Nat /\ v \in Nat
    BY <2>2, <2>3
  <2> HIDE DEF s
  <2> SUFFICES written \in Entry /\ written.kind = "file" /\ written.version = v
    OBVIOUS
  <2> HIDE DEF v
  <2> QED BY <1>3, <2>1, <2>4 DEF Entry
<1>5. r.op \notin {"last", "modified", "tmp"}
  OBVIOUS
<1> HIDE DEF file, written, r
<1>6. Writes(file, written)
  BY <1>1, <1>2, <1>4 DEF Writes
<1>7. TreeStands' /\ Quiet /\ Versions /\ DirsStand'
  <2>1. written.version \in 2 * calls .. 2 * calls' + 1 /\ calls' \in Nat /\ calls <= calls'
    BY <1>3, <1>4
  <2> QED BY <1>2, <1>4, <1>6, <2>1, FileChange
<1>8. Moves(t, FALSE) /\ (CallFits(call[t]) /\ Passed(call[t]))'
  BY <1>2, <1>5, ReturnsMoves
<1>9. CallsStand' /\ SearchesStand' /\ StatusesStand' /\ TmpFilesStand'
  BY <1>2, <1>7, <1>8, MoveKeeps
<1> QED BY <1>7, <1>9 DEF FilesInv

(* WtkSetCurrentDir: the directory, if it is there.                        *)
LEMMA SetDirOnDriveKeeps ==
  ASSUME FilesInv, NEW t \in Threads, SetDirOnDrive(t)
  PROVE  FilesInv'
<1>0. PICK c : c = call[t]
  OBVIOUS
<1> DEFINE path == c.path
           drive == SubSeq(path, 1, 1)
           r == [op |-> "setdir", ok |-> IsDir(path)]
<1>1. c \in Call /\ c.op = "setdir" /\ path \in Paths
  BY <1>0 DEF SetDirOnDrive, FilesInv, CallsStand, CallFits, Call, Idle
<1>2. /\ curdir' = IF IsDir(path) THEN [curdir EXCEPT ![drive] = path] ELSE curdir
      /\ Returns(t, r, FALSE) /\ UNCHANGED <<tree, clock, disk, search, status, calls>>
  BY <1>0 DEF SetDirOnDrive
<1>3. r.op \notin {"last", "modified", "tmp"} /\ calls \in Nat
  BY DEF FilesInv, CallsStand
<1>4. path \in Path /\ drive \in Drives /\ Head(drive) = Head(path)
  <2>1. path \in Seq(Seq(Char)) /\ path # <<>> /\ drive \in Drives
    BY <1>1, Given DEF Path
  <2> HIDE DEF path
  <2> QED BY <2>1 DEF Path
<1> HIDE DEF path, drive, r
<1>5. TreeStands' /\ Quiet
  BY <1>2, SameTree
<1>6. DirsStand'
  BY <1>2, <1>4 DEF FilesInv, DirsStand, IsDir
<1>7. Moves(t, FALSE) /\ CallFits(call[t])' /\ Passed(call[t])'
  BY <1>2, <1>3, ReturnsMoves
<1>8. Versions
  BY <1>2, <1>3, SameVersions
<1>9. CallsStand' /\ SearchesStand' /\ StatusesStand' /\ TmpFilesStand'
  BY <1>2, <1>5, <1>7, <1>8, MoveKeeps
<1> QED BY <1>5, <1>6, <1>9 DEF FilesInv

LEMMA QueryDirKeeps ==
  ASSUME FilesInv, NEW t \in Threads, QueryDir(t)
  PROVE  FilesInv'
<1> DEFINE r == [op |-> "querydir", path |-> call[t].drive \o Tail(curdir[disk])]
<1>1. Returns(t, r, FALSE) /\ UNCHANGED <<tree, clock, disk, curdir, search, status, calls>>
  BY DEF QueryDir
<1>2. r.op \notin {"last", "modified", "tmp"} /\ calls \in Nat
  BY DEF FilesInv, CallsStand
<1> HIDE DEF r
<1>3. TreeStands' /\ Quiet /\ DirsStand'
  BY <1>1, SameTree
<1>4. Moves(t, FALSE) /\ CallFits(call[t])' /\ Passed(call[t])'
  BY <1>1, <1>2, ReturnsMoves
<1>5. Versions
  BY <1>1, <1>2, SameVersions
<1>6. CallsStand' /\ SearchesStand' /\ StatusesStand' /\ TmpFilesStand'
  BY <1>1, <1>3, <1>4, <1>5, MoveKeeps
<1> QED BY <1>3, <1>6 DEF FilesInv

(* A file has nothing in it, and is nobody's current directory.            *)
LEMMA DeleteFileKeeps ==
  ASSUME FilesInv, NEW t \in Threads, NEW file \in Files, WtkDeleteFile(t, file)
  PROVE  FilesInv'
<1> DEFINE r == [op |-> "erase", ok |-> TRUE]
<1>1. /\ IsFile(file) /\ ~Writing(file) /\ tree' = Without(file) /\ Remains(tree')
      /\ Returns(t, r, TRUE) /\ calls' = calls + 1
      /\ UNCHANGED <<clock, disk, curdir, status>>
  BY DEF WtkDeleteFile, TreeBecomes
<1>2. r.op \notin {"last", "modified", "tmp"} /\ calls \in Nat
  BY DEF FilesInv, CallsStand
<1> HIDE DEF r
<1>3. Children(file) = {}
  <2> SUFFICES ASSUME NEW p \in Children(file) PROVE FALSE
    OBVIOUS
  <2>1. p \in DOMAIN tree /\ Len(p) = Len(file) + 1 /\ Parent(p) = file
    BY DEF Children, Parent
  <2>2. Len(file) \in Nat \ {0}
    BY Given, PathParts
  <2>3. IsDir(file)
    BY <2>1, <2>2 DEF FilesInv, TreeStands
  <2> QED BY <1>1, <2>3 DEF IsDir, IsFile
<1>4. Removes(file)
  BY <1>1, <1>3 DEF Removes, IsFile, IsDir, FilesInv, TreeStands
<1>5. /\ TreeStands'
      /\ \A q : (IsDir(q)' <=> IsDir(q) /\ q # file) /\ (IsFile(q)' <=> IsFile(q) /\ q # file)
      /\ DOMAIN tree' = DOMAIN tree \ {file}
      /\ \A q \in DOMAIN tree' : tree'[q] = tree[q]
  BY <1>4, RemovedTree DEF FilesInv
<1>6. Versions
  BY <1>1, <1>2, <1>5 DEF Versions
<1>7. FilesStay(t)
  <2> SUFFICES ASSUME NEW u \in Threads, NEW q, u # t, call[u].op = "write", call[u].path = q
               PROVE  IsFile(q)'
    BY DEF FilesStay
  <2>1. IsFile(q)
    BY DEF FilesInv, CallsStand, CallFits
  <2>2. call[u] # Idle
    BY DEF Idle
  <2>3. q # file
    BY <1>1, <2>2 DEF Writing
  <2> QED BY <1>5, <2>1, <2>3
<1>8. Moves(t, TRUE) /\ CallFits(call[t])' /\ Passed(call[t])'
  BY <1>1, <1>2, ReturnsMoves
<1>9. CallsStand' /\ SearchesStand' /\ StatusesStand' /\ TmpFilesStand'
  <2>1. Careful(t)
    BY <1>5, <1>7 DEF Careful, KindsStay, FilesLast
  <2> QED BY <1>1, <1>5, <1>6, <1>8, <2>1, MoveKeeps
<1>10. DirsStand'
  <2>1. ASSUME NEW d \in Drives PROVE IsDir(curdir[d])'
    <3> DEFINE q == curdir[d]
    <3>1. IsDir(q) /\ curdir'[d] = q
      BY <1>1 DEF FilesInv, DirsStand
    <3> HIDE DEF q
    <3>2. q # file
      BY <1>1, <3>1 DEF IsDir, IsFile
    <3>3. q \in DOMAIN tree' /\ tree'[q].kind = "dir"
      BY <1>5, <3>1, <3>2 DEF IsDir
    <3> QED BY <3>1, <3>3 DEF IsDir
  <2> QED BY <1>1, <2>1 DEF FilesInv, DirsStand
<1> QED BY <1>5, <1>9, <1>10 DEF FilesInv

-----------------------------------------------------------------------------
(* The calls that only look.                                               *)

LEMMA LooksKeeps ==
  ASSUME FilesInv, UNCHANGED <<tree, disk, curdir, call>>, clock' \in Nat, calls' \in Nat, calls <= calls'
  PROVE  TreeStands' /\ DirsStand' /\ CallsStand' /\ Versions
<1>1. TreeStands' /\ Quiet /\ DirsStand'
  BY SameTree
<1>2. Versions
  BY SameVersions
<1>3. CallsStand'
  <2>1. ASSUME NEW u \in Threads PROVE (CallFits(call[u]) /\ Passed(call[u]))'
    BY DEF FilesInv, CallsStand, CallFits, Passed, IsDir, IsFile
  <2> QED BY <2>1 DEF FilesInv, CallsStand
<1> QED BY <1>1, <1>2, <1>3

LEMMA GetNextKeeps ==
  ASSUME FilesInv, NEW t \in Threads, NEW dir \in Paths, NEW kind \in {"dir", "file"},
         NEW fits \in BOOLEAN, GetNext(t, dir, kind, fits)
  PROVE  FilesInv'
<1>0. PICK f : f = Started(t, dir, kind)
  OBVIOUS
<1>1. SearchFits(f)
  BY <1>0, Given DEF Started, SearchFits, Search, NoSearch, FilesInv, SearchesStand, Entries, Children, TreeStands
<1> DEFINE c == [op |-> "find", fits |-> fits]
<1>2. CallFits(c) /\ Passed(c)
  BY DEF CallFits, Passed, Call
<1>3. Begins(t, c) /\ search' = [search EXCEPT ![t] = f] /\ UNCHANGED <<tree, clock, disk, curdir, status>>
  BY <1>0 DEF GetNext
<1> HIDE DEF c
<1>4. TreeStands' /\ CallsStand' /\ StatusesStand' /\ TmpFilesStand'
  BY <1>2, <1>3, BeginsKeeps
<1>5. SearchesStand'
  <2>1. answer' = [answer EXCEPT ![t] = answer'[t]] /\ answer'[t].op # "last"
    BY <1>3 DEF Begins, NoAnswer, FilesInv, SearchesStand
  <2> QED BY <1>1, <1>3, <2>1, SearchChanges DEF FilesInv
<1>6. DirsStand'
  BY <1>3, SameTree
<1> QED BY <1>4, <1>5, <1>6 DEF FilesInv

(* A call of the system within a search.                                   *)
LEMMA FindKeeps ==
  ASSUME FilesInv, NEW t \in Threads, FindDot(t) \/ FindName(t) \/ FindNoMore(t)
  PROVE  FilesInv'
<1>0. PICK f, c : f = search[t] /\ c = call[t]
  OBVIOUS
<1>1. /\ SearchFits(f) /\ Entries(f.dir, f.kind) \subseteq Path
      /\ c \in Call /\ c.op = "find" /\ c.fits \in BOOLEAN
      /\ answer[t].op = "last" => f.since \subseteq f.given
  <2>1. SearchFits(f) /\ (answer[t].op = "last" => f.since \subseteq f.given)
    BY <1>0 DEF FilesInv, SearchesStand
  <2>2. Entries(f.dir, f.kind) \subseteq Path
    BY DEF FilesInv, Entries, Children, TreeStands
  <2>3. c \in Call /\ c.op = "find"
    BY <1>0 DEF FindDot, FindName, FindNoMore, FilesInv, CallsStand, CallFits
  <2>4. c.fits \in BOOLEAN
    BY <2>3 DEF Call, Idle
  <2> QED BY <2>1, <2>2, <2>3, <2>4
<1> DEFINE skipped(dot) == [f EXCEPT !.dots = @ \ {dot}]
           next(p) == [f EXCEPT !.given = @ \cup {p}, !.told = IF c.fits THEN @ \cup {p} ELSE @,
                                !.lost = @ \/ ~c.fits]
           last == [f EXCEPT !.open = FALSE]
           Found(g) == SearchFits(g) /\ search' = [search EXCEPT ![t] = g]
<1>2. UNCHANGED <<tree, clock, disk, curdir, status, calls>>
  BY DEF FindDot, FindName, FindNoMore
<1>3. TreeStands' /\ Quiet /\ DirsStand'
  BY <1>2, SameTree
<1>4. Versions
  BY <1>2, SameVersions DEF FilesInv, CallsStand
<1>5. CASE FindDot(t)
  <2>1. PICK dot \in f.dots : search' = [search EXCEPT ![t] = skipped(dot)] /\ Goes(t, c, FALSE)
    BY <1>0, <1>5 DEF FindDot
  <2>2. SearchFits(skipped(dot)) /\ skipped(dot).since = f.since /\ skipped(dot).given = f.given
    BY <1>1 DEF SearchFits, Search
  <2>3. Moves(t, FALSE) /\ call'[t] = c /\ UNCHANGED answer
    BY <2>1, GoesMoves
  <2>4. CallFits(call[t])' /\ Passed(call[t])'
    BY <1>1, <2>3 DEF CallFits, Passed
  <2>5. CallsStand' /\ StatusesStand' /\ TmpFilesStand'
    BY <1>2, <1>3, <1>4, <2>3, <2>4, MoveKeeps
  <2> DEFINE g == skipped(dot)
  <2>6. SearchFits(g) /\ search' = [search EXCEPT ![t] = g] /\ (answer'[t].op = "last" => g.since \subseteq g.given)
    BY <1>1, <2>1, <2>2, <2>3
  <2> HIDE DEF g
  <2>7. SearchesStand'
    BY <2>3, <2>6, SearchChanges DEF FilesInv, Moves
  <2> QED BY <1>3, <2>5, <2>7 DEF FilesInv
<1>6. CASE FindName(t)
  <2> DEFINE r == [op |-> "next", ok |-> c.fits]
  <2>1. PICK p \in Path : search' = [search EXCEPT ![t] = next(p)] /\ Returns(t, r, FALSE)
    BY <1>0, <1>1, <1>6 DEF FindName
  <2>2. SearchFits(next(p))
    BY <1>1 DEF SearchFits, Search
  <2>3. r.op \notin {"last", "modified", "tmp"}
    OBVIOUS
  <2> HIDE DEF r
  <2>4. Moves(t, FALSE) /\ answer'[t] = r /\ CallFits(call[t])' /\ Passed(call[t])'
    BY <2>1, <2>3, ReturnsMoves
  <2>5. CallsStand' /\ StatusesStand' /\ TmpFilesStand'
    BY <1>2, <1>3, <1>4, <2>4, MoveKeeps
  <2> DEFINE g == next(p)
  <2>6. SearchFits(g) /\ search' = [search EXCEPT ![t] = g] /\ answer'[t].op # "last"
    BY <2>1, <2>2, <2>3, <2>4
  <2> HIDE DEF g
  <2>7. SearchesStand'
    BY <2>4, <2>6, SearchChanges DEF FilesInv, Moves
  <2> QED BY <1>3, <2>5, <2>7 DEF FilesInv
<1>7. CASE FindNoMore(t)
  <2> DEFINE r == [op |-> "last", ok |-> FALSE]
             g == last
  <2>1. search' = [search EXCEPT ![t] = g] /\ Returns(t, r, FALSE) /\ f.since \subseteq f.given /\ r.op = "last"
    BY <1>0, <1>7 DEF FindNoMore
  <2>2. SearchFits(g) /\ g.since = f.since /\ g.given = f.given
    BY <1>1 DEF SearchFits, Search
  <2> HIDE DEF r, g
  <2>3. /\ call' = [call EXCEPT ![t] = call'[t]] /\ call'[t] = Idle
        /\ answer' = [answer EXCEPT ![t] = answer'[t]] /\ answer'[t] = r
    BY <2>1 DEF Returns, FilesInv, CallsStand, SearchesStand
  <2>4. CallsStand'
    <3>1. (CallFits(call[t]) /\ Passed(call[t]))'
      BY <2>3 DEF CallFits, Passed, Idle, Call
    <3>2. clock' \in Nat /\ calls' \in Nat
      BY <1>2 DEF FilesInv, CallsStand
    <3> QED BY <1>3, <2>3, <3>1, <3>2, CallsKept
  <2>5. StatusesStand'
    BY <1>2, <1>3, <1>4, <2>1, <2>3, StatusesKept DEF FilesInv, SearchesStand
  <2>6. TmpFilesStand'
    BY <1>3, <2>1, <2>3, TmpFilesKept DEF FilesInv, SearchesStand, FilesLast, Quiet
  <2>7. SearchesStand'
    BY <2>1, <2>2, <2>3, SearchChanges DEF FilesInv
  <2> QED BY <1>3, <2>4, <2>5, <2>6, <2>7 DEF FilesInv
<1> QED BY <1>5, <1>6, <1>7

(* A new status of a thread, and what its call has answered.               *)
LEMMA AsksKeeps ==
  ASSUME FilesInv, NEW t \in Threads, UNCHANGED <<tree, clock, disk, curdir, call, search>>,
         calls' = calls + 1,
         status' = [status EXCEPT ![t] = status'[t]],
         status'[t] = status[t] \/ (\E file : IsFile(file) /\ status'[t] = StatusOf(file)),
         answer' = [answer EXCEPT ![t] = answer'[t]], answer'[t].op \notin {"last", "tmp"},
         answer'[t].op = "modified" /\ answer'[t].new # NoStatus =>
             IF answer'[t].ok THEN answer'[t].new.version # answer'[t].old.version
             ELSE answer'[t].new.version = answer'[t].old.version
                  \/ answer'[t].new.stamp = answer'[t].old.stamp
  PROVE  FilesInv'
<1>1. calls \in Nat /\ calls' \in Nat /\ calls <= calls' /\ clock' \in Nat
  BY DEF FilesInv, CallsStand
<1>2. TreeStands' /\ DirsStand' /\ CallsStand' /\ Versions
  BY <1>1, LooksKeeps
<1>3. SearchesStand'
  BY SearchesKept DEF FilesInv
<1>4. ASSUME NEW s, s \in Status, StatusFits(s) PROVE StatusFits(s)'
  <2>1. s.version < 2 * calls => s.version < 2 * calls'
    <3>1. s.version \in Int
      BY <1>4 DEF Status, NoStatus
    <3> QED BY <1>1, <3>1
  <2> QED BY <1>4, <2>1 DEF StatusFits, IsFile, StatusOf, Differs
<1>5. ASSUME NEW file, IsFile(file) PROVE StatusOf(file) \in Status /\ StatusFits(StatusOf(file))'
  <2>0. PICK e : e = tree[file]
    OBVIOUS
  <2>1. e \in Entry /\ file \in Path /\ e.version <= 2 * calls + 1 /\ e.version \in Nat
    BY <1>5, <2>0 DEF FilesInv, TreeStands, StatusesStand, IsFile, Entry
  <2>2. e.version < 2 * calls'
    BY <1>1, <2>1
  <2>3. PICK s : s = StatusOf(file)
    OBVIOUS
  <2>4. s = [path |-> file, size |-> e.size, stamp |-> e.stamp, version |-> e.version]
    BY <2>0, <2>3 DEF StatusOf
  <2>5. s \in Status
    BY <2>1, <2>4 DEF Status, Entry
  <2>6. StatusFits(s)'
    BY <2>0, <2>2, <2>4 DEF StatusFits, StatusOf, Differs
  <2> QED BY <2>3, <2>5, <2>6 DEF StatusFits, StatusOf
<1>6. ASSUME NEW u \in Threads PROVE status'[u] \in Status /\ StatusFits(status[u])'
  <2>0. PICK s : s = status'[u]
    OBVIOUS
  <2>1. CASE s = status[u]
    <3>1. s \in Status /\ StatusFits(s)
      BY <2>1 DEF FilesInv, StatusesStand
    <3> QED BY <1>4, <2>0, <3>1 DEF StatusFits
  <2>2. CASE s # status[u]
    <3>1. PICK file : IsFile(file) /\ s = StatusOf(file)
      BY <2>0, <2>2 DEF FilesInv, StatusesStand
    <3>2. s \in Status /\ StatusFits(s)'
      BY <1>5, <3>1 DEF StatusFits, StatusOf
    <3> QED BY <2>0, <3>2 DEF StatusFits
  <2> QED BY <2>1, <2>2
<1>7. status' \in [Threads -> Status]
  BY <1>6 DEF FilesInv, StatusesStand
<1>8. ModifiedIsSeen'
  <2>1. ASSUME NEW u \in Threads, u # t PROVE answer'[u] = answer[u]
    BY <2>1 DEF FilesInv, SearchesStand
  <2> QED BY <2>1 DEF FilesInv, StatusesStand, ModifiedIsSeen
<1>9. ASSUME NEW p \in DOMAIN tree' PROVE tree'[p].version <= 2 * calls' + 1
  <2>1. tree[p].version <= 2 * calls + 1 /\ tree[p].version \in Nat
    BY DEF FilesInv, StatusesStand, TreeStands, Entry
  <2> QED BY <1>1, <2>1
<1>10. StatusesStand'
  BY <1>6, <1>7, <1>8, <1>9 DEF StatusesStand
<1>11. TmpFilesStand'
  <2>1. FilesLast
    BY DEF FilesLast, IsFile
  <2> QED BY <2>1, TmpFilesKept DEF FilesInv, SearchesStand
<1> QED BY <1>2, <1>3, <1>10, <1>11 DEF FilesInv

LEMMA QueryPathInfoKeeps ==
  ASSUME FilesInv, NEW t \in Threads, NEW file \in Files, DosQueryPathInfo(t, file)
  PROVE  FilesInv'
<1>1. /\ UNCHANGED <<tree, clock, disk, curdir, call, search>> /\ calls' = calls + 1
      /\ status' = [status EXCEPT ![t] = status'[t]]
      /\ IsFile(file) /\ status'[t] = StatusOf(file)
      /\ answer' = [answer EXCEPT ![t] = answer'[t]] /\ answer'[t] = NoAnswer
  BY DEF DosQueryPathInfo, FilesInv, StatusesStand, SearchesStand
<1>2. answer'[t].op = "none"
  BY <1>1 DEF NoAnswer
<1> QED BY <1>1, <1>2, AsksKeeps

LEMMA FileModifiedKeeps ==
  ASSUME FilesInv, NEW t \in Threads, WtkFileModified(t)
  PROVE  FilesInv'
<1>0. PICK s : s = status[t]
  OBVIOUS
<1> DEFINE file == s.path
           modified == IsFile(file) => Differs(StatusOf(file), s)
           new == IF IsFile(file) THEN StatusOf(file) ELSE NoStatus
           r == [op |-> "modified", ok |-> modified, old |-> s, new |-> new]
<1>1. /\ UNCHANGED <<tree, clock, disk, curdir, call, search>> /\ calls' = calls + 1 /\ file # <<>>
      /\ status' = [status EXCEPT ![t] = IF modified /\ IsFile(file) THEN StatusOf(file) ELSE s]
      /\ answer' = [answer EXCEPT ![t] = r]
  BY <1>0 DEF WtkFileModified
<1>2. s \in Status /\ StatusFits(s) /\ s.version \in Nat
  BY <1>0, <1>1 DEF FilesInv, StatusesStand, Status, NoStatus
<1>3. new # NoStatus => IF modified THEN new.version # s.version ELSE new.stamp = s.stamp
  <2>1. SUFFICES ASSUME IsFile(file) PROVE IF modified THEN new.version # s.version ELSE new.stamp = s.stamp
    OBVIOUS
  <2> QED BY <1>1, <1>2, <2>1 DEF StatusFits, StatusOf, Differs
<1>4. modified \in BOOLEAN
  BY DEF Differs
<1>5. r.op = "modified" /\ (r.ok <=> modified) /\ r.old = s /\ r.new = new
  BY <1>4
<1> HIDE DEF file, modified, new, r
<1>6. /\ answer' = [answer EXCEPT ![t] = answer'[t]] /\ answer'[t] = r
      /\ status' = [status EXCEPT ![t] = status'[t]]
      /\ status'[t] = status[t] \/ (IsFile(file) /\ status'[t] = StatusOf(file))
  BY <1>0, <1>1 DEF FilesInv, StatusesStand, SearchesStand
<1>7. answer'[t].new # NoStatus =>
        IF answer'[t].ok THEN answer'[t].new.version # answer'[t].old.version
        ELSE answer'[t].new.stamp = answer'[t].old.stamp
  BY <1>3, <1>5, <1>6
<1>8. answer'[t].op \notin {"last", "tmp"}
  BY <1>5, <1>6
<1> QED BY <1>1, <1>6, <1>7, <1>8, AsksKeeps

LEMMA TickKeeps ==
  ASSUME FilesInv, Tick
  PROVE  FilesInv'
<1>1. /\ UNCHANGED <<tree, disk, curdir, call, search, status, answer, calls>>
      /\ clock' \in Nat /\ calls' \in Nat /\ calls <= calls'
  BY DEF Tick, FilesInv, CallsStand
<1>2. TreeStands' /\ DirsStand' /\ CallsStand'
  BY <1>1, LooksKeeps
<1>3. SearchesStand'
  BY <1>1 DEF FilesInv, SearchesStand, SearchFits
<1>4. StatusesStand'
  BY <1>1 DEF FilesInv, StatusesStand, StatusFits, IsFile, StatusOf, Differs, ModifiedIsSeen
<1>5. TmpFilesStand'
  BY <1>1 DEF FilesInv, TmpFilesStand, TmpFilesDiffer, IsFile
<1> QED BY <1>2, <1>3, <1>4, <1>5 DEF FilesInv

LEMMA FilesInvStutters ==
  ASSUME FilesInv, UNCHANGED vars
  PROVE  FilesInv'
<1>1. /\ UNCHANGED <<tree, disk, curdir, call, search, status, answer, calls>>
      /\ clock' \in Nat /\ calls' \in Nat /\ calls <= calls'
  BY DEF vars, FilesInv, CallsStand
<1>2. TreeStands' /\ DirsStand' /\ CallsStand'
  BY <1>1, LooksKeeps
<1>3. SearchesStand'
  BY <1>1 DEF FilesInv, SearchesStand, SearchFits
<1>4. StatusesStand'
  BY <1>1 DEF FilesInv, StatusesStand, StatusFits, IsFile, StatusOf, Differs, ModifiedIsSeen
<1>5. TmpFilesStand'
  BY <1>1 DEF FilesInv, TmpFilesStand, TmpFilesDiffer, IsFile
<1> QED BY <1>2, <1>3, <1>4, <1>5 DEF FilesInv

-----------------------------------------------------------------------------
LEMMA FilesInitially == Init => FilesInv
<1> SUFFICES ASSUME Init PROVE FilesInv
  OBVIOUS
<1>1. tree = Tree0 /\ clock = 0 /\ calls = 0
  BY DEF Init
<1>2. ASSUME NEW p \in DOMAIN tree
      PROVE  p \in Path /\ tree[p] \in Entry /\ tree[p].version = 0 /\ (Len(p) > 1 => IsDir(Parent(p)))
  BY <1>1, PathAssumption DEF Entry, IsDir, Parent
<1>3. TreeStands
  BY <1>1, <1>2, PathAssumption DEF TreeStands, IsDir
<1>4. DirsStand
  BY <1>3, Given DEF Init, DirsStand, TreeStands
<1>5. CallsStand
  BY DEF Init, CallsStand, CallFits, Passed, Call, Idle
<1>6. SearchesStand
  BY DEF Init, SearchesStand, SearchFits, Search, NoSearch, NoAnswer
<1>7. StatusesStand
  BY <1>1, <1>2 DEF Init, StatusesStand, StatusFits, Status, NoStatus, ModifiedIsSeen, NoAnswer
<1>8. TmpFilesStand
  BY DEF Init, TmpFilesStand, TmpFilesDiffer, NoAnswer
<1> QED BY <1>3, <1>4, <1>5, <1>6, <1>7, <1>8 DEF FilesInv

LEMMA FilesStep == FilesInv /\ [Next]_vars => FilesInv'
<1> SUFFICES ASSUME FilesInv, [Next]_vars PROVE FilesInv'
  OBVIOUS
<1>1. CASE UNCHANGED vars
  BY <1>1, FilesInvStutters
<1>2. CASE Tick
  BY <1>2, TickKeeps
<1>3. ASSUME NEW t \in Threads, NEW path \in Paths,
             \/ WtkCreatePath(t, path) \/ WtkDeletePath(t, path) \/ WtkSetCurrentDir(t, path)
             \/ \E kind \in {"dir", "file"}, fits \in BOOLEAN : GetNext(t, path, kind, fits)
      PROVE  FilesInv'
  BY <1>3, BeginsOfPaths, BeginsOfDirs, GetNextKeeps
<1>4. ASSUME NEW t \in Threads, NEW file \in Files,
             \/ \E fAppend \in BOOLEAN : WtkWriteFile(t, file, fAppend)
             \/ WtkDeleteFile(t, file) \/ DosQueryPathInfo(t, file)
      PROVE  FilesInv'
  BY <1>4, WriteFileKeeps, DeleteFileKeeps, QueryPathInfoKeeps
<1>5. ASSUME NEW t \in Threads,
             \/ WtkCreateTmpFile(t) \/ WtkFileModified(t)
             \/ \E asked \in Drives \cup {<<>>} : WtkQueryCurrentDir(t, asked)
      PROVE  FilesInv'
  BY <1>5, BeginsOfTmpFile, FileModifiedKeeps, BeginsOfDirs
<1>6. ASSUME NEW t \in Threads, Steps(t) PROVE FilesInv'
  BY <1>6, CreateComponentKeeps, DeleteComponentKeeps, TryTmpFileKeeps, WriteDataKeeps, SetDirOnDriveKeeps,
     QueryDirKeeps, FindKeeps DEF Steps
<1> QED BY <1>1, <1>2, <1>3, <1>4, <1>5, <1>6 DEF Next

(* The invariant says of a state what FilesAreSeen says.                   *)
LEMMA FilesSeen == FilesInv => FilesAreSeen
<1> SUFFICES ASSUME FilesInv PROVE FilesAreSeen
  OBVIOUS
<1>1. TypeOK
  BY DEF FilesInv, TreeStands, DirsStand, TypeOK
<1>2. SearchIsRight
  BY DEF FilesInv, SearchesStand, SearchFits, SearchIsRight
<1> QED BY <1>1, <1>2 DEF FilesInv, StatusesStand, FilesAreSeen

-----------------------------------------------------------------------------
(* What a call leaves behind when it returns.                              *)

(* No other thread ends a call.                                            *)
LEMMA StillRuns ==
  ASSUME FilesInv, NEW t \in Threads, NEW u \in Threads, u # t, call[t] # Idle,
         \/ call' = [call EXCEPT ![u] = call'[u]]
         \/ call' = [DisturbedBy(u) EXCEPT ![u] = call'[u]]
  PROVE  call'[t] # Idle
<1>0. PICK c : c = call[t]
  OBVIOUS
<1>1. c \in Call /\ c # Idle
  BY <1>0 DEF FilesInv, CallsStand
<1>2. call'[t] = c \/ call'[t] = [c EXCEPT !.disturbed = TRUE]
  BY <1>0 DEF DisturbedBy, FilesInv, CallsStand
<1>3. [c EXCEPT !.disturbed = TRUE].op # "idle"
  BY <1>1 DEF Call, Idle
<1> QED BY <1>1, <1>2, <1>3 DEF Idle

LEMMA EndsBySteps ==
  ASSUME FilesInv, Next, NEW t \in Threads, call[t] # Idle, call'[t] = Idle
  PROVE  Steps(t)
<1>1. ~UNCHANGED call
  OBVIOUS
<1>2. ~Tick
  BY <1>1 DEF Tick
<1>3. ASSUME NEW u \in Threads, NEW c, Begins(u, c) PROVE FALSE
  <2>1. u # t /\ call' = [call EXCEPT ![u] = call'[u]]
    BY <1>3 DEF Begins, FilesInv, CallsStand
  <2> QED BY <2>1, StillRuns
<1>4. ASSUME NEW u \in Threads, NEW path \in Paths PROVE /\ ~WtkCreatePath(u, path)
                                                        /\ ~WtkDeletePath(u, path)
                                                        /\ ~WtkSetCurrentDir(u, path)
  BY <1>3 DEF WtkCreatePath, WtkDeletePath, WtkSetCurrentDir
<1>5. ASSUME NEW u \in Threads
      PROVE  /\ ~WtkCreateTmpFile(u) /\ ~WtkFileModified(u)
             /\ \A asked \in Drives \cup {<<>>} : ~WtkQueryCurrentDir(u, asked)
             /\ \A path \in Paths, kind \in {"dir", "file"}, fits \in BOOLEAN : ~GetNext(u, path, kind, fits)
  BY <1>1, <1>3 DEF WtkCreateTmpFile, WtkFileModified, WtkQueryCurrentDir, GetNext
<1>6. ASSUME NEW u \in Threads, NEW file \in Files
      PROVE  /\ \A fAppend \in BOOLEAN : ~WtkWriteFile(u, file, fAppend)
             /\ ~DosQueryPathInfo(u, file)
  BY <1>1, <1>3 DEF WtkWriteFile, DosQueryPathInfo
<1>7. ASSUME NEW u \in Threads, NEW file \in Files PROVE ~WtkDeleteFile(u, file)
  <2>1. SUFFICES ASSUME WtkDeleteFile(u, file) PROVE FALSE
    OBVIOUS
  <2>2. u # t /\ call' = [DisturbedBy(u) EXCEPT ![u] = call'[u]]
    BY <2>1 DEF WtkDeleteFile, Returns, DisturbedBy, FilesInv, CallsStand
  <2> QED BY <2>2, StillRuns
<1>8. PICK u \in Threads : Steps(u)
  BY <1>2, <1>4, <1>5, <1>6, <1>7 DEF Next
<1>9. \/ call' = [call EXCEPT ![u] = call'[u]] \/ call' = [DisturbedBy(u) EXCEPT ![u] = call'[u]]
  <2>1. ASSUME NEW c, NEW ok, Goes(u, c, ok) \/ Returns(u, c, ok)
        PROVE  \/ call' = [call EXCEPT ![u] = call'[u]] \/ call' = [DisturbedBy(u) EXCEPT ![u] = call'[u]]
    BY <2>1 DEF Goes, Returns, DisturbedBy, FilesInv, CallsStand
  <2>2. \E c, ok : Goes(u, c, ok) \/ Returns(u, c, ok)
    <3>1. CASE CreateComponent(u)
      BY <3>1, Zenon DEF CreateComponent
    <3>2. CASE DeleteComponent(u)
      BY <3>2, Zenon DEF DeleteComponent
    <3>3. CASE TryTmpFile(u)
      BY <3>3, Zenon DEF TryTmpFile
    <3>4. CASE WriteData(u) \/ SetDirOnDrive(u) \/ QueryDir(u)
      BY <3>4, Zenon DEF WriteData, SetDirOnDrive, QueryDir
    <3>5. CASE FindDot(u) \/ FindName(u) \/ FindNoMore(u)
      BY <3>5, Zenon DEF FindDot, FindName, FindNoMore
    <3> QED BY <1>8, <3>1, <3>2, <3>3, <3>4, <3>5 DEF Steps
  <2> QED BY <2>1, <2>2
<1>10. u = t
  BY <1>9, StillRuns
<1> QED BY <1>8, <1>10

(* Above a directory there are directories.                                *)
LEMMA DirsAbove ==
  ASSUME TreeStands, NEW path \in Path, NEW n \in 1..Len(path), IsDir(SubSeq(path, 1, n))
  PROVE  \A i \in 1..n : IsDir(SubSeq(path, 1, i))
<1> DEFINE S == {k \in Nat : k < n => IsDir(SubSeq(path, 1, n - k))}
<1>1. Len(path) \in Nat \ {0}
  BY PathParts
<1>2. 0 \in S
  <2>1. n - 0 = n
    OBVIOUS
  <2> QED BY <2>1
<1>3. ASSUME NEW k \in Nat, k \in S PROVE k + 1 \in S
  <2>1. SUFFICES ASSUME k + 1 < n PROVE IsDir(SubSeq(path, 1, n - (k + 1)))
    OBVIOUS
  <2> DEFINE i == n - k
             p == SubSeq(path, 1, i)
  <2>2. i \in 1..Len(path) /\ i > 1 /\ i - 1 = n - (k + 1) /\ k < n
    BY <1>1, <2>1
  <2>3. IsDir(p)
    BY <1>3, <2>2
  <2>4. p \in Path /\ Len(p) = i /\ Parent(p) = SubSeq(path, 1, i - 1)
    BY <2>2, PathParts
  <2> HIDE DEF i, p
  <2>5. IsDir(Parent(p))
    BY <2>2, <2>3, <2>4 DEF TreeStands, IsDir
  <2> QED BY <2>2, <2>4, <2>5
<1> HIDE DEF S
<1>4. Nat \subseteq S
  BY <1>2, <1>3, NatSetInduction DEF S
<1>5. ASSUME NEW i \in 1..n PROVE IsDir(SubSeq(path, 1, i))
  <2>1. n - i \in Nat /\ n - i < n /\ n - (n - i) = i
    BY <1>1
  <2> QED BY <1>4, <2>1 DEF S
<1> QED BY <1>5

LEMMA CreatedIsThere ==
  ASSUME FilesInv, NEW t \in Threads, CreateComponent(t)
  PROVE  CreatedPathIsThere(t)
<1>0. PICK c : c = call[t]
  OBVIOUS
<1> DEFINE n == c.upto
           path == c.path
           this == SubSeq(path, 1, n)
           ok == CanCreate(this)
           d == [c EXCEPT !.upto = n + 1]
           r == [op |-> "create", ok |-> ok, path |-> path, sure |-> ~c.disturbed]
<1>1. SUFFICES ASSUME call'[t] = Idle, answer'[t].sure, \A p \in PartsOf(path) : ~IsFile(p)
               PROVE  path \in DOMAIN tree' /\ tree'[path].kind = "dir"
  BY <1>0 DEF CreatedPathIsThere, Ended
<1>2. c \in Call /\ c.op = "create" /\ path \in Paths /\ n \in 1..Len(path) /\ Passed(c)
  BY <1>0 DEF CreateComponent, FilesInv, CallsStand, CallFits, Call, Idle
<1>3. /\ tree' = IF ok THEN With(this, Directory) ELSE tree
      /\ n < Len(path) => Goes(t, d, ok)
      /\ ~(n < Len(path)) => Returns(t, r, ok)
  BY <1>0 DEF CreateComponent, TreeBecomes
<1>4. ok \in BOOLEAN /\ Len(path) \in Nat
  BY <1>2, Given, PathParts DEF CanCreate
<1>5. d.op = "create" /\ r.op = "create" /\ r.sure = ~c.disturbed
  BY <1>2 DEF Call, Idle
<1>6. PassedTo(path, n - 1) \/ c.disturbed
  BY <1>2, <1>4 DEF Passed, PassedTo
<1> HIDE DEF n, path, ok, d, r
<1>7. ComponentStep(path, n)
  BY <1>3 DEF ComponentStep, ok
<1>8. ~(n < Len(path))
  <2>1. ASSUME n < Len(path) PROVE call'[t] = d
    BY <1>3, <1>4, <2>1, GoesMoves
  <2> QED BY <1>1, <1>5, <2>1 DEF Idle
<1>9. n = Len(path) /\ answer'[t] = r
  BY <1>2, <1>3, <1>4, <1>5, <1>8, ReturnsMoves
<1>10. ~c.disturbed
  BY <1>1, <1>5, <1>9
<1>11. \A i \in 1..n : IsDir(SubSeq(path, 1, i))'
  <2>1. \A i \in 1..Len(path) : ~IsFile(SubSeq(path, 1, i))
    BY <1>1 DEF PartsOf
  <2> QED BY <1>2, <1>6, <1>7, <1>10, <2>1, ComponentIsThere
<1>12. SubSeq(path, 1, n) = path /\ n \in 1..n
  BY <1>2, <1>4, <1>9, Given, PathParts
<1> QED BY <1>11, <1>12 DEF IsDir

LEMMA DeletedIsGone ==
  ASSUME FilesInv, NEW t \in Threads, DeleteComponent(t)
  PROVE  DeletedPathIsGone(t)
<1>0. PICK c : c = call[t]
  OBVIOUS
<1> DEFINE n == c.upto
           path == c.path
           this == SubSeq(path, 1, n)
           ok == CanDelete(this)
           d == [c EXCEPT !.upto = n - 1]
           r == [op |-> "delete", ok |-> n < Len(path), path |-> path, sure |-> ~c.disturbed]
<1>1. SUFFICES ASSUME call'[t] = Idle, answer'[t].ok, answer'[t].sure, NEW p \in PartsOf(path)
               PROVE  ~CanDelete(p)' /\ (p = path => ~IsDir(p)')
  BY <1>0 DEF DeletedPathIsGone, Ended
<1>2. c \in Call /\ c.op = "delete" /\ path \in Paths /\ n \in 1..Len(path) /\ Passed(c)
  BY <1>0 DEF DeleteComponent, FilesInv, CallsStand, CallFits, Call, Idle
<1>3. /\ tree' = IF ok THEN Without(this) ELSE tree
      /\ UNCHANGED curdir
      /\ ok => Goes(t, d, ok)
      /\ ~ok => Returns(t, r, ok)
  BY <1>0 DEF DeleteComponent, TreeBecomes
<1>4. ok \in BOOLEAN /\ path \in Path /\ Len(path) \in Nat \ {0}
  BY <1>2, Given, PathParts DEF CanDelete
<1>5. d.op = "delete" /\ r.op = "delete" /\ r.ok = (n < Len(path)) /\ r.sure = ~c.disturbed
  BY <1>2 DEF Call, Idle
<1>6. ~ok
  <2> HIDE DEF d, ok
  <2>1. ASSUME ok PROVE call'[t] = d
    BY <1>3, <1>4, <2>1, GoesMoves
  <2> QED BY <1>1, <1>5, <2>1 DEF Idle
<1>7. answer'[t] = r /\ UNCHANGED tree
  <2> HIDE DEF r, ok
  <2> QED BY <1>3, <1>4, <1>5, <1>6, ReturnsMoves
<1>8. n < Len(path) /\ ~c.disturbed
  <2> HIDE DEF r
  <2> QED BY <1>1, <1>5, <1>7
<1>9. IsDir(this) /\ \A i \in (n + 1)..Len(path) : ~IsDir(SubSeq(path, 1, i))
  BY <1>2, <1>8 DEF Passed
<1>10. \A i \in 1..n : IsDir(SubSeq(path, 1, i))
  BY <1>2, <1>4, <1>9, DirsAbove DEF FilesInv
<1>11. PICK i \in 1..Len(path) : p = SubSeq(path, 1, i)
  BY <1>1 DEF PartsOf
<1> HIDE DEF n, path, ok, d, r
<1>12. ~CanDelete(p)
  <2>1. CASE i = n
    BY <1>6, <1>11, <2>1 DEF ok
  <2>2. CASE i > n
    BY <1>2, <1>4, <1>9, <1>11, <2>2 DEF CanDelete
  <2>3. CASE i < n
    <3> DEFINE q == SubSeq(path, 1, i + 1)
    <3>1. i + 1 \in 1..n /\ i + 1 \in 1..Len(path) /\ i + 1 > 1 /\ (i + 1) - 1 = i
      BY <1>2, <1>4, <2>3
    <3>2. q \in DOMAIN tree
      BY <1>10, <3>1 DEF IsDir
    <3>3. Len(q) = Len(p) + 1 /\ Parent(q) = p
      BY <1>4, <1>11, <3>1, PathParts
    <3> HIDE DEF q
    <3>4. q \in Children(p)
      BY <3>2, <3>3 DEF Children, Parent
    <3> QED BY <3>4 DEF CanDelete
  <2> QED BY <1>2, <1>4, <2>1, <2>2, <2>3
<1>13. ~CanDelete(p)'
  BY <1>3, <1>7, <1>12 DEF CanDelete, IsDir, Children
<1>14. p = path => ~IsDir(p)
  <2>1. SubSeq(path, 1, Len(path)) = path /\ Len(path) \in (n + 1)..Len(path)
    BY <1>2, <1>4, <1>8, PathParts
  <2> QED BY <1>9, <2>1
<1> QED BY <1>7, <1>13, <1>14 DEF IsDir

(* Each of the two is about one kind of step.                              *)
LEMMA AsAsked ==
  ASSUME FilesInv, [Next]_vars, NEW t \in Threads
  PROVE  CreatedPathIsThere(t) /\ DeletedPathIsGone(t)
<1>1. CASE call[t] = Idle \/ call'[t] # Idle
  BY <1>1 DEF CreatedPathIsThere, DeletedPathIsGone, Ended
<1>2. CASE call[t] # Idle /\ call'[t] = Idle
  <2>1. Next
    BY <1>2 DEF vars
  <2>2. Steps(t)
    BY <1>2, <2>1, EndsBySteps
  <2>3. CASE CreateComponent(t)
    <3>1. call[t].op = "create"
      BY <2>3 DEF CreateComponent
    <3> QED BY <2>3, <3>1, CreatedIsThere DEF DeletedPathIsGone, Ended
  <2>4. CASE DeleteComponent(t)
    <3>1. call[t].op = "delete"
      BY <2>4 DEF DeleteComponent
    <3> QED BY <2>4, <3>1, DeletedIsGone DEF CreatedPathIsThere, Ended
  <2>5. CASE ~(CreateComponent(t) \/ DeleteComponent(t))
    <3>1. call[t].op \in {"tmp", "querydir", "write", "setdir", "find"}
      BY <2>2, <2>5 DEF Steps, TryTmpFile, QueryDir, WriteData, SetDirOnDrive, FindDot, FindName, FindNoMore
    <3> QED BY <3>1 DEF CreatedPathIsThere, DeletedPathIsGone, Ended
  <2> QED BY <2>3, <2>4, <2>5
<1> QED BY <1>1, <1>2

-----------------------------------------------------------------------------
(* FilesInv holds whatever the threads do and wherever they meet.          *)
THEOREM FilesCorrect == Spec => []FilesInv
<1>1. Spec => Init /\ [][Next]_vars
  BY PTL DEF Spec
<1> QED BY <1>1, FilesInitially, FilesStep, PTL

(* Whatever other threads do to the directories, searches are complete and *)
(* changes of files are seen: FilesAreSeen is an invariant.                *)
THEOREM FilesAlwaysSeen == Spec => []FilesAreSeen
BY FilesCorrect, FilesSeen, PTL

(* A path that is created is there and one that is deleted is gone when    *)
(* the call returns, unless another thread has worked against this very    *)
(* path, and no two threads have the same temporary file.                  *)
THEOREM FilesAlwaysAsAsked == Spec => FilesAsAsked
<1>1. FilesInv /\ [Next]_vars =>
        [/\ \A t \in Threads : CreatedPathIsThere(t) /\ DeletedPathIsGone(t)
         /\ TmpFilesDiffer']_vars
  BY AsAsked, FilesStep DEF FilesInv, TmpFilesStand
<1>2. Spec => [][Next]_vars
  BY PTL DEF Spec
<1> QED BY <1>1, <1>2, FilesCorrect, PTL DEF FilesAsAsked

(* The dialog takes nothing from them: its steps leave the directories, or *)
(* are steps of the other threads.                                         *)
LEMMA DialogFileStep == [DialogNext]_<<vars, dialogVars>> => [Next]_vars
<1> SUFFICES ASSUME [DialogNext]_<<vars, dialogVars>> PROVE [Next]_vars
  OBVIOUS
<1>1. CASE FileStep
  <2>1. ASSUME NEW t \in Others, OtherCall(t) \/ Steps(t) PROVE Next
    <3>1. t \in Threads
      BY OthersAssumption
    <3> QED BY <2>1, <3>1 DEF OtherCall, Next
  <2> QED BY <1>1, <2>1 DEF FileStep
<1>2. CASE \/ \E start \in Starts : WtkDirDlg(start)
           \/ \E text \in Typed : EnterText(text)
           \/ \E i \in DOMAIN items : SelectItem(i) \/ OpenItem(i)
           \/ \E drive \in Drives : OpenDrive(drive)
           \/ Ok \/ Cancel
           \/ \E drive \in Removable : ChangeDisk(drive)
  BY <1>2, Zenon DEF WtkDirDlg, EnterText, SelectItem, OpenItem, OpenDrive, Ok, Cancel, ChangeDisk, vars
<1> QED BY <1>1, <1>2 DEF DialogNext

(* The same holds while the user selects a directory in the dialog.        *)
THEOREM FilesSeenInDialog == DialogSpec => []FilesAreSeen
<1>1. DialogSpec => Init /\ [][DialogNext]_<<vars, dialogVars>>
  BY PTL DEF DialogSpec, DialogInit
<1> QED BY <1>1, DialogFileStep, FilesInitially, FilesStep, FilesSeen, PTL

THEOREM FilesAsAskedInDialog == DialogSpec => FilesAsAsked
<1>1. DialogSpec => Init /\ [][DialogNext]_<<vars, dialogVars>>
  BY PTL DEF DialogSpec, DialogInit
<1>2. FilesInv /\ [Next]_vars =>
        [/\ \A t \in Threads : CreatedPathIsThere(t) /\ DeletedPathIsGone(t)
         /\ TmpFilesDiffer']_vars
  BY AsAsked, FilesStep DEF FilesInv, TmpFilesStand
<1> QED BY <1>1, <1>2, DialogFileStep, FilesInitially, FilesStep, PTL DEF FilesAsAsked

-----------------------------------------------------------------------------
(* The dialog.  A step changes what exists by one path at most, so that a  *)
(* directory always has finitely many entries that can be listed.          *)
LEMMA StillFinite ==
  ASSUME IsFiniteSet(DOMAIN tree), [Next]_vars
  PROVE  IsFiniteSet(DOMAIN tree)'
<1>1. ASSUME NEW x, DOMAIN tree' \subseteq DOMAIN tree \cup {x} PROVE IsFiniteSet(DOMAIN tree')
  <2>1. IsFiniteSet(DOMAIN tree \cup {x})
    BY FS_AddElement
  <2> QED BY <1>1, <2>1, FS_Subset
<1>2. ASSUME NEW p, NEW e PROVE /\ DOMAIN With(p, e) \subseteq DOMAIN tree \cup {p}
                                /\ DOMAIN Without(p) \subseteq DOMAIN tree \cup {p}
  BY DEF With, Without
<1>3. CASE UNCHANGED tree
  BY <1>3
<1>4. ASSUME NEW p, NEW e, TreeBecomes(With(p, e)) \/ TreeBecomes(Without(p)) PROVE IsFiniteSet(DOMAIN tree')
  BY <1>1, <1>2, <1>4 DEF TreeBecomes
<1>5. ASSUME TreeBecomes(tree) PROVE IsFiniteSet(DOMAIN tree')
  BY <1>3, <1>5 DEF TreeBecomes
<1>6. CASE UNCHANGED vars
  BY <1>3, <1>6 DEF vars
<1>7. ASSUME NEW t \in Threads, Steps(t) PROVE IsFiniteSet(DOMAIN tree')
  <2>1. CASE CreateComponent(t)
    BY <1>4, <1>5, <2>1 DEF CreateComponent
  <2>2. CASE DeleteComponent(t)
    BY <1>4, <1>5, <2>2 DEF DeleteComponent
  <2>3. CASE TryTmpFile(t)
    BY <1>4, <1>5, <2>3 DEF TryTmpFile
  <2>4. CASE WriteData(t)
    BY <1>4, <2>4 DEF WriteData
  <2>5. CASE SetDirOnDrive(t) \/ QueryDir(t)
    BY <1>3, <2>5 DEF SetDirOnDrive, QueryDir
  <2>6. CASE FindDot(t) \/ FindName(t) \/ FindNoMore(t)
    BY <1>3, <2>6 DEF FindDot, FindName, FindNoMore
  <2> QED BY <1>7, <2>1, <2>2, <2>3, <2>4, <2>5, <2>6 DEF Steps
<1>8. ASSUME NEW t \in Threads, NEW file \in Files,
             WtkDeleteFile(t, file) \/ \E fAppend \in BOOLEAN : WtkWriteFile(t, file, fAppend)
      PROVE  IsFiniteSet(DOMAIN tree')
  BY <1>4, <1>8 DEF WtkDeleteFile, WtkWriteFile
<1>9. CASE Tick
  BY <1>3, <1>9 DEF Tick
<1>10. ASSUME NEW t \in Threads, NEW path \in Paths,
              WtkCreatePath(t, path) \/ WtkDeletePath(t, path) \/ WtkSetCurrentDir(t, path)
       PROVE  UNCHANGED tree
  BY <1>10, Zenon DEF WtkCreatePath, WtkDeletePath, WtkSetCurrentDir
<1>11. ASSUME NEW t \in Threads, NEW path, NEW kind, NEW fits, GetNext(t, path, kind, fits)
       PROVE  UNCHANGED tree
  BY <1>11 DEF GetNext
<1>12. ASSUME NEW t \in Threads, NEW file, WtkFileModified(t) \/ DosQueryPathInfo(t, file) \/ WtkCreateTmpFile(t)
       PROVE  UNCHANGED tree
  BY <1>12, Zenon DEF WtkFileModified, DosQueryPathInfo, WtkCreateTmpFile
<1>13. ASSUME NEW t \in Threads, NEW asked, WtkQueryCurrentDir(t, asked) PROVE UNCHANGED tree
  BY <1>13, Zenon DEF WtkQueryCurrentDir
<1> QED BY <1>3, <1>6, <1>7, <1>8, <1>9, <1>10, <1>11, <1>12, <1>13, Zenon DEF Next

(* The directories in a directory, as the list box shows them.             *)
LEMMA NamesAreListed ==
  ASSUME TreeStands, IsFiniteSet(DOMAIN tree), NEW path
  PROVE  SetToSeq(Names(path)) \in Seq(Seq(Char))
<1> DEFINE E == Entries(path, "dir")
           N == Names(path)
           f == [p \in E |-> Last(p)]
<1>1. E \subseteq DOMAIN tree /\ E \subseteq Path
  BY DEF Entries, Children, TreeStands
<1>2. IsFiniteSet(E)
  BY <1>1, FS_Subset
<1>3. N = {Last(p) : p \in E}
  BY DEF Names
<1>4. N \subseteq Seq(Char)
  <2>1. \A p \in Path : Last(p) \in Seq(Char)
    BY DEF Path, Last
  <2> QED BY <1>1, <1>3, <2>1
<1>5. f \in Surjection(E, N)
  BY <1>3 DEF Surjection
<1>6. IsFiniteSet(N)
  <2> HIDE DEF E, N, f
  <2> QED BY <1>2, <1>5, FS_Surjection
<1>7. Cardinality(N) \in Nat /\ \E g \in [1..Cardinality(N) -> N] : IsInjective(g)
  <2> HIDE DEF N
  <2> QED BY <1>6, FS_CardinalityType DEF ExistsBijection, Bijection, Injection
<1>8. SetToSeq(N) \in [1..Cardinality(N) -> N]
  <2> HIDE DEF N
  <2> QED BY <1>7 DEF SetToSeq
<1>9. [1..Cardinality(N) -> N] \subseteq Seq(N)
  <2> HIDE DEF N
  <2> QED BY <1>7
<1>10. SetToSeq(N) \in Seq(Seq(Char))
  <2> HIDE DEF N
  <2> QED BY <1>4, <1>8, <1>9
<1> QED BY <1>10

(* A text that is not empty has a path, and so a drive and a level.        *)
LEMMA TextParts ==
  ASSUME NEW text \in Texts, text # Empty
  PROVE  /\ text.path \in Path /\ text.slash \in BOOLEAN
         /\ Drive(text) = SubSeq(text.path, 1, 1)
         /\ Level(text) \in Nat \ {0}
         /\ (text.slash => Len(text.path) = 1) => Level(text) = Len(text.path)
<1>1. text.path \in Path /\ text.slash \in BOOLEAN
  BY DEF Texts
<1>2. Len(text.path) \in Nat \ {0}
  BY <1>1, PathParts
<1>3. Level(text) \in Nat \ {0} /\ ((text.slash => Len(text.path) = 1) => Level(text) = Len(text.path))
  <2>1. PICK n \in Nat \ {0} : n = Len(text.path)
    BY <1>2
  <2>2. CASE text.slash = TRUE
    <3>1. Level(text) = n + (IF n > 1 THEN 1 ELSE 0)
      BY <2>1, <2>2, Zenon DEF Level
    <3>2. Level(text) \in Nat \ {0} /\ (n = 1 => Level(text) = n)
      BY <3>1
    <3> QED BY <2>1, <2>2, <3>2, Zenon
  <2>3. CASE text.slash = FALSE
    <3>1. Level(text) = n + 0
      BY <2>1, <2>3, Zenon DEF Level
    <3> QED BY <2>1, <2>3, <3>1
  <2> QED BY <1>1, <2>2, <2>3
<1>4. Drive(text) = SubSeq(text.path, 1, 1)
  BY DEF Drive
<1> QED BY <1>1, <1>3, <1>4

LEMMA TextOfPath ==
  ASSUME NEW path \in Path
  PROVE  Text(path) \in Texts /\ Text(path).path = path /\ Text(path) # Empty /\ Drive(Text(path)) = SubSeq(path, 1, 1)
<1>1. (Len(path) = 1) \in BOOLEAN
  OBVIOUS
<1>2. Text(path) \in [path : Path, slash : BOOLEAN] /\ Text(path).path = path
  BY <1>1 DEF Text
<1>3. Text(path) # Empty
  BY <1>2 DEF Empty, Path
<1> QED BY <1>2, <1>3 DEF Texts, Drive

(* The list box after it was filled: the parts of the path, one for each   *)
(* level of the text, and then the directories.                            *)
LEMMA ListIsFilled ==
  ASSUME TreeStands, IsFiniteSet(DOMAIN tree), NEW full \in Texts, NEW disks,
         UpdateDirListbox(full, disks), entry \in Texts
  PROVE  /\ items' \in Seq(Seq(Char)) /\ listed' \in Seq(Seq(Char)) /\ entry' \in Texts
         /\ selected' \in 0..Len(items')
         /\ items' # <<>> =>
              /\ full # Empty /\ SubSeq(items', 1, 1) = Drive(full)
              /\ full.path = listed' /\ Level(full) = Len(listed') /\ IsPrefix(listed', items')
<1>1. CASE items' = <<>> /\ selected' = 0 /\ listed' = <<>> /\ UNCHANGED entry
  BY <1>1
<1>2. CASE ~(items' = <<>> /\ selected' = 0 /\ listed' = <<>> /\ UNCHANGED entry)
  <2> DEFINE names == SetToSeq(Names(full.path))
  <2>1. /\ IsDir(full.path) /\ (full.slash => Len(full.path) = 1)
        /\ items' = full.path \o names
        /\ selected' = Len(full.path) /\ entry' = full /\ listed' = full.path
    BY <1>2 DEF UpdateDirListbox
  <2>2. full # Empty
    BY <2>1 DEF IsDir, TreeStands, Path, Empty
  <2>3. /\ full.path \in Path /\ Level(full) = Len(full.path) /\ Drive(full) = SubSeq(full.path, 1, 1)
    BY <2>1, <2>2, TextParts, Zenon
  <2>4. PICK path \in Path : path = full.path
    BY <2>3
  <2>5. PICK s \in Seq(Seq(Char)) : s = names
    BY NamesAreListed
  <2>6. /\ path \in Seq(Seq(Char)) /\ Len(path) \in Nat \ {0}
        /\ path \o s \in Seq(Seq(Char)) /\ Len(path \o s) = Len(path) + Len(s)
    BY PathParts DEF Path
  <2>7. SubSeq(path \o s, 1, Len(path)) = path /\ SubSeq(path \o s, 1, 1) = SubSeq(path, 1, 1)
    BY <2>6
  <2>8. IsPrefix(path, path \o s)
    BY <2>6, <2>7 DEF IsPrefix
  <2>9. items' = path \o s /\ selected' = Len(path) /\ listed' = path
    BY <2>1, <2>4, <2>5
  <2>10. Len(path) \in 0..Len(path \o s)
    BY <2>6
  <2> QED BY <2>1, <2>2, <2>3, <2>4, <2>6, <2>7, <2>8, <2>9, <2>10
<1> QED BY <1>1, <1>2

(* A path that is shown: the dialog has it, and the items belong to it.    *)
LEMMA ShowsKeeps ==
  ASSUME FilesInv, DialogInv, UNCHANGED vars,
         NEW full \in Texts, HasDrive(full) \/ refused',
         full = Empty => items = <<>>,
         NEW paths \in [Drives -> Texts], \A d \in Drives : paths[d] = Empty \/ Drive(paths[d]) = d,
         media' \in [Removable -> {"in", "out"}], refused' \in BOOLEAN,
         Shows(full, paths, media')
  PROVE  DialogInv'
<1>1. fullDir' = full /\ IsFiniteSet(DOMAIN tree') /\ TreeStands
  BY DEF Shows, vars, DialogInv, FilesInv
<1>2. CASE HasDrive(full)
  <2>1. /\ phase' = "open" /\ drivePath' = UpdateDriveCombobox(full, paths)
        /\ UpdateDirListbox(full, media')
    BY <1>2 DEF Shows
  <2>2. /\ items' \in Seq(Seq(Char)) /\ listed' \in Seq(Seq(Char)) /\ entry' \in Texts
        /\ selected' \in 0..Len(items')
        /\ items' # <<>> =>
             /\ full # Empty /\ SubSeq(items', 1, 1) = Drive(full)
             /\ full.path = listed' /\ Level(full) = Len(listed') /\ IsPrefix(listed', items')
    BY <1>1, <2>1, ListIsFilled DEF DialogInv
  <2>3. drivePath' \in [Drives -> Texts] /\ \A d \in Drives : drivePath'[d] = Empty \/ Drive(drivePath'[d]) = d
    BY <2>1 DEF UpdateDriveCombobox
  <2>4. DialogTypeOK'
    BY <2>1, <2>2, <2>3 DEF DialogTypeOK
  <2>5. SubSeq(items', 1, 1) \in Drives \cup NoDrives \/ items' = <<>>
    BY <1>2, <2>2 DEF HasDrive
  <2>6. ListBelongsToPath'
    BY <1>1, <2>2 DEF ListBelongsToPath, Level
  <2>7. TrapsWithoutDrive'
    BY <2>1 DEF TrapsWithoutDrive
  <2> QED BY <1>1, <1>2, <2>2, <2>3, <2>4, <2>5, <2>6, <2>7 DEF DialogInv, HasDrive, Drive
<1>3. CASE ~HasDrive(full)
  <2>1. phase' = "trapped" /\ UNCHANGED <<drivePath, items, selected, entry, listed>> /\ refused'
    BY <1>3 DEF Shows
  <2>2. DialogTypeOK'
    BY <2>1 DEF DialogTypeOK, DialogInv
  <2>3. ListBelongsToPath' /\ TrapsWithoutDrive'
    BY <2>1 DEF ListBelongsToPath, TrapsWithoutDrive
  <2> QED BY <1>1, <2>1, <2>2, <2>3 DEF DialogInv
<1> QED BY <1>2, <1>3

(* An item that is opened: it leads to a path with the drive of the list.  *)
LEMMA SelectedHasDrive ==
  ASSUME DialogInv, NEW i \in DOMAIN items
  PROVE  /\ SelectedPath(i, Level(fullDir)) \in Path
         /\ HasDrive(Text(SelectedPath(i, Level(fullDir))))
<1> DEFINE path == SelectedPath(i, Level(fullDir))
<1>1. /\ items \in Seq(Seq(Char)) /\ i \in 1..Len(items) /\ Len(items) \in Nat
      /\ fullDir # Empty /\ SubSeq(items, 1, 1) \in Drives \cup NoDrives /\ fullDir \in Texts
  BY DEF DialogInv
<1>2. PICK level \in Nat \ {0} : level = Level(fullDir)
  BY <1>1, TextParts
<1>3. path \in Path /\ SubSeq(path, 1, 1) = SubSeq(items, 1, 1)
  <2>1. CASE i <= level
    <3>1. path = SubSeq(items, 1, i)
      BY <1>2, <2>1 DEF SelectedPath
    <3>2. SubSeq(items, 1, i) \in Seq(Seq(Char)) /\ Len(SubSeq(items, 1, i)) = i
      BY <1>1
    <3>3. SubSeq(SubSeq(items, 1, i), 1, 1) = SubSeq(items, 1, 1)
      BY <1>1
    <3> QED BY <1>1, <3>1, <3>2, <3>3 DEF Path
  <2>2. CASE ~(i <= level)
    <3> DEFINE front == SubSeq(items, 1, level)
    <3>1. path = Append(front, items[i])
      BY <1>2, <2>2 DEF SelectedPath
    <3>2. front \in Seq(Seq(Char)) /\ Len(front) = level /\ items[i] \in Seq(Char)
      BY <1>1, <1>2, <2>2
    <3>3. Append(front, items[i]) \in Seq(Seq(Char)) /\ Len(Append(front, items[i])) = level + 1
      BY <3>2
    <3>4. SubSeq(front, 1, 1) = SubSeq(items, 1, 1)
      BY <1>1, <1>2, <2>2
    <3>5. SubSeq(Append(front, items[i]), 1, 1) = SubSeq(front, 1, 1)
      <4> HIDE DEF front
      <4> QED BY <3>2
    <3> HIDE DEF front
    <3>6. Append(front, items[i]) \in Path
      BY <3>2, <3>3 DEF Path
    <3> HIDE DEF path
    <3> QED BY <3>1, <3>4, <3>5, <3>6
  <2> QED BY <1>1, <1>2, <2>1, <2>2
<1> QED BY <1>1, <1>3, TextOfPath DEF HasDrive

LEMMA DialogInitially == DialogInit => DialogInv
<1> SUFFICES ASSUME DialogInit PROVE DialogInv
  OBVIOUS
<1>1. IsFiniteSet(DOMAIN tree)
  BY PathAssumption DEF DialogInit, Init
<1>2. Empty \in Texts
  BY DEF Texts
<1>3. drivePath \in [Drives -> Texts] /\ \A d \in Drives : drivePath[d] = Empty
  BY <1>2 DEF DialogInit, NoPath
<1>4. media \in [Removable -> {"in", "out"}]
  BY DEF DialogInit
<1>5. DialogTypeOK
  BY <1>3, <1>4 DEF DialogTypeOK, DialogInit
<1>6. /\ phase \in {"off", "closed"} /\ refused \in BOOLEAN
      /\ fullDir \in Texts /\ entry \in Texts /\ items = <<>> /\ listed = <<>>
  BY <1>2 DEF DialogInit
<1>7. <<>> \in Seq(Seq(Char))
  OBVIOUS
<1>8. ListBelongsToPath /\ TrapsWithoutDrive
  BY <1>6 DEF ListBelongsToPath, TrapsWithoutDrive
<1> QED BY <1>1, <1>3, <1>5, <1>6, <1>7, <1>8 DEF DialogInv

LEMMA DirDlgKeeps ==
  ASSUME FilesInv, DialogInv, NEW start \in Starts, WtkDirDlg(start)
  PROVE  DialogInv'
<1>1. /\ start \in Texts /\ Empty \in Texts /\ TreeStands /\ IsFiniteSet(DOMAIN tree)
      /\ media \in [Removable -> {"in", "out"}]
  BY TextAssumption DEF Texts, FilesInv, DialogInv, DialogTypeOK
<1>2. /\ IsFiniteSet(DOMAIN tree') /\ media' \in [Removable -> {"in", "out"}]
      /\ refused' = FALSE /\ fullDir' = start
      /\ drivePath' \in [Drives -> Texts] /\ \A d \in Drives : drivePath'[d] = Empty
  BY <1>1 DEF WtkDirDlg, vars, NoPath
<1>3. CASE items' = <<>> /\ selected' = 0 /\ listed' = <<>> /\ entry' = Empty
           /\ (phase' = "error" \/ (phase' = "open" /\ start = Empty))
  <2>1. DialogTypeOK'
    BY <1>2, <1>3 DEF DialogTypeOK
  <2>2. <<>> \in Seq(Seq(Char))
    OBVIOUS
  <2>3. ListBelongsToPath' /\ TrapsWithoutDrive'
    BY <1>3 DEF ListBelongsToPath, TrapsWithoutDrive
  <2> QED BY <1>1, <1>2, <1>3, <2>1, <2>2, <2>3 DEF DialogInv
<1>4. CASE start # Empty /\ DirExists(start)
  <2>1. phase' = "open" /\ UpdateDirListbox(start, media)
    BY <1>4 DEF WtkDirDlg
  <2>2. /\ items' \in Seq(Seq(Char)) /\ listed' \in Seq(Seq(Char)) /\ entry' \in Texts
        /\ selected' \in 0..Len(items')
        /\ items' # <<>> =>
             /\ start # Empty /\ SubSeq(items', 1, 1) = Drive(start)
             /\ start.path = listed' /\ Level(start) = Len(listed') /\ IsPrefix(listed', items')
    BY <1>1, <2>1, ListIsFilled DEF DialogInv
  <2>3. HasDrive(start)
    BY <1>4 DEF DirExists
  <2>4. DialogTypeOK'
    BY <1>2, <2>1, <2>2 DEF DialogTypeOK
  <2>5. ListBelongsToPath' /\ TrapsWithoutDrive'
    BY <1>2, <2>1, <2>2 DEF ListBelongsToPath, TrapsWithoutDrive, Level
  <2> QED BY <1>1, <1>2, <2>1, <2>2, <2>3, <2>4, <2>5 DEF DialogInv, HasDrive, Drive
<1> QED BY <1>3, <1>4 DEF WtkDirDlg

LEMMA OpenItemKeeps ==
  ASSUME FilesInv, DialogInv, NEW i \in DOMAIN items, OpenItem(i)
  PROVE  DialogInv'
<1> DEFINE full == Text(SelectedPath(i, Level(fullDir)))
<1>1. full \in Texts /\ full # Empty /\ HasDrive(full)
  BY SelectedHasDrive, TextOfPath
<1>2. /\ Shows(full, drivePath, media') /\ UNCHANGED vars /\ refused' \in BOOLEAN
      /\ media' \in [Removable -> {"in", "out"}]
  BY DEF OpenItem, DialogInv, DialogTypeOK
<1>3. drivePath \in [Drives -> Texts] /\ \A d \in Drives : drivePath[d] = Empty \/ Drive(drivePath[d]) = d
  BY DEF DialogInv, DialogTypeOK
<1> HIDE DEF full
<1> QED BY <1>1, <1>2, <1>3, ShowsKeeps

LEMMA DiskIsInOrOut ==
  ASSUME DialogInv, NEW text, NEW inserts \in BOOLEAN
  PROVE  MediaAfter(text, inserts) \in [Removable -> {"in", "out"}]
BY DEF DialogInv, DialogTypeOK, MediaAfter

LEMMA OpenDriveKeeps ==
  ASSUME FilesInv, DialogInv, NEW drive \in Drives, OpenDrive(drive)
  PROVE  DialogInv'
<1> DEFINE full == IF drivePath[drive] # Empty THEN drivePath[drive] ELSE Text(curdir[drive])
<1>1. PICK inserts \in BOOLEAN :
        /\ media' = MediaAfter(Text(drive), inserts)
        /\ IF CheckDrive(Text(drive), inserts)
           THEN Shows(full, [drivePath EXCEPT ![drive] = full], media') /\ refused' = FALSE
           ELSE Shows(fullDir, drivePath, media') /\ UNCHANGED refused
  BY DEF OpenDrive
<1>2. UNCHANGED vars /\ phase = "open"
  BY DEF OpenDrive
<1>3. media' \in [Removable -> {"in", "out"}]
  BY <1>1, DiskIsInOrOut
<1>4. drivePath \in [Drives -> Texts] /\ \A d \in Drives : drivePath[d] = Empty \/ Drive(drivePath[d]) = d
  BY DEF DialogInv, DialogTypeOK
<1>5. full \in Texts /\ full # Empty /\ Drive(full) = drive
  <2>1. CASE drivePath[drive] # Empty
    BY <1>4, <2>1
  <2>2. CASE drivePath[drive] = Empty
    <3>1. curdir[drive] \in Path /\ Head(curdir[drive]) = Head(drive)
      BY DEF FilesInv, DirsStand
    <3>2. drive \in Path /\ Len(drive) = 1
      BY PathAssumption
    <3>3. SubSeq(curdir[drive], 1, 1) = drive
      <4>1. PICK p \in Path, q \in Path : p = curdir[drive] /\ q = drive
        BY <3>1, <3>2
      <4>2. p \in Seq(Seq(Char)) /\ p # <<>> /\ q \in Seq(Seq(Char)) /\ Len(q) = 1 /\ p[1] = q[1]
        BY <3>1, <3>2, <4>1 DEF Path
      <4>3. SubSeq(p, 1, 1) \in Seq(Seq(Char)) /\ Len(SubSeq(p, 1, 1)) = 1 /\ SubSeq(p, 1, 1)[1] = p[1]
        BY <4>2
      <4>4. SubSeq(p, 1, 1) = q
        BY <4>2, <4>3
      <4> QED BY <4>1, <4>4
    <3> QED BY <2>2, <3>1, <3>3, TextOfPath
  <2> QED BY <2>1, <2>2
<1>6. CASE CheckDrive(Text(drive), inserts)
  <2> DEFINE paths == [drivePath EXCEPT ![drive] = full]
  <2>1. Shows(full, paths, media') /\ refused' = FALSE
    BY <1>1, <1>6
  <2>2. HasDrive(full)
    BY <1>5 DEF HasDrive
  <2>3. paths \in [Drives -> Texts] /\ \A d \in Drives : paths[d] = Empty \/ Drive(paths[d]) = d
    <3> HIDE DEF full
    <3> QED BY <1>4, <1>5
  <2> HIDE DEF full, paths
  <2> QED BY <1>2, <1>3, <1>5, <2>1, <2>2, <2>3, ShowsKeeps
<1>7. CASE ~CheckDrive(Text(drive), inserts)
  <2>1. Shows(fullDir, drivePath, media') /\ UNCHANGED refused
    BY <1>1, <1>7
  <2>2. /\ fullDir \in Texts /\ (fullDir = Empty => items = <<>>) /\ refused \in BOOLEAN
        /\ refused \/ fullDir = Empty \/ HasDrive(fullDir)
    BY <1>2 DEF DialogInv
  <2>3. CASE HasDrive(fullDir) \/ refused'
    BY <1>2, <1>3, <1>4, <2>1, <2>2, <2>3, ShowsKeeps
  <2>4. CASE fullDir = Empty /\ ~HasDrive(fullDir) /\ ~refused'
    <3>1. /\ phase' = "trapped" /\ fullDir' = Empty
          /\ UNCHANGED <<drivePath, items, selected, entry, listed, refused, tree>>
      BY <1>2, <2>1, <2>4 DEF Shows, vars
    <3>2. DialogTypeOK'
      BY <1>3, <3>1 DEF DialogTypeOK, DialogInv
    <3>3. ListBelongsToPath' /\ TrapsWithoutDrive'
      BY <3>1 DEF ListBelongsToPath, TrapsWithoutDrive
    <3>4. items' = <<>> /\ fullDir' \in Texts /\ phase' # "open" /\ refused' \in BOOLEAN
      BY <2>2, <2>4, <3>1
    <3> QED BY <3>1, <3>2, <3>3, <3>4 DEF DialogInv
  <2> QED BY <2>1, <2>2, <2>3, <2>4
<1> QED BY <1>6, <1>7

(* The other messages leave the list as it is.                             *)
LEMMA ListStays ==
  ASSUME DialogInv, UNCHANGED <<tree, fullDir, items, drivePath, listed>>, refused' \in BOOLEAN,
         refused => refused',
         phase' = phase \/ phase' \in {"ok", "cancel", "error"},
         entry' \in Texts, selected' \in 0..Len(items), media' \in [Removable -> {"in", "out"}]
  PROVE  DialogInv'
<1>1. DialogTypeOK'
  BY DEF DialogTypeOK, DialogInv
<1>2. ListBelongsToPath' /\ TrapsWithoutDrive'
  BY DEF DialogInv, ListBelongsToPath, TrapsWithoutDrive, Level
<1>3. phase' = "open" /\ ~refused' => fullDir' = Empty \/ HasDrive(fullDir')
  BY DEF DialogInv
<1> QED BY <1>1, <1>2, <1>3 DEF DialogInv, HasDrive, Drive

LEMMA OkKeeps ==
  ASSUME FilesInv, DialogInv, Ok
  PROVE  DialogInv'
<1>1. /\ UNCHANGED vars /\ phase = "open" /\ entry \in Texts /\ refused \in BOOLEAN
      /\ media \in [Removable -> {"in", "out"}] /\ selected \in 0..Len(items)
  BY DEF Ok, DialogInv, DialogTypeOK
<1>2. UNCHANGED tree
  BY <1>1 DEF vars
<1>3. CASE selected # 0 \/ entry = Empty
  <2>1. /\ phase' = "ok" /\ UNCHANGED <<items, selected, drivePath, listed, media, fullDir, entry, refused>>
    BY <1>3 DEF Ok, Dismissed
  <2> QED BY <1>1, <1>2, <2>1, ListStays
<1>4. CASE ~(selected # 0 \/ entry = Empty)
  <2>1. PICK inserts \in BOOLEAN :
          /\ media' = MediaAfter(entry, inserts)
          /\ IF ~CheckDrive(entry, inserts)
             THEN /\ fullDir' = entry /\ refused' = TRUE
                  /\ UNCHANGED <<phase, items, selected, entry, drivePath, listed>>
             ELSE IF entry.slash
             THEN Shows(Text(entry.path), drivePath, media') /\ refused' = FALSE
             ELSE /\ fullDir' = entry /\ refused' = FALSE /\ UNCHANGED entry
                  /\ Dismissed(IF IsDir(entry.path) THEN "ok" ELSE "error")
    BY <1>4 DEF Ok
  <2>2. media' \in [Removable -> {"in", "out"}]
    BY <2>1, DiskIsInOrOut
  <2>3. entry # Empty /\ entry.path \in Path /\ Drive(entry) = SubSeq(entry.path, 1, 1)
    BY <1>1, <1>4, TextParts
  <2>4. drivePath \in [Drives -> Texts] /\ \A d \in Drives : drivePath[d] = Empty \/ Drive(drivePath[d]) = d
    BY DEF DialogInv, DialogTypeOK
  <2>5. CASE ~CheckDrive(entry, inserts)
    <3>1. /\ fullDir' = entry /\ refused' = TRUE /\ phase' = "open"
          /\ UNCHANGED <<items, selected, entry, drivePath, listed>>
      BY <1>1, <2>1, <2>5
    <3>2. DialogTypeOK'
      BY <2>2, <3>1 DEF DialogTypeOK, DialogInv
    <3>3. ListBelongsToPath' /\ TrapsWithoutDrive'
      BY <3>1 DEF ListBelongsToPath, TrapsWithoutDrive
    <3> QED BY <1>1, <1>2, <2>3, <3>1, <3>2, <3>3 DEF DialogInv
  <2>6. CASE CheckDrive(entry, inserts) /\ entry.slash
    <3>1. Shows(Text(entry.path), drivePath, media') /\ refused' = FALSE
      BY <2>1, <2>6
    <3>2. Text(entry.path) \in Texts /\ Text(entry.path) # Empty /\ HasDrive(Text(entry.path))
      BY <2>3, <2>6, TextOfPath DEF CheckDrive, HasDrive
    <3> QED BY <1>1, <2>2, <2>4, <3>1, <3>2, ShowsKeeps
  <2>7. CASE CheckDrive(entry, inserts) /\ ~entry.slash
    <3>1. /\ fullDir' = entry /\ refused' = FALSE /\ phase' \in {"ok", "error"}
          /\ UNCHANGED <<items, selected, entry, drivePath, listed>>
      BY <2>1, <2>7 DEF Dismissed
    <3>2. DialogTypeOK'
      BY <2>2, <3>1 DEF DialogTypeOK, DialogInv
    <3>3. ListBelongsToPath' /\ TrapsWithoutDrive'
      BY <3>1 DEF ListBelongsToPath, TrapsWithoutDrive
    <3>4. phase' # "open"
      BY <3>1
    <3> QED BY <1>1, <1>2, <2>3, <3>1, <3>2, <3>3, <3>4 DEF DialogInv
  <2> QED BY <2>5, <2>6, <2>7
<1> QED BY <1>3, <1>4

LEMMA DialogStep ==
  FilesInv /\ DialogInv /\ [DialogNext]_<<vars, dialogVars>> => DialogInv'
<1> SUFFICES ASSUME FilesInv, DialogInv, [DialogNext]_<<vars, dialogVars>> PROVE DialogInv'
  OBVIOUS
<1>1. /\ media \in [Removable -> {"in", "out"}] /\ selected \in 0..Len(items) /\ entry \in Texts
      /\ refused \in BOOLEAN
  BY DEF DialogInv, DialogTypeOK
<1>2. CASE UNCHANGED dialogVars
  <2>1. IsFiniteSet(DOMAIN tree')
    BY DialogFileStep, StillFinite DEF DialogInv
  <2>2. UNCHANGED <<phase, media, fullDir, items, selected, entry, drivePath, listed, refused>>
    BY <1>2 DEF dialogVars
  <2>3. DialogTypeOK'
    BY <2>2 DEF DialogTypeOK, DialogInv
  <2>4. ListBelongsToPath' /\ TrapsWithoutDrive'
    BY <2>2 DEF DialogInv, ListBelongsToPath, TrapsWithoutDrive, Level
  <2> QED BY <2>1, <2>2, <2>3, <2>4 DEF DialogInv, HasDrive, Drive
<1>3. CASE FileStep \/ UNCHANGED <<vars, dialogVars>>
  BY <1>2, <1>3 DEF FileStep
<1>4. ASSUME NEW text \in Typed, EnterText(text) PROVE DialogInv'
  <2>1. /\ UNCHANGED <<vars, phase, media, fullDir, items, drivePath, listed, refused>>
        /\ entry' = text /\ selected' \in {0, selected}
    BY <1>4 DEF EnterText
  <2>2. text \in Texts /\ selected' \in 0..Len(items) /\ UNCHANGED tree
    BY <1>1, <2>1, TextAssumption DEF vars, DialogInv
  <2> QED BY <1>1, <2>1, <2>2, ListStays
<1>5. ASSUME NEW i \in DOMAIN items, SelectItem(i) PROVE DialogInv'
  <2>1. /\ UNCHANGED <<vars, phase, media, fullDir, items, entry, drivePath, listed, refused>>
        /\ selected' = i
    BY <1>5 DEF SelectItem
  <2>2. i \in 0..Len(items) /\ UNCHANGED tree
    BY <2>1 DEF vars, DialogInv
  <2> QED BY <1>1, <2>1, <2>2, ListStays
<1>6. CASE Cancel
  <2>1. /\ UNCHANGED <<vars, media, fullDir, entry, refused, items, selected, drivePath, listed>>
        /\ phase' = "cancel"
    BY <1>6 DEF Cancel, Dismissed
  <2>2. UNCHANGED tree
    BY <2>1 DEF vars
  <2> QED BY <1>1, <2>1, <2>2, ListStays
<1>7. ASSUME NEW drive \in Removable, ChangeDisk(drive) PROVE DialogInv'
  <2>1. /\ UNCHANGED <<vars, phase, fullDir, items, selected, entry, drivePath, listed, refused>>
        /\ media' \in [Removable -> {"in", "out"}]
    BY <1>1, <1>7 DEF ChangeDisk
  <2>2. UNCHANGED tree
    BY <2>1 DEF vars
  <2> QED BY <1>1, <2>1, <2>2, ListStays
<1> QED BY <1>3, <1>4, <1>5, <1>6, <1>7, DirDlgKeeps, OpenItemKeeps, OpenDriveKeeps, OkKeeps DEF DialogNext

(* What the two action properties say of a step.                           *)
LEMMA ItemsLead == DialogInv => ItemLeadsWhereShown
<1> SUFFICES ASSUME DialogInv, NEW i \in DOMAIN items, ~refused, OpenItem(i)
             PROVE  fullDir'.path = IF i <= Len(listed) THEN SubSeq(listed, 1, i) ELSE Append(listed, items[i])
  BY DEF ItemLeadsWhereShown
<1>1. fullDir' = Text(SelectedPath(i, Level(fullDir)))
  BY DEF OpenItem, Shows
<1>2. items # <<>> /\ i \in 1..Len(items) /\ items \in Seq(Seq(Char)) /\ listed \in Seq(Seq(Char))
  BY DEF DialogInv
<1>3. /\ Level(fullDir) = Len(listed) /\ Len(listed) <= Len(items)
      /\ listed = SubSeq(items, 1, Len(listed))
  <2>1. phase = "open"
    BY DEF OpenItem
  <2>2. Level(fullDir) = Len(listed) /\ IsPrefix(listed, items)
    BY <1>2, <2>1 DEF DialogInv, ListBelongsToPath
  <2>3. SubSeq(listed, 1, Len(listed)) = listed
    BY <1>2
  <2> QED BY <2>2, <2>3 DEF IsPrefix
<1>4. PICK n \in Nat : n = Len(listed)
  BY <1>2
<1>5. fullDir'.path = SelectedPath(i, n)
  BY <1>1, <1>3, <1>4 DEF Text
<1>6. CASE i <= n
  <2>1. SubSeq(SubSeq(items, 1, n), 1, i) = SubSeq(items, 1, i)
    BY <1>2, <1>3, <1>4, <1>6
  <2> QED BY <1>3, <1>4, <1>5, <1>6, <2>1 DEF SelectedPath
<1>7. CASE ~(i <= n)
  BY <1>3, <1>4, <1>5, <1>7 DEF SelectedPath
<1> QED BY <1>6, <1>7

LEMMA DirectoryReturned ==
  DialogInv /\ [DialogNext]_<<vars, dialogVars>> => ReturnsDirectory
<1> SUFFICES ASSUME DialogInv, [DialogNext]_<<vars, dialogVars>>,
                    phase = "open", phase' = "ok", ~refused', ~(items = <<>> /\ entry = Empty)
             PROVE  fullDir'.path = listed \/ IsDir(fullDir'.path)
  BY DEF ReturnsDirectory
<1>1. Ok
  <2>1. ~UNCHANGED phase
    OBVIOUS
  <2>2. ~UNCHANGED <<vars, dialogVars>> /\ ~FileStep
    BY <2>1 DEF dialogVars, FileStep
  <2>3. ASSUME NEW start, WtkDirDlg(start) PROVE FALSE
    BY <2>3 DEF WtkDirDlg
  <2>4. ASSUME NEW text, EnterText(text) PROVE FALSE
    BY <2>4 DEF EnterText
  <2>5. ASSUME NEW full, NEW paths, NEW disks, Shows(full, paths, disks) PROVE FALSE
    BY <2>5 DEF Shows
  <2>6. ASSUME NEW i, SelectItem(i) \/ OpenItem(i) PROVE FALSE
    BY <2>5, <2>6 DEF SelectItem, OpenItem
  <2>7. ASSUME NEW drive, OpenDrive(drive) PROVE FALSE
    BY <2>5, <2>7 DEF OpenDrive
  <2>8. ~Cancel
    BY DEF Cancel, Dismissed
  <2>9. ASSUME NEW drive, ChangeDisk(drive) PROVE FALSE
    BY <2>9 DEF ChangeDisk
  <2> QED BY <2>2, <2>3, <2>4, <2>6, <2>7, <2>8, <2>9 DEF DialogNext
<1>2. CASE selected # 0 \/ entry = Empty
  <2>1. UNCHANGED <<fullDir, refused>>
    BY <1>1, <1>2 DEF Ok
  <2>2. items # <<>>
    <3>1. selected \in 0..Len(items)
      BY DEF DialogInv, DialogTypeOK
    <3> QED BY <1>2, <3>1
  <2> QED BY <2>1, <2>2 DEF DialogInv, ListBelongsToPath
<1>3. CASE ~(selected # 0 \/ entry = Empty)
  <2>1. PICK inserts \in BOOLEAN :
          IF ~CheckDrive(entry, inserts)
          THEN refused' = TRUE
          ELSE IF entry.slash
          THEN Shows(Text(entry.path), drivePath, media')
          ELSE fullDir' = entry /\ Dismissed(IF IsDir(entry.path) THEN "ok" ELSE "error")
    BY <1>1, <1>3 DEF Ok
  <2>2. ~Shows(Text(entry.path), drivePath, media')
    BY DEF Shows
  <2>3. fullDir' = entry /\ phase' = IF IsDir(entry.path) THEN "ok" ELSE "error"
    BY <2>1, <2>2 DEF Dismissed
  <2> QED BY <2>3
<1> QED BY <1>2, <1>3

(* The list box shows the path of the dialog and leads where it says, and  *)
(* the dialog returns a directory, whatever is done to the directories and *)
(* disks meanwhile.                                                        *)
THEOREM DialogAlwaysRight == DialogSpec => DialogIsRight
<1>1. DialogSpec => DialogInit /\ [][DialogNext]_<<vars, dialogVars>>
  BY PTL DEF DialogSpec
<1>2. DialogInit => FilesInv /\ DialogInv
  BY FilesInitially, DialogInitially DEF DialogInit
<1>3. FilesInv /\ DialogInv /\ [DialogNext]_<<vars, dialogVars>> => FilesInv' /\ DialogInv'
  BY DialogFileStep, FilesStep, DialogStep
<1>4. FilesInv /\ DialogInv /\ [DialogNext]_<<vars, dialogVars>> =>
        [/\ (DialogTypeOK /\ ListBelongsToPath /\ TrapsWithoutDrive)'
         /\ ItemLeadsWhereShown /\ ReturnsDirectory]_<<vars, dialogVars>>
  BY <1>3, ItemsLead, DirectoryReturned DEF DialogInv
<1> QED BY <1>1, <1>2, <1>3, <1>4, PTL DEF DialogIsRight
===============================================================================
