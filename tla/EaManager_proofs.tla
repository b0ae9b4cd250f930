--------------------------- MODULE EaManager_proofs ---------------------------
(***************************************************************************)
(* A handle of the extended attribute manager stays that of its thread,    *)
(* lists fit into their memory and searches are complete, whatever the     *)
(* threads do with how many attributes (AttributesAreRight), and no value  *)
(* in a list is lost (NothingLost).                                        *)
(***************************************************************************)
EXTENDS EaManager, FoldLemmas, FiniteSetTheorems, TLAPS

-----------------------------------------------------------------------------
(* Lengths.                                                                *)

(* The sum over a sequence, step by step.                                  *)
LEMMA SumFold ==
  ASSUME NEW s \in Seq(Entry), NEW h \in Nat
  PROVE  \E after \in [0 .. Len(s) -> Nat] :
           /\ after[0] = 0
           /\ \A k \in 1 .. Len(s) : after[k] = after[k - 1] + h + s[k].value
           /\ Sum(s, h) = after[Len(s)]
<1> DEFINE f == [x \in Nat \X Entry |-> x[1] + h + x[2].value]
           n == Len(s)
           Step(g, S) == IF S = {} THEN 0 ELSE g[S \ {Max(S)}] + h + s[Max(S)].value
           iter == CHOOSE g : g = [S \in SUBSET (1 .. n) |-> Step(g, S)]
<1>0. \A e \in Entry : e.value \in Nat
  BY EaAssumption DEF Entry
<1>1. f \in [Nat \X Entry -> Nat] /\ \A a \in Nat, e \in Entry : f[<<a, e>>] = a + h + e.value
  BY <1>0
<1>2. n \in Nat /\ s \in [1 .. n -> Entry] /\ DOMAIN s = 1 .. n
  OBVIOUS
<1> HIDE DEF f, n
<1>3. PICK g \in [SUBSET (1 .. n) -> Nat] : IsFold(f, 0, n, s, g)
  <2>1. 0 \in Nat
    OBVIOUS
  <2> HIDE DEF Step, iter
  <2> QED BY ONLY <1>1, <1>2, <2>1, FoldExists
<1>4. ASSUME NEW S \in SUBSET (1 .. n) PROVE g[S] = Step(g, S)
  <2>1. CASE S = {}
    BY <2>1, <1>3 DEF FoldStep, IsFold
  <2>2. CASE S # {}
    <3>1. Max(S) \in 1 .. n
      BY <2>2, <1>2, MaxIsLargest
    <3>2. g[S \ {Max(S)}] \in Nat /\ s[Max(S)] \in Entry
      BY <3>1, <1>2, <1>3
    <3> QED BY <2>2, <3>2, <1>1, <1>3 DEF FoldStep, IsFold
  <2> QED BY <2>1, <2>2
<1>5. iter = [S \in SUBSET (1 .. n) |-> Step(iter, S)]
  <2>1. g = [S \in SUBSET (1 .. n) |-> Step(g, S)]
    BY <1>3, <1>4
  <2> HIDE DEF Step
  <2> QED BY <2>1
<1>6. Sum(s, h) = iter[1 .. n]
  BY <1>2 DEF Sum, FoldLeft, MapThenFoldSet
<1> HIDE DEF iter
<1> DEFINE after == [k \in 0 .. n |-> iter[1 .. k]]
<1>7. \A k \in 0 .. n : 1 .. k \in SUBSET (1 .. n)
  BY <1>2
<1>8. after[0] = 0
  BY <1>2, <1>5, <1>7
<1>9. \A k \in 1 .. n : after[k] = after[k - 1] + h + s[k].value
  <2> SUFFICES ASSUME NEW k \in 1 .. n PROVE after[k] = after[k - 1] + h + s[k].value
    OBVIOUS
  <2>1. k \in Nat /\ k # 0 /\ k - 1 \in 0 .. n /\ k \in 0 .. n
    BY <1>2
  <2>2. 1 .. k # {} /\ Max(1 .. k) = k /\ (1 .. k) \ {Max(1 .. k)} = 1 .. (k - 1)
    BY <2>1, MaxOfPrefix
  <2>3. iter[1 .. k] = Step(iter, 1 .. k)
    BY <1>5, <1>7, <2>1
  <2> QED BY <2>1, <2>2, <2>3
<1> DEFINE T == {k \in Nat : k <= n => after[k] \in Nat}
<1>10. 0 \in T
  BY <1>8
<1>11. ASSUME NEW k \in Nat, k \in T PROVE k + 1 \in T
  <2> HIDE DEF after
  <2> SUFFICES ASSUME k + 1 <= n PROVE after[k + 1] \in Nat
    OBVIOUS
  <2>1. k + 1 \in 1 .. n /\ (k + 1) - 1 = k /\ after[k] \in Nat
    BY <1>11, <1>2
  <2>2. s[k + 1].value \in Nat
    BY <2>1, <1>2, <1>0
  <2> QED BY <2>1, <2>2, <1>9
<1>12. after \in [0 .. n -> Nat]
  <2> HIDE DEF T
  <2>1. Nat \subseteq T
    BY <1>10, <1>11, NatSetInduction
  <2> HIDE DEF after
  <2>2. \A k \in 0 .. n : k \in Nat /\ k <= n
    BY <1>2
  <2>3. \A k \in 0 .. n : after[k] \in Nat
    BY <2>1, <2>2 DEF T
  <2> QED BY <2>3 DEF after
<1>13. Sum(s, h) = after[n]
  BY <1>2, <1>6
<1> HIDE DEF after
<1> QED BY <1>8, <1>9, <1>12, <1>13 DEF n

(* One more value adds its length and that of its header.                  *)
LEMMA SumOfMore ==
  ASSUME NEW h \in Nat, NEW s \in Seq(Entry), NEW r \in Seq(Entry), Len(r) = Len(s) + 1,
         \A k \in 1 .. Len(s) : s[k].value = r[k].value
  PROVE  Sum(r, h) = Sum(s, h) + h + r[Len(s) + 1].value
<1>1. PICK a \in [0 .. Len(s) -> Nat] :
        /\ a[0] = 0 /\ \A k \in 1 .. Len(s) : a[k] = a[k - 1] + h + s[k].value
        /\ Sum(s, h) = a[Len(s)]
  BY SumFold
<1>2. PICK b \in [0 .. Len(r) -> Nat] :
        /\ b[0] = 0 /\ \A k \in 1 .. Len(r) : b[k] = b[k - 1] + h + r[k].value
        /\ Sum(r, h) = b[Len(r)]
  BY ONLY h \in Nat, r \in Seq(Entry), SumFold
<1> DEFINE T == {k \in Nat : k <= Len(s) => a[k] = b[k]}
<1>3. 0 \in T
  BY <1>1, <1>2
<1>4. ASSUME NEW k \in Nat, k \in T PROVE k + 1 \in T
  <2> SUFFICES ASSUME k + 1 <= Len(s) PROVE a[k + 1] = b[k + 1]
    OBVIOUS
  <2>1. k + 1 \in 1 .. Len(s) /\ k + 1 \in 1 .. Len(r) /\ (k + 1) - 1 = k /\ a[k] = b[k]
    BY <1>4
  <2> QED BY <2>1, <1>1, <1>2
<1> HIDE DEF T
<1>5. Nat \subseteq T
  BY <1>3, <1>4, NatSetInduction
<1>6. a[Len(s)] = b[Len(s)]
  BY <1>5 DEF T
<1>7. b[Len(r)] = b[Len(s)] + h + r[Len(s) + 1].value
  <2>1. Len(s) + 1 \in 1 .. Len(r) /\ (Len(s) + 1) - 1 = Len(s)
    OBVIOUS
  <2> QED BY <2>1, <1>2
<1> QED BY <1>1, <1>2, <1>6, <1>7

LEMMA SumIsNat ==
  ASSUME NEW h \in Nat, NEW s \in Seq(Entry)
  PROVE  Sum(s, h) \in Nat
BY SumFold

(* The values of a type, in order.                                         *)
LEMMA OfTypeIsSeq ==
  ASSUME NEW s \in Seq(Entry), NEW type
  PROVE  OfType(s, type) \in Seq(Entry) /\ (s = <<>> => OfType(s, type) = <<>>)
<1> DEFINE A == Seq(Entry)
           f == [x \in A \X Entry |-> IF type \in {AnyType, x[2].type} THEN Append(x[1], x[2]) ELSE x[1]]
           n == Len(s)
           Step(g, S) == IF S = {} THEN <<>>
                         ELSE IF type \in {AnyType, s[Max(S)].type}
                         THEN Append(g[S \ {Max(S)}], s[Max(S)]) ELSE g[S \ {Max(S)}]
           iter == CHOOSE g : g = [S \in SUBSET (1 .. n) |-> Step(g, S)]
<1>1. /\ f \in [A \X Entry -> A]
      /\ \A a \in A, e \in Entry :
           f[<<a, e>>] = IF type \in {AnyType, e.type} THEN Append(a, e) ELSE a
  OBVIOUS
<1>2. n \in Nat /\ s \in [1 .. n -> Entry] /\ DOMAIN s = 1 .. n
  OBVIOUS
<1>3. PICK g \in [SUBSET (1 .. n) -> A] : IsFold(f, <<>>, n, s, g)
  <2>1. <<>> \in A
    OBVIOUS
  <2> HIDE DEF Step, iter, f, n, A
  <2> QED BY ONLY <1>1, <1>2, <2>1, FoldExists
<1> HIDE DEF f, n
<1>4. ASSUME NEW S \in SUBSET (1 .. n) PROVE g[S] = Step(g, S)
  <2>1. CASE S = {}
    BY <2>1, <1>3 DEF FoldStep, IsFold
  <2>2. CASE S # {}
    <3>1. Max(S) \in 1 .. n
      BY <2>2, <1>2, MaxIsLargest
    <3>2. g[S \ {Max(S)}] \in A /\ s[Max(S)] \in Entry
      BY <3>1, <1>2, <1>3
    <3> HIDE DEF A
    <3> QED BY <2>2, <3>2, <1>1, <1>3 DEF FoldStep, IsFold
  <2> QED BY <2>1, <2>2
<1>5. iter = [S \in SUBSET (1 .. n) |-> Step(iter, S)]
  <2>1. g = [S \in SUBSET (1 .. n) |-> Step(g, S)]
    BY <1>3, <1>4
  <2> HIDE DEF Step
  <2> QED BY <2>1
<1>6. OfType(s, type) = iter[1 .. n]
  BY <1>2 DEF OfType, FoldLeft, MapThenFoldSet
<1> HIDE DEF iter
<1>7. \A k \in 0 .. n : 1 .. k \in SUBSET (1 .. n)
  BY <1>2
<1>8. iter[1 .. 0] = <<>>
  BY <1>2, <1>5, <1>7
<1> DEFINE T == {k \in Nat : k <= n => iter[1 .. k] \in A}
<1>9. 0 \in T
  <2>1. iter[1 .. 0] \in A
    BY <1>8
  <2> QED BY <2>1
<1>10. ASSUME NEW k \in Nat, k \in T PROVE k + 1 \in T
  <2> SUFFICES ASSUME k + 1 <= n PROVE iter[1 .. (k + 1)] \in A
    OBVIOUS
  <2> DEFINE j == k + 1
  <2>1. j \in Nat /\ j # 0 /\ j \in 1 .. n /\ j \in 0 .. n /\ j - 1 = k /\ iter[1 .. k] \in A
    BY <1>10, <1>2
  <2> HIDE DEF j, A
  <2>2. 1 .. j # {} /\ Max(1 .. j) = j /\ (1 .. j) \ {Max(1 .. j)} = 1 .. (j - 1)
    BY <2>1, MaxOfPrefix
  <2>3. iter[1 .. j] = Step(iter, 1 .. j)
    BY <1>5, <1>7, <2>1
  <2>4. iter[1 .. j] = IF type \in {AnyType, s[j].type} THEN Append(iter[1 .. k], s[j]) ELSE iter[1 .. k]
    BY <2>1, <2>2, <2>3
  <2>5. s[j] \in Entry
    BY <2>1, <1>2
  <2>6. iter[1 .. j] \in A
    BY <2>1, <2>4, <2>5 DEF A
  <2> QED BY <2>6 DEF j
<1>11. iter[1 .. n] \in A
  <2> HIDE DEF T
  <2>1. Nat \subseteq T
    BY <1>9, <1>10, NatSetInduction
  <2> QED BY <2>1, <1>2 DEF T
<1>12. s = <<>> => n = 0
  BY DEF n
<1> QED BY <1>6, <1>8, <1>11, <1>12

-----------------------------------------------------------------------------
(* What a step of a thread may do to the handles.                          *)

Only(t) ==
  /\ UNCHANGED mode
  /\ pc' = [pc EXCEPT ![t] = pc'[t]] /\ task' = [task EXCEPT ![t] = task'[t]]
  /\ hea' = [hea EXCEPT ![t] = hea'[t]] /\ ret' = [ret EXCEPT ![t] = ret'[t]]

(* No call comes in between, and what is saved was put there.              *)
Quiet == mode.serial /\ mode.calls \cap {"handle", "writeString"} = {}

InTurn(t) == pc[t] # "idle" \/ pc'[t] = "idle" \/ (mode.serial => \A u \in Thread : pc[u] = "idle")

Opens(t) ==
  /\ hea[t] = Null
  /\ mode.serial => \A u \in Thread : pc[u] = "idle"
  /\ \E b \in Block, x \in EaIndex :
       /\ ~eaindex[b].used /\ x.owner = t /\ Fits(x)
       /\ eaindex' = [eaindex EXCEPT ![b] = x] /\ hea'[t] = b
Updates(t) ==
  /\ hea[t] # Null /\ Mine(t) /\ hea'[t] = hea[t]
  /\ \E x \in EaIndex :
       /\ x.owner = t /\ x.ea = eaindex[hea[t]].ea /\ Fits(x)
       /\ eaindex' = [eaindex EXCEPT ![hea[t]] = x]
Closes(t) ==
  /\ hea[t] # Null /\ (eaindex[hea[t]].used => Mine(t)) /\ hea'[t] \in {hea[t], Null}
  /\ eaindex' = [eaindex EXCEPT ![hea[t]] = Free]
Stays(t) ==
  /\ UNCHANGED eaindex
  /\ hea'[t] = hea[t] \/ (hea'[t] = Null /\ (hea[t] # Null => ~Mine(t)))

(* The other threads keep what they have.                                  *)
LEMMA OthersKept ==
  ASSUME EaInv, NEW t \in Thread, NEW u \in Thread, u # t, hea[u] # Null,
         Opens(t) \/ Updates(t) \/ Closes(t) \/ Stays(t)
  PROVE  LET b == hea[u] IN
         /\ Mine(u) => eaindex'[b] = eaindex[b]
         /\ ~Mine(u) => ~(eaindex'[b].used /\ eaindex'[b].owner = u)
         /\ pc[u] = "close" /\ task[u].call = "readString" =>
              (eaindex'[b].used => eaindex'[b] = eaindex[b])
<1>1. hea[u] \in Block /\ eaindex \in [Block -> {Free} \cup EaIndex]
  BY DEF EaInv, Typed
<1>2. CASE Stays(t)
  BY <1>2 DEF Stays, Mine
<1>3. CASE Opens(t)
  <2>1. PICK b \in Block, x \in EaIndex : /\ ~eaindex[b].used /\ x.owner = t
                                         /\ eaindex' = [eaindex EXCEPT ![b] = x]
    BY <1>3 DEF Opens
  <2>2. CASE hea[u] = b
    <3>1. eaindex'[b] = x /\ ~Mine(u)
      BY <1>1, <2>1, <2>2 DEF Mine
    <3>2. ~(pc[u] = "close" /\ task[u].call = "readString")
      BY <1>3 DEF Opens, EaInv, Holds, AtWork
    <3> QED BY <2>1, <2>2, <3>1, <3>2
  <2>3. CASE hea[u] # b
    BY <1>1, <2>1, <2>3 DEF Mine
  <2> QED BY <2>2, <2>3
<1>4. CASE Updates(t) \/ Closes(t)
  <2>1. PICK x : x \in EaIndex \cup {Free} /\ eaindex' = [eaindex EXCEPT ![hea[t]] = x]
                 /\ (x.used => x.owner = t /\ Mine(t))
    BY <1>4 DEF Updates, Closes, Free
  <2>2. hea[t] \in Block /\ (eaindex[hea[t]].used => Mine(t))
    BY <1>4 DEF EaInv, Typed, Updates, Closes
  <2>3. CASE hea[u] = hea[t]
    <3>1. eaindex'[hea[u]] = x /\ ~Mine(u)
      BY <1>1, <2>1, <2>2, <2>3 DEF Mine
    <3>2. pc[u] = "close" /\ task[u].call = "readString" => ~eaindex[hea[u]].used
      BY <3>1 DEF EaInv, Holds, AtWork
    <3> QED BY <2>1, <2>2, <2>3, <3>1, <3>2 DEF Mine
  <2>4. CASE hea[u] # hea[t]
    BY <1>1, <2>1, <2>2, <2>4 DEF Mine
  <2> QED BY <2>3, <2>4
<1> QED BY <1>2, <1>3, <1>4

LEMMA HoldsKept ==
  ASSUME EaInv, NEW t \in Thread, Only(t), InTurn(t),
         Opens(t) \/ Updates(t) \/ Closes(t) \/ Stays(t), AtWork(t)'
  PROVE  Holds'
<1>0. /\ pc \in [Thread -> {"idle", "append", "save", "close", "first", "ended", "trap"}] /\ task \in [Thread -> Task]
      /\ hea \in [Thread -> Block \cup {Null}] /\ ret = [u \in Thread |-> ret[u]]
      /\ eaindex \in [Block -> {Free} \cup EaIndex]
  BY DEF EaInv, Typed
<1>o. ASSUME NEW b \in Block, eaindex[b].used
      PROVE  b # Null /\ eaindex[b].owner \in Thread /\ hea[eaindex[b].owner] = b
  <2>1. eaindex[b] \in EaIndex
    BY <1>0, <1>o DEF Free
  <2>2. eaindex[b].owner \in Thread
    BY <2>1 DEF EaIndex
  <2>3. hea[eaindex[b].owner] = b
    BY <1>o DEF EaInv, Holds
  <2> QED BY <2>2, <2>3, EaAssumption
<1>1. ASSUME NEW u \in Thread, u # t
      PROVE  pc'[u] = pc[u] /\ task'[u] = task[u] /\ hea'[u] = hea[u] /\ ret'[u] = ret[u]
  BY <1>0, <1>1 DEF Only
<1>2. ASSUME NEW u \in Thread, u # t PROVE AtWork(u)'
  <2>1. AtWork(u)
    BY DEF EaInv, Holds
  <2>2. mode' = mode
    BY DEF Only
  <2>3. CASE hea[u] = Null
    BY <1>1, <1>2, <2>1, <2>2, <2>3 DEF AtWork
  <2>4. CASE hea[u] # Null
    <3>1. LET b == hea[u] IN
          /\ Mine(u) => eaindex'[b] = eaindex[b]
          /\ ~Mine(u) => ~(eaindex'[b].used /\ eaindex'[b].owner = u)
          /\ pc[u] = "close" /\ task[u].call = "readString" => (eaindex'[b].used => eaindex'[b] = eaindex[b])
      BY <1>2, <2>4, OthersKept
    <3> QED BY <1>1, <1>2, <2>1, <2>2, <2>4, <3>1 DEF AtWork, Mine
  <2> QED BY <2>3, <2>4
<1>3. ASSUME NEW b \in Block, eaindex'[b].used PROVE hea'[eaindex'[b].owner] = b
  <2>1. CASE Stays(t)
    <3>1. hea[eaindex[b].owner] = b /\ eaindex'[b] = eaindex[b] /\ eaindex[b].owner \in Thread /\ b # Null
      BY <1>o, <1>3, <2>1 DEF Stays
    <3> QED BY <1>1, <1>3, <2>1, <3>1 DEF Stays, Mine
  <2>2. CASE Opens(t)
    <3>1. PICK c \in Block, x \in EaIndex : /\ ~eaindex[c].used /\ x.owner = t
                                           /\ eaindex' = [eaindex EXCEPT ![c] = x] /\ hea'[t] = c /\ hea[t] = Null
      BY <2>2 DEF Opens
    <3>2. CASE b = c
      BY <1>0, <3>1, <3>2
    <3>3. CASE b # c
      <4>1. eaindex'[b] = eaindex[b]
        BY <1>0, <3>1, <3>3
      <4>2. hea[eaindex[b].owner] = b /\ eaindex[b].owner \in Thread
        BY <1>o, <1>3, <4>1
      <4>3. eaindex[b].owner # t
        BY <3>1, <4>2, EaAssumption
      <4> QED BY <1>1, <4>1, <4>2, <4>3
    <3> QED BY <3>2, <3>3
  <2>3. CASE Updates(t)
    <3>1. PICK x \in EaIndex : x.owner = t /\ eaindex' = [eaindex EXCEPT ![hea[t]] = x] /\ hea'[t] = hea[t]
      BY <2>3 DEF Updates
    <3>2. CASE b = hea[t]
      BY <1>0, <3>1, <3>2
    <3>3. CASE b # hea[t]
      <4>1. eaindex'[b] = eaindex[b]
        BY <1>0, <3>1, <3>3
      <4>2. hea[eaindex[b].owner] = b /\ eaindex[b].owner \in Thread
        BY <1>o, <1>3, <4>1
      <4> QED BY <1>1, <3>1, <4>1, <4>2
    <3> QED BY <3>2, <3>3
  <2>4. CASE Closes(t)
    <3>1. eaindex' = [eaindex EXCEPT ![hea[t]] = Free] /\ hea[t] \in Block
      BY <1>0, <2>4 DEF Closes
    <3>2. b # hea[t] /\ eaindex'[b] = eaindex[b]
      BY <1>0, <1>3, <3>1 DEF Free
    <3>3. hea[eaindex[b].owner] = b /\ eaindex[b].owner \in Thread
      BY <1>o, <1>3, <3>2
    <3>4. eaindex[b].owner # t
      BY <3>2, <3>3
    <3> QED BY <1>1, <3>2, <3>3, <3>4
  <2> QED BY <2>1, <2>2, <2>3, <2>4
<1>4. mode'.serial => \A u, v \in Thread : pc'[u] # "idle" /\ pc'[v] # "idle" => u = v
  <2>1. SUFFICES ASSUME mode.serial, NEW u \in Thread, NEW v \in Thread, pc'[u] # "idle", pc'[v] # "idle", u # v
                 PROVE  FALSE
    BY DEF Only
  <2>2. \A w \in Thread : w # t => pc'[w] = pc[w]
    BY <1>1
  <2>3. \A w, z \in Thread : pc[w] # "idle" /\ pc[z] # "idle" => w = z
    BY <2>1 DEF EaInv, Holds
  <2> QED BY <2>1, <2>2, <2>3 DEF InTurn
<1>5. \A u \in Thread : AtWork(u)'
  BY <1>2
<1> QED BY <1>3, <1>4, <1>5 DEF Holds

(* What is saved is what is in the memory of the handle.                   *)
Saves(t) == hea[t] # Null /\ Mine(t) /\ disk' = [disk EXCEPT ![eaindex[hea[t]].ea] = eaindex[hea[t]].content]

LEMMA TypedKept ==
  ASSUME EaInv, NEW t \in Thread, Only(t),
         Opens(t) \/ Updates(t) \/ Closes(t) \/ Stays(t),
         pc'[t] \in {"idle", "append", "save", "close", "first", "ended", "trap"},
         task'[t] \in Task, changes' \in 0 .. mode.changes, UNCHANGED disk \/ Saves(t)
  PROVE  Typed'
<1>0. Typed
  BY DEF EaInv
<1>1. mode' \in Modes /\ changes' \in 0 .. mode'.changes
  BY <1>0 DEF Typed, Only
<1>2. disk' \in [Ea -> Content] /\ \A e \in Ea : IsContent(disk'[e])
  <2>1. CASE UNCHANGED disk
    BY <1>0, <2>1 DEF Typed
  <2>2. CASE Saves(t)
    <3> DEFINE x == eaindex[hea[t]]
    <3>1. x \in EaIndex /\ Fits(x)
      BY <1>0, <2>2 DEF Typed, Saves, Mine, Free
    <3>2. x.ea \in Ea /\ x.content \in Content /\ IsContent(x.content) /\ disk' = [disk EXCEPT ![x.ea] = x.content]
      BY <2>2, <3>1 DEF EaIndex, Fits, Saves
    <3> HIDE DEF x
    <3> QED BY <1>0, <3>2 DEF Typed
  <2> QED BY <2>1, <2>2
<1>3. eaindex' \in [Block -> {Free} \cup EaIndex] /\ \A b \in Block : eaindex'[b].used => Fits(eaindex'[b])
  <2>1. CASE Stays(t)
    BY <1>0, <2>1 DEF Typed, Stays
  <2>2. CASE Opens(t) \/ Updates(t) \/ Closes(t)
    <3>1. PICK b \in Block, x \in {Free} \cup EaIndex : eaindex' = [eaindex EXCEPT ![b] = x] /\ (x.used => Fits(x))
      BY <1>0, <2>2 DEF Typed, Opens, Updates, Closes, Free
    <3> QED BY <1>0, <3>1 DEF Typed
  <2> QED BY <2>1, <2>2
<1>4. hea'[t] \in Block \cup {Null}
  BY <1>0 DEF Typed, Opens, Updates, Closes, Stays
<1>5. /\ pc' \in [Thread -> {"idle", "append", "save", "close", "first", "ended", "trap"}]
      /\ task' \in [Thread -> Task] /\ hea' \in [Thread -> Block \cup {Null}] /\ ret' = [u \in Thread |-> ret'[u]]
  BY <1>0, <1>4 DEF Typed, Only
<1>6. \A e \in Ea : IsContent(disk[e])'
  BY <1>2 DEF IsContent
<1>7. \A b \in Block : eaindex'[b].used => Fits(eaindex[b])'
  BY <1>3 DEF Fits, IsContent, Selected
<1> QED BY <1>1, <1>2, <1>3, <1>5, <1>6, <1>7 DEF Typed

LEMMA PutsKept ==
  ASSUME EaInv, NEW t \in Thread, Only(t),
         Opens(t) \/ Updates(t) \/ Closes(t) \/ Stays(t), Quiet => Puts(t)',
         UNCHANGED disk \/ pc[t] = "save" \/ "handle" \in mode.calls
  PROVE  PutsMore'
<1> SUFFICES ASSUME mode.serial, mode.calls \cap {"handle", "writeString"} = {}, NEW u \in Thread, u # t
             PROVE  Puts(u)'
  BY DEF PutsMore, Only, Quiet
<1>1. pc'[u] = pc[u] /\ hea'[u] = hea[u]
  BY DEF EaInv, Typed, Only
<1>2. SUFFICES ASSUME pc[u] \in {"append", "save"} PROVE Puts(u)'
  BY <1>1 DEF Puts
<1>3. hea[u] # Null /\ Mine(u) /\ Puts(u)
  BY <1>2 DEF EaInv, Holds, AtWork, PutsMore
<1>4. eaindex'[hea[u]] = eaindex[hea[u]]
  BY <1>3, OthersKept
<1>5. UNCHANGED disk
  BY <1>2 DEF EaInv, Holds
<1> QED BY <1>1, <1>3, <1>4, <1>5 DEF Puts

(* All that a step has to show.                                            *)
LEMMA StepKept ==
  ASSUME EaInv, NEW t \in Thread, Only(t), InTurn(t),
         Opens(t) \/ Updates(t) \/ Closes(t) \/ Stays(t),
         pc'[t] \in {"idle", "append", "save", "close", "first", "ended", "trap"},
         task'[t] \in Task, changes' \in 0 .. mode.changes,
         UNCHANGED disk \/ (Saves(t) /\ (pc[t] = "save" \/ "handle" \in mode.calls)),
         AtWork(t)', Quiet => Puts(t)'
  PROVE  EaInv'
<1>1. Typed'
  BY TypedKept
<1>2. Holds'
  BY HoldsKept
<1>3. PutsMore'
  BY PutsKept
<1> QED BY <1>1, <1>2, <1>3 DEF EaInv

-----------------------------------------------------------------------------
(* What the parts of the calls do.                                         *)

LEMMA Lengths ==
  ASSUME NEW c \in Content
  PROVE  /\ DataLen(c) \in Nat /\ cbValue(c) \in Nat
         /\ c.kind = "none" => DataLen(c) = 0
         /\ c.kind = "SVST" => DataLen(c) = Sum(c.entries, 4)
         /\ c.kind = "MVMT" => DataLen(c) = 6 + Sum(c.entries, 4)
         /\ c.kind = "MVST" => DataLen(c) = 8 + Sum(c.entries, 2)
<1>1. c.entries \in Seq(Entry) /\ c.kind \in {"none", "odd", "SVST", "MVMT", "MVST"} /\ c.slack \in Nat
  BY DEF Content
<1>2. Sum(c.entries, 4) \in Nat /\ Sum(c.entries, 2) \in Nat
  <2>1. Len(c.entries) \in Nat
    BY <1>1
  <2>2. \A h \in Nat : Sum(c.entries, h) \in Nat
    BY <1>1, SumIsNat
  <2> QED BY <2>2
<1>3. DataLen(c) \in Nat
  BY <1>1, <1>2 DEF DataLen
<1>4. cbValue(c) \in Nat
  BY <1>1, <1>3 DEF cbValue
<1> QED BY <1>3, <1>4 DEF DataLen

LEMMA EmptyIsContent == IsContent(Empty) /\ Empty.kind = "none"
<1>1. <<>> \in Seq(Entry)
  OBVIOUS
<1>2. Empty \in Content
  BY <1>1 DEF Empty, Content
<1> QED BY <1>2 DEF Empty, IsContent, IsMulti

LEMMA IndexFits ==
  ASSUME NEW t \in Thread, NEW ea \in Ea, NEW c, IsContent(c), NEW n \in Nat,
         (c.kind = "none" /\ n <= 6) \/ n = cbValue(c)
  PROVE  Index(t, ea, c, n) \in EaIndex /\ Fits(Index(t, ea, c, n))
<1>1. c \in Content /\ (IsMulti(c.kind) => c.slack = 0)
  BY DEF IsContent
<1>2. <<>> \in Seq(Entry) /\ 0 \in Nat
  OBVIOUS
<1>3. Index(t, ea, c, n) \in EaIndex
  BY <1>1, <1>2 DEF Index, EaIndex
<1>4. /\ IsMulti(c.kind) => n <= 4 + DataLen(c)
      /\ c.kind = "none" => n <= 6
  <2>1. DataLen(c) \in Nat /\ (c.kind = "none" => DataLen(c) = 0)
    BY <1>1, Lengths
  <2>2. c.kind = "none" => c.slack = 0
    BY DEF IsContent, Empty
  <2>3. c.kind = "none" => ~IsMulti(c.kind)
    BY DEF IsMulti
  <2>4. CASE n = cbValue(c)
    BY <1>1, <2>1, <2>2, <2>4 DEF cbValue
  <2> QED BY <2>3, <2>4
<1> QED BY <1>3, <1>4 DEF Index, Fits

(* An attribute is read, or nothing is opened.                             *)
LEMMA Reads ==
  ASSUME EaInv, NEW t \in Thread, NEW ea \in Ea, NEW create \in BOOLEAN, NEW next, NEW failed,
         hea[t] = Null, mode.serial => \A u \in Thread : pc[u] = "idle",
         Read(t, ea, create, next, failed)
  PROVE  /\ pc' = [pc EXCEPT ![t] = pc'[t]] /\ hea' = [hea EXCEPT ![t] = hea'[t]]
         /\ ret' = [ret EXCEPT ![t] = ret'[t]] /\ ret'[t].rc # "overrun"
         /\ \/ pc'[t] = failed /\ Stays(t) /\ hea'[t] = Null
            \/ /\ pc'[t] = next /\ Opens(t) /\ hea'[t] # Null /\ Mine(t)'
               /\ LET x == eaindex'[hea'[t]]
                  IN  /\ x.index = 0 /\ x.seen = <<>> /\ x.ea = ea
                      /\ x.content = IF create THEN Empty ELSE disk[ea]
<1>0. /\ t \in DOMAIN pc /\ t \in DOMAIN ret /\ t \in DOMAIN hea
      /\ pc = [u \in Thread |-> pc[u]] /\ ret = [u \in Thread |-> ret[u]] /\ hea = [u \in Thread |-> hea[u]]
      /\ eaindex \in [Block -> {Free} \cup EaIndex] /\ IsContent(disk[ea])
  BY DEF EaInv, Typed
<1>1. CASE UNCHANGED <<eaindex, hea>>
           /\ \E rc \in {"ERROR_NO_MORE_FILES", "ERROR_NOT_ENOUGH_MEMORY"} : Goes(t, failed, [rc |-> rc])
  <2>1. PICK rc \in {"ERROR_NO_MORE_FILES", "ERROR_NOT_ENOUGH_MEMORY"} : Goes(t, failed, [rc |-> rc])
    BY <1>1
  <2>2. pc'[t] = failed /\ ret'[t] = [rc |-> rc] /\ hea'[t] = Null /\ UNCHANGED eaindex
    BY <1>0, <1>1, <2>1 DEF Goes
  <2>3. Stays(t)
    BY <2>2 DEF Stays
  <2>4. /\ pc' = [pc EXCEPT ![t] = pc'[t]] /\ hea' = [hea EXCEPT ![t] = hea'[t]]
        /\ ret' = [ret EXCEPT ![t] = ret'[t]]
    BY <1>0, <1>1, <2>1, <2>2 DEF Goes
  <2> QED BY <2>2, <2>3, <2>4
<1>2. CASE \E b \in Block :
             /\ ~eaindex[b].used
             /\ eaindex' = [eaindex EXCEPT ![b] = IF create THEN Index(t, ea, Empty, 6)
                                                  ELSE Index(t, ea, disk[ea], cbValue(disk[ea]))]
             /\ hea' = [hea EXCEPT ![t] = b]
             /\ Goes(t, next, [rc |-> "NO_ERROR"])
  <2>1. PICK x : x = IF create THEN Index(t, ea, Empty, 6) ELSE Index(t, ea, disk[ea], cbValue(disk[ea]))
    OBVIOUS
  <2>2. PICK b \in Block : /\ ~eaindex[b].used /\ eaindex' = [eaindex EXCEPT ![b] = x]
                           /\ hea' = [hea EXCEPT ![t] = b] /\ Goes(t, next, [rc |-> "NO_ERROR"])
    BY <1>2, <2>1
  <2>3. x \in EaIndex /\ Fits(x)
    <3>1. CASE create
      BY <2>1, <3>1, EmptyIsContent, IndexFits
    <3>2. CASE ~create
      <4>1. cbValue(disk[ea]) \in Nat
        BY <1>0, Lengths DEF IsContent
      <4> QED BY <1>0, <2>1, <3>2, <4>1, IndexFits
    <3> QED BY <3>1, <3>2
  <2>4. /\ x.used /\ x.owner = t /\ x.index = 0 /\ x.seen = <<>> /\ x.ea = ea
        /\ x.content = IF create THEN Empty ELSE disk[ea]
    BY <2>1 DEF Index
  <2>5. hea'[t] = b /\ eaindex'[b] = x /\ pc'[t] = next /\ ret'[t] = [rc |-> "NO_ERROR"] /\ b # Null
    BY <1>0, <2>2, EaAssumption DEF Goes
  <2>6. Opens(t)
    BY <2>2, <2>3, <2>4, <2>5 DEF Opens
  <2>7. /\ pc' = [pc EXCEPT ![t] = pc'[t]] /\ hea' = [hea EXCEPT ![t] = hea'[t]]
        /\ ret' = [ret EXCEPT ![t] = ret'[t]]
    BY <2>2, <2>5 DEF Goes
  <2> QED BY <2>4, <2>5, <2>6, <2>7 DEF Mine
<1> QED BY <1>1, <1>2 DEF Read

LEMMA SelectedIsSeq ==
  ASSUME NEW x, IsContent(x.content)
  PROVE  /\ Selected(x) \in Seq(Entry)
         /\ x.content.kind \in {"none", "odd"} => Selected(x) = <<>>
<1>1. x.content.entries \in Seq(Entry)
  BY DEF IsContent, Content
<1>2. x.content.kind \in {"none", "odd"} => x.content.entries = <<>>
  BY DEF IsContent, Empty
<1> QED BY <1>1, <1>2, OfTypeIsSeq DEF Selected

(* A search goes on by one value, or is at its end.                        *)
LEMMA Advances ==
  ASSUME NEW x \in EaIndex, Fits(x), x.index # End
  PROVE  /\ Found(x) =>
              /\ ValueFound(x) \in Entry
              /\ \A small \in BOOLEAN :
                   LET y == [x EXCEPT !.index = @ + IF small THEN 2 ELSE 1, !.seen = Append(@, ValueFound(x)),
                                      !.clean = @ /\ ~small]
                   IN  y \in EaIndex /\ Fits(y)
         /\ ~Found(x) /\ ~Mismatch(x) => LET y == [x EXCEPT !.index = End] IN y \in EaIndex /\ Fits(y)
         /\ LET y == [x EXCEPT !.index = 1, !.clean = FALSE] IN y \in EaIndex /\ Fits(y)
<1> DEFINE S == Selected(x)
<1>1. S \in Seq(Entry) /\ Len(S) \in Nat /\ (x.content.kind \in {"none", "odd"} => S = <<>>)
  BY SelectedIsSeq DEF Fits
<1>2. /\ x.index \in Nat /\ x.clean \in BOOLEAN /\ x.started \in BOOLEAN /\ x.seen \in Seq(Entry)
      /\ IsContent(x.content) /\ x.content.kind \in {"none", "odd", "SVST", "MVMT", "MVST"}
      /\ (x.started /\ x.clean => x.index \in 0 .. Len(S) /\ x.seen = SubSeq(S, 1, x.index))
  BY DEF EaIndex, Fits, IsContent, Content
<1>3. ASSUME NEW y \in EaIndex, y.content = x.content, y.cbList = x.cbList, y.type = x.type, y.started = x.started,
             y.started /\ y.clean => IF y.index = End THEN y.seen = S
                                     ELSE y.index \in 0 .. Len(S) /\ y.seen = SubSeq(S, 1, y.index)
      PROVE  Fits(y)
  <2>1. Selected(y) = S
    BY <1>3 DEF Selected
  <2> HIDE DEF S
  <2> QED BY <1>3, <2>1 DEF Fits
<1>4. ASSUME Found(x)
      PROVE  /\ ValueFound(x) \in Entry /\ x.index + 1 \in 1 .. Len(S)
             /\ x.started /\ x.clean => Append(x.seen, ValueFound(x)) = SubSeq(S, 1, x.index + 1)
  <2>1. x.index < Len(S) /\ x.index + 1 \in 1 .. Len(S) /\ ValueFound(x) = S[x.index + 1]
    BY <1>1, <1>2, <1>4 DEF Found, ValueFound
  <2> HIDE DEF S
  <2>2. ValueFound(x) \in Entry
    BY <1>1, <2>1
  <2>3. Append(SubSeq(S, 1, x.index), S[x.index + 1]) = SubSeq(S, 1, x.index + 1)
    BY <1>1, <1>2, <2>1
  <2> QED BY <1>2, <2>1, <2>2, <2>3
<1>5. ASSUME ~Found(x), ~Mismatch(x), x.started, x.clean PROVE x.seen = S
  <2>1. CASE x.content.kind \in {"none", "odd"}
    BY <1>1, <1>2, <1>5, <2>1
  <2>2. CASE x.content.kind \notin {"none", "odd"}
    <3>1. x.index = Len(S)
      BY <1>1, <1>2, <1>5, <2>2 DEF Found
    <3> HIDE DEF S
    <3> QED BY <1>1, <1>2, <1>5, <3>1
  <2> QED BY <2>1, <2>2
<1> HIDE DEF S
<1>6. ASSUME Found(x), NEW small \in BOOLEAN
      PROVE  LET y == [x EXCEPT !.index = @ + IF small THEN 2 ELSE 1, !.seen = Append(@, ValueFound(x)),
                                !.clean = @ /\ ~small]
             IN  y \in EaIndex /\ Fits(y)
  <2>1. PICK i \in Nat : i = x.index + IF small THEN 2 ELSE 1
    BY <1>2
  <2>2. PICK q \in Seq(Entry) : q = Append(x.seen, ValueFound(x))
    <3>1. x.seen \in Seq(Entry) /\ ValueFound(x) \in Entry
      BY <1>2, <1>4, <1>6
    <3>2. Append(x.seen, ValueFound(x)) \in Seq(Entry)
      BY <3>1
    <3> QED BY <3>2
  <2>3. PICK c \in BOOLEAN : c = (x.clean /\ ~small)
    BY <1>2
  <2>4. PICK y : y = [x EXCEPT !.index = i, !.seen = q, !.clean = c]
    OBVIOUS
  <2>5. y \in EaIndex
    BY <2>1, <2>2, <2>3, <2>4 DEF EaIndex
  <2>6. /\ y.content = x.content /\ y.cbList = x.cbList /\ y.type = x.type /\ y.started = x.started
        /\ y.index = i /\ y.seen = q /\ y.clean = c
    BY <2>1, <2>2, <2>3, <2>4 DEF EaIndex
  <2>7. i # End
    BY <2>1 DEF End
  <2>8. c => i = x.index + 1
    BY <2>1, <2>3
  <2>9. y.started /\ y.clean => y.index \in 0 .. Len(S) /\ y.seen = SubSeq(S, 1, y.index)
    <3> SUFFICES ASSUME x.started, c PROVE i \in 0 .. Len(S) /\ q = SubSeq(S, 1, i)
      BY <2>6
    <3>1. x.clean /\ i = x.index + 1
      BY <2>3, <2>8
    <3>2. i \in 0 .. Len(S)
      BY <1>1, <1>4, <1>6, <3>1
    <3> QED BY <1>4, <1>6, <2>2, <3>1, <3>2
  <2>10. Fits(y)
    BY <1>3, <2>5, <2>6, <2>7, <2>9
  <2> QED BY <2>1, <2>2, <2>3, <2>4, <2>5, <2>10
<1>7. ASSUME ~Found(x), ~Mismatch(x) PROVE LET y == [x EXCEPT !.index = End] IN y \in EaIndex /\ Fits(y)
  <2>1. PICK y : y = [x EXCEPT !.index = End]
    OBVIOUS
  <2>2. y \in EaIndex
    BY <2>1 DEF EaIndex
  <2>3. /\ y.content = x.content /\ y.cbList = x.cbList /\ y.type = x.type /\ y.started = x.started
        /\ y.index = End /\ y.seen = x.seen /\ y.clean = x.clean
    BY <2>1 DEF EaIndex
  <2> QED BY <1>3, <1>5, <1>7, <2>1, <2>2, <2>3
<1>8. LET y == [x EXCEPT !.index = 1, !.clean = FALSE] IN y \in EaIndex /\ Fits(y)
  <2>1. PICK y : y = [x EXCEPT !.index = 1, !.clean = FALSE]
    OBVIOUS
  <2>2. y \in EaIndex
    BY <2>1 DEF EaIndex
  <2>3. /\ y.content = x.content /\ y.cbList = x.cbList /\ y.type = x.type /\ y.started = x.started
        /\ y.clean = FALSE
    BY <2>1 DEF EaIndex
  <2> QED BY <1>3, <2>1, <2>2, <2>3
<1> QED BY <1>4, <1>6, <1>7, <1>8

(* A search leaves the attribute and its owner alone.                      *)
LEMMA Finds ==
  ASSUME EaInv, NEW t \in Thread, NEW x \in EaIndex, NEW len, NEW next, NEW over,
         hea[t] # Null, Mine(t), Fits(x), x.owner = t, x.ea = eaindex[hea[t]].ea,
         FindNext(t, x, len, next, over), UNCHANGED hea
  PROVE  /\ pc' = [pc EXCEPT ![t] = pc'[t]] /\ ret' = [ret EXCEPT ![t] = ret'[t]]
         /\ ret'[t].rc # "overrun" /\ pc'[t] \in {next, over, "trap"} /\ Updates(t)
<1>0. /\ t \in DOMAIN pc /\ t \in DOMAIN ret /\ pc = [u \in Thread |-> pc[u]] /\ ret = [u \in Thread |-> ret[u]]
  BY DEF EaInv, Typed
<1>1. PICK y, n, r : /\ y \in EaIndex /\ Fits(y) /\ y.owner = x.owner /\ y.ea = x.ea
                     /\ eaindex' = [eaindex EXCEPT ![hea[t]] = y]
                     /\ Goes(t, n, r) /\ n \in {next, over, "trap"} /\ r.rc # "overrun"
  <2> DEFINE e == ValueFound(x)
             small == TooSmall(len, e.value)
             y1 == [x EXCEPT !.index = @ + IF small THEN 2 ELSE 1, !.seen = Append(@, e), !.clean = @ /\ ~small]
             y2 == [x EXCEPT !.index = End]
             y3 == [x EXCEPT !.index = 1, !.clean = FALSE]
             r1 == [rc |-> IF small THEN "ERROR_BUFFER_OVERFLOW" ELSE "NO_ERROR",
                    entry |-> e, past |-> e.value > len]
  <2>1. CASE /\ x.index # End /\ Found(x)
             /\ eaindex' = [eaindex EXCEPT ![hea[t]] = y1] /\ Goes(t, next, r1)
    <3>1. small \in BOOLEAN
      BY DEF TooSmall
    <3>2. y1.owner = x.owner /\ y1.ea = x.ea
      BY DEF EaIndex
    <3>3. y1 \in EaIndex /\ Fits(y1)
      BY <2>1, <3>1, Advances
    <3>4. r1.rc # "overrun"
      OBVIOUS
    <3> HIDE DEF y1, r1
    <3> QED BY <2>1, <3>2, <3>3, <3>4
  <2>2. CASE /\ x.index # End /\ ~Found(x) /\ ~Mismatch(x)
             /\ eaindex' = [eaindex EXCEPT ![hea[t]] = y2] /\ Goes(t, over, [rc |-> "ERROR_NO_MORE_FILES"])
    <3>1. y2.owner = x.owner /\ y2.ea = x.ea
      BY DEF EaIndex
    <3>2. y2 \in EaIndex /\ Fits(y2)
      BY <2>2, Advances
    <3>3. over \in {next, over, "trap"} /\ [rc |-> "ERROR_NO_MORE_FILES"].rc # "overrun"
      OBVIOUS
    <3> HIDE DEF y2
    <3> WITNESS y2, over, [rc |-> "ERROR_NO_MORE_FILES"]
    <3> QED BY <2>2, <3>1, <3>2, <3>3
  <2>3. CASE /\ x.index # End /\ eaindex' = [eaindex EXCEPT ![hea[t]] = y3]
             /\ Goes(t, over, [rc |-> "ERROR_NO_MORE_FILES"]) \/ Goes(t, "trap", [rc |-> "unset"])
    <3>1. y3.owner = x.owner /\ y3.ea = x.ea
      BY DEF EaIndex
    <3>2. y3 \in EaIndex /\ Fits(y3)
      BY <2>3, Advances
    <3> HIDE DEF y3
    <3>3. CASE Goes(t, over, [rc |-> "ERROR_NO_MORE_FILES"])
      <4>1. over \in {next, over, "trap"} /\ [rc |-> "ERROR_NO_MORE_FILES"].rc # "overrun"
        OBVIOUS
      <4> WITNESS y3, over, [rc |-> "ERROR_NO_MORE_FILES"]
      <4> QED BY <2>3, <3>1, <3>2, <3>3, <4>1
    <3>4. CASE Goes(t, "trap", [rc |-> "unset"])
      <4>1. "trap" \in {next, over, "trap"} /\ [rc |-> "unset"].rc # "overrun"
        OBVIOUS
      <4> WITNESS y3, "trap", [rc |-> "unset"]
      <4> QED BY <2>3, <3>1, <3>2, <3>4, <4>1
    <3> QED BY <2>3, <3>3, <3>4
  <2>4. CASE eaindex' = [eaindex EXCEPT ![hea[t]] = x] /\ Goes(t, over, [rc |-> "ERROR_NO_MORE_FILES"])
    <3>1. over \in {next, over, "trap"} /\ [rc |-> "ERROR_NO_MORE_FILES"].rc # "overrun"
      OBVIOUS
    <3> WITNESS x, over, [rc |-> "ERROR_NO_MORE_FILES"]
    <3> QED BY <2>4, <3>1
  <2> QED BY <2>1, <2>2, <2>3, <2>4 DEF FindNext
<1>2. pc'[t] = n /\ ret'[t] = r
  BY <1>0, <1>1 DEF Goes
<1>3. pc' = [pc EXCEPT ![t] = pc'[t]] /\ ret' = [ret EXCEPT ![t] = ret'[t]]
  BY <1>1, <1>2 DEF Goes
<1>4. Updates(t)
  BY <1>1 DEF Updates
<1> QED BY <1>1, <1>2, <1>3, <1>4

LEMMA PrefixBy ==
  ASSUME NEW S, NEW a \in Seq(S), NEW b \in Seq(S), Len(a) <= Len(b), \A k \in 1 .. Len(a) : a[k] = b[k]
  PROVE  IsPrefix(a, b)
<1>1. SubSeq(a, 1, Len(a)) = SubSeq(b, 1, Len(a))
  OBVIOUS
<1> QED BY <1>1 DEF IsPrefix

LEMMA KeepsBy ==
  ASSUME NEW c \in Content, NEW d \in Content, IsMulti(c.kind) => d.kind = c.kind,
         IsMulti(c.kind) => Len(c.entries) <= Len(d.entries),
         IsMulti(c.kind) => \A k \in 1 .. Len(c.entries) : c.entries[k].value = d.entries[k].value
  PROVE  Keeps(c, d)
<1> SUFFICES ASSUME IsMulti(c.kind) PROVE IsPrefix(Values(c), Values(d))
  BY DEF Keeps
<1>1. c.entries \in Seq(Entry) /\ d.entries \in Seq(Entry)
  BY DEF Content
<1>2. ASSUME NEW x \in Content PROVE Values(x) \in Seq(Value) /\ Len(Values(x)) = Len(x.entries)
                                    /\ \A k \in 1 .. Len(x.entries) : Values(x)[k] = x.entries[k].value
  <2>1. PICK s \in Seq(Entry) : s = x.entries
    BY DEF Content
  <2>2. PICK n \in Nat : n = Len(s) /\ DOMAIN s = 1 .. n
    OBVIOUS
  <2>3. \A k \in 1 .. n : s[k].value \in Value
    <3>1. \A k \in 1 .. n : s[k] \in Entry
      BY <2>2
    <3> QED BY <3>1 DEF Entry
  <2>4. Values(x) = [k \in 1 .. n |-> s[k].value]
    BY <2>1, <2>2 DEF Values
  <2>5. [k \in 1 .. n |-> s[k].value] \in Seq(Value) /\ Len([k \in 1 .. n |-> s[k].value]) = n
    BY <2>2, <2>3
  <2> QED BY <2>1, <2>2, <2>4, <2>5
<1>3. /\ Values(c) \in Seq(Value) /\ Len(Values(c)) = Len(c.entries)
      /\ \A k \in 1 .. Len(c.entries) : Values(c)[k] = c.entries[k].value
  BY <1>2
<1>4. /\ Values(d) \in Seq(Value) /\ Len(Values(d)) = Len(d.entries)
      /\ \A k \in 1 .. Len(d.entries) : Values(d)[k] = d.entries[k].value
  BY <1>2
<1>5. \A k \in 1 .. Len(c.entries) : k \in 1 .. Len(d.entries)
  BY <1>1
<1>6. \A k \in 1 .. Len(Values(c)) : Values(c)[k] = Values(d)[k]
  BY <1>3, <1>4, <1>5
<1> HIDE DEF Values
<1> QED BY <1>3, <1>4, <1>6, PrefixBy

LEMMA SumOfFew ==
  ASSUME NEW h \in Nat
  PROVE  /\ Sum(<<>>, h) = 0
         /\ \A s \in Seq(Entry) : Len(s) = 1 => Sum(s, h) = h + s[1].value
<1>1. <<>> \in Seq(Entry) /\ Len(<<>>) = 0
  OBVIOUS
<1>2. Sum(<<>>, h) = 0
  BY <1>1, SumFold
<1>3. ASSUME NEW s \in Seq(Entry), Len(s) = 1 PROVE Sum(s, h) = h + s[1].value
  <2>1. \E after \in [0 .. Len(s) -> Nat] :
           /\ after[0] = 0
           /\ \A k \in 1 .. Len(s) : after[k] = after[k - 1] + h + s[k].value
           /\ Sum(s, h) = after[Len(s)]
    BY SumFold
  <2>2. s[1] \in Entry
    BY <1>3
  <2>3. s[1].value \in Nat
    BY <2>2, EaAssumption DEF Entry
  <2> QED BY <1>3, <2>1, <2>3
<1> QED BY <1>2, <1>3

(* What is appended makes an attribute that fits, and keeps the values.    *)
LEMMA ExtendedFits ==
  ASSUME NEW c, IsContent(c), NEW e \in Entry, NEW multi \in {"SVST", "MVMT", "MVST"},
         MayAppend(c, multi), ~Garbles(c, multi)
  PROVE  LET d == Extended(c, multi, e)
             n == ValueBufferLen(c, multi, e.value)
         IN  /\ IsContent(d) /\ d.kind = multi /\ n \in Nat /\ Keeps(c, d)
             /\ IsMulti(multi) => n <= DataLen(d)
<1> DEFINE q == Entries(c, multi, e)
           new == [kind |-> multi, entries |-> q, slack |-> 0]
           n == ValueBufferLen(c, multi, e.value)
<1>1. PICK s \in Seq(Entry) : s = c.entries
  BY DEF IsContent, Content
<1>2. Len(s) \in Nat /\ DOMAIN s = 1 .. Len(s)
  OBVIOUS
<1>3. e.value \in Nat /\ e.type \in Type
  BY EaAssumption DEF Entry
<1>4. /\ c \in Content /\ c.kind \in {"none", "SVST", "MVMT", "MVST"}
      /\ c.kind = "none" => s = <<>>
      /\ c.kind = "SVST" => multi = "SVST" /\ Len(s) = 1
      /\ IsMulti(c.kind) => c.kind = multi
  <2>1. c.kind \in {"none", "odd", "SVST", "MVMT", "MVST"} /\ c \in Content
    BY DEF IsContent, Content
  <2>2. c.kind # "odd" /\ (c.kind = "SVST" => multi = "SVST")
    BY DEF Garbles, IsMulti
  <2> QED BY <1>1, <2>1, <2>2 DEF IsContent, Empty, MayAppend
<1>5. /\ q \in Seq(Entry)
      /\ multi = "SVST" => Len(q) = 1 /\ q[1] = e
      /\ multi = "MVST" => \A k \in DOMAIN q : q[k].type = e.type
      /\ IsMulti(multi) => /\ Len(q) = Len(s) + 1 /\ q[Len(s) + 1] = e
                           /\ \A k \in 1 .. Len(s) : s[k].value = q[k].value
  <2>1. CASE multi = "SVST"
    <3>1. q = <<e>>
      BY <2>1 DEF Entries
    <3>2. <<e>> \in Seq(Entry) /\ Len(<<e>>) = 1 /\ <<e>>[1] = e
      OBVIOUS
    <3>3. ~IsMulti(multi)
      BY <2>1 DEF IsMulti
    <3> HIDE DEF q
    <3> QED BY <2>1, <3>1, <3>2, <3>3
  <2>2. CASE multi = "MVMT"
    <3>1. q = Append(s, e)
      BY <1>1, <2>2 DEF Entries
    <3> QED BY <1>2, <2>2, <3>1
  <2>3. CASE multi = "MVST"
    <3>1. PICK r : r = [i \in DOMAIN s |-> [s[i] EXCEPT !.type = e.type]]
      OBVIOUS
    <3>2. \A i \in 1 .. Len(s) : r[i] \in Entry /\ r[i].type = e.type /\ r[i].value = s[i].value
      <4> TAKE i \in 1 .. Len(s)
      <4>1. s[i] \in Entry /\ r[i] = [s[i] EXCEPT !.type = e.type]
        BY <1>2, <3>1
      <4> QED BY <1>3, <4>1 DEF Entry
    <3>3. r \in Seq(Entry) /\ Len(r) = Len(s)
      BY <1>2, <3>1, <3>2
    <3>4. q = Append(r, e)
      BY <1>1, <2>3, <3>1 DEF Entries
    <3>5. q \in Seq(Entry) /\ Len(q) = Len(s) + 1 /\ q[Len(s) + 1] = e /\ \A k \in 1 .. Len(s) : q[k] = r[k]
      BY <1>2, <3>3, <3>4
    <3>6. \A k \in DOMAIN q : k \in 1 .. Len(s) \/ k = Len(s) + 1
      BY <1>2, <3>5
    <3> QED BY <2>3, <3>2, <3>5, <3>6
  <2> QED BY <2>1, <2>2, <2>3
<1> HIDE DEF q
<1>6. new \in Content
  BY <1>5 DEF Content
<1>7. /\ DataLen(c) \in Nat
      /\ c.kind = "none" => DataLen(c) = 0
      /\ c.kind = "SVST" => DataLen(c) = 4 + s[1].value
      /\ c.kind = "MVMT" => DataLen(c) = 6 + Sum(s, 4)
      /\ c.kind = "MVST" => DataLen(c) = 8 + Sum(s, 2)
  BY <1>1, <1>4, Lengths, SumOfFew
<1>8. /\ DataLen(new) \in Nat
      /\ multi = "SVST" => DataLen(new) = 4 + e.value
      /\ multi = "MVMT" => DataLen(new) = 6 + Sum(s, 4) + 4 + e.value
      /\ multi = "MVST" => DataLen(new) = 8 + Sum(s, 2) + 2 + e.value
  <2>1. /\ DataLen(new) \in Nat
        /\ multi = "SVST" => DataLen(new) = Sum(q, 4)
        /\ multi = "MVMT" => DataLen(new) = 6 + Sum(q, 4)
        /\ multi = "MVST" => DataLen(new) = 8 + Sum(q, 2)
    BY <1>6, Lengths
  <2>2. multi = "SVST" => Sum(q, 4) = 4 + e.value
    BY <1>5, SumOfFew
  <2>3. ASSUME IsMulti(multi), NEW h \in Nat PROVE Sum(q, h) = Sum(s, h) + h + e.value
    <3>1. Len(q) = Len(s) + 1 /\ q[Len(s) + 1] = e /\ \A k \in 1 .. Len(s) : s[k].value = q[k].value
      BY <1>5, <2>3
    <3> QED BY <1>5, <3>1, SumOfMore
  <2>4. Sum(s, 4) \in Nat /\ Sum(s, 2) \in Nat
    BY <1>2, SumIsNat
  <2>5. multi = "MVMT" => Sum(q, 4) = Sum(s, 4) + 4 + e.value
    BY <2>3 DEF IsMulti
  <2>6. multi = "MVST" => Sum(q, 2) = Sum(s, 2) + 2 + e.value
    BY <2>3 DEF IsMulti
  <2> QED BY <1>3, <2>1, <2>2, <2>4, <2>5, <2>6
<1>9. Sum(s, 4) \in Nat /\ Sum(s, 2) \in Nat /\ (c.kind = "none" => Sum(s, 4) = 0 /\ Sum(s, 2) = 0)
  BY <1>2, <1>4, SumIsNat, SumOfFew
<1>10. ASSUME c.kind = "SVST" PROVE s[1].value \in Nat
  <2>1. s[1] \in Entry
    BY <1>4, <1>10
  <2> QED BY <2>1, EaAssumption DEF Entry
<1> HIDE DEF new
<1> HIDE DEF n
<1>11. /\ n \in Nat /\ n - DataLen(new) \in Nat
       /\ IsMulti(multi) => n - DataLen(new) = 0
  <2>1. n = DataLen(c) + e.value + IF DataLen(c) = 0 THEN (IF IsMulti(multi) THEN 10 ELSE 4)
                                   ELSE (IF multi = "MVMT" THEN 4 ELSE 2)
    BY DEF n, ValueBufferLen, IsMulti
  <2>2. CASE c.kind = "none"
    BY <1>3, <1>7, <1>8, <1>9, <2>1, <2>2 DEF IsMulti
  <2>3. CASE c.kind = "SVST"
    <3>1. multi = "SVST" /\ ~IsMulti(multi)
      BY <1>4, <2>3 DEF IsMulti
    <3>2. PICK v \in Nat, w \in Nat : v = e.value /\ w = s[1].value
      BY <1>3, <1>10, <2>3
    <3>3. DataLen(c) = 4 + w /\ DataLen(new) = 4 + v
      BY <1>7, <1>8, <2>3, <3>1, <3>2
    <3>4. PICK m, p, o : m = DataLen(new) /\ p = n /\ o = DataLen(c)
      OBVIOUS
    <3>5. m = 4 + v /\ o = 4 + w /\ p = o + v + 2
      BY <2>1, <3>1, <3>2, <3>3, <3>4
    <3>6. p \in Nat /\ p - m \in Nat
      BY ONLY <3>5
    <3> QED BY <3>1, <3>4, <3>6
  <2>4. CASE c.kind \in {"MVMT", "MVST"}
    <3>1. c.kind = multi /\ IsMulti(multi) /\ DataLen(c) # 0
      BY <1>4, <1>7, <1>9, <2>4 DEF IsMulti
    <3>2. PICK one \in Nat, four \in Nat, two \in Nat, v \in Nat :
                one = DataLen(c) /\ four = Sum(s, 4) /\ two = Sum(s, 2) /\ v = e.value
      BY <1>3, <1>7, <1>9
    <3>3. PICK m, p : m = DataLen(new) /\ p = n
      OBVIOUS
    <3>4. CASE multi = "MVMT"
      <4>1. n = one + v + 4 /\ one = 6 + four /\ DataLen(new) = 6 + four + 4 + v
        BY <1>7, <1>8, <2>1, <3>1, <3>2, <3>4
      <4>2. p = one + v + 4 /\ one = 6 + four /\ m = 6 + four + 4 + v
        BY <3>3, <4>1
      <4>3. p - m = 0 /\ p \in Nat
        BY ONLY <4>2
      <4> QED BY <4>3, <3>3
    <3>5. CASE multi = "MVST"
      <4>1. n = one + v + 2 /\ one = 8 + two /\ DataLen(new) = 8 + two + 2 + v
        BY <1>7, <1>8, <2>1, <3>1, <3>2, <3>5
      <4>2. p = one + v + 2 /\ one = 8 + two /\ m = 8 + two + 2 + v
        BY <3>3, <4>1
      <4>3. p - m = 0 /\ p \in Nat
        BY ONLY <4>2
      <4> QED BY <4>3, <3>3
    <3> QED BY <3>1, <3>4, <3>5 DEF IsMulti
  <2> QED BY <1>4, <2>2, <2>3, <2>4
<1>12. PICK d : d = [kind |-> multi, entries |-> q, slack |-> n - DataLen(new)]
  OBVIOUS
<1>13. Extended(c, multi, e) = d
  BY <1>12 DEF Extended, new, n, q
<1>14. d \in Content /\ d.kind = multi /\ d.entries = q /\ d.slack = n - DataLen(new)
  BY <1>5, <1>11, <1>12 DEF Content
<1>15. IsContent(d)
  <2>1. multi = "MVST" => Cardinality({y.type : y \in ToSet(q)}) = 1
    <3> SUFFICES ASSUME multi = "MVST" PROVE {y.type : y \in ToSet(q)} = {e.type}
      BY FS_Singleton
    <3>1. Len(s) + 1 \in DOMAIN q /\ q[Len(s) + 1] = e
      BY <1>2, <1>5 DEF IsMulti
    <3> QED BY <1>5, <3>1 DEF ToSet
  <2> QED BY <1>5, <1>11, <1>14, <2>1 DEF IsContent
<1>16. Keeps(c, d)
  <2>1. ASSUME IsMulti(c.kind)
        PROVE  /\ d.kind = c.kind /\ Len(c.entries) <= Len(d.entries)
               /\ \A k \in 1 .. Len(c.entries) : c.entries[k].value = d.entries[k].value
    BY <1>1, <1>2, <1>4, <1>5, <1>14, <2>1
  <2> QED BY <1>4, <1>14, <2>1, KeepsBy
<1>17. IsMulti(multi) => n <= DataLen(d)
  <2>1. DataLen(d) = DataLen(new)
    BY <1>14 DEF DataLen, new
  <2> QED BY <1>8, <1>11, <2>1
<1> QED BY <1>11, <1>13, <1>14, <1>15, <1>16, <1>17 DEF n

(* Only a single value and an unknown kind overrun the memory.             *)
LEMMA NoOverrun ==
  ASSUME NEW x \in EaIndex, Fits(x), NEW multi \in {"SVST", "MVMT", "MVST"}, NEW v \in Nat,
         MayAppend(x.content, multi), x.content.kind \notin {"SVST", "odd"}
  PROVE  ~Overruns(x, multi, v)
<1>1. /\ x.cbList \in Nat /\ x.content \in Content /\ x.content.kind \in {"none", "MVMT", "MVST"}
  BY DEF EaIndex, Content
<1>2. DataLen(x.content) \in Nat
  BY <1>1, Lengths
<1>3. PICK n : n = ValueBufferLen(x.content, multi, v)
  OBVIOUS
<1>4. n \in Nat /\ n >= DataLen(x.content) /\ n >= 2
  BY <1>2, <1>3 DEF ValueBufferLen
<1>5. CASE x.content.kind = "none"
  <2>1. x.cbList <= 6
    BY <1>5 DEF Fits
  <2> QED BY <1>1, <1>3, <1>4, <2>1 DEF Overruns
<1>6. CASE x.content.kind \in {"MVMT", "MVST"}
  <2>1. x.cbList <= 4 + DataLen(x.content)
    BY <1>6 DEF Fits, IsMulti
  <2> QED BY <1>1, <1>2, <1>3, <1>4, <2>1 DEF Overruns
<1> QED BY <1>1, <1>5, <1>6

(* What is appended is added to the values, or the attribute is left alone. *)
LEMMA Appends ==
  ASSUME EaInv, NEW t \in Thread, NEW multi \in {"SVST", "MVMT", "MVST"}, NEW e \in Entry, NEW next, NEW failed,
         hea[t] # Null, Mine(t), AppendValue(t, multi, e, next, failed), UNCHANGED hea
  PROVE  /\ pc' = [pc EXCEPT ![t] = pc'[t]] /\ ret' = [ret EXCEPT ![t] = ret'[t]]
         /\ \/ pc'[t] = failed /\ Stays(t) /\ ret'[t].rc # "overrun"
            \/ /\ pc'[t] = "trap" /\ Stays(t)
               /\ ret'[t].rc = "overrun" => eaindex[hea[t]].content.kind \in {"SVST", "odd"}
            \/ /\ pc'[t] = next /\ Updates(t) /\ ret'[t].rc # "overrun"
               /\ Keeps(eaindex[hea[t]].content, eaindex'[hea[t]].content)
<1>0. /\ t \in DOMAIN pc /\ t \in DOMAIN ret /\ pc = [u \in Thread |-> pc[u]] /\ ret = [u \in Thread |-> ret[u]]
      /\ hea[t] \in Block /\ eaindex \in [Block -> {Free} \cup EaIndex]
  BY DEF EaInv, Typed
<1>1. PICK x : x = eaindex[hea[t]]
  OBVIOUS
<1>2. x \in EaIndex /\ Fits(x) /\ x.owner = t /\ x.used
  BY <1>0, <1>1 DEF EaInv, Typed, Mine, Free
<1>3. e.value \in Nat
  BY EaAssumption DEF Entry
<1>4. CASE UNCHANGED eaindex /\ (Goes(t, failed, [rc |-> "ERROR_INVALID_DATA"])
                                 \/ Goes(t, failed, [rc |-> "ERROR_NOT_ENOUGH_MEMORY"]))
  <2>1. PICK r : Goes(t, failed, r) /\ r.rc # "overrun"
    <3>1. CASE Goes(t, failed, [rc |-> "ERROR_INVALID_DATA"])
      BY <3>1
    <3>2. CASE Goes(t, failed, [rc |-> "ERROR_NOT_ENOUGH_MEMORY"])
      BY <3>2
    <3> QED BY <1>4, <3>1, <3>2
  <2>2. pc'[t] = failed /\ ret'[t] = r
    BY <1>0, <2>1 DEF Goes
  <2> QED BY <1>0, <1>4, <2>1, <2>2 DEF Goes, Stays
<1>5. CASE /\ MayAppend(x.content, multi) /\ UNCHANGED eaindex
           /\ Goes(t, "trap", [rc |-> IF Overruns(x, multi, e.value) THEN "overrun" ELSE "garbled"])
  <2>1. pc'[t] = "trap" /\ ret'[t] = [rc |-> IF Overruns(x, multi, e.value) THEN "overrun" ELSE "garbled"]
    BY <1>0, <1>5 DEF Goes
  <2>2. ret'[t].rc = "overrun" => Overruns(x, multi, e.value)
    BY <2>1
  <2>3. ret'[t].rc = "overrun" => x.content.kind \in {"SVST", "odd"}
    BY <1>2, <1>3, <1>5, <2>2, NoOverrun
  <2>4. Stays(t)
    BY <1>5 DEF Stays
  <2>5. pc' = [pc EXCEPT ![t] = pc'[t]] /\ ret' = [ret EXCEPT ![t] = ret'[t]]
    BY <1>5, <2>1 DEF Goes
  <2> QED BY <1>1, <2>1, <2>3, <2>4, <2>5
<1>6. CASE /\ MayAppend(x.content, multi) /\ ~Garbles(x.content, multi)
           /\ Goes(t, next, [rc |-> "NO_ERROR"])
           /\ eaindex' = [eaindex EXCEPT ![hea[t]] =
                  [x EXCEPT !.content = Extended(x.content, multi, e),
                            !.cbList = 4 + ValueBufferLen(x.content, multi, e.value),
                            !.clean = ~x.started]]
  <2>1. PICK d : d = Extended(x.content, multi, e)
    OBVIOUS
  <2>2. PICK n : n = ValueBufferLen(x.content, multi, e.value)
    OBVIOUS
  <2>3. IsContent(x.content)
    BY <1>2 DEF Fits
  <2>4. /\ IsContent(d) /\ d.kind = multi /\ n \in Nat /\ Keeps(x.content, d)
        /\ IsMulti(multi) => n <= DataLen(d)
    BY <1>6, <2>1, <2>2, <2>3, ExtendedFits
  <2>5. PICK c \in BOOLEAN : c = ~x.started
    OBVIOUS
  <2>6. PICK y : y = [x EXCEPT !.content = d, !.cbList = 4 + n, !.clean = c]
    OBVIOUS
  <2>7. y \in EaIndex
    <3>1. d \in Content /\ 4 + n \in Nat
      BY <2>4 DEF IsContent
    <3> QED BY <1>2, <2>5, <2>6, <3>1 DEF EaIndex
  <2>8. /\ y.content = d /\ y.cbList = 4 + n /\ y.clean = c /\ y.started = x.started
        /\ y.owner = t /\ y.ea = x.ea
    BY <1>2, <2>6 DEF EaIndex
  <2>9. Fits(y)
    <3>1. ~(y.started /\ y.clean)
      BY <2>5, <2>8
    <3>2. IsMulti(d.kind) => 4 + n <= 4 + DataLen(d)
      <4>1. DataLen(d) \in Nat
        BY <2>4, Lengths DEF IsContent
      <4> QED BY <2>4, <4>1
    <3>3. d.kind # "none"
      BY <2>4
    <3> QED BY <2>4, <2>8, <3>1, <3>2, <3>3 DEF Fits
  <2>10. eaindex' = [eaindex EXCEPT ![hea[t]] = y]
    BY <1>6, <2>1, <2>2, <2>5, <2>6
  <2>11. Updates(t)
    BY <1>1, <2>7, <2>8, <2>9, <2>10 DEF Updates
  <2>12. eaindex'[hea[t]].content = d
    BY <1>0, <2>8, <2>10
  <2>13. pc'[t] = next /\ ret'[t] = [rc |-> "NO_ERROR"]
    BY <1>0, <1>6 DEF Goes
  <2>14. pc' = [pc EXCEPT ![t] = pc'[t]] /\ ret' = [ret EXCEPT ![t] = ret'[t]]
    BY <1>6, <2>13 DEF Goes
  <2> QED BY <1>1, <2>4, <2>11, <2>12, <2>13, <2>14
<1> QED BY <1>1, <1>4, <1>5, <1>6 DEF AppendValue

-----------------------------------------------------------------------------
(* What the calls do.                                                      *)

DiskKept(t) == UNCHANGED disk \/ (Saves(t) /\ (pc[t] = "save" \/ "handle" \in mode.calls))

LEMMA OneThread ==
  ASSUME EaInv, NEW t \in Thread
  PROVE  /\ UNCHANGED pc => pc'[t] = pc[t] /\ pc' = [pc EXCEPT ![t] = pc'[t]]
         /\ UNCHANGED task => task'[t] = task[t] /\ task' = [task EXCEPT ![t] = task'[t]]
         /\ UNCHANGED hea => hea'[t] = hea[t] /\ hea' = [hea EXCEPT ![t] = hea'[t]]
         /\ UNCHANGED ret => ret'[t] = ret[t] /\ ret' = [ret EXCEPT ![t] = ret'[t]]
         /\ \A v : pc' = [pc EXCEPT ![t] = v] => pc'[t] = v /\ pc' = [pc EXCEPT ![t] = pc'[t]]
         /\ \A v : task' = [task EXCEPT ![t] = v] => task'[t] = v /\ task' = [task EXCEPT ![t] = task'[t]]
         /\ \A v : hea' = [hea EXCEPT ![t] = v] => hea'[t] = v /\ hea' = [hea EXCEPT ![t] = hea'[t]]
         /\ \A v : ret' = [ret EXCEPT ![t] = v] => ret'[t] = v /\ ret' = [ret EXCEPT ![t] = ret'[t]]
         /\ task[t] \in Task /\ hea[t] \in Block \cup {Null}
         /\ changes \in 0 .. mode.changes
         /\ task[t].call = "readString" => mode.serial
<1>1. /\ pc = [u \in Thread |-> pc[u]] /\ task \in [Thread -> Task] /\ hea \in [Thread -> Block \cup {Null}]
      /\ ret = [u \in Thread |-> ret[u]] /\ changes \in 0 .. mode.changes
  BY DEF EaInv, Typed
<1>2. DOMAIN pc = Thread /\ DOMAIN task = Thread /\ DOMAIN hea = Thread /\ DOMAIN ret = Thread
  BY <1>1
<1>3. task[t].call = "readString" => mode.serial
  BY DEF EaInv, Holds, AtWork
<1> QED BY <1>1, <1>2, <1>3

LEMMA Begins ==
  ASSUME EaInv, NEW t \in Thread, NEW c, Begin(t, c)
  PROVE  /\ pc[t] = "idle" /\ c \in mode.calls /\ changes' \in 0 .. mode.changes
         /\ mode.serial => \A u \in Thread : pc[u] = "idle"
         /\ InTurn(t)
         /\ mode.multi \subseteq {"SVST", "MVMT", "MVST"}
         /\ c = "readString" => mode.serial
         /\ hea[t] # Null => Mine(t) /\ hea[t] \in Block
<1>1. mode \in Modes /\ changes \in 0 .. mode.changes
  BY DEF EaInv, Typed
<1>2. mode.changes \in Nat /\ mode.multi \subseteq {"SVST", "MVMT", "MVST"}
      /\ (mode.serial \/ "readString" \notin mode.calls)
  <2>1. mode \in Mode
    BY <1>1, EaAssumption
  <2> QED BY <1>1, <2>1, EaAssumption DEF Mode
<1>3. pc[t] = "idle" /\ c \in mode.calls /\ changes < mode.changes /\ changes' = changes + 1
      /\ (mode.serial => \A u \in Thread : pc[u] = "idle")
  BY DEF Begin
<1>4. changes' \in 0 .. mode.changes
  BY <1>1, <1>2, <1>3
<1>5. hea[t] # Null => Mine(t) /\ hea[t] \in Block
  BY <1>3, OneThread DEF EaInv, Holds, AtWork
<1> QED BY <1>2, <1>3, <1>4, <1>5 DEF InTurn

LEMMA ReadEaKept ==
  ASSUME EaInv, NEW t \in Thread, NEW ea \in Ea, NEW create \in BOOLEAN, WtkReadEa(t, ea, create)
  PROVE  EaInv' /\ DiskKept(t)
<1>1. /\ Begin(t, "handle") /\ hea[t] = Null /\ Read(t, ea, create, "idle", "idle")
      /\ UNCHANGED <<mode, disk, task, versions>>
  BY DEF WtkReadEa
<1>2. changes' \in 0 .. mode.changes /\ InTurn(t) /\ (mode.serial => \A u \in Thread : pc[u] = "idle")
  BY <1>1, Begins
<1>3. /\ pc' = [pc EXCEPT ![t] = pc'[t]] /\ hea' = [hea EXCEPT ![t] = hea'[t]]
      /\ ret' = [ret EXCEPT ![t] = ret'[t]] /\ ret'[t].rc # "overrun"
      /\ pc'[t] = "idle" /\ (Stays(t) \/ Opens(t)) /\ (hea'[t] # Null => Mine(t)')
  BY <1>1, <1>2, Reads
<1>4. /\ Only(t) /\ task'[t] \in Task /\ task'[t] = task[t]
      /\ task[t].call = "readString" => mode.serial
  BY <1>1, <1>3, OneThread DEF Only
<1>5. AtWork(t)' /\ Puts(t)'
  BY <1>1, <1>3, <1>4 DEF AtWork, Puts
<1>6. EaInv'
  BY <1>1, <1>2, <1>3, <1>4, <1>5, StepKept
<1> QED BY <1>1, <1>6 DEF DiskKept

LEMMA CloseEaKept ==
  ASSUME EaInv, NEW t \in Thread, WtkCloseEa(t)
  PROVE  EaInv' /\ DiskKept(t)
<1>1. /\ pc[t] = "idle" /\ hea[t] # Null /\ eaindex' = [eaindex EXCEPT ![hea[t]] = Free]
      /\ hea' = [hea EXCEPT ![t] = Null]
      /\ UNCHANGED <<mode, disk, pc, task, ret, versions, changes>>
  BY DEF WtkCloseEa, Close
<1>2. Mine(t) /\ ret[t].rc # "overrun"
  BY <1>1 DEF EaInv, Holds, AtWork
<1>3. Only(t) /\ task'[t] \in Task /\ changes' \in 0 .. mode.changes /\ pc'[t] = "idle" /\ hea'[t] = Null /\ ret'[t] = ret[t]
      /\ task'[t] = task[t] /\ (task[t].call = "readString" => mode.serial)
  BY <1>1, OneThread DEF Only
<1>4. Closes(t) /\ InTurn(t)
  BY <1>1, <1>2, <1>3 DEF Closes, InTurn
<1>5. AtWork(t)' /\ Puts(t)'
  BY <1>1, <1>2, <1>3 DEF AtWork, Puts
<1>6. EaInv'
  BY <1>1, <1>3, <1>4, <1>5, StepKept
<1> QED BY <1>1, <1>6 DEF DiskKept

(* A search by the application.                                            *)
LEMMA SearchKept ==
  ASSUME EaInv, NEW t \in Thread, Only(t), InTurn(t), UNCHANGED <<mode, disk, task, hea>>,
         changes' \in 0 .. mode.changes, hea[t] # Null, Updates(t), ret'[t].rc # "overrun",
         \/ pc'[t] \in {"idle", "trap"}
         \/ pc'[t] = "ended" /\ task[t].call \in {"getNext", "readString"}
  PROVE  EaInv' /\ DiskKept(t)
<1>1. Mine(t)' /\ hea'[t] = hea[t] /\ task'[t] = task[t] /\ task[t] \in Task
            /\ (task[t].call = "readString" => mode.serial)
  <2>1. task'[t] = task[t] /\ task[t] \in Task /\ (task[t].call = "readString" => mode.serial) /\ hea'[t] = hea[t]
        /\ hea[t] \in Block
    BY OneThread
  <2>2. Mine(t)'
    <3>1. PICK x \in EaIndex : x.owner = t /\ eaindex' = [eaindex EXCEPT ![hea[t]] = x]
      BY DEF Updates
    <3>2. eaindex'[hea[t]] = x
      BY <2>1, <3>1 DEF EaInv, Typed
    <3> QED BY <2>1, <3>1, <3>2 DEF Mine, EaIndex
  <2> QED BY <2>1, <2>2
<1>2. AtWork(t)' /\ Puts(t)'
  BY <1>1 DEF AtWork, Puts
<1>3. EaInv'
  BY <1>1, <1>2, StepKept
<1> QED BY <1>3 DEF DiskKept

LEMMA FindFirstKept ==
  ASSUME EaInv, NEW t \in Thread, NEW type \in Type \cup {AnyType}, NEW len \in Buflen,
         WtkFindFirstEaValue(t, type, len)
  PROVE  EaInv' /\ DiskKept(t)
<1>1. Begin(t, "handle") /\ hea[t] # Null /\ UNCHANGED <<mode, disk, task, hea, versions>>
  BY DEF WtkFindFirstEaValue
<1>2. changes' \in 0 .. mode.changes /\ InTurn(t) /\ Mine(t) /\ hea[t] \in Block
  BY <1>1, Begins
<1>3. eaindex[hea[t]] \in EaIndex /\ Fits(eaindex[hea[t]]) /\ eaindex[hea[t]].owner = t
  BY <1>2 DEF EaInv, Typed, Mine, Free
<1>4. CASE /\ Goes(t, "idle", [rc |-> "ERROR_NO_MORE_FILES"])
           /\ eaindex' = [eaindex EXCEPT ![hea[t]] = [eaindex[hea[t]] EXCEPT !.clean = FALSE]]
  <2>1. PICK x : x = [eaindex[hea[t]] EXCEPT !.clean = FALSE]
    OBVIOUS
  <2>2. x \in EaIndex
    <3>1. PICK c \in BOOLEAN : c = FALSE
      OBVIOUS
    <3>2. x = [eaindex[hea[t]] EXCEPT !.clean = c]
      BY <2>1, <3>1
    <3> QED BY <1>3, <3>2 DEF EaIndex
  <2>3. /\ x.owner = t /\ x.ea = eaindex[hea[t]].ea /\ x.content = eaindex[hea[t]].content
        /\ x.cbList = eaindex[hea[t]].cbList /\ ~x.clean
    BY <1>3, <2>1 DEF EaIndex
  <2>4. Fits(x)
    BY <1>3, <2>3 DEF Fits
  <2>5. Updates(t)
    <3>1. eaindex' = [eaindex EXCEPT ![hea[t]] = x]
      BY <1>4, <2>1
    <3>2. \E y \in EaIndex : /\ y.owner = t /\ y.ea = eaindex[hea[t]].ea /\ Fits(y)
                            /\ eaindex' = [eaindex EXCEPT ![hea[t]] = y]
      BY <2>2, <2>3, <2>4, <3>1
    <3>3. hea[t] # Null /\ Mine(t) /\ hea'[t] = hea[t]
      BY <1>1, <1>2
    <3> QED BY <3>2, <3>3 DEF Updates
  <2>6. PICK r : r = [rc |-> "ERROR_NO_MORE_FILES"]
    OBVIOUS
  <2>7. ret' = [ret EXCEPT ![t] = r] /\ pc' = [pc EXCEPT ![t] = "idle"]
    BY <1>4, <2>6 DEF Goes
  <2>8. /\ pc' = [pc EXCEPT ![t] = pc'[t]] /\ ret' = [ret EXCEPT ![t] = ret'[t]]
        /\ ret'[t].rc # "overrun" /\ pc'[t] = "idle"
    <3>1. pc' = [pc EXCEPT ![t] = pc'[t]] /\ pc'[t] = "idle"
      BY <2>7, OneThread
    <3>2. ret' = [ret EXCEPT ![t] = ret'[t]] /\ ret'[t] = r
      BY <2>7, OneThread
    <3>3. r.rc # "overrun"
      BY <2>6
    <3> QED BY <3>1, <3>2, <3>3
  <2>9. Only(t)
    BY <1>1, <2>8, OneThread DEF Only
  <2> QED BY <1>1, <1>2, <2>5, <2>8, <2>9, SearchKept
<1>5. CASE FindNext(t, [eaindex[hea[t]] EXCEPT !.type = type, !.index = 0, !.started = TRUE,
                                               !.seen = <<>>, !.clean = TRUE], len, "idle", "idle")
  <2>1. PICK x : x = [eaindex[hea[t]] EXCEPT !.type = type, !.index = 0, !.started = TRUE,
                                             !.seen = <<>>, !.clean = TRUE]
    OBVIOUS
  <2>2. x \in EaIndex
    <3>1. 0 \in Nat /\ <<>> \in Seq(Entry)
      OBVIOUS
    <3>2. PICK c \in BOOLEAN : c = TRUE
      OBVIOUS
    <3>3. x = [eaindex[hea[t]] EXCEPT !.type = type, !.index = 0, !.started = c, !.seen = <<>>, !.clean = c]
      BY <2>1, <3>2
    <3> QED BY <1>3, <3>1, <3>3 DEF EaIndex
  <2>3. /\ x.owner = t /\ x.ea = eaindex[hea[t]].ea /\ x.content = eaindex[hea[t]].content
        /\ x.cbList = eaindex[hea[t]].cbList /\ x.index = 0 /\ x.seen = <<>>
    BY <1>3, <2>1 DEF EaIndex
  <2>4. Fits(x)
    <3>1. Selected(x) \in Seq(Entry)
      BY <1>3, <2>3, SelectedIsSeq DEF Fits
    <3>2. 0 # End /\ 0 \in 0 .. Len(Selected(x)) /\ <<>> = SubSeq(Selected(x), 1, 0)
      BY <3>1 DEF End
    <3> QED BY <1>3, <2>3, <3>2 DEF Fits
  <2>5. FindNext(t, x, len, "idle", "idle")
    BY <1>5, <2>1
  <2>6. /\ pc' = [pc EXCEPT ![t] = pc'[t]] /\ ret' = [ret EXCEPT ![t] = ret'[t]]
        /\ ret'[t].rc # "overrun" /\ pc'[t] \in {"idle", "trap"} /\ Updates(t)
    BY <1>1, <1>2, <2>2, <2>3, <2>4, <2>5, Finds
  <2>7. Only(t)
    BY <1>1, <2>6, OneThread DEF Only
  <2> QED BY <1>1, <1>2, <2>6, <2>7, SearchKept
<1> QED BY <1>4, <1>5 DEF WtkFindFirstEaValue

LEMMA FindNextKept ==
  ASSUME EaInv, NEW t \in Thread, NEW len, NEW over, Begin(t, "handle") \/ Begin(t, "getNext"),
         hea[t] # Null, over = "idle" \/ (over = "ended" /\ task[t].call = "getNext"),
         FindNext(t, eaindex[hea[t]], len, "idle", over), UNCHANGED <<mode, disk, task, hea, versions>>
  PROVE  EaInv' /\ DiskKept(t)
<1>1. changes' \in 0 .. mode.changes /\ InTurn(t) /\ Mine(t) /\ hea[t] \in Block
  BY Begins
<1>2. PICK x : x = eaindex[hea[t]]
  OBVIOUS
<1>3. x \in EaIndex /\ Fits(x) /\ x.owner = t /\ x.ea = eaindex[hea[t]].ea
  BY <1>1, <1>2 DEF EaInv, Typed, Mine, Free
<1>4. /\ pc' = [pc EXCEPT ![t] = pc'[t]] /\ ret' = [ret EXCEPT ![t] = ret'[t]]
      /\ ret'[t].rc # "overrun" /\ pc'[t] \in {"idle", over, "trap"} /\ Updates(t)
  <2>1. FindNext(t, x, len, "idle", over) /\ UNCHANGED hea
    BY <1>2
  <2> QED BY <1>1, <1>3, <2>1, Finds
<1>5. Only(t)
  BY <1>4, OneThread DEF Only
<1>6. \/ pc'[t] \in {"idle", "trap"}
      \/ pc'[t] = "ended" /\ task[t].call \in {"getNext", "readString"}
  BY <1>4
<1> QED BY <1>1, <1>4, <1>5, <1>6, SearchKept

(* The thread has its handle afterwards, for what Appends returns.         *)
LEMMA StillMine ==
  ASSUME EaInv, NEW t \in Thread, hea[t] # Null, Mine(t), Updates(t) \/ Stays(t), UNCHANGED hea
  PROVE  /\ Mine(t)' /\ eaindex'[hea[t]].ea = eaindex[hea[t]].ea
         /\ Stays(t) => eaindex'[hea[t]].content = eaindex[hea[t]].content
<1>1. hea[t] \in Block /\ eaindex \in [Block -> {Free} \cup EaIndex]
  BY DEF EaInv, Typed
<1>2. CASE Updates(t)
  <2>1. PICK x \in EaIndex : x.owner = t /\ x.ea = eaindex[hea[t]].ea /\ eaindex' = [eaindex EXCEPT ![hea[t]] = x]
    BY <1>2 DEF Updates
  <2>2. eaindex'[hea[t]] = x /\ x.used
    BY <1>1, <2>1 DEF EaIndex
  <2>3. Stays(t) => eaindex'[hea[t]].content = eaindex[hea[t]].content
    BY DEF Stays
  <2> QED BY <2>1, <2>2, <2>3 DEF Mine
<1>3. CASE Stays(t)
  BY <1>3 DEF Stays, Mine
<1> QED BY <1>2, <1>3

LEMMA AppendEaKept ==
  ASSUME EaInv, NEW t \in Thread, NEW multi \in mode.multi, NEW e \in Entry, WtkAppendEaValue(t, multi, e)
  PROVE  EaInv' /\ DiskKept(t)
<1>1. /\ Begin(t, "handle") /\ hea[t] # Null /\ AppendValue(t, multi, e, "idle", "idle")
      /\ UNCHANGED <<mode, disk, task, hea, versions>>
  BY DEF WtkAppendEaValue
<1>2. changes' \in 0 .. mode.changes /\ InTurn(t) /\ Mine(t) /\ hea[t] \in Block /\ multi \in {"SVST", "MVMT", "MVST"}
  BY <1>1, Begins
<1>3. /\ pc' = [pc EXCEPT ![t] = pc'[t]] /\ ret' = [ret EXCEPT ![t] = ret'[t]]
      /\ \/ pc'[t] = "idle" /\ Stays(t) /\ ret'[t].rc # "overrun"
         \/ /\ pc'[t] = "trap" /\ Stays(t)
            /\ ret'[t].rc = "overrun" => eaindex[hea[t]].content.kind \in {"SVST", "odd"}
         \/ pc'[t] = "idle" /\ Updates(t) /\ ret'[t].rc # "overrun"
  BY <1>1, <1>2, Appends
<1>4. /\ Only(t) /\ task'[t] \in Task /\ task'[t] = task[t] /\ hea'[t] = hea[t]
      /\ task[t].call = "readString" => mode.serial
  BY <1>1, <1>3, OneThread DEF Only
<1>5. Mine(t)' /\ (Stays(t) => eaindex'[hea[t]].content = eaindex[hea[t]].content)
  BY <1>1, <1>2, <1>3, StillMine
<1>6. AtWork(t)' /\ Puts(t)'
  BY <1>1, <1>3, <1>4, <1>5 DEF AtWork, Puts
<1>7. EaInv'
  BY <1>1, <1>2, <1>3, <1>4, <1>6, StepKept
<1> QED BY <1>1, <1>7 DEF DiskKept

LEMMA SaveEaKept ==
  ASSUME EaInv, NEW t \in Thread, WtkSaveEa(t)
  PROVE  EaInv' /\ DiskKept(t)
<1>1. /\ Begin(t, "handle") /\ hea[t] # Null /\ Save(eaindex[hea[t]]) /\ Goes(t, "idle", [rc |-> "NO_ERROR"])
      /\ UNCHANGED <<mode, eaindex, task, hea>>
  BY DEF WtkSaveEa
<1>2. changes' \in 0 .. mode.changes /\ InTurn(t) /\ Mine(t) /\ "handle" \in mode.calls
  BY <1>1, Begins
<1>3. /\ Only(t) /\ task'[t] \in Task /\ task'[t] = task[t] /\ hea'[t] = hea[t] /\ pc'[t] = "idle"
      /\ ret'[t] = [rc |-> "NO_ERROR"] /\ (task[t].call = "readString" => mode.serial)
  BY <1>1, OneThread DEF Only, Goes
<1>4. Saves(t) /\ Stays(t)
  BY <1>1, <1>2, <1>3 DEF Saves, Save, Stays
<1>5. AtWork(t)' /\ Puts(t)'
  BY <1>1, <1>2, <1>3 DEF AtWork, Puts, Mine
<1>6. EaInv'
  BY <1>1, <1>2, <1>3, <1>4, <1>5, StepKept
<1> QED BY <1>2, <1>4, <1>6 DEF DiskKept

(* The first step of the calls that do all at once.                        *)
LEMMA CallBegins ==
  ASSUME EaInv, NEW t \in Thread, NEW c, Begin(t, c), NEW ea \in Ea, NEW create \in BOOLEAN, NEW task1 \in Task,
         NEW next \in {"append", "first"}, NEW failed \in {"idle", "trap"}, hea[t] = Null,
         task' = [task EXCEPT ![t] = task1], Read(t, ea, create, next, failed), UNCHANGED <<mode, disk>>,
         next = "append" => task1.call = "put" /\ (create => "writeString" \in mode.calls),
         next = "first" => task1.call \in {"getNext", "readString"},
         task1.call = "readString" => mode.serial
  PROVE  EaInv' /\ DiskKept(t)
<1>1. changes' \in 0 .. mode.changes /\ InTurn(t) /\ (mode.serial => \A u \in Thread : pc[u] = "idle")
  BY Begins
<1>2. /\ pc' = [pc EXCEPT ![t] = pc'[t]] /\ hea' = [hea EXCEPT ![t] = hea'[t]]
      /\ ret' = [ret EXCEPT ![t] = ret'[t]] /\ ret'[t].rc # "overrun"
      /\ \/ pc'[t] = failed /\ Stays(t) /\ hea'[t] = Null
         \/ /\ pc'[t] = next /\ Opens(t) /\ hea'[t] # Null /\ Mine(t)'
            /\ LET x == eaindex'[hea'[t]]
               IN  /\ x.index = 0 /\ x.seen = <<>> /\ x.ea = ea
                   /\ x.content = IF create THEN Empty ELSE disk[ea]
  BY <1>1, Reads
<1>3. Only(t) /\ task'[t] = task1
  BY <1>2, OneThread DEF Only
<1>4. AtWork(t)'
  BY <1>2, <1>3 DEF AtWork
<1>5. Quiet => Puts(t)'
  BY <1>2, <1>3 DEF Puts, Quiet
<1>6. EaInv'
  <2>1. (Stays(t) \/ Opens(t)) /\ pc'[t] \in {"idle", "trap", "append", "first"}
    BY <1>2
  <2> QED BY <1>1, <1>3, <1>4, <1>5, <2>1, StepKept
<1> QED BY <1>6 DEF DiskKept

LEMMA PutEaValueKept ==
  ASSUME EaInv, NEW t \in Thread, NEW ea \in Ea, NEW multi \in mode.multi, NEW e \in Entry,
         WtkPutEaValue(t, ea, multi, e)
  PROVE  EaInv' /\ DiskKept(t)
<1>1. Begin(t, "put") /\ hea[t] = Null /\ UNCHANGED <<mode, disk>>
  BY DEF WtkPutEaValue
<1>2. PICK k : k = [call |-> "put", multi |-> multi, entry |-> e]
  OBVIOUS
<1>3. k \in Task /\ k.call = "put"
  <2>1. multi \in {"SVST", "MVMT", "MVST"}
    BY <1>1, Begins
  <2> QED BY <1>2, <2>1 DEF Task
<1>4. task' = [task EXCEPT ![t] = k] /\ Read(t, ea, FALSE, "append", "idle")
  BY <1>2 DEF WtkPutEaValue
<1> QED BY <1>1, <1>3, <1>4, CallBegins

LEMMA WriteStringKept ==
  ASSUME EaInv, NEW t \in Thread, NEW ea \in Ea, NEW value \in Value, WtkWriteStringEa(t, ea, value)
  PROVE  EaInv' /\ DiskKept(t)
<1>1. Begin(t, "writeString") /\ hea[t] = Null /\ UNCHANGED <<mode, disk>>
  BY DEF WtkWriteStringEa
<1>2. PICK k : k = [call |-> "put", multi |-> "SVST", entry |-> [type |-> Text, value |-> value]]
  OBVIOUS
<1>3. k \in Task /\ k.call = "put"
  <2>1. [type |-> Text, value |-> value] \in Entry
    BY EaAssumption DEF Entry
  <2> QED BY <1>2, <2>1 DEF Task
<1>4. task' = [task EXCEPT ![t] = k] /\ Read(t, ea, TRUE, "append", "idle")
  BY <1>2 DEF WtkWriteStringEa
<1>5. "writeString" \in mode.calls
  BY <1>1, Begins
<1> QED BY <1>1, <1>3, <1>4, <1>5, CallBegins

LEMMA GetNextKept ==
  ASSUME EaInv, NEW t \in Thread, NEW ea \in Ea, NEW type \in Type \cup {AnyType}, NEW len \in Buflen,
         WtkGetNextEaValue(t, ea, type, len)
  PROVE  EaInv' /\ DiskKept(t)
<1>1. Begin(t, "getNext") /\ hea[t] = Null /\ UNCHANGED <<mode, disk>>
  BY DEF WtkGetNextEaValue
<1>2. PICK k : k = [call |-> "getNext", type |-> type, len |-> len]
  OBVIOUS
<1>3. k \in Task /\ k.call = "getNext"
  BY <1>2 DEF Task
<1>4. task' = [task EXCEPT ![t] = k] /\ Read(t, ea, FALSE, "first", "idle")
  BY <1>2 DEF WtkGetNextEaValue
<1> QED BY <1>1, <1>3, <1>4, CallBegins

LEMMA ReadStringKept ==
  ASSUME EaInv, NEW t \in Thread, NEW ea \in Ea, NEW len \in Buflen, WtkReadStringEa(t, ea, len)
  PROVE  EaInv' /\ DiskKept(t)
<1>1. Begin(t, "readString") /\ hea[t] = Null /\ UNCHANGED <<mode, disk>>
  BY DEF WtkReadStringEa
<1>2. PICK k : k = [call |-> "readString", type |-> Text, len |-> len]
  OBVIOUS
<1>3. k \in Task /\ k.call = "readString"
  BY <1>2, EaAssumption DEF Task
<1>4. task' = [task EXCEPT ![t] = k] /\ Read(t, ea, FALSE, "first", "trap")
  BY <1>2 DEF WtkReadStringEa
<1>5. mode.serial
  BY <1>1, Begins
<1> QED BY <1>1, <1>3, <1>4, <1>5, CallBegins

LEMMA PutAppendsKept ==
  ASSUME EaInv, NEW t \in Thread, PutAppends(t)
  PROVE  EaInv' /\ DiskKept(t)
<1>1. /\ pc[t] = "append" /\ AppendValue(t, task[t].multi, task[t].entry, "save", "close")
      /\ UNCHANGED <<mode, disk, task, hea, versions, changes>>
  BY DEF PutAppends
<1>2. hea[t] # Null /\ Mine(t) /\ task[t].call = "put" /\ InTurn(t)
  BY <1>1 DEF EaInv, Holds, AtWork, InTurn
<1>3. task[t].multi \in {"SVST", "MVMT", "MVST"} /\ task[t].entry \in Entry
  <2>1. task[t] \in Task
    BY OneThread
  <2> QED BY <1>2, <2>1 DEF Task
<1>4. /\ pc' = [pc EXCEPT ![t] = pc'[t]] /\ ret' = [ret EXCEPT ![t] = ret'[t]]
      /\ \/ pc'[t] = "close" /\ Stays(t) /\ ret'[t].rc # "overrun"
         \/ /\ pc'[t] = "trap" /\ Stays(t)
            /\ ret'[t].rc = "overrun" => eaindex[hea[t]].content.kind \in {"SVST", "odd"}
         \/ /\ pc'[t] = "save" /\ Updates(t) /\ ret'[t].rc # "overrun"
            /\ Keeps(eaindex[hea[t]].content, eaindex'[hea[t]].content)
  BY <1>1, <1>2, <1>3, Appends
<1>5. /\ Only(t) /\ task'[t] \in Task /\ task'[t] = task[t] /\ hea'[t] = hea[t] /\ changes' \in 0 .. mode.changes
      /\ task[t].call = "readString" => mode.serial
  BY <1>1, <1>4, OneThread DEF Only
<1>6. /\ Mine(t)' /\ eaindex'[hea[t]].ea = eaindex[hea[t]].ea
      /\ Stays(t) => eaindex'[hea[t]].content = eaindex[hea[t]].content
  BY <1>1, <1>2, <1>4, StillMine
<1>7. AtWork(t)'
  BY <1>1, <1>2, <1>4, <1>5, <1>6 DEF AtWork
<1>8. Quiet => Puts(t)'
  <2> SUFFICES ASSUME Quiet PROVE Puts(t)'
    OBVIOUS
  <2>1. eaindex[hea[t]].content = disk[eaindex[hea[t]].ea]
    BY <1>1 DEF EaInv, PutsMore, Puts, Quiet
  <2> QED BY <1>1, <1>4, <1>5, <1>6, <2>1 DEF Puts
<1>9. EaInv'
  <2>1. (Stays(t) \/ Updates(t)) /\ pc'[t] \in {"close", "trap", "save"}
    BY <1>4
  <2> QED BY <1>1, <1>2, <1>5, <1>7, <1>8, <2>1, StepKept
<1> QED BY <1>1, <1>9 DEF DiskKept

LEMMA PutSavesKept ==
  ASSUME EaInv, NEW t \in Thread, PutSaves(t)
  PROVE  EaInv' /\ DiskKept(t)
<1>1. /\ pc[t] = "save" /\ Save(eaindex[hea[t]]) /\ Goes(t, "close", [rc |-> "NO_ERROR"])
      /\ UNCHANGED <<mode, eaindex, task, hea, changes>>
  BY DEF PutSaves
<1>2. hea[t] # Null /\ Mine(t) /\ task[t].call = "put" /\ InTurn(t)
  BY <1>1 DEF EaInv, Holds, AtWork, InTurn
<1>3. /\ Only(t) /\ task'[t] \in Task /\ task'[t] = task[t] /\ hea'[t] = hea[t] /\ pc'[t] = "close"
      /\ ret'[t] = [rc |-> "NO_ERROR"] /\ changes' \in 0 .. mode.changes
  BY <1>1, OneThread DEF Only, Goes
<1>4. Saves(t) /\ Stays(t)
  BY <1>1, <1>2, <1>3 DEF Saves, Save, Stays
<1>5. AtWork(t)' /\ Puts(t)'
  BY <1>1, <1>2, <1>3 DEF AtWork, Puts, Mine
<1>6. EaInv'
  BY <1>1, <1>2, <1>3, <1>4, <1>5, StepKept
<1> QED BY <1>1, <1>4, <1>6 DEF DiskKept

LEMMA FindsFirstKept ==
  ASSUME EaInv, NEW t \in Thread, FindsFirst(t)
  PROVE  EaInv' /\ DiskKept(t)
<1>1. /\ pc[t] = "first"
      /\ UNCHANGED <<mode, disk, task, hea, versions, changes>>
  BY DEF FindsFirst
<1>2. /\ hea[t] # Null /\ Mine(t) /\ task[t].call \in {"getNext", "readString"} /\ InTurn(t)
      /\ eaindex[hea[t]].index = 0 /\ eaindex[hea[t]].seen = <<>>
  BY <1>1 DEF EaInv, Holds, AtWork, InTurn
<1>3. /\ eaindex[hea[t]] \in EaIndex /\ Fits(eaindex[hea[t]]) /\ eaindex[hea[t]].owner = t
      /\ task[t].type \in Type \cup {AnyType}
  <2>1. task[t] \in Task /\ hea[t] \in Block
    BY <1>2, OneThread
  <2>2. task[t].type \in Type \cup {AnyType}
    BY <1>2, <2>1 DEF Task
  <2> QED BY <1>2, <2>1, <2>2 DEF EaInv, Typed, Mine, Free
<1>4. PICK x : x = [eaindex[hea[t]] EXCEPT !.type = task[t].type, !.started = TRUE]
  OBVIOUS
<1>5. x \in EaIndex
  <2>1. PICK c \in BOOLEAN : c = TRUE
    OBVIOUS
  <2>2. x = [eaindex[hea[t]] EXCEPT !.type = task[t].type, !.started = c]
    BY <1>4, <2>1
  <2> QED BY <1>3, <2>2 DEF EaIndex
<1>6. /\ x.owner = t /\ x.ea = eaindex[hea[t]].ea /\ x.content = eaindex[hea[t]].content
      /\ x.cbList = eaindex[hea[t]].cbList /\ x.index = 0 /\ x.seen = <<>>
  BY <1>2, <1>3, <1>4 DEF EaIndex
<1>7. Fits(x)
  <2>1. Selected(x) \in Seq(Entry)
    BY <1>3, <1>6, SelectedIsSeq DEF Fits
  <2>2. 0 # End /\ 0 \in 0 .. Len(Selected(x)) /\ <<>> = SubSeq(Selected(x), 1, 0)
    BY <2>1 DEF End
  <2> QED BY <1>3, <1>6, <2>2 DEF Fits
<1>8. PICK next : next = IF task[t].call = "getNext" THEN "idle" ELSE "close"
  OBVIOUS
<1>9. /\ pc' = [pc EXCEPT ![t] = pc'[t]] /\ ret' = [ret EXCEPT ![t] = ret'[t]]
      /\ ret'[t].rc # "overrun" /\ pc'[t] \in {next, "ended", "trap"} /\ Updates(t)
  <2>1. FindNext(t, x, task[t].len, next, "ended")
    BY <1>4, <1>8 DEF FindsFirst
  <2>2. UNCHANGED hea
    BY <1>1
  <2> QED BY <1>2, <1>5, <1>6, <1>7, <2>1, <2>2, Finds
<1>10. /\ Only(t) /\ task'[t] \in Task /\ task'[t] = task[t] /\ hea'[t] = hea[t] /\ changes' \in 0 .. mode.changes
       /\ task[t].call = "readString" => mode.serial
  BY <1>1, <1>9, OneThread DEF Only
<1>11. Mine(t)'
  BY <1>1, <1>2, <1>9, StillMine
<1>12. pc'[t] \in {"idle", "ended", "trap"} \/ (pc'[t] = "close" /\ task[t].call = "readString")
  BY <1>2, <1>8, <1>9
<1>13. AtWork(t)' /\ Puts(t)'
  BY <1>1, <1>2, <1>9, <1>10, <1>11, <1>12 DEF AtWork, Puts
<1>14. EaInv'
  <2>1. pc'[t] \in {"idle", "ended", "trap", "close"}
    BY <1>12
  <2> QED BY <1>1, <1>2, <1>9, <1>10, <1>13, <2>1, StepKept
<1> QED BY <1>1, <1>14 DEF DiskKept

LEMMA ImplicitCloseKept ==
  ASSUME EaInv, NEW t \in Thread, ImplicitClose(t)
  PROVE  EaInv' /\ DiskKept(t)
<1>1. /\ pc[t] = "ended" /\ eaindex' = [eaindex EXCEPT ![hea[t]] = Free]
      /\ pc' = [pc EXCEPT ![t] = "close"]
      /\ UNCHANGED <<mode, disk, task, hea, ret, versions, changes>>
  BY DEF ImplicitClose, Close
<1>2. /\ hea[t] # Null /\ Mine(t) /\ task[t].call \in {"getNext", "readString"} /\ InTurn(t) /\ ret[t].rc # "overrun"
  BY <1>1 DEF EaInv, Holds, AtWork, InTurn
<1>3. /\ Only(t) /\ task'[t] \in Task /\ task'[t] = task[t] /\ hea'[t] = hea[t] /\ pc'[t] = "close" /\ ret'[t] = ret[t]
      /\ changes' \in 0 .. mode.changes /\ (task[t].call = "readString" => mode.serial) /\ hea[t] \in Block \cup {Null}
  BY <1>1, OneThread DEF Only
<1>4. ~eaindex'[hea[t]].used
  BY <1>1, <1>2, <1>3 DEF EaInv, Typed, Free
<1>5. Closes(t)
  BY <1>1, <1>2, <1>3 DEF Closes
<1>6. AtWork(t)' /\ Puts(t)'
  BY <1>1, <1>2, <1>3, <1>4 DEF AtWork, Puts, Mine
<1>7. EaInv'
  BY <1>1, <1>2, <1>3, <1>5, <1>6, StepKept
<1> QED BY <1>1, <1>7 DEF DiskKept

LEMMA CallEndsKept ==
  ASSUME EaInv, NEW t \in Thread, CallEnds(t)
  PROVE  EaInv' /\ DiskKept(t)
<1>1. /\ pc[t] = "close" /\ hea' = [hea EXCEPT ![t] = Null] /\ pc' = [pc EXCEPT ![t] = "idle"]
      /\ UNCHANGED <<mode, disk, task, ret, versions, changes>>
  BY DEF CallEnds
<1>2. /\ hea[t] # Null /\ ret[t].rc # "overrun"
      /\ \/ task[t].call = "put" /\ Mine(t)
         \/ task[t].call = "getNext" /\ ~Mine(t)
         \/ task[t].call = "readString" /\ (eaindex[hea[t]].used => Mine(t))
  BY <1>1 DEF EaInv, Holds, AtWork
<1>3. /\ Only(t) /\ task'[t] \in Task /\ task'[t] = task[t] /\ hea'[t] = Null /\ pc'[t] = "idle" /\ ret'[t] = ret[t]
      /\ changes' \in 0 .. mode.changes /\ (task[t].call = "readString" => mode.serial)
  BY <1>1, OneThread DEF Only
<1>4. Closes(t) \/ Stays(t)
  <2>1. CASE task[t].call = "getNext"
    BY <1>2, <1>3, <2>1 DEF CallEnds, ClosesAgain, Stays
  <2>2. CASE task[t].call # "getNext"
    BY <1>2, <1>3, <2>2 DEF CallEnds, ClosesAgain, Close, Closes
  <2> QED BY <2>1, <2>2
<1>5. AtWork(t)' /\ Puts(t)'
  BY <1>1, <1>2, <1>3 DEF AtWork, Puts
<1>6. InTurn(t)
  BY <1>1 DEF InTurn
<1>7. EaInv'
  BY <1>1, <1>3, <1>4, <1>5, <1>6, StepKept
<1> QED BY <1>1, <1>7 DEF DiskKept

-----------------------------------------------------------------------------
(* The theorems.                                                           *)

LEMMA NextKept ==
  ASSUME EaInv, NEW t \in Thread,
         \/ \E ea \in Ea, create \in BOOLEAN : WtkReadEa(t, ea, create)
         \/ \E type \in Type \cup {AnyType}, len \in Buflen : WtkFindFirstEaValue(t, type, len)
         \/ \E len \in Buflen : WtkFindNextEaValue(t, len) \/ WtkGetNextEaValueAgain(t, len)
         \/ \E multi \in mode.multi, e \in Entry : WtkAppendEaValue(t, multi, e)
         \/ WtkSaveEa(t) \/ WtkCloseEa(t)
         \/ \E ea \in Ea, multi \in mode.multi, e \in Entry : WtkPutEaValue(t, ea, multi, e)
         \/ \E ea \in Ea, value \in Value : WtkWriteStringEa(t, ea, value)
         \/ \E ea \in Ea, type \in Type \cup {AnyType}, len \in Buflen : WtkGetNextEaValue(t, ea, type, len)
         \/ \E ea \in Ea, len \in Buflen : WtkReadStringEa(t, ea, len)
         \/ PutAppends(t) \/ PutSaves(t) \/ FindsFirst(t) \/ ImplicitClose(t) \/ CallEnds(t)
  PROVE  EaInv' /\ DiskKept(t)
<1>1. CASE \E ea \in Ea, create \in BOOLEAN : WtkReadEa(t, ea, create)
  BY <1>1, ReadEaKept
<1>2. CASE \E type \in Type \cup {AnyType}, len \in Buflen : WtkFindFirstEaValue(t, type, len)
  BY <1>2, FindFirstKept
<1>3. CASE \E len \in Buflen : WtkFindNextEaValue(t, len)
  BY <1>3, FindNextKept DEF WtkFindNextEaValue
<1>4. CASE \E len \in Buflen : WtkGetNextEaValueAgain(t, len)
  BY <1>4, FindNextKept DEF WtkGetNextEaValueAgain
<1>5. CASE \E multi \in mode.multi, e \in Entry : WtkAppendEaValue(t, multi, e)
  BY <1>5, AppendEaKept
<1>6. CASE WtkSaveEa(t)
  BY <1>6, SaveEaKept
<1>7. CASE WtkCloseEa(t)
  BY <1>7, CloseEaKept
<1>8. CASE \E ea \in Ea, multi \in mode.multi, e \in Entry : WtkPutEaValue(t, ea, multi, e)
  BY <1>8, PutEaValueKept
<1>9. CASE \E ea \in Ea, value \in Value : WtkWriteStringEa(t, ea, value)
  BY <1>9, WriteStringKept
<1>10. CASE \E ea \in Ea, type \in Type \cup {AnyType}, len \in Buflen : WtkGetNextEaValue(t, ea, type, len)
  BY <1>10, GetNextKept
<1>11. CASE \E ea \in Ea, len \in Buflen : WtkReadStringEa(t, ea, len)
  BY <1>11, ReadStringKept
<1>12. CASE PutAppends(t) \/ PutSaves(t)
  BY <1>12, PutAppendsKept, PutSavesKept
<1>13. CASE FindsFirst(t) \/ ImplicitClose(t) \/ CallEnds(t)
  BY <1>13, FindsFirstKept, ImplicitCloseKept, CallEndsKept
<1> QED BY <1>1, <1>2, <1>3, <1>4, <1>5, <1>6, <1>7, <1>8, <1>9, <1>10, <1>11, <1>12, <1>13

LEMMA EaInit == Init => EaInv
<1> SUFFICES ASSUME Init PROVE EaInv
  OBVIOUS
<1>1. mode \in Modes /\ disk = mode.start /\ eaindex = [b \in Block |-> Free] /\ pc = [t \in Thread |-> "idle"]
      /\ task = [t \in Thread |-> [call |-> "none"]] /\ hea = [t \in Thread |-> Null]
      /\ ret = [t \in Thread |-> [rc |-> "none"]] /\ changes = 0
  BY DEF Init
<1>2. mode.start \in [Ea -> Content] /\ mode.changes \in Nat /\ \A e \in Ea : IsContent(mode.start[e])
  BY <1>1, EaAssumption DEF Mode
<1>3. Typed
  <2>1. \A b \in Block : eaindex[b] = Free /\ ~eaindex[b].used
    BY <1>1 DEF Free
  <2>2. eaindex \in [Block -> {Free} \cup EaIndex]
    BY <1>1
  <2>3. [call |-> "none"] \in Task
    BY DEF Task
  <2>4. task \in [Thread -> Task] /\ ret = [t \in Thread |-> ret[t]]
    BY <1>1, <2>3
  <2>5. changes \in 0 .. mode.changes
    BY <1>1, <1>2
  <2> QED BY <1>1, <1>2, <2>1, <2>2, <2>4, <2>5 DEF Typed
<1>4. Holds
  <2>1. \A t \in Thread : pc[t] = "idle" /\ hea[t] = Null /\ task[t].call = "none" /\ ret[t].rc = "none"
    BY <1>1
  <2>2. \A b \in Block : ~eaindex[b].used
    BY <1>1 DEF Free
  <2> QED BY <2>1, <2>2 DEF Holds, AtWork
<1>5. PutsMore
  BY <1>1 DEF PutsMore, Puts
<1> QED BY <1>3, <1>4, <1>5 DEF EaInv

LEMMA EaStep ==
  ASSUME EaInv, [Next]_vars
  PROVE  EaInv' /\ (UNCHANGED disk \/ \E t \in Thread : DiskKept(t))
<1>1. CASE UNCHANGED vars
  <2>1. UNCHANGED <<mode, disk, eaindex, pc, task, hea, ret, changes>>
    BY <1>1 DEF vars
  <2>2. Typed'
    BY <2>1 DEF EaInv, Typed, IsContent, Fits, Selected
  <2>3. Holds' /\ PutsMore'
    BY <2>1 DEF EaInv, Holds, AtWork, Mine, PutsMore, Puts
  <2> QED BY <2>1, <2>2, <2>3 DEF EaInv
<1>2. CASE Next
  BY <1>2, NextKept DEF Next
<1> QED BY <1>1, <1>2

(* Whatever the threads do, the inductive invariant holds.                 *)
THEOREM EaCorrect == Spec => []EaInv
<1>1. EaInv /\ [Next]_vars => EaInv'
  BY EaStep
<1> QED BY <1>1, EaInit, PTL DEF Spec

LEMMA EaInvIsRight == EaInv => AttributesAreRight
<1> SUFFICES ASSUME EaInv PROVE AttributesAreRight
  OBVIOUS
<1>1. TypeOK
  <2>1. \A b \in Block : eaindex[b].used => eaindex[b] \in EaIndex /\ Fits(eaindex[b])
    BY DEF EaInv, Typed, Free
  <2>2. \A b \in Block : eaindex[b].used => /\ eaindex[b].ea \in Ea /\ eaindex[b].owner \in Thread
                                            /\ eaindex[b].index \in {End} \cup Nat
                                            /\ IsContent(eaindex[b].content)
    BY <2>1 DEF EaIndex, Fits
  <2>3. \A t \in Thread : pc[t] \notin {"idle", "trap"} => hea[t] # Null
    BY DEF EaInv, Holds, AtWork
  <2> QED BY <2>2, <2>3 DEF EaInv, Typed, TypeOK
<1>2. HandleIsMine
  <2>1. \A b \in Block : eaindex[b].used => eaindex[b].owner \in Thread
    BY <1>1 DEF TypeOK
  <2> QED BY <2>1 DEF EaInv, Holds, AtWork, Mine, HandleIsMine
<1>3. ListsFit
  BY DEF EaInv, Holds, AtWork, Mine, ListsFit
<1>4. SearchIsComplete
  <2> SUFFICES ASSUME NEW b \in Block, eaindex[b].used, eaindex[b].started, eaindex[b].clean
               PROVE  /\ IsPrefix(eaindex[b].seen, Selected(eaindex[b]))
                      /\ eaindex[b].index = End => eaindex[b].seen = Selected(eaindex[b])
    BY DEF SearchIsComplete
  <2>1. PICK x : x = eaindex[b]
    OBVIOUS
  <2>2. Fits(x) /\ x.started /\ x.clean
    BY <2>1 DEF EaInv, Typed
  <2>3. PICK s \in Seq(Entry) : s = Selected(x)
    BY <2>2, SelectedIsSeq DEF Fits
  <2>4. IF x.index = End THEN x.seen = s ELSE x.index \in 0 .. Len(s) /\ x.seen = SubSeq(s, 1, x.index)
    BY <2>2, <2>3 DEF Fits
  <2>5. IsPrefix(x.seen, s)
    <3>1. CASE x.seen = s
      BY <3>1, PrefixBy
    <3>2. CASE x.index \in 0 .. Len(s) /\ x.seen = SubSeq(s, 1, x.index)
      <4>1. x.seen \in Seq(Entry) /\ Len(x.seen) <= Len(s) /\ \A k \in 1 .. Len(x.seen) : x.seen[k] = s[k]
        BY <3>2
      <4> QED BY <4>1, PrefixBy
    <3> QED BY <2>4, <3>1, <3>2
  <2> QED BY <2>1, <2>3, <2>4, <2>5
<1> QED BY <1>1, <1>2, <1>3, <1>4 DEF AttributesAreRight

(* A handle stays that of its thread, lists fit, searches are complete.    *)
THEOREM AttributesAlwaysRight == Spec => []AttributesAreRight
BY EaCorrect, EaInvIsRight, PTL

LEMMA KeepsSame == ASSUME NEW c \in Content PROVE Keeps(c, c)
BY KeepsBy DEF Content

(* No value in a list is lost, if calls do not overlap.                    *)
THEOREM NothingIsLost == Spec => NothingLost
<1>1. ASSUME EaInv, [Next]_vars
      PROVE  mode.serial /\ mode.calls \cap {"handle", "writeString"} = {} =>
               \A e \in Ea : IsMulti(disk[e].kind) =>
                 /\ disk'[e].kind = disk[e].kind
                 /\ IsPrefix(Values(disk[e]), Values(disk'[e]))
  <2> SUFFICES ASSUME Quiet, NEW e \in Ea, IsMulti(disk[e].kind)
               PROVE  Keeps(disk[e], disk'[e])
    BY DEF Quiet, Keeps
  <2>0. disk \in [Ea -> Content]
    BY <1>1 DEF EaInv, Typed
  <2>1. CASE disk'[e] = disk[e]
    BY <2>0, <2>1, KeepsSame
  <2>2. CASE disk'[e] # disk[e]
    <3>1. PICK t \in Thread : pc[t] = "save" /\ Saves(t)
      BY <1>1, <2>2, EaStep DEF DiskKept, Quiet
    <3>2. PICK x : x = eaindex[hea[t]]
      OBVIOUS
    <3>3. disk' = [disk EXCEPT ![x.ea] = x.content] /\ Keeps(disk[x.ea], x.content)
      BY <1>1, <3>1, <3>2 DEF Saves, EaInv, PutsMore, Puts, Quiet
    <3> QED BY <2>0, <2>2, <3>3
  <2> QED BY <2>1, <2>2
<1>2. EaInv /\ [Next]_vars =>
        [mode.serial /\ mode.calls \cap {"handle", "writeString"} = {} =>
           \A e \in Ea : IsMulti(disk[e].kind) =>
             /\ disk'[e].kind = disk[e].kind
             /\ IsPrefix(Values(disk[e]), Values(disk'[e]))]_vars
  BY <1>1
<1>3. Spec => Init /\ [][Next]_vars
  BY PTL DEF Spec
<1> QED BY <1>2, <1>3, EaCorrect, PTL DEF NothingLost
===============================================================================
