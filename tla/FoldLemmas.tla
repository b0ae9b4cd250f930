------------------------------ MODULE FoldLemmas ------------------------------
(***************************************************************************)
(* Induction over sets of numbers, and that the folds the models use are   *)
(* defined: FoldLeft goes from a sequence's last element down, by way of   *)
(* a function that is defined recursively on sets of indices.              *)
(***************************************************************************)
EXTENDS Integers, SequencesExt, WellFoundedInduction, TLAPS

\* Induction, for a set of numbers.
LEMMA NatSetInduction ==
  ASSUME NEW T, 0 \in T, \A n \in Nat : n \in T => n + 1 \in T
  PROVE  Nat \subseteq T
<1> SUFFICES ASSUME Nat \ T # {} PROVE FALSE
  OBVIOUS
<1> DEFINE Rest == Nat \ T
<1>1. PICK n \in Rest : \A m \in Rest : ~(<<m, n>> \in OpToRel(<, Nat))
  <2> Rest \subseteq Nat /\ Rest # {}
    OBVIOUS
  <2> HIDE DEF Rest
  <2> QED BY WFMin, NatLessThanWellFounded
<1>2. n \in Nat /\ n # 0 /\ n - 1 \in Nat
  OBVIOUS
<1>3. n - 1 \notin Rest
  <2>1. n - 1 < n /\ <<n - 1, n>> \in Nat \X Nat
    BY <1>2
  <2>2. <<n - 1, n>> \in OpToRel(<, Nat)
    BY <2>1 DEF OpToRel
  <2> HIDE DEF Rest
  <2> QED BY <1>1, <2>2
<1>4. n - 1 \in T /\ (n - 1) + 1 = n
  BY <1>2, <1>3
<1> QED BY <1>2, <1>4

\* The largest of some indices.
LEMMA MaxIsLargest ==
  ASSUME NEW n \in Nat, NEW S \in SUBSET (1 .. n), S # {}
  PROVE  Max(S) \in S /\ \A x \in S : x <= Max(S)
<1> DEFINE Distance == {n - x : x \in S}
<1>0. S \subseteq 1 .. n /\ \A x \in S : x \in Nat /\ n - x \in Nat
  OBVIOUS
<1>1. Distance \subseteq Nat /\ Distance # {}
  BY <1>0
<1>2. PICK d \in Distance : \A e \in Distance : ~(<<e, d>> \in OpToRel(<, Nat))
  <2> HIDE DEF Distance
  <2> QED BY <1>1, WFMin, NatLessThanWellFounded
<1>3. PICK x \in S : d = n - x
  BY <1>2
<1>4. \A y \in S : x >= y
  <2> SUFFICES ASSUME NEW y \in S PROVE x >= y
    OBVIOUS
  <2>1. n - y \in Distance
    OBVIOUS
  <2>2. <<n - y, n - x>> \notin OpToRel(<, Nat)
    BY <1>2, <1>3, <2>1
  <2>3. <<n - y, n - x>> \in Nat \X Nat
    BY <1>0, <1>3
  <2>4. ~(n - y < n - x)
    BY <2>2, <2>3 DEF OpToRel
  <2> QED BY <1>0, <1>3, <2>4
<1>5. Max(S) \in S /\ \A y \in S : Max(S) >= y
  BY <1>3, <1>4 DEF Max
<1> QED BY <1>5

\* Folding up to an index: the index is the largest of those before it.
LEMMA MaxOfPrefix ==
  ASSUME NEW n \in Nat, n # 0
  PROVE  1 .. n # {} /\ Max(1 .. n) = n /\ (1 .. n) \ {Max(1 .. n)} = 1 .. (n - 1)
<1>1. 1 .. n # {} /\ n \in 1 .. n
  OBVIOUS
<1>2. Max(1 .. n) \in 1 .. n /\ n <= Max(1 .. n)
  BY <1>1, MaxIsLargest
<1> QED BY <1>1, <1>2

\* What the fold of f over seq, from base, is for a set of indices.
FoldStep(f, base, seq, g, s) ==
  IF s = {} THEN base ELSE f[<<g[s \ {Max(s)}], seq[Max(s)]>>]

IsFold(f, base, n, seq, g) ==
  \A s \in SUBSET (1 .. n) : g[s] = FoldStep(f, base, seq, g, s)

\* There is a function of the sets of indices that satisfies the recursion of
\* a fold.
LEMMA FoldExists ==
  ASSUME NEW A, NEW B, NEW f \in [A \X B -> A], NEW base \in A,
         NEW n \in Nat, NEW seq \in [1 .. n -> B]
  PROVE  \E g \in [SUBSET (1 .. n) -> A] : IsFold(f, base, n, seq, g)
<1> DEFINE Defined(k) ==
      \E g \in [SUBSET (1 .. k) -> A] :
        \A s \in SUBSET (1 .. k) : g[s] = FoldStep(f, base, seq, g, s)
    T == {k \in Nat : k <= n => Defined(k)}
<1>1. 0 \in T
  <2> DEFINE g == [s \in SUBSET (1 .. 0) |-> base]
  <2>1. \A s \in SUBSET (1 .. 0) : s = {}
    OBVIOUS
  <2>2. g \in [SUBSET (1 .. 0) -> A] /\ \A s \in SUBSET (1 .. 0) : g[s] = FoldStep(f, base, seq, g, s)
    BY <2>1 DEF FoldStep
  <2> QED BY <2>2
<1>2. ASSUME NEW k \in Nat, k \in T PROVE k + 1 \in T
  <2> HIDE DEF Defined
  <2> SUFFICES ASSUME k + 1 <= n PROVE Defined(k + 1)
    OBVIOUS
  <2>0. k <= n /\ Defined(k)
    BY <1>2
  <2>1. PICK g \in [SUBSET (1 .. k) -> A] :
          \A s \in SUBSET (1 .. k) : g[s] = FoldStep(f, base, seq, g, s)
    BY <2>0 DEF Defined
  <2> DEFINE h == [s \in SUBSET (1 .. k + 1) |->
                     IF k + 1 \in s THEN f[<<g[s \ {k + 1}], seq[k + 1]>>] ELSE g[s]]
  <2>2. \A s \in SUBSET (1 .. k + 1) : s \ {k + 1} \in SUBSET (1 .. k)
    OBVIOUS
  <2>3. h \in [SUBSET (1 .. k + 1) -> A]
    <3>1. ASSUME NEW s \in SUBSET (1 .. k + 1) PROVE h[s] \in A
      <4>1. CASE k + 1 \in s
        <5>1. <<g[s \ {k + 1}], seq[k + 1]>> \in A \X B
          BY <2>2
        <5> QED BY <4>1, <5>1
      <4>2. CASE k + 1 \notin s
        <5>1. s \in SUBSET (1 .. k)
          BY <4>2, <2>2
        <5> QED BY <4>2, <5>1
      <4> QED BY <4>1, <4>2
    <3> QED BY <3>1
  <2>4. ASSUME NEW s \in SUBSET (1 .. k + 1) PROVE h[s] = FoldStep(f, base, seq, h, s)
    <3>1. CASE k + 1 \in s
      <4>0. k + 1 \in Nat /\ s # {}
        BY <3>1
      <4>1. Max(s) \in s /\ \A x \in s : x <= Max(s)
        BY <4>0, MaxIsLargest
      <4>2. Max(s) = k + 1
        <5>1. Max(s) \in 1 .. k + 1 /\ k + 1 <= Max(s)
          BY <3>1, <4>1
        <5> QED BY <5>1
      <4>3. h[s \ {k + 1}] = g[s \ {k + 1}]
        BY <2>2
      <4> QED BY <3>1, <4>2, <4>3 DEF FoldStep
    <3>2. CASE k + 1 \notin s
      <4>1. s \in SUBSET (1 .. k)
        BY <3>2, <2>2
      <4>2. s \ {Max(s)} \in SUBSET (1 .. k) /\ s \ {Max(s)} \in SUBSET (1 .. k + 1)
        BY <4>1
      <4>3. h[s \ {Max(s)}] = g[s \ {Max(s)}] /\ h[s] = g[s]
        BY <3>2, <4>1, <4>2
      <4> HIDE DEF h
      <4> QED BY <2>1, <4>1, <4>3 DEF FoldStep
    <3> QED BY <3>1, <3>2
  <2> HIDE DEF h
  <2> QED BY <2>3, <2>4 DEF Defined
<1>3. Nat \subseteq T
  <2> HIDE DEF T
  <2> QED BY <1>1, <1>2, NatSetInduction
<1>4. Defined(n)
  <2> HIDE DEF Defined
  <2> QED BY <1>3
<1> QED BY <1>4 DEF IsFold

\* A fold, given by what it is for all indices up to one (it[1 .. k]): from a
\* value of A, each step does what f does.
Follows(f, base, n, seq, A, it) ==
  /\ it[1 .. 0] = base
  /\ \A k \in 1 .. n : it[1 .. (k - 1)] \in A => it[1 .. k] = f[<<it[1 .. (k - 1)], seq[k]>>]

\* It stays in A, and each step does what f does.
StaysIn(f, n, seq, A, it) ==
  /\ \A k \in 0 .. n : it[1 .. k] \in A
  /\ \A k \in 1 .. n : it[1 .. k] = f[<<it[1 .. (k - 1)], seq[k]>>]

\* A fold that follows f from a value of A stays in A.
LEMMA FoldChain ==
  ASSUME NEW A, NEW B, NEW f \in [A \X B -> A], NEW base \in A,
         NEW n \in Nat, NEW seq \in [1 .. n -> B], NEW it,
         Follows(f, base, n, seq, A, it)
  PROVE  StaysIn(f, n, seq, A, it)
<1> DEFINE T == {k \in Nat : k <= n => it[1 .. k] \in A}
<1>1. 0 \in T
  BY DEF Follows
<1>2. ASSUME NEW k \in Nat, k \in T PROVE k + 1 \in T
  <2> SUFFICES ASSUME k + 1 <= n PROVE it[1 .. (k + 1)] \in A
    OBVIOUS
  <2>1. k + 1 \in 1 .. n /\ (k + 1) - 1 = k /\ it[1 .. k] \in A
    BY <1>2
  <2>2. it[1 .. (k + 1)] = f[<<it[1 .. k], seq[k + 1]>>]
    BY <2>1 DEF Follows
  <2>3. <<it[1 .. k], seq[k + 1]>> \in A \X B
    BY <2>1
  <2> QED BY <2>2, <2>3
<1>3. Nat \subseteq T
  <2> HIDE DEF T
  <2> QED BY <1>1, <1>2, NatSetInduction
<1>4. \A k \in 0 .. n : it[1 .. k] \in A
  <2> SUFFICES ASSUME NEW k \in 0 .. n PROVE it[1 .. k] \in A
    OBVIOUS
  <2>1. k \in Nat /\ k <= n /\ k \in T
    BY <1>3
  <2> QED BY <2>1
<1>5. \A k \in 1 .. n : k - 1 \in 0 .. n
  OBVIOUS
<1> HIDE DEF T
<1> QED BY <1>4, <1>5 DEF Follows, StaysIn

=============================================================================
