-------------------------- MODULE InitProfile_proofs --------------------------
(***************************************************************************)
(* Proofs about initialization files, for every file, mode and choice of   *)
(* failing calls: that the tree in memory is well formed and can be made   *)
(* from the file again, that a profile keeps its promise to the            *)
(* application, and that WtkCloseInitProfileBackup never destroys what was *)
(* in the file (see TreeIsKept, KeepsPromise and OriginalOrBackup in       *)
(* InitProfile).                                                           *)
(***************************************************************************)
EXTENDS InitProfile, FoldLemmas, SequenceTheorems, TLAPS

-----------------------------------------------------------------------------
(* Reading a line: what can be written is read without an error, and what is *)
(* read is a tree that can be written.                                       *)

\* The lines that a plain tree is written as, and the states of reading them.
PlainLine(slash) ==
  {l \in Line : /\ l.kind \in {"section", "key", "comment", "blank"}
                /\ l.kind \in {"section", "key"} => l.name \in Name
                /\ l.kind = "key" => /\ l.value # <<>>
                                     /\ PlainValue(IF slash THEN <<l.value[1]>> ELSE l.value, slash)}

PlainState(slash) ==
  [rc : {"NO_ERROR", "ERROR_INVALID_DATA"}, sections : Seq(PlainSection(slash)),
   comment : Seq(CommentLine), quoting : {FALSE}]

Reading(sections, comment) ==
  [rc |-> "NO_ERROR", sections |-> sections, comment |-> comment, quoting |-> FALSE]

\* A state of reading without an error is that of a tree and the comments that wait.
LEMMA StateIsReading ==
  ASSUME NEW slash, NEW st \in PlainState(slash), st.rc = "NO_ERROR"
  PROVE  \E S \in Seq(PlainSection(slash)), C \in Seq(CommentLine) : st = Reading(S, C)
<1>1. st = Reading(st.sections, st.comment)
  BY DEF PlainState, Reading
<1>2. st.sections \in Seq(PlainSection(slash)) /\ st.comment \in Seq(CommentLine)
  BY DEF PlainState
<1> QED BY <1>1, <1>2

\* A comment waits for the next section or key.
LEMMA ReadComment ==
  ASSUME NEW slash, NEW S, NEW C, NEW l, l.kind \in {"comment", "blank"}
  PROVE  ReadLine(Reading(S, C), l, slash) = Reading(S, Append(C, l))
<1> DEFINE st == Reading(S, C)
<1>1. st.rc = "NO_ERROR" /\ st.quoting = FALSE /\ st.comment = C
  BY DEF Reading
<1>2. ReadLine(st, l, slash) = [st EXCEPT !.comment = Append(@, l)]
  <2> HIDE DEF st
  <2> QED BY <1>1 DEF ReadLine
<1> QED BY <1>1, <1>2 DEF Reading

\* A section begins, with the comments that have waited.
LEMMA ReadSection ==
  ASSUME NEW slash, NEW S, NEW C, NEW l, l.kind = "section"
  PROVE  ReadLine(Reading(S, C), l, slash)
         = Reading(Append(S, [name |-> l.name, comment |-> C, tail |-> <<>>, keys |-> <<>>]), <<>>)
<1> DEFINE st == Reading(S, C)
<1>1. st.rc = "NO_ERROR" /\ st.quoting = FALSE /\ st.comment = C /\ st.sections = S
  BY DEF Reading
<1>2. l.kind = "section"
  OBVIOUS
<1>3. ReadLine(st, l, slash)
      = [st EXCEPT !.sections = Append(@, [NewSection(l.name) EXCEPT !.comment = st.comment]),
                   !.comment = <<>>]
  <2> HIDE DEF st
  <2> QED BY <1>1, <1>2 DEF ReadLine
<1>4. PICK x : x = [NewSection(l.name) EXCEPT !.comment = C]
  OBVIOUS
<1>5. x = [name |-> l.name, comment |-> C, tail |-> <<>>, keys |-> <<>>]
  BY <1>4 DEF NewSection
<1>6. ReadLine(st, l, slash) = [st EXCEPT !.sections = Append(@, x), !.comment = <<>>]
  BY <1>1, <1>2, <1>3, <1>4
<1>7. ReadLine(st, l, slash) = Reading(Append(S, x), <<>>)
  BY <1>6 DEF Reading
<1> QED BY <1>5, <1>7

\* The sections with one more key in the last of them.
WithKey(sections, k) ==
  [sections EXCEPT ![Len(sections)] = [name |-> @.name, comment |-> @.comment, tail |-> @.tail,
                                       keys |-> Append(@.keys, k)]]

\* A key is added to the last section, if its value ends in its line.
LEMMA ReadKeyLine ==
  ASSUME NEW slash \in BOOLEAN, NEW S \in Seq(PlainSection(slash)), S # <<>>, NEW C \in Seq(CommentLine),
         NEW l \in PlainLine(slash), l.kind = "key"
  PROVE  LET k == NewKeyOf(l, C, slash)
         IN  /\ k = [name |-> l.name, value |-> IF slash THEN <<l.value[1]>> ELSE l.value,
                     note |-> IF slash THEN Tail(l.value) ELSE <<>>, comment |-> C, tail |-> <<>>]
             /\ k \in PlainKey(slash)
             /\ WithKey(S, k) \in Seq(PlainSection(slash))
             /\ ReadLine(Reading(S, C), l, slash) = Reading(WithKey(S, k), <<>>)
<1> DEFINE st == Reading(S, C)
           n == Len(S)
           v == IF slash THEN <<l.value[1]>> ELSE l.value
           k == [name |-> l.name, value |-> v, note |-> IF slash THEN Tail(l.value) ELSE <<>>,
                 comment |-> C, tail |-> <<>>]
           x == [name |-> S[n].name, comment |-> S[n].comment, tail |-> S[n].tail,
                 keys |-> Append(S[n].keys, k)]
<1>1. st.rc = "NO_ERROR" /\ st.quoting = FALSE /\ st.comment = C /\ st.sections = S
  BY DEF Reading
<1>2. l.value \in Seq(Token) /\ l.value # <<>> /\ l.name \in Name /\ PlainValue(v, slash)
  BY DEF PlainLine, Line
<1>3. v \in Seq(Token) /\ Tail(l.value) \in Seq(Token) /\ v # <<>>
  <2>1. l.value[1] \in Token /\ Tail(l.value) \in Seq(Token)
    BY <1>2
  <2> QED BY <1>2, <2>1
<1>4. NewKeyOf(l, C, slash) = k
  <2>1. CASE slash = TRUE
    <3>1. CASE Len(l.value) > 1
      <4>1. NewKeyOf(l, C, slash) = [NewKey(l.name, <<l.value[1]>>) EXCEPT !.note = Tail(l.value),
                !.comment = C]
        BY <2>1, <3>1 DEF NewKeyOf
      <4> QED BY <2>1, <4>1 DEF NewKey
    <3>2. CASE ~(Len(l.value) > 1)
      <4>1. l.value = <<l.value[1]>> /\ Tail(l.value) = <<>>
        BY <1>2, <3>2
      <4>2. NewKeyOf(l, C, slash) = [NewKey(l.name, l.value) EXCEPT !.note = <<>>, !.comment = C]
        BY <2>1, <3>2 DEF NewKeyOf
      <4>3. NewKeyOf(l, C, slash) = [name |-> l.name, value |-> l.value, note |-> <<>>, comment |-> C,
                tail |-> <<>>]
        BY <4>2 DEF NewKey
      <4> QED BY <2>1, <4>1, <4>3
    <3> QED BY <3>1, <3>2
  <2>2. CASE slash = FALSE
    <3>1. NewKeyOf(l, C, slash) = [NewKey(l.name, l.value) EXCEPT !.note = <<>>, !.comment = C]
      BY <2>2 DEF NewKeyOf
    <3> QED BY <2>2, <3>1 DEF NewKey
  <2> QED BY <2>1, <2>2
<1>5. k \in PlainKey(slash)
  BY <1>2, <1>3 DEF PlainKey
<1>6. ~(Head(v) \in {Open, Quoted} /\ Last(v) # Quoted)
  BY <1>2 DEF PlainValue
<1>7. n \in Nat \ {0} /\ n \in DOMAIN S /\ S[n] \in PlainSection(slash)
  OBVIOUS
<1>8. x \in PlainSection(slash)
  <2> HIDE DEF k
  <2>1. PICK o \in PlainSection(slash) : o = S[n]
    BY <1>7
  <2>2. Append(o.keys, k) \in Seq(PlainKey(slash))
    BY <1>5 DEF PlainSection
  <2> QED BY <2>1, <2>2 DEF PlainSection
<1>9. ReadLine(st, l, slash) = ReadKey(st, l, slash)
  <2> HIDE DEF st
  <2> QED BY <1>1 DEF ReadLine
<1>10. ReadKey(st, l, slash) = Reading([S EXCEPT ![n] = x], <<>>)
  <2> HIDE DEF k
  <2>1. k.value = v
    BY DEF k
  <2>2. ReadKey(st, l, slash) = [st EXCEPT !.sections[n].keys = Append(@, k), !.comment = <<>>,
                                           !.quoting = Head(k.value) \in {Open,
                                               Quoted} /\ Last(k.value) # Quoted]
    <3> HIDE DEF st
    <3> QED BY <1>1, <1>4 DEF ReadKey
  <2>3. ReadKey(st, l, slash) = [st EXCEPT !.sections[n].keys = Append(@, k), !.comment = <<>>,
                                           !.quoting = FALSE]
    BY <2>1, <2>2, <1>6
  <2>4. [S[n] EXCEPT !.keys = Append(@, k)] = x
    <3>1. PICK o \in PlainSection(slash) : o = S[n]
      BY <1>7
    <3>2. [o EXCEPT !.keys = Append(@, k)]
          = [name |-> o.name, comment |-> o.comment, tail |-> o.tail, keys |-> Append(o.keys, k)]
      <4>1. o = [name |-> o.name, comment |-> o.comment, tail |-> o.tail, keys |-> o.keys]
        BY DEF PlainSection
      <4>2. PICK a, b, c, d, e :
              a = o.name /\ b = o.comment /\ c = o.tail /\ d = o.keys /\ e = Append(o.keys, k)
        OBVIOUS
      <4>3. o = [name |-> a, comment |-> b, tail |-> c, keys |-> d]
        BY <4>1, <4>2
      <4>4. [o EXCEPT !.keys = e] = [name |-> a, comment |-> b, tail |-> c, keys |-> e]
        BY ONLY <4>3
      <4> QED BY <4>2, <4>4
    <3> QED BY <3>1, <3>2
  <2> QED BY <2>3, <2>4, <1>7 DEF Reading
<1>11. [S EXCEPT ![n] = x] = WithKey(S, k) /\ [S EXCEPT ![n] = x] \in Seq(PlainSection(slash))
  <2>1. [S EXCEPT ![n] = x] \in Seq(PlainSection(slash))
    <3> HIDE DEF x
    <3> QED BY <1>7, <1>8
  <2> QED BY <2>1 DEF WithKey
<1> HIDE DEF k, x
<1> QED BY <1>4, <1>5, <1>9, <1>10, <1>11 DEF k

\* Reading a plain line leaves a plain state.
LEMMA ReadIsPlain ==
  ASSUME NEW slash \in BOOLEAN, NEW st \in PlainState(slash), NEW l \in PlainLine(slash)
  PROVE  ReadLine(st, l, slash) \in PlainState(slash)
<1>1. CASE st.rc # "NO_ERROR"
  BY <1>1 DEF ReadLine
<1>2. CASE st.rc = "NO_ERROR"
  <2>1. PICK S \in Seq(PlainSection(slash)), C \in Seq(CommentLine) : st = Reading(S, C)
    BY <1>2, StateIsReading
  <2>2. ASSUME NEW T \in Seq(PlainSection(slash)), NEW D \in Seq(CommentLine)
        PROVE  Reading(T, D) \in PlainState(slash)
    BY DEF Reading, PlainState
  <2>3. CASE l.kind \in {"comment", "blank"}
    <3>1. l \in CommentLine
      BY <2>3 DEF PlainLine, CommentLine
    <3>2. Append(C, l) \in Seq(CommentLine)
      BY <2>1, <3>1
    <3>3. ReadLine(st, l, slash) = Reading(S, Append(C, l))
      BY <2>1, <2>3, ReadComment
    <3> QED BY <2>1, <2>2, <3>2, <3>3
  <2>4. CASE l.kind = "section"
    <3>1. l.name \in Name
      BY <2>4 DEF PlainLine
    <3>2. PICK x : x = [name |-> l.name, comment |-> C, tail |-> <<>>, keys |-> <<>>]
      OBVIOUS
    <3>3. x \in PlainSection(slash)
      BY <3>1, <3>2 DEF PlainSection
    <3>4. Append(S, x) \in Seq(PlainSection(slash))
      BY <3>3
    <3>5. ReadLine(st, l, slash) = Reading(Append(S, x), <<>>)
      BY <2>1, <2>4, <3>2, ReadSection
    <3>6. Reading(Append(S, x), <<>>) \in PlainState(slash)
      <4>1. <<>> \in Seq(CommentLine)
        OBVIOUS
      <4> QED BY ONLY <2>2, <3>4, <4>1
    <3> QED BY <3>5, <3>6
  <2>5. CASE l.kind = "key" /\ S # <<>>
    <3>1. l.kind = "key" /\ S # <<>>
      BY <2>5
    <3>2. PICK T : T = WithKey(S, NewKeyOf(l, C, slash))
      OBVIOUS
    <3>3. T \in Seq(PlainSection(slash)) /\ ReadLine(st, l, slash) = Reading(T, <<>>)
      BY <2>1, <3>1, <3>2, ReadKeyLine
    <3>4. <<>> \in Seq(CommentLine)
      OBVIOUS
    <3> QED BY <2>2, <3>3, <3>4
  <2>6. CASE l.kind = "key" /\ S = <<>>
    <3>1. ReadLine(st, l, slash) = [st EXCEPT !.rc = "ERROR_INVALID_DATA"]
      <4>1. st.quoting = FALSE
        BY DEF PlainState
      <4>2. st.sections = <<>>
        BY <2>1, <2>6 DEF Reading
      <4>3. l.kind = "key"
        BY <2>6
      <4> HIDE <2>1
      <4> QED BY <1>2, <4>1, <4>2, <4>3 DEF ReadLine
    <3> QED BY <3>1 DEF PlainState
  <2> QED BY <2>3, <2>4, <2>5, <2>6 DEF PlainLine
<1> QED BY <1>1, <1>2

\* Reading lines, one after the other.
LEMMA ParseFold ==
  ASSUME NEW slash \in BOOLEAN, NEW lines \in Seq(PlainLine(slash))
  PROVE  \E after \in [0 .. Len(lines) -> PlainState(slash)] :
           /\ after[0] = Start
           /\ \A k \in 1 .. Len(lines) : after[k] = ReadLine(after[k - 1], lines[k], slash)
           /\ Parse(lines, slash) = after[Len(lines)]
<1> DEFINE State == PlainState(slash)
           f == [x \in State \X PlainLine(slash) |-> ReadLine(x[1], x[2], slash)]
           n == Len(lines)
           Step(g, S) == IF S = {} THEN Start ELSE ReadLine(g[S \ {Max(S)}], lines[Max(S)], slash)
           iter == CHOOSE g : g = [S \in SUBSET (1 .. n) |-> Step(g, S)]
<1>0. Start \in State
  BY DEF Start, PlainState
<1>1. /\ f \in [State \X PlainLine(slash) -> State]
      /\ \A a \in State, l \in PlainLine(slash) : f[<<a, l>>] = ReadLine(a, l, slash)
  <2> HIDE DEF State
  <2>1. \A x \in State \X PlainLine(slash) : ReadLine(x[1], x[2], slash) \in State
    BY ReadIsPlain DEF State
  <2> QED BY <2>1
<1>2. n \in Nat /\ lines \in [1 .. n -> PlainLine(slash)] /\ DOMAIN lines = 1 .. n
  OBVIOUS
<1> HIDE DEF f, n, State
<1>3. PICK g \in [SUBSET (1 .. n) -> State] : IsFold(f, Start, n, lines, g)
  <2> HIDE DEF Step, iter
  <2> QED BY ONLY <1>0, <1>1, <1>2, FoldExists
<1>4. ASSUME NEW S \in SUBSET (1 .. n) PROVE g[S] = Step(g, S)
  <2>1. CASE S = {}
    BY <2>1, <1>3 DEF FoldStep, IsFold
  <2>2. CASE S # {}
    <3>1. Max(S) \in 1 .. n
      BY <2>2, <1>2, MaxIsLargest
    <3>2. g[S \ {Max(S)}] \in State /\ lines[Max(S)] \in PlainLine(slash)
      BY <3>1, <1>2, <1>3
    <3> QED BY <2>2, <3>2, <1>1, <1>3 DEF FoldStep, IsFold
  <2> QED BY <2>1, <2>2
<1>5. iter = [S \in SUBSET (1 .. n) |-> Step(iter, S)]
  <2>1. g = [S \in SUBSET (1 .. n) |-> Step(g, S)]
    BY <1>3, <1>4
  <2> HIDE DEF Step
  <2> QED BY <2>1
<1>6. Parse(lines, slash) = iter[1 .. n]
  BY <1>2 DEF Parse, FoldLeft, MapThenFoldSet
<1> HIDE DEF iter
<1> DEFINE after == [k \in 0 .. n |-> iter[1 .. k]]
<1>7. \A k \in 0 .. n : 1 .. k \in SUBSET (1 .. n)
  BY <1>2
<1>8. after[0] = Start
  BY <1>2, <1>5, <1>7
<1>9. \A k \in 1 .. n : after[k] = ReadLine(after[k - 1], lines[k], slash)
  <2> SUFFICES ASSUME NEW k \in 1 .. n PROVE after[k] = ReadLine(after[k - 1], lines[k], slash)
    OBVIOUS
  <2>1. k \in Nat /\ k # 0 /\ k - 1 \in 0 .. n /\ k \in 0 .. n
    BY <1>2
  <2>2. 1 .. k # {} /\ Max(1 .. k) = k /\ (1 .. k) \ {Max(1 .. k)} = 1 .. (k - 1)
    BY <2>1, MaxOfPrefix
  <2>3. iter[1 .. k] = Step(iter, 1 .. k)
    BY <1>5, <1>7, <2>1
  <2> QED BY <2>1, <2>2, <2>3
<1> DEFINE T == {k \in Nat : k <= n => after[k] \in State}
<1>10. 0 \in T
  BY <1>0, <1>8
<1>11. ASSUME NEW k \in Nat, k \in T PROVE k + 1 \in T
  <2> HIDE DEF after
  <2> SUFFICES ASSUME k + 1 <= n PROVE after[k + 1] \in State
    OBVIOUS
  <2>1. k + 1 \in 1 .. n /\ (k + 1) - 1 = k /\ after[k] \in State
    BY <1>11, <1>2
  <2>2. lines[k + 1] \in PlainLine(slash)
    BY <2>1, <1>2
  <2>3. after[k + 1] = ReadLine(after[k], lines[k + 1], slash)
    BY <2>1, <1>9
  <2> QED BY <2>1, <2>2, <2>3, ReadIsPlain DEF State
<1>12. after \in [0 .. n -> State]
  <2> HIDE DEF T
  <2>1. Nat \subseteq T
    BY <1>10, <1>11, NatSetInduction
  <2> HIDE DEF after
  <2>2. \A k \in 0 .. n : k \in Nat /\ k <= n
    BY <1>2
  <2>3. \A k \in 0 .. n : after[k] \in State
    BY <2>1, <2>2 DEF T
  <2> QED BY <2>3 DEF after
<1>13. Parse(lines, slash) = after[n]
  BY <1>2, <1>6
<1> HIDE DEF after
<1> QED BY <1>8, <1>9, <1>12, <1>13 DEF n, State

-----------------------------------------------------------------------------
(* Sequences, and reading a text part by part. *)

\* Sequences, element by element.
LEMMA SameSeq ==
  ASSUME NEW A, NEW a \in Seq(A), NEW b \in Seq(A), Len(a) = Len(b), \A i \in 1 .. Len(a) : a[i] = b[i]
  PROVE  a = b
OBVIOUS

\* The first part of a longer text, one line further.
LEMMA PrefixMore ==
  ASSUME NEW A, NEW b \in Seq(A), NEW n \in Nat, n + 1 <= Len(b)
  PROVE  /\ SubSeq(b, 1, n) \in Seq(A) /\ b[n + 1] \in A
         /\ SubSeq(b, 1, n + 1) = Append(SubSeq(b, 1, n), b[n + 1])
         /\ SubSeq(b, 1, 0) = <<>> /\ SubSeq(b, 1, Len(b)) = b
OBVIOUS

\* A line that is appended to what is appended.
LEMMA ConcatMore ==
  ASSUME NEW A, NEW a \in Seq(A), NEW b \in Seq(A), NEW x \in A
  PROVE  /\ a \o Append(b, x) = Append(a \o b, x)
         /\ a \o <<>> = a /\ <<>> \o a = a /\ a \o <<x>> = Append(a, x)
         /\ a \o b \in Seq(A) /\ Append(a, x) \in Seq(A)
OBVIOUS

\* Texts can be put together in any order.
LEMMA ConcatAssoc ==
  ASSUME NEW A, NEW a \in Seq(A), NEW b \in Seq(A), NEW c \in Seq(A)
  PROVE  a \o (b \o c) = (a \o b) \o c
OBVIOUS

\* Reading goes on line by line.
LEMMA ParseMore ==
  ASSUME NEW slash \in BOOLEAN, NEW lines \in Seq(PlainLine(slash)), NEW l \in PlainLine(slash)
  PROVE  /\ Parse(lines, slash) \in PlainState(slash)
         /\ Parse(Append(lines, l), slash) = ReadLine(Parse(lines, slash), l, slash)
<1> DEFINE more == Append(lines, l)
           n == Len(lines)
<1>0. more \in Seq(PlainLine(slash)) /\ n \in Nat /\ Len(more) = n + 1 /\ more[n + 1] = l
      /\ \A i \in 1 .. n : more[i] = lines[i]
  OBVIOUS
<1>1. PICK a \in [0 .. n -> PlainState(slash)] :
         /\ a[0] = Start /\ \A k \in 1 .. n : a[k] = ReadLine(a[k - 1], lines[k], slash)
         /\ Parse(lines, slash) = a[n]
  BY ParseFold
<1> HIDE DEF more
<1>2. PICK b \in [0 .. Len(more) -> PlainState(slash)] :
         /\ b[0] = Start /\ \A k \in 1 .. Len(more) : b[k] = ReadLine(b[k - 1], more[k], slash)
         /\ Parse(more, slash) = b[Len(more)]
  BY ONLY slash \in BOOLEAN, <1>0, ParseFold
<1> HIDE DEF n
<1> DEFINE T == {k \in Nat : k <= n => a[k] = b[k]}
<1>3. 0 \in T
  BY <1>1, <1>2
<1>4. ASSUME NEW k \in Nat, k \in T PROVE k + 1 \in T
  <2> SUFFICES ASSUME k + 1 <= n PROVE a[k + 1] = b[k + 1]
    OBVIOUS
  <2>0. k <= n /\ k + 1 \in 1 .. n /\ k + 1 \in 1 .. Len(more) /\ (k + 1) - 1 = k
    <3>1. n \in Nat /\ Len(more) = n + 1
      BY <1>0
    <3> QED BY ONLY <3>1, k \in Nat, k + 1 <= n
  <2>1. k + 1 \in 1 .. n /\ k + 1 \in 1 .. Len(more) /\ (k + 1) - 1 = k /\ a[k] = b[k]
    BY <1>4, <2>0
  <2>2. more[k + 1] = lines[k + 1]
    BY <1>0, <2>1
  <2>3. a[k + 1] = ReadLine(a[k], lines[k + 1], slash)
    BY <1>1, <2>1
  <2>4. b[k + 1] = ReadLine(b[k], more[k + 1], slash)
    BY <1>2, <2>1
  <2> QED BY <2>1, <2>2, <2>3, <2>4
<1>5. a[n] = b[n]
  <2> HIDE DEF T
  <2>1. n \in T
    BY <1>0, <1>3, <1>4, NatSetInduction
  <2> QED BY <1>0, <2>1 DEF T
<1>6. b[n + 1] = ReadLine(b[n], l, slash)
  <2>1. n + 1 \in 1 .. Len(more) /\ (n + 1) - 1 = n
    BY <1>0
  <2> QED BY <1>0, <1>2, <2>1
<1>7. a[n] \in PlainState(slash)
  BY <1>0, <1>1
<1> QED BY <1>0, <1>1, <1>2, <1>5, <1>6, <1>7 DEF more

\* Nothing is read from no lines.
LEMMA ParseNothing == \A slash : Parse(<<>>, slash) = Start /\ Start = Reading(<<>>, <<>>)
<1> TAKE slash
<1>1. DOMAIN <<>> = {}
  OBVIOUS
<1>2. Parse(<<>>, slash) = Start
  <2> DEFINE Step(g, S) == IF S = {} THEN Start ELSE ReadLine(g[S \ {Max(S)}], <<>>[Max(S)], slash)
             iter == CHOOSE g : g = [S \in SUBSET {} |-> Step(g, S)]
  <2>1. Parse(<<>>, slash) = iter[{}]
    BY <1>1 DEF Parse, FoldLeft, MapThenFoldSet
  <2>2. PICK g : g = [S \in SUBSET {} |-> Start]
    OBVIOUS
  <2>3. g = [S \in SUBSET {} |-> Step(g, S)]
    BY <2>2
  <2>4. iter = [S \in SUBSET {} |-> Step(iter, S)]
    <3> HIDE DEF Step
    <3> QED BY <2>3
  <2>5. iter[{}] = Step(iter, {})
    <3> HIDE DEF Step, iter
    <3>1. {} \in SUBSET {}
      OBVIOUS
    <3> QED BY <2>4, <3>1
  <2> QED BY <2>1, <2>5
<1>3. Start = Reading(<<>>, <<>>)
  BY DEF Start, Reading
<1> QED BY <1>2, <1>3

\* A part of plain lines is read as the state after that many lines.
LEMMA ParsePrefix ==
  ASSUME NEW slash \in BOOLEAN, NEW lines \in Seq(PlainLine(slash)), NEW n \in 0 .. Len(lines)
  PROVE  /\ SubSeq(lines, 1, n) \in Seq(PlainLine(slash))
         /\ Parse(SubSeq(lines, 1, n), slash) \in PlainState(slash)
         /\ n < Len(lines) => /\ lines[n + 1] \in PlainLine(slash)
                              /\ Parse(SubSeq(lines, 1, n + 1), slash)
                                 = ReadLine(Parse(SubSeq(lines, 1, n), slash), lines[n + 1], slash)
<1>1. SubSeq(lines, 1, n) \in Seq(PlainLine(slash))
  OBVIOUS
<1>2. PICK b : b = SubSeq(lines, 1, n)
  OBVIOUS
<1>3. CASE n < Len(lines)
  <2>1. n \in Nat /\ n + 1 <= Len(lines)
    BY <1>3
  <2>2. lines[n + 1] \in PlainLine(slash) /\ SubSeq(lines, 1, n + 1) = Append(b, lines[n + 1])
    BY <1>2, <2>1, PrefixMore
  <2>3. b \in Seq(PlainLine(slash))
    BY <1>1, <1>2
  <2>4. PICK l : l = lines[n + 1]
    OBVIOUS
  <2>5. /\ Parse(Append(b, l), slash) = ReadLine(Parse(b, slash), l, slash)
        /\ Parse(b, slash) \in PlainState(slash)
    BY ONLY slash \in BOOLEAN, <2>2, <2>3, <2>4, ParseMore
  <2> QED BY <1>1, <1>2, <2>2, <2>4, <2>5
<1>4. CASE ~(n < Len(lines))
  <2>1. n = Len(lines) /\ b = lines
    BY <1>2, <1>4
  <2>2. PICK a \in [0 .. n -> PlainState(slash)] : Parse(lines, slash) = a[n]
    BY <2>1, ParseFold
  <2> QED BY <1>1, <1>2, <2>1, <2>2
<1> QED BY <1>3, <1>4

\* Comment lines wait in the order in which they stand.
LEMMA ParseComments ==
  ASSUME NEW slash \in BOOLEAN, NEW lines \in Seq(PlainLine(slash)), NEW cs \in Seq(CommentLine),
         NEW S, NEW C \in Seq(CommentLine), Parse(lines, slash) = Reading(S, C)
  PROVE  /\ lines \o cs \in Seq(PlainLine(slash))
         /\ Parse(lines \o cs, slash) = Reading(S, C \o cs)
<1> DEFINE T == {n \in Nat :
                   n <= Len(cs) =>
                     Parse(lines \o SubSeq(cs, 1, n), slash) = Reading(S, C \o SubSeq(cs, 1, n))}
<1>0. cs \in Seq(PlainLine(slash)) /\ Len(cs) \in Nat
  <2>1. CommentLine \subseteq PlainLine(slash)
    BY DEF CommentLine, PlainLine
  <2> QED BY <2>1
<1>1. 0 \in T
  <2>1. SubSeq(cs, 1, 0) = <<>> /\ lines \o <<>> = lines /\ C \o <<>> = C
    OBVIOUS
  <2> QED BY <2>1
<1>2. ASSUME NEW n \in Nat, n \in T PROVE n + 1 \in T
  <2> SUFFICES ASSUME n + 1 <= Len(cs)
               PROVE Parse(lines \o SubSeq(cs, 1, n + 1), slash) = Reading(S, C \o SubSeq(cs, 1, n + 1))
    OBVIOUS
  <2>1. PICK b, l : b = SubSeq(cs, 1, n) /\ l = cs[n + 1]
    OBVIOUS
  <2>2. b \in Seq(CommentLine) /\ l \in CommentLine /\ SubSeq(cs, 1, n + 1) = Append(b, l)
    BY <2>1, PrefixMore
  <2>3. b \in Seq(PlainLine(slash)) /\ l \in PlainLine(slash)
    BY <1>0, <2>1, PrefixMore
  <2>4. lines \o Append(b, l) = Append(lines \o b, l) /\ lines \o b \in Seq(PlainLine(slash))
    BY <2>3, ConcatMore
  <2>5. C \o Append(b, l) = Append(C \o b, l)
    BY <2>2, ConcatMore
  <2>6. Parse(lines \o b, slash) = Reading(S, C \o b)
    <3>1. n <= Len(cs)
      BY <1>0
    <3> QED BY <1>2, <2>1, <3>1
  <2>7. l.kind \in {"comment", "blank"}
    BY <2>2 DEF CommentLine
  <2>8. Parse(Append(lines \o b, l), slash) = ReadLine(Parse(lines \o b, slash), l, slash)
    BY <2>3, <2>4, ParseMore
  <2>9. PICK lb, cb : lb = lines \o b /\ cb = C \o b
    OBVIOUS
  <2>10. ReadLine(Reading(S, cb), l, slash) = Reading(S, Append(cb, l))
    BY <2>7, ReadComment
  <2>11. Parse(Append(lb, l), slash) = Reading(S, Append(cb, l))
    BY <2>6, <2>8, <2>9, <2>10
  <2>12. PICK bl : bl = SubSeq(cs, 1, n + 1)
    OBVIOUS
  <2>13. lines \o bl = Append(lb, l) /\ C \o bl = Append(cb, l)
    BY <2>2, <2>4, <2>5, <2>9, <2>12
  <2> QED BY <2>11, <2>12, <2>13
<1>3. Len(cs) \in T
  <2> HIDE DEF T
  <2> QED BY <1>0, <1>1, <1>2, NatSetInduction
<1>4. Parse(lines \o cs, slash) = Reading(S, C \o cs)
  <2>1. SubSeq(cs, 1, Len(cs)) = cs
    OBVIOUS
  <2>2. Parse(lines \o SubSeq(cs, 1, Len(cs)), slash) = Reading(S, C \o SubSeq(cs, 1, Len(cs)))
    <3>1. Len(cs) <= Len(cs)
      BY <1>0
    <3> QED BY <1>3, <3>1
  <2> QED BY <2>1, <2>2
<1>5. lines \o cs \in Seq(PlainLine(slash))
  BY <1>0
<1> QED BY <1>4, <1>5

-----------------------------------------------------------------------------
(* Reading the lines of a key. *)

\* The comment that is written of an entry.
Kept(entry, discard) == IF discard THEN <<>> ELSE entry.comment

KeyAgain(key, before, discard) ==
  [name |-> key.name, value |-> key.value, note |-> key.note,
   comment |-> before \o Kept(key, discard), tail |-> <<>>]

\* The fields of a key that can be written.
LEMMA KeyType ==
  ASSUME NEW slash \in BOOLEAN, NEW discard \in BOOLEAN, NEW key \in PlainKey(slash)
  PROVE  /\ key.name \in Name /\ key.value \in Seq(Token) /\ PlainValue(key.value, slash)
         /\ key.note \in Seq(Token) /\ (~slash => key.note = <<>>)
         /\ key.comment \in Seq(CommentLine) /\ key.tail \in Seq(CommentLine)
         /\ Kept(key, discard) \in Seq(CommentLine)
         /\ \A before \in Seq(CommentLine) : KeyAgain(key, before, discard) \in PlainKey(slash)
<1>1. /\ key.name \in Name /\ key.value \in Seq(Token) /\ PlainValue(key.value, slash)
      /\ key.note \in Seq(Token) /\ (~slash => key.note = <<>>)
      /\ key.comment \in Seq(CommentLine) /\ key.tail \in Seq(CommentLine)
  BY DEF PlainKey
<1>2. Kept(key, discard) \in Seq(CommentLine)
  BY <1>1 DEF Kept
<1>3. ASSUME NEW before \in Seq(CommentLine) PROVE KeyAgain(key, before, discard) \in PlainKey(slash)
  <2>1. before \o Kept(key, discard) \in Seq(CommentLine) /\ <<>> \in Seq(CommentLine)
    BY <1>2
  <2> HIDE DEF Kept
  <2> QED BY <1>1, <2>1 DEF KeyAgain, PlainKey
<1> QED BY <1>1, <1>2, <1>3

\* The lines of a text that is put together.
LEMMA ConcatElements ==
  ASSUME NEW A, NEW a \in Seq(A), NEW b \in Seq(A)
  PROVE  /\ a \o b \in Seq(A) /\ Len(a \o b) = Len(a) + Len(b) /\ Len(a) \in Nat /\ Len(b) \in Nat
         /\ \A i \in 1 .. Len(a) : (a \o b)[i] = a[i]
         /\ \A i \in 1 .. Len(b) : (a \o b)[Len(a) + i] = b[i]
OBVIOUS

\* The tokens behind the first one.
LEMMA TailElements ==
  ASSUME NEW A, NEW w \in Seq(A), w # <<>>
  PROVE  /\ Tail(w) \in Seq(A) /\ Len(Tail(w)) = Len(w) - 1
         /\ \A i \in 1 .. Len(w) - 1 : Tail(w)[i] = w[i + 1]
OBVIOUS

\* A first token and the others.
LEMMA OneAndMore ==
  ASSUME NEW A, NEW v \in Seq(A), NEW note \in Seq(A), Len(v) = 1, NEW w, w = v \o note
  PROVE  <<w[1]>> = v /\ Tail(w) = note /\ w \in Seq(A) /\ w # <<>>
<1>1. /\ w \in Seq(A) /\ Len(w) = 1 + Len(note) /\ Len(note) \in Nat /\ w[1] = v[1]
      /\ \A i \in 1 .. Len(note) : w[1 + i] = note[i]
  <2>1. PICK x : x = v \o note
    OBVIOUS
  <2>2. /\ x \in Seq(A) /\ Len(x) = 1 + Len(note) /\ Len(note) \in Nat
        /\ \A i \in 1 .. 1 : x[i] = v[i]
        /\ \A i \in 1 .. Len(note) : x[1 + i] = note[i]
    <3>1. /\ v \o note \in Seq(A) /\ Len(v \o note) = Len(v) + Len(note) /\ Len(note) \in Nat
          /\ \A i \in 1 .. Len(v) : (v \o note)[i] = v[i]
          /\ \A i \in 1 .. Len(note) : (v \o note)[Len(v) + i] = note[i]
      BY ONLY v \in Seq(A), note \in Seq(A), ConcatElements
    <3> QED BY <2>1, <3>1
  <2>3. x[1] = v[1]
    BY ONLY <2>2
  <2> QED BY <2>1, <2>2, <2>3
<1>2. <<w[1]>> = v
  BY <1>1
<1>3. Tail(w) = note
  <2>1. w # <<>>
    BY <1>1
  <2>2. /\ Tail(w) \in Seq(A)
        /\ Len(Tail(w)) = Len(w) - 1
        /\ \A i \in 1 .. Len(w) - 1 : Tail(w)[i] = w[i + 1]
    BY ONLY <1>1, <2>1, TailElements
  <2>3. PICK t : t = Tail(w)
    OBVIOUS
  <2>4. t \in Seq(A) /\ Len(t) = Len(note) /\ \A i \in 1 .. Len(t) : t[i] = note[i]
    BY <1>1, <2>2, <2>3
  <2>5. t = note
    BY <2>4, SameSeq
  <2> QED BY <2>3, <2>5
<1>4. w # <<>>
  BY <1>1
<1> QED BY <1>1, <1>2, <1>3, <1>4

\* The line of a key is read as the key.
LEMMA KeyLineRead ==
  ASSUME NEW slash \in BOOLEAN, NEW key \in PlainKey(slash),
         NEW l, l = KeyLine(key.name, key.value \o key.note)
  PROVE  /\ l \in PlainLine(slash) /\ l.kind = "key" /\ l.name = key.name
         /\ (IF slash THEN <<l.value[1]>> ELSE l.value) = key.value
         /\ (IF slash THEN Tail(l.value) ELSE <<>>) = key.note
<1>1. PICK v, note : v = key.value /\ note = key.note
  OBVIOUS
<1>2. /\ key.name \in Name /\ v \in Seq(Token) /\ v # <<>> /\ PlainValue(v, slash)
      /\ note \in Seq(Token) /\ (~slash => note = <<>>) /\ (slash => Len(v) = 1)
  BY <1>1, KeyType DEF PlainValue
<1>3. PICK w : w = v \o note
  OBVIOUS
<1>4. l = [kind |-> "key", name |-> key.name, value |-> w]
  BY <1>1, <1>3 DEF KeyLine
<1>5. w \in Seq(Token) /\ w # <<>>
  BY <1>2, <1>3
<1>6. (IF slash THEN <<w[1]>> ELSE w) = v /\ (IF slash THEN Tail(w) ELSE <<>>) = note
  <2>1. CASE slash = TRUE
    <3>1. <<w[1]>> = v /\ Tail(w) = note
      BY ONLY <1>2, <1>3, <2>1, OneAndMore, SMTT(30)
    <3> QED BY <2>1, <3>1
  <2>2. CASE slash = FALSE
    <3>1. v \o <<>> = v
      BY <1>2
    <3>2. note = <<>>
      BY <1>2, <2>2
    <3>3. w = v
      BY <1>3, <3>1, <3>2
    <3> QED BY <2>2, <3>2, <3>3
  <2> QED BY <2>1, <2>2
<1>7. l \in Line /\ l.kind = "key" /\ l.name = key.name /\ l.value = w
  BY <1>2, <1>4, <1>5 DEF Line, Kind
<1>8. l \in PlainLine(slash)
  BY <1>2, <1>5, <1>6, <1>7 DEF PlainLine
<1> QED BY <1>1, <1>6, <1>7, <1>8

\* The lines that are written for a key are plain ones.
LEMMA KeyLinesType ==
  ASSUME NEW slash \in BOOLEAN, NEW discard \in BOOLEAN, NEW key \in PlainKey(slash)
  PROVE  /\ KeyLines(key, discard) \in Seq(PlainLine(slash))
         /\ KeyLines(key, discard)
            = Append(Kept(key, discard), KeyLine(key.name, key.value \o key.note)) \o key.tail
<1>0. CommentLine \subseteq PlainLine(slash)
  BY DEF CommentLine, PlainLine
<1>1. PICK c, l, b :
        c = Kept(key, discard) /\ l = KeyLine(key.name, key.value \o key.note) /\ b = key.tail
  OBVIOUS
<1>2. KeyLines(key, discard) = (c \o <<l>>) \o b
  BY <1>1 DEF KeyLines, Kept
<1>3. c \in Seq(PlainLine(slash)) /\ b \in Seq(PlainLine(slash))
  <2>1. c \in Seq(CommentLine) /\ b \in Seq(CommentLine)
    BY <1>1, KeyType
  <2> QED BY <1>0, <2>1
<1>4. l \in PlainLine(slash)
  BY <1>1, KeyLineRead
<1>5. c \o <<l>> = Append(c, l) /\ Append(c, l) \in Seq(PlainLine(slash))
  BY <1>3, <1>4
<1>6. Append(c, l) \o b \in Seq(PlainLine(slash))
  BY <1>3, <1>5
<1> QED BY <1>1, <1>2, <1>5, <1>6

\* Reading the lines of a key.
LEMMA ParseKey ==
  ASSUME NEW slash \in BOOLEAN, NEW discard \in BOOLEAN, NEW lines \in Seq(PlainLine(slash)),
         NEW S \in Seq(PlainSection(slash)), S # <<>>, NEW C \in Seq(CommentLine),
         Parse(lines, slash) = Reading(S, C), NEW key \in PlainKey(slash)
  PROVE  /\ lines \o KeyLines(key, discard) \in Seq(PlainLine(slash))
         /\ Parse(lines \o KeyLines(key, discard), slash)
            = Reading(WithKey(S, KeyAgain(key, C, discard)), key.tail)
<1>1. PICK c, l, b :
        c = Kept(key, discard) /\ l = KeyLine(key.name, key.value \o key.note) /\ b = key.tail
  OBVIOUS
<1>2. KeyLines(key, discard) = Append(c, l) \o b
  BY <1>1, KeyLinesType
<1>3. c \in Seq(CommentLine) /\ b \in Seq(CommentLine)
  BY <1>1, KeyType
<1>4. PICK one : one = lines \o c
  OBVIOUS
<1>5. one \in Seq(PlainLine(slash)) /\ Parse(one, slash) = Reading(S, C \o c)
  BY <1>3, <1>4, ParseComments
<1>6. PICK D : D = C \o c
  OBVIOUS
<1>7. D \in Seq(CommentLine)
  BY <1>3, <1>6
<1>8. PICK k : k = NewKeyOf(l, D, slash)
  OBVIOUS
<1>9. l \in PlainLine(slash) /\ l.kind = "key" /\ k = KeyAgain(key, C, discard)
  <2>1. /\ l \in PlainLine(slash) /\ l.kind = "key" /\ l.name = key.name
        /\ (IF slash THEN <<l.value[1]>> ELSE l.value) = key.value
        /\ (IF slash THEN Tail(l.value) ELSE <<>>) = key.note
    BY <1>1, KeyLineRead
  <2>2. k = [name |-> l.name, value |-> IF slash THEN <<l.value[1]>> ELSE l.value,
             note |-> IF slash THEN Tail(l.value) ELSE <<>>, comment |-> D, tail |-> <<>>]
    <3>1. l \in PlainLine(slash) /\ l.kind = "key"
      BY <2>1
    <3>2. NewKeyOf(l, D, slash)
          = [name |-> l.name, value |-> IF slash THEN <<l.value[1]>> ELSE l.value,
             note |-> IF slash THEN Tail(l.value) ELSE <<>>, comment |-> D, tail |-> <<>>]
      BY ONLY slash \in BOOLEAN, S \in Seq(PlainSection(slash)), S # <<>>, <1>7, <3>1, ReadKeyLine
    <3> QED BY ONLY <1>8, <3>2
  <2> QED BY <1>1, <1>6, <2>1, <2>2 DEF KeyAgain
<1>10. ReadLine(Reading(S, D), l, slash) = Reading(WithKey(S, k), <<>>)
  <2>1. l \in PlainLine(slash) /\ l.kind = "key"
    BY <1>9
  <2>2. ReadLine(Reading(S, D), l, slash) = Reading(WithKey(S, NewKeyOf(l, D, slash)), <<>>)
    BY ONLY slash \in BOOLEAN, S \in Seq(PlainSection(slash)), S # <<>>, <1>7, <2>1, ReadKeyLine
  <2> QED BY ONLY <1>8, <2>2
<1>11. PICK two : two = Append(one, l)
  OBVIOUS
<1>12. two \in Seq(PlainLine(slash)) /\ Parse(two, slash) = Reading(WithKey(S, k), <<>>)
  <2>1. two \in Seq(PlainLine(slash))
    BY <1>5, <1>9, <1>11
  <2>2. Parse(two, slash) = ReadLine(Parse(one, slash), l, slash)
    BY <1>5, <1>9, <1>11, ParseMore
  <2> QED BY <2>1, <2>2, <1>5, <1>6, <1>10
<1>13. two \o b \in Seq(PlainLine(slash)) /\ Parse(two \o b, slash) = Reading(WithKey(S, k), <<>> \o b)
  <2>1. <<>> \in Seq(CommentLine)
    OBVIOUS
  <2>2. /\ two \in Seq(PlainLine(slash))
        /\ Parse(two, slash) = Reading(WithKey(S, k), <<>>)
        /\ b \in Seq(CommentLine)
    BY <1>3, <1>12
  <2>3. PICK W, E : W = WithKey(S, k) /\ E = <<>>
    OBVIOUS
  <2>4. E \in Seq(CommentLine) /\ Parse(two, slash) = Reading(W, E)
    BY <2>1, <2>2, <2>3
  <2>5. two \o b \in Seq(PlainLine(slash)) /\ Parse(two \o b, slash) = Reading(W, E \o b)
    BY ONLY slash \in BOOLEAN, <2>2, <2>4, ParseComments
  <2> QED BY <2>3, <2>5
<1>14. <<>> \o b = b
  BY <1>3
<1>15. lines \o KeyLines(key, discard) = two \o b
  <2>1. CommentLine \subseteq PlainLine(slash)
    BY DEF CommentLine, PlainLine
  <2>2. /\ c \in Seq(PlainLine(slash))
        /\ b \in Seq(PlainLine(slash))
        /\ Append(c, l) \in Seq(PlainLine(slash))
    BY <1>3, <1>9, <2>1
  <2>3. lines \o (Append(c, l) \o b) = (lines \o Append(c, l)) \o b
    <3>1. PICK cl : cl = Append(c, l)
      OBVIOUS
    <3>2. cl \in Seq(PlainLine(slash))
      BY <2>2, <3>1
    <3>3. lines \o (cl \o b) = (lines \o cl) \o b
      BY ONLY lines \in Seq(PlainLine(slash)), <2>2, <3>2, ConcatAssoc
    <3> QED BY <3>1, <3>3
  <2>4. lines \o Append(c, l) = Append(lines \o c, l)
    BY <1>9, <2>2, ConcatMore
  <2> QED BY <1>2, <1>4, <1>11, <2>3, <2>4
<1> QED BY <1>1, <1>9, <1>13, <1>14, <1>15

-----------------------------------------------------------------------------
(* Reading the lines of several keys. *)

KeysText(keys, discard) == FoldLeft(LAMBDA lines, key : lines \o KeyLines(key, discard), <<>>, keys)

\* The lines of some keys, one key after the other.
LEMMA KeysFold ==
  ASSUME NEW slash \in BOOLEAN, NEW discard \in BOOLEAN, NEW keys \in Seq(PlainKey(slash))
  PROVE  \E after \in [0 .. Len(keys) -> Seq(PlainLine(slash))] :
           /\ after[0] = <<>>
           /\ \A k \in 1 .. Len(keys) : after[k] = after[k - 1] \o KeyLines(keys[k], discard)
           /\ KeysText(keys, discard) = after[Len(keys)]
<1> DEFINE State == Seq(PlainLine(slash))
           f == [x \in State \X PlainKey(slash) |-> x[1] \o KeyLines(x[2], discard)]
           n == Len(keys)
           Step(g, S) == IF S = {} THEN <<>> ELSE g[S \ {Max(S)}] \o KeyLines(keys[Max(S)], discard)
           iter == CHOOSE g : g = [S \in SUBSET (1 .. n) |-> Step(g, S)]
<1>0. <<>> \in State
  OBVIOUS
<1>a. \A a \in State, k \in PlainKey(slash) : a \o KeyLines(k, discard) \in State
  <2> SUFFICES ASSUME NEW a \in State, NEW k \in PlainKey(slash)
               PROVE  a \o KeyLines(k, discard) \in State
    OBVIOUS
  <2>1. PICK b : b = KeyLines(k, discard)
    OBVIOUS
  <2>2. b \in Seq(PlainLine(slash))
    BY <2>1, KeyLinesType
  <2> QED BY <2>1, <2>2
<1>1. f \in [State \X PlainKey(slash) -> State]
      /\ \A a \in State, k \in PlainKey(slash) : f[<<a, k>>] = a \o KeyLines(k, discard)
  <2> HIDE DEF State
  <2>1. \A x \in State \X PlainKey(slash) : x[1] \o KeyLines(x[2], discard) \in State
    BY <1>a
  <2> QED BY <2>1
<1>2. n \in Nat /\ keys \in [1 .. n -> PlainKey(slash)] /\ DOMAIN keys = 1 .. n
  OBVIOUS
<1> HIDE DEF f, n, State
<1>3. PICK g \in [SUBSET (1 .. n) -> State] : IsFold(f, <<>>, n, keys, g)
  <2> HIDE DEF Step, iter
  <2> QED BY ONLY <1>0, <1>1, <1>2, FoldExists
<1>4. ASSUME NEW S \in SUBSET (1 .. n) PROVE g[S] = Step(g, S)
  <2>1. CASE S = {}
    BY <2>1, <1>3 DEF FoldStep, IsFold
  <2>2. CASE S # {}
    <3>1. Max(S) \in 1 .. n
      BY <2>2, <1>2, MaxIsLargest
    <3>2. g[S \ {Max(S)}] \in State /\ keys[Max(S)] \in PlainKey(slash)
      BY <3>1, <1>2, <1>3
    <3>3. g[S] = f[<<g[S \ {Max(S)}], keys[Max(S)]>>]
      BY <2>2, <1>3 DEF FoldStep, IsFold
    <3>4. f[<<g[S \ {Max(S)}], keys[Max(S)]>>] = g[S \ {Max(S)}] \o KeyLines(keys[Max(S)], discard)
      BY ONLY <3>2, <1>1
    <3> QED BY <2>2, <3>3, <3>4
  <2> QED BY <2>1, <2>2
<1>5. iter = [S \in SUBSET (1 .. n) |-> Step(iter, S)]
  <2>1. g = [S \in SUBSET (1 .. n) |-> Step(g, S)]
    <3> HIDE DEF Step
    <3> QED BY <1>3, <1>4
  <2> HIDE DEF Step
  <2> QED BY <2>1
<1>6. KeysText(keys, discard) = iter[1 .. n]
  BY <1>2 DEF KeysText, FoldLeft, MapThenFoldSet
<1> HIDE DEF iter
<1> DEFINE after == [k \in 0 .. n |-> iter[1 .. k]]
<1>7. \A k \in 0 .. n : 1 .. k \in SUBSET (1 .. n)
  BY <1>2
<1>8. after[0] = <<>>
  <2>1. iter[{}] = Step(iter, {})
    <3>1. {} \in SUBSET (1 .. n)
      OBVIOUS
    <3> HIDE DEF Step
    <3> QED BY <1>5, <3>1
  <2>2. 0 \in 0 .. n /\ 1 .. 0 = {}
    BY <1>2
  <2> QED BY <2>1, <2>2
<1>9. \A k \in 1 .. n : after[k] = after[k - 1] \o KeyLines(keys[k], discard)
  <2> SUFFICES ASSUME NEW k \in 1 .. n PROVE after[k] = after[k - 1] \o KeyLines(keys[k], discard)
    OBVIOUS
  <2>1. k \in Nat /\ k # 0 /\ k - 1 \in 0 .. n /\ k \in 0 .. n
    BY <1>2
  <2>2. 1 .. k # {} /\ Max(1 .. k) = k /\ (1 .. k) \ {Max(1 .. k)} = 1 .. (k - 1)
    BY <2>1, MaxOfPrefix
  <2>3. iter[1 .. k] = Step(iter, 1 .. k)
    BY <1>5, <1>7, <2>1
  <2>4. iter[1 .. k] = iter[1 .. (k - 1)] \o KeyLines(keys[k], discard)
    BY <2>2, <2>3
  <2> QED BY <2>1, <2>4
<1> DEFINE T == {k \in Nat : k <= n => after[k] \in State}
<1>10. 0 \in T
  BY <1>0, <1>8
<1>11. ASSUME NEW k \in Nat, k \in T PROVE k + 1 \in T
  <2> HIDE DEF after
  <2> SUFFICES ASSUME k + 1 <= n PROVE after[k + 1] \in State
    OBVIOUS
  <2>1. k + 1 \in 1 .. n /\ (k + 1) - 1 = k /\ after[k] \in State
    BY <1>11, <1>2
  <2>2. keys[k + 1] \in PlainKey(slash)
    BY <2>1, <1>2
  <2>3. after[k + 1] = after[k] \o KeyLines(keys[k + 1], discard)
    BY <2>1, <1>9
  <2> QED BY <2>1, <2>2, <2>3, <1>a
<1>12. after \in [0 .. n -> State]
  <2> HIDE DEF T
  <2>1. Nat \subseteq T
    BY <1>10, <1>11, NatSetInduction
  <2> HIDE DEF after
  <2>2. \A k \in 0 .. n : k \in Nat /\ k <= n
    BY <1>2
  <2>3. \A k \in 0 .. n : after[k] \in State
    BY <2>1, <2>2 DEF T
  <2> QED BY <2>3 DEF after
<1>13. KeysText(keys, discard) = after[n]
  BY <1>2, <1>6
<1> HIDE DEF after
<1> QED BY <1>8, <1>9, <1>12, <1>13 DEF n, State

\* A section as it is being read.
Begun(S, n, c, ks) == Append(S, [name |-> n, comment |-> c, tail |-> <<>>, keys |-> ks])

\* What has been read of a section so far is a section.
LEMMA BegunType ==
  ASSUME NEW slash \in BOOLEAN, NEW S \in Seq(PlainSection(slash)), NEW n \in Name,
         NEW c \in Seq(CommentLine), NEW ks \in Seq(PlainKey(slash))
  PROVE  /\ Begun(S, n, c, ks) \in Seq(PlainSection(slash)) /\ Begun(S, n, c, ks) # <<>>
         /\ \A k \in PlainKey(slash) : WithKey(Begun(S, n, c, ks), k) = Begun(S, n, c, Append(ks, k))
<1>1. PICK x : x = [name |-> n, comment |-> c, tail |-> <<>>, keys |-> ks]
  OBVIOUS
<1>2. x \in PlainSection(slash)
  <2>1. <<>> \in Seq(CommentLine)
    OBVIOUS
  <2> QED BY <1>1, <2>1 DEF PlainSection
<1>3. PICK B : B = Append(S, x)
  OBVIOUS
<1>4. B \in Seq(PlainSection(slash)) /\ B # <<>> /\ Len(B) = Len(S) + 1 /\ Len(S) \in Nat
      /\ B[Len(S) + 1] = x
  BY <1>2, <1>3
<1>5. B = Begun(S, n, c, ks)
  BY <1>1, <1>3 DEF Begun
<1>6. ASSUME NEW k \in PlainKey(slash) PROVE WithKey(B, k) = Begun(S, n, c, Append(ks, k))
  <2>1. PICK y : y = [name |-> n, comment |-> c, tail |-> <<>>, keys |-> Append(ks, k)]
    OBVIOUS
  <2>2. [name |-> x.name, comment |-> x.comment, tail |-> x.tail, keys |-> Append(x.keys, k)] = y
    BY <1>1, <2>1
  <2>3. WithKey(B, k) = [B EXCEPT ![Len(S) + 1] = y]
    BY <1>4, <2>2 DEF WithKey
  <2>4. y \in PlainSection(slash)
    <3>1. <<>> \in Seq(CommentLine) /\ Append(ks, k) \in Seq(PlainKey(slash))
      OBVIOUS
    <3> QED BY <2>1, <3>1 DEF PlainSection
  <2>5. [B EXCEPT ![Len(S) + 1] = y] = Append(S, y)
    <3>1. PICK a, b : a = [B EXCEPT ![Len(S) + 1] = y] /\ b = Append(S, y)
      OBVIOUS
    <3>2. /\ a \in Seq(PlainSection(slash)) /\ Len(a) = Len(S) + 1
          /\ \A i \in 1 .. Len(S) + 1 : a[i] = IF i = Len(S) + 1 THEN y ELSE B[i]
      BY <1>4, <2>4, <3>1
    <3>3. /\ b \in Seq(PlainSection(slash)) /\ Len(b) = Len(S) + 1
          /\ \A i \in 1 .. Len(S) + 1 : b[i] = IF i = Len(S) + 1 THEN y ELSE S[i]
      BY <2>4, <3>1
    <3>4. \A i \in 1 .. Len(S) : B[i] = S[i]
      BY <1>2, <1>3
    <3>5. ASSUME NEW i \in 1 .. Len(a) PROVE a[i] = b[i]
      <4>1. i \in 1 .. Len(S) + 1 /\ (i # Len(S) + 1 => i \in 1 .. Len(S))
        BY <1>4, <3>2
      <4>2. a[i] = (IF i = Len(S) + 1 THEN y ELSE B[i]) /\ b[i] = (IF i = Len(S) + 1 THEN y ELSE S[i])
        BY ONLY <3>2, <3>3, <4>1
      <4> QED BY ONLY <3>4, <4>1, <4>2
    <3>6. a = b
      BY ONLY <3>2, <3>3, <3>5, SameSeq
    <3> QED BY <3>1, <3>6
  <2> QED BY <2>1, <2>3, <2>5 DEF Begun
<1> QED BY <1>4, <1>5, <1>6

Before(section, j) == IF j = 1 THEN section.tail ELSE section.keys[j - 1].tail

\* The keys of a section as they are read again.
KeysRead(section, discard) ==
  [j \in DOMAIN section.keys |-> KeyAgain(section.keys[j], Before(section, j), discard)]

\* What is read for the keys of a section are keys, with names that differ.
LEMMA KeysReadType ==
  ASSUME NEW slash \in BOOLEAN, NEW discard \in BOOLEAN, NEW section \in PlainSection(slash)
  PROVE  /\ KeysRead(section, discard) \in Seq(PlainKey(slash))
         /\ Len(KeysRead(section, discard)) = Len(section.keys)
         /\ \A j \in 1 .. Len(section.keys) :
              /\ Before(section, j) \in Seq(CommentLine)
              /\ KeysRead(section, discard)[j] = KeyAgain(section.keys[j], Before(section, j), discard)
<1>1. section.keys \in Seq(PlainKey(slash)) /\ section.tail \in Seq(CommentLine)
  BY DEF PlainSection
<1>2. PICK n \in Nat : n = Len(section.keys) /\ DOMAIN section.keys = 1 .. n
  BY <1>1
<1>3. \A j \in 1 .. n : section.keys[j] \in PlainKey(slash)
  BY <1>1, <1>2
<1>4. ASSUME NEW j \in 1 .. n
      PROVE  /\ Before(section, j) \in Seq(CommentLine)
             /\ KeyAgain(section.keys[j], Before(section, j), discard) \in PlainKey(slash)
  <2>1. Before(section, j) \in Seq(CommentLine)
    <3>1. CASE j = 1
      BY <1>1, <3>1 DEF Before
    <3>2. CASE j # 1
      <4>1. j - 1 \in 1 .. n
        BY <1>2, <3>2
      <4>2. PICK k : k = section.keys[j - 1]
        OBVIOUS
      <4>3. k \in PlainKey(slash)
        BY <1>3, <4>1, <4>2
      <4>4. k.tail \in Seq(CommentLine)
        BY <4>3, KeyType
      <4> QED BY <3>2, <4>2, <4>4 DEF Before
    <3> QED BY <3>1, <3>2
  <2>2. PICK k, b : k = section.keys[j] /\ b = Before(section, j)
    OBVIOUS
  <2>3. k \in PlainKey(slash)
    BY <1>3, <2>2
  <2>4. KeyAgain(k, b, discard) \in PlainKey(slash)
    BY <2>1, <2>2, <2>3, KeyType
  <2> QED BY <2>1, <2>2, <2>4
<1>5. KeysRead(section, discard) = [j \in 1 .. n |-> KeyAgain(section.keys[j], Before(section, j),
          discard)]
  BY <1>2 DEF KeysRead
<1>6. KeysRead(section, discard) \in [1 .. n -> PlainKey(slash)]
  BY <1>4, <1>5
<1>7. KeysRead(section, discard) \in Seq(PlainKey(slash)) /\ Len(KeysRead(section, discard)) = n
  <2>1. PICK ks : ks = KeysRead(section, discard)
    OBVIOUS
  <2>2. ks \in [1 .. n -> PlainKey(slash)]
    BY <1>6, <2>1
  <2>3. ks \in Seq(PlainKey(slash)) /\ Len(ks) = n
    BY ONLY <2>2, n \in Nat
  <2> QED BY <2>1, <2>3
<1>8. \A j \in 1 .. n : KeysRead(section, discard)[j] = KeyAgain(section.keys[j], Before(section, j),
          discard)
  BY <1>5
<1> QED BY <1>2, <1>4, <1>7, <1>8

-----------------------------------------------------------------------------
(* Reading the lines of a section. *)

\* The lines of a section and those of a further key.
LEMMA LinesAssoc ==
  ASSUME NEW slash, NEW a \in Seq(PlainLine(slash)), NEW b \in Seq(PlainLine(slash)),
             NEW c \in Seq(PlainLine(slash))
  PROVE  a \o (b \o c) = (a \o b) \o c
<1> PICK A : A = PlainLine(slash)
  OBVIOUS
<1> QED BY ConcatAssoc

\* The comments behind the last key of a section.
LastTailOf(section, j) == IF j = 0 THEN section.tail ELSE section.keys[j].tail

\* The keys of a section are read as they are written.
LEMMA ParseKeys ==
  ASSUME NEW slash \in BOOLEAN, NEW discard \in BOOLEAN, NEW section \in PlainSection(slash),
         NEW S \in Seq(PlainSection(slash)), NEW n \in Name, NEW c \in Seq(CommentLine),
         NEW lines \in Seq(PlainLine(slash)),
         Parse(lines, slash) = Reading(Begun(S, n, c, <<>>), section.tail)
  PROVE  /\ lines \o KeysText(section.keys, discard) \in Seq(PlainLine(slash))
         /\ KeysText(section.keys, discard) \in Seq(PlainLine(slash))
         /\ Parse(lines \o KeysText(section.keys, discard), slash)
            = Reading(Begun(S, n, c, KeysRead(section, discard)), LastTail(section))
<1>1. section.keys \in Seq(PlainKey(slash)) /\ section.tail \in Seq(CommentLine)
  BY DEF PlainSection
<1>2. PICK keys : keys = section.keys
  OBVIOUS
<1>3. PICK m \in Nat : m = Len(keys) /\ DOMAIN keys = 1 .. m
  BY <1>1, <1>2
<1>a. keys \in Seq(PlainKey(slash)) /\ \A j \in 1 .. m : keys[j] \in PlainKey(slash)
  BY <1>1, <1>2, <1>3
<1>b. \A a, b \in Seq(PlainLine(slash)) : lines \o (a \o b) = (lines \o a) \o b
  BY LinesAssoc, SMTT(30)
<1>4. PICK after \in [0 .. m -> Seq(PlainLine(slash))] :
         /\ after[0] = <<>>
         /\ \A k \in 1 .. m : after[k] = after[k - 1] \o KeyLines(keys[k], discard)
         /\ KeysText(keys, discard) = after[m]
  BY <1>3, <1>a, KeysFold
<1>5. PICK R : R = KeysRead(section, discard)
  OBVIOUS
<1>6. /\ R \in Seq(PlainKey(slash)) /\ Len(R) = m
      /\ \A j \in 1 .. m : /\ Before(section, j) \in Seq(CommentLine)
                           /\ R[j] = KeyAgain(keys[j], Before(section, j), discard)
  BY <1>2, <1>3, <1>5, KeysReadType
<1> DEFINE Good(j) == /\ lines \o after[j] \in Seq(PlainLine(slash))
                      /\ Parse(lines \o after[j], slash)
                         = Reading(Begun(S, n, c, SubSeq(R, 1, j)), LastTailOf(section, j))
           T == {j \in Nat : j <= m => Good(j)}
<1>7. 0 \in T
  <2>1. SubSeq(R, 1, 0) = <<>> /\ lines \o <<>> = lines
    BY <1>6
  <2> QED BY <1>4, <2>1 DEF LastTailOf
<1>8. ASSUME NEW j \in Nat, j \in T PROVE j + 1 \in T
  <2> SUFFICES ASSUME j + 1 <= m PROVE Good(j + 1)
    OBVIOUS
  <2>1. j <= m /\ j + 1 \in 1 .. m /\ (j + 1) - 1 = j /\ j \in 0 .. m
    BY <1>3
  <2>2. Good(j)
    BY <1>8, <2>1
  <2>3. PICK bs, B, D, k, x : /\ bs = lines \o after[j] /\ B = Begun(S, n, c, SubSeq(R, 1, j))
                              /\ D = LastTailOf(section, j) /\ k = keys[j + 1]
                              /\ x = KeyLines(keys[j + 1], discard)
    OBVIOUS
  <2>4. k \in PlainKey(slash) /\ x = KeyLines(k, discard)
    BY <1>a, <2>1, <2>3
  <2>5. D = Before(section, j + 1) /\ D \in Seq(CommentLine)
    <3>1. D = Before(section, j + 1)
      BY <1>2, <2>1, <2>3 DEF LastTailOf, Before
    <3> QED BY <3>1, <2>1, <1>6
  <2>6. PICK ks : ks = SubSeq(R, 1, j)
    OBVIOUS
  <2>7. /\ ks \in Seq(PlainKey(slash))
        /\ R[j + 1] \in PlainKey(slash)
        /\ SubSeq(R, 1, j + 1) = Append(ks, R[j + 1])
    <3>1. R \in Seq(PlainKey(slash)) /\ j \in Nat /\ j + 1 <= Len(R)
      BY <1>6, <2>1
    <3>2. /\ SubSeq(R, 1, j) \in Seq(PlainKey(slash))
          /\ R[j + 1] \in PlainKey(slash)
          /\ SubSeq(R, 1, j + 1) = Append(SubSeq(R, 1, j), R[j + 1])
      BY ONLY <3>1, PrefixMore
    <3> QED BY <2>6, <3>2
  <2>8. /\ B \in Seq(PlainSection(slash))
        /\ B # <<>>
        /\ WithKey(B, R[j + 1]) = Begun(S, n, c, Append(ks, R[j + 1]))
    <3>1. ks \in Seq(PlainKey(slash))
      BY <2>7
    <3>2. /\ Begun(S, n, c, ks) \in Seq(PlainSection(slash))
          /\ Begun(S, n, c, ks) # <<>>
          /\ \A q \in PlainKey(slash) : WithKey(Begun(S, n, c, ks), q) = Begun(S, n, c, Append(ks, q))
      BY ONLY slash \in BOOLEAN, S \in Seq(PlainSection(slash)), n \in Name,
              c \in Seq(CommentLine), <3>1, BegunType
    <3>3. B = Begun(S, n, c, ks)
      BY <2>3, <2>6
    <3> QED BY <2>7, <3>2, <3>3
  <2>9. bs \in Seq(PlainLine(slash)) /\ Parse(bs, slash) = Reading(B, D)
    BY <2>2, <2>3
  <2>10. /\ bs \o x \in Seq(PlainLine(slash))
         /\ Parse(bs \o x, slash) = Reading(WithKey(B, KeyAgain(k, D, discard)), k.tail)
    BY ONLY slash \in BOOLEAN, discard \in BOOLEAN, <2>4, <2>5, <2>8, <2>9, ParseKey
  <2>11. KeyAgain(k, D, discard) = R[j + 1]
    BY <1>6, <2>1, <2>3, <2>5
  <2>12. k.tail = LastTailOf(section, j + 1)
    BY <1>2, <2>1, <2>3 DEF LastTailOf
  <2>13. lines \o after[j + 1] = bs \o x
    <3>1. after[j + 1] = after[j] \o x
      BY <1>4, <2>1, <2>3
    <3>2. PICK aj : aj = after[j]
      OBVIOUS
    <3>3. aj \in Seq(PlainLine(slash))
      BY <1>4, <2>1, <3>2
    <3>4. x \in Seq(PlainLine(slash))
      BY <2>4, KeyLinesType
    <3>5. lines \o (aj \o x) = (lines \o aj) \o x
      BY ONLY <1>b, <3>3, <3>4
    <3> QED BY <2>3, <3>1, <3>2, <3>5
  <2> QED BY <2>7, <2>8, <2>10, <2>11, <2>12, <2>13
<1> HIDE DEF T, Good
<1>9. Good(m)
  <2>1. m \in T
    BY <1>3, <1>7, <1>8, NatSetInduction
  <2> QED BY <2>1, <1>3 DEF T
<1>10. SubSeq(R, 1, m) = R
  BY <1>6
<1>11. LastTailOf(section, m) = LastTail(section)
  <2>1. CASE m = 0
    <3>1. keys = <<>>
      BY <2>1, <1>a, <1>3
    <3> QED BY <1>2, <2>1, <3>1 DEF LastTail, LastTailOf
  <2>2. CASE m # 0
    <3>1. keys # <<>> /\ Last(keys) = keys[m]
      BY <2>2, <1>3 DEF Last
    <3> QED BY <1>2, <2>2, <3>1 DEF LastTail, LastTailOf
  <2> QED BY <2>1, <2>2
<1>12. after[m] \in Seq(PlainLine(slash))
  BY <1>3, <1>4
<1> QED BY <1>2, <1>4, <1>5, <1>9, <1>10, <1>11, <1>12 DEF Good

SectionRead(section, before, discard) ==
  [name |-> section.name, comment |-> before \o Kept(section, discard), tail |-> <<>>,
   keys |-> KeysRead(section, discard)]

\* A section is read as it is written.
LEMMA ParseSection ==
  ASSUME NEW slash \in BOOLEAN, NEW discard \in BOOLEAN, NEW section \in PlainSection(slash),
         NEW S \in Seq(PlainSection(slash)), NEW C \in Seq(CommentLine),
         NEW lines \in Seq(PlainLine(slash)), Parse(lines, slash) = Reading(S, C)
  PROVE  /\ lines \o SectionLines(section, discard) \in Seq(PlainLine(slash))
         /\ SectionLines(section, discard) \in Seq(PlainLine(slash))
         /\ SectionRead(section, C, discard) \in PlainSection(slash)
         /\ LastTail(section) \in Seq(CommentLine)
         /\ Parse(lines \o SectionLines(section, discard), slash)
            = Reading(Append(S, SectionRead(section, C, discard)), LastTail(section))
<1>1. /\ section.name \in Name /\ section.keys \in Seq(PlainKey(slash))
      /\ section.tail \in Seq(CommentLine) /\ section.comment \in Seq(CommentLine)
  BY DEF PlainSection
<1>2. PICK c, l, b, K : c = Kept(section, discard) /\ l = SectionLine(section.name) /\ b = section.tail
                        /\ K = KeysText(section.keys, discard)
  OBVIOUS
<1>3. SectionLines(section, discard) = ((c \o <<l>>) \o b) \o K
  BY <1>2 DEF SectionLines, Kept, KeysText
<1>4. c \in Seq(CommentLine) /\ b \in Seq(CommentLine)
  BY <1>1, <1>2 DEF Kept
<1>5. PICK one : one = lines \o c
  OBVIOUS
<1>6. one \in Seq(PlainLine(slash)) /\ Parse(one, slash) = Reading(S, C \o c)
  BY <1>4, <1>5, ParseComments
<1>7. PICK D : D = C \o c
  OBVIOUS
<1>8. D \in Seq(CommentLine)
  BY <1>4, <1>7
<1>9. l \in PlainLine(slash) /\ l.kind = "section" /\ l.name = section.name
  <2>1. l = [kind |-> "section", name |-> section.name, value |-> <<>>]
    BY <1>2 DEF SectionLine
  <2>2. <<>> \in Seq(Token)
    OBVIOUS
  <2> QED BY <1>1, <2>1, <2>2 DEF PlainLine, Line, Kind
<1>10. PICK two, B : two = Append(one, l) /\ B = Begun(S, section.name, D, <<>>)
  OBVIOUS
<1>11. two \in Seq(PlainLine(slash)) /\ Parse(two, slash) = Reading(B, <<>>)
  <2>1. two \in Seq(PlainLine(slash))
    BY <1>6, <1>9, <1>10
  <2>2. Parse(two, slash) = ReadLine(Parse(one, slash), l, slash)
    BY <1>6, <1>9, <1>10, ParseMore
  <2>3. ReadLine(Reading(S, D), l, slash) = Reading(B, <<>>)
    BY <1>9, <1>10, ReadSection DEF Begun
  <2> QED BY <2>1, <2>2, <2>3, <1>6, <1>7
<1>12. PICK E, three : E = <<>> /\ three = two \o b
  OBVIOUS
<1>13. three \in Seq(PlainLine(slash)) /\ Parse(three, slash) = Reading(B, b)
  <2>1. E \in Seq(CommentLine) /\ Parse(two, slash) = Reading(B, E)
    BY <1>11, <1>12
  <2>2. two \o b \in Seq(PlainLine(slash)) /\ Parse(two \o b, slash) = Reading(B, E \o b)
    BY ONLY slash \in BOOLEAN, <1>4, <1>11, <2>1, ParseComments
  <2>3. E \o b = b
    BY <1>4, <1>12
  <2> QED BY <1>12, <2>2, <2>3
<1>14. /\ three \o K \in Seq(PlainLine(slash)) /\ K \in Seq(PlainLine(slash))
       /\ Parse(three \o K, slash) = Reading(Begun(S, section.name, D, KeysRead(section, discard)),
              LastTail(section))
  BY <1>1, <1>2, <1>8, <1>10, <1>13, ParseKeys
<1>15. Begun(S, section.name, D, KeysRead(section, discard))
        = Append(S, SectionRead(section, C, discard))
  BY <1>2, <1>7 DEF Begun, SectionRead
<1>16. SectionRead(section, C, discard) \in PlainSection(slash)
  <2>1. KeysRead(section, discard) \in Seq(PlainKey(slash)) /\ <<>> \in Seq(CommentLine)
    BY KeysReadType
  <2> QED BY <1>1, <1>2, <1>7, <1>8, <2>1 DEF SectionRead, PlainSection
<1>17. LastTail(section) \in Seq(CommentLine)
  <2>1. CASE section.keys = <<>>
    BY <1>1, <2>1 DEF LastTail
  <2>2. CASE section.keys # <<>>
    <3>1. PICK k : k = Last(section.keys)
      OBVIOUS
    <3>2. k \in PlainKey(slash)
      BY <1>1, <2>2, <3>1 DEF Last
    <3> QED BY <2>2, <3>1, <3>2, KeyType DEF LastTail
  <2> QED BY <2>1, <2>2
<1>18. /\ SectionLines(section, discard) \in Seq(PlainLine(slash))
       /\ lines \o SectionLines(section, discard) = three \o K
  <2>0. CommentLine \subseteq PlainLine(slash)
    BY DEF CommentLine, PlainLine
  <2>1. PICK cl, clb : cl = c \o <<l>> /\ clb = cl \o b
    OBVIOUS
  <2>2. c \in Seq(PlainLine(slash)) /\ b \in Seq(PlainLine(slash))
    BY <1>4, <2>0
  <2>3. cl = Append(c, l) /\ cl \in Seq(PlainLine(slash))
    BY <1>9, <2>1, <2>2
  <2>4. clb \in Seq(PlainLine(slash))
    BY <2>1, <2>2, <2>3
  <2>5. lines \o (clb \o K) = (lines \o clb) \o K
    <3>1. K \in Seq(PlainLine(slash))
      BY <1>14
    <3> QED BY ONLY lines \in Seq(PlainLine(slash)), <2>4, <3>1, LinesAssoc, SMTT(30)
  <2>6. lines \o (cl \o b) = (lines \o cl) \o b
    <3>1. cl \in Seq(PlainLine(slash))
      BY <2>3
    <3> QED BY ONLY lines \in Seq(PlainLine(slash)), <2>2, <3>1, LinesAssoc
  <2>7. lines \o cl = two
    <3>1. lines \o Append(c, l) = Append(lines \o c, l)
      BY <1>9, <2>2, ConcatMore
    <3> QED BY <3>1, <2>3, <1>5, <1>10
  <2>8. clb \o K \in Seq(PlainLine(slash))
    BY <2>4, <1>14
  <2> QED BY <1>3, <1>12, <2>1, <2>5, <2>6, <2>7, <2>8
<1> QED BY <1>14, <1>15, <1>16, <1>17, <1>18

-----------------------------------------------------------------------------
(* Reading the lines of a tree. *)

\* The lines that are written for a section are plain ones.
LEMMA SectionLinesType ==
  ASSUME NEW slash \in BOOLEAN, NEW discard \in BOOLEAN, NEW section \in PlainSection(slash)
  PROVE  /\ SectionLines(section, discard) \in Seq(PlainLine(slash))
         /\ LastTail(section) \in Seq(CommentLine)
         /\ \A C \in Seq(CommentLine) : SectionRead(section, C, discard) \in PlainSection(slash)
<1>1. PICK E : E = <<>>
  OBVIOUS
<1>2. /\ E \in Seq(PlainLine(slash)) /\ E \in Seq(PlainSection(slash)) /\ E \in Seq(CommentLine)
      /\ Parse(E, slash) = Reading(E, E)
  BY <1>1, ParseNothing
<1>3. ASSUME NEW C \in Seq(CommentLine) PROVE SectionRead(section, C, discard) \in PlainSection(slash)
  <2>1. section.name \in Name /\ section.comment \in Seq(CommentLine)
    BY DEF PlainSection
  <2>2. PICK c : c = Kept(section, discard)
    OBVIOUS
  <2>3. c \in Seq(CommentLine)
    BY <2>1, <2>2 DEF Kept
  <2>4. KeysRead(section, discard) \in Seq(PlainKey(slash)) /\ <<>> \in Seq(CommentLine)
    BY KeysReadType
  <2>5. C \o c \in Seq(CommentLine)
    BY <2>3
  <2> QED BY <2>1, <2>2, <2>4, <2>5 DEF SectionRead, PlainSection
<1>4. /\ SectionLines(section, discard) \in Seq(PlainLine(slash))
      /\ LastTail(section) \in Seq(CommentLine)
  BY ONLY <1>2, ParseSection, slash \in BOOLEAN, discard \in BOOLEAN, section \in PlainSection(slash)
<1> QED BY <1>3, <1>4

TreeText(t, discard) == FoldLeft(LAMBDA lines, s : lines \o SectionLines(s, discard), <<>>, t)

\* The lines of a tree, one section after the other.
LEMMA TreeFold ==
  ASSUME NEW slash \in BOOLEAN, NEW discard \in BOOLEAN, NEW t \in Seq(PlainSection(slash))
  PROVE  \E after \in [0 .. Len(t) -> Seq(PlainLine(slash))] :
           /\ after[0] = <<>>
           /\ \A k \in 1 .. Len(t) : after[k] = after[k - 1] \o SectionLines(t[k], discard)
           /\ TreeText(t, discard) = after[Len(t)]
<1> DEFINE State == Seq(PlainLine(slash))
           f == [x \in State \X PlainSection(slash) |-> x[1] \o SectionLines(x[2], discard)]
           n == Len(t)
           Step(g, S) == IF S = {} THEN <<>> ELSE g[S \ {Max(S)}] \o SectionLines(t[Max(S)], discard)
           iter == CHOOSE g : g = [S \in SUBSET (1 .. n) |-> Step(g, S)]
<1>0. <<>> \in State
  OBVIOUS
<1>a. \A a \in State, k \in PlainSection(slash) : a \o SectionLines(k, discard) \in State
  <2> SUFFICES ASSUME NEW a \in State, NEW k \in PlainSection(slash)
               PROVE  a \o SectionLines(k, discard) \in State
    OBVIOUS
  <2>1. PICK b : b = SectionLines(k, discard)
    OBVIOUS
  <2>2. b \in Seq(PlainLine(slash))
    BY <2>1, SectionLinesType
  <2> QED BY <2>1, <2>2
<1>1. f \in [State \X PlainSection(slash) -> State]
      /\ \A a \in State, k \in PlainSection(slash) : f[<<a, k>>] = a \o SectionLines(k, discard)
  <2> HIDE DEF State
  <2>1. \A x \in State \X PlainSection(slash) : x[1] \o SectionLines(x[2], discard) \in State
    BY <1>a
  <2> QED BY <2>1
<1>2. n \in Nat /\ t \in [1 .. n -> PlainSection(slash)] /\ DOMAIN t = 1 .. n
  OBVIOUS
<1> HIDE DEF f, n, State
<1>3. PICK g \in [SUBSET (1 .. n) -> State] : IsFold(f, <<>>, n, t, g)
  <2> HIDE DEF Step, iter
  <2> QED BY ONLY <1>0, <1>1, <1>2, FoldExists
<1>4. ASSUME NEW S \in SUBSET (1 .. n) PROVE g[S] = Step(g, S)
  <2>1. CASE S = {}
    BY <2>1, <1>3 DEF FoldStep, IsFold
  <2>2. CASE S # {}
    <3>1. Max(S) \in 1 .. n
      BY <2>2, <1>2, MaxIsLargest
    <3>2. g[S \ {Max(S)}] \in State /\ t[Max(S)] \in PlainSection(slash)
      BY <3>1, <1>2, <1>3
    <3>3. g[S] = f[<<g[S \ {Max(S)}], t[Max(S)]>>]
      BY <2>2, <1>3 DEF FoldStep, IsFold
    <3>4. f[<<g[S \ {Max(S)}], t[Max(S)]>>] = g[S \ {Max(S)}] \o SectionLines(t[Max(S)], discard)
      BY ONLY <3>2, <1>1
    <3> QED BY <2>2, <3>3, <3>4
  <2> QED BY <2>1, <2>2
<1>5. iter = [S \in SUBSET (1 .. n) |-> Step(iter, S)]
  <2>1. g = [S \in SUBSET (1 .. n) |-> Step(g, S)]
    <3> HIDE DEF Step
    <3> QED BY <1>3, <1>4
  <2> HIDE DEF Step
  <2> QED BY <2>1
<1>6. TreeText(t, discard) = iter[1 .. n]
  BY <1>2 DEF TreeText, FoldLeft, MapThenFoldSet
<1> HIDE DEF iter
<1> DEFINE after == [k \in 0 .. n |-> iter[1 .. k]]
<1>7. \A k \in 0 .. n : 1 .. k \in SUBSET (1 .. n)
  BY <1>2
<1>8. after[0] = <<>>
  <2>1. iter[{}] = Step(iter, {})
    <3>1. {} \in SUBSET (1 .. n)
      OBVIOUS
    <3> HIDE DEF Step
    <3> QED BY <1>5, <3>1
  <2>2. 0 \in 0 .. n /\ 1 .. 0 = {}
    BY <1>2
  <2> QED BY <2>1, <2>2
<1>9. \A k \in 1 .. n : after[k] = after[k - 1] \o SectionLines(t[k], discard)
  <2> SUFFICES ASSUME NEW k \in 1 .. n PROVE after[k] = after[k - 1] \o SectionLines(t[k], discard)
    OBVIOUS
  <2>1. k \in Nat /\ k # 0 /\ k - 1 \in 0 .. n /\ k \in 0 .. n
    BY <1>2
  <2>2. 1 .. k # {} /\ Max(1 .. k) = k /\ (1 .. k) \ {Max(1 .. k)} = 1 .. (k - 1)
    BY <2>1, MaxOfPrefix
  <2>3. iter[1 .. k] = Step(iter, 1 .. k)
    BY <1>5, <1>7, <2>1
  <2>4. iter[1 .. k] = iter[1 .. (k - 1)] \o SectionLines(t[k], discard)
    BY <2>2, <2>3
  <2> QED BY <2>1, <2>4
<1> DEFINE T == {k \in Nat : k <= n => after[k] \in State}
<1>10. 0 \in T
  BY <1>0, <1>8
<1>11. ASSUME NEW k \in Nat, k \in T PROVE k + 1 \in T
  <2> HIDE DEF after
  <2> SUFFICES ASSUME k + 1 <= n PROVE after[k + 1] \in State
    OBVIOUS
  <2>1. k + 1 \in 1 .. n /\ (k + 1) - 1 = k /\ after[k] \in State
    BY <1>11, <1>2
  <2>2. t[k + 1] \in PlainSection(slash)
    BY <2>1, <1>2
  <2>3. after[k + 1] = after[k] \o SectionLines(t[k + 1], discard)
    BY <2>1, <1>9
  <2> QED BY <2>1, <2>2, <2>3, <1>a
<1>12. after \in [0 .. n -> State]
  <2> HIDE DEF T
  <2>1. Nat \subseteq T
    BY <1>10, <1>11, NatSetInduction
  <2> HIDE DEF after
  <2>2. \A k \in 0 .. n : k \in Nat /\ k <= n
    BY <1>2
  <2>3. \A k \in 0 .. n : after[k] \in State
    BY <2>1, <2>2 DEF T
  <2> QED BY <2>3 DEF after
<1>13. TreeText(t, discard) = after[n]
  BY <1>2, <1>6
<1> HIDE DEF after
<1> QED BY <1>8, <1>9, <1>12, <1>13 DEF n, State

FrontOf(t, i) == IF i = 1 THEN <<>> ELSE LastTail(t[i - 1])

\* The tree as it is read again.
TreeRead(t, discard) == [i \in DOMAIN t |-> SectionRead(t[i], FrontOf(t, i), discard)]

\* What is read for a tree are sections, with names that differ.
LEMMA TreeReadType ==
  ASSUME NEW slash \in BOOLEAN, NEW discard \in BOOLEAN, NEW t \in Seq(PlainSection(slash))
  PROVE  /\ TreeRead(t, discard) \in Seq(PlainSection(slash))
         /\ Len(TreeRead(t, discard)) = Len(t)
         /\ \A i \in 1 .. Len(t) : /\ FrontOf(t, i) \in Seq(CommentLine)
                                    /\ TreeRead(t, discard)[i] = SectionRead(t[i], FrontOf(t, i),
                                           discard)
<1>1. PICK n \in Nat : n = Len(t) /\ DOMAIN t = 1 .. n
  OBVIOUS
<1>2. \A i \in 1 .. n : t[i] \in PlainSection(slash)
  BY <1>1
<1>3. ASSUME NEW i \in 1 .. n
      PROVE  /\ FrontOf(t, i) \in Seq(CommentLine)
             /\ SectionRead(t[i], FrontOf(t, i), discard) \in PlainSection(slash)
  <2>1. FrontOf(t, i) \in Seq(CommentLine)
    <3>1. CASE i = 1
      BY <3>1 DEF FrontOf
    <3>2. CASE i # 1
      <4>1. i - 1 \in 1 .. n
        BY <1>1, <3>2
      <4>2. PICK s : s = t[i - 1]
        OBVIOUS
      <4>3. s \in PlainSection(slash)
        BY <1>2, <4>1, <4>2
      <4>4. LastTail(s) \in Seq(CommentLine)
        BY <4>3, SectionLinesType
      <4> QED BY <3>2, <4>2, <4>4 DEF FrontOf
    <3> QED BY <3>1, <3>2
  <2>2. PICK s, b : s = t[i] /\ b = FrontOf(t, i)
    OBVIOUS
  <2>3. s \in PlainSection(slash)
    BY <1>2, <2>2
  <2>4. SectionRead(s, b, discard) \in PlainSection(slash)
    BY <2>1, <2>2, <2>3, SectionLinesType
  <2> QED BY <2>1, <2>2, <2>4
<1>4. PICK R : R = TreeRead(t, discard)
  OBVIOUS
<1>5. R = [i \in 1 .. n |-> SectionRead(t[i], FrontOf(t, i), discard)]
  BY <1>1, <1>4 DEF TreeRead
<1>6. R \in [1 .. n -> PlainSection(slash)]
  BY <1>3, <1>5
<1>7. R \in Seq(PlainSection(slash)) /\ Len(R) = n
  BY ONLY <1>6, n \in Nat
<1>8. \A i \in 1 .. n : R[i] = SectionRead(t[i], FrontOf(t, i), discard)
  BY <1>5
<1> QED BY <1>1, <1>3, <1>4, <1>7, <1>8

\* What is written for a tree is read as the tree, with the comments where the
\* reader attaches them (TreeAgain of InitProfile, by AgainIsRead).
LEMMA ParseTree ==
  ASSUME NEW slash \in BOOLEAN, NEW discard \in BOOLEAN, NEW t \in Seq(PlainSection(slash))
  PROVE  /\ Written(t, discard) \in Seq(PlainLine(slash))
         /\ \E C \in Seq(CommentLine) :
              Parse(Written(t, discard), slash) = Reading(TreeRead(t, discard), C)
<1>1. PICK m \in Nat : m = Len(t) /\ DOMAIN t = 1 .. m
  OBVIOUS
<1>2. \A j \in 1 .. m : t[j] \in PlainSection(slash)
  BY <1>1
<1>3. PICK after \in [0 .. m -> Seq(PlainLine(slash))] :
         /\ after[0] = <<>>
         /\ \A k \in 1 .. m : after[k] = after[k - 1] \o SectionLines(t[k], discard)
         /\ TreeText(t, discard) = after[m]
  BY <1>1, TreeFold
<1>4. PICK R : R = TreeRead(t, discard)
  OBVIOUS
<1>5. /\ R \in Seq(PlainSection(slash)) /\ Len(R) = m
      /\ \A j \in 1 .. m : /\ FrontOf(t, j) \in Seq(CommentLine)
                            /\ R[j] = SectionRead(t[j], FrontOf(t, j), discard)
  BY <1>1, <1>4, TreeReadType
<1> DEFINE LastOf(j) == IF j = 0 THEN <<>> ELSE LastTail(t[j])
           Good(j) == Parse(after[j], slash) = Reading(SubSeq(R, 1, j), LastOf(j))
           T == {j \in Nat : j <= m => Good(j)}
<1>6. 0 \in T
  <2>1. SubSeq(R, 1, 0) = <<>>
    BY <1>5
  <2> QED BY <1>3, <2>1, ParseNothing
<1>7. ASSUME NEW j \in Nat, j \in T PROVE j + 1 \in T
  <2> SUFFICES ASSUME j + 1 <= m PROVE Good(j + 1)
    OBVIOUS
  <2>1. j <= m /\ j + 1 \in 1 .. m /\ (j + 1) - 1 = j /\ j \in 0 .. m
    BY <1>1
  <2>2. Good(j)
    BY <1>7, <2>1
  <2>3. PICK bs, S, D, s, x : /\ bs = after[j] /\ S = SubSeq(R, 1, j)
                              /\ D = LastOf(j) /\ s = t[j + 1] /\ x = SectionLines(t[j + 1], discard)
    OBVIOUS
  <2>4. s \in PlainSection(slash) /\ x = SectionLines(s, discard)
    BY <1>2, <2>1, <2>3
  <2>5. D = FrontOf(t, j + 1) /\ D \in Seq(CommentLine)
    <3>1. D = FrontOf(t, j + 1)
      <4>1. CASE j = 0
        BY <2>3, <4>1 DEF FrontOf
      <4>2. CASE j # 0
        BY <2>1, <2>3, <4>2 DEF FrontOf
      <4> QED BY <4>1, <4>2
    <3> QED BY <3>1, <2>1, <1>5
  <2>6. S \in Seq(PlainSection(slash)) /\ SubSeq(R, 1, j + 1) = Append(S, R[j + 1])
    <3>1. R \in Seq(PlainSection(slash)) /\ j \in Nat /\ j + 1 <= Len(R)
      BY <1>5, <2>1
    <3>2. /\ SubSeq(R, 1, j) \in Seq(PlainSection(slash))
          /\ SubSeq(R, 1, j + 1) = Append(SubSeq(R, 1, j), R[j + 1])
      BY ONLY <3>1, PrefixMore
    <3>3. S = SubSeq(R, 1, j)
      BY <2>3
    <3> QED BY <3>2, <3>3
  <2>7. bs \in Seq(PlainLine(slash)) /\ Parse(bs, slash) = Reading(S, D)
    <3>1. bs \in Seq(PlainLine(slash))
      BY <1>3, <2>1, <2>3
    <3> QED BY <2>2, <2>3, <3>1
  <2>8. D \in Seq(CommentLine) /\ s \in PlainSection(slash) /\ S \in Seq(PlainSection(slash))
    BY <2>4, <2>5, <2>6
  <2>9. Parse(bs \o SectionLines(s, discard), slash)
        = Reading(Append(S, SectionRead(s, D, discard)), LastTail(s))
    BY ONLY slash \in BOOLEAN, discard \in BOOLEAN, <2>7, <2>8, ParseSection
  <2>10. SectionRead(s, D, discard) = R[j + 1]
    BY <1>5, <2>1, <2>3, <2>5
  <2>11. LastTail(s) = LastOf(j + 1)
    BY <2>1, <2>3
  <2>12. after[j + 1] = bs \o SectionLines(s, discard)
    BY <1>3, <2>1, <2>3
  <2> QED BY <2>6, <2>9, <2>10, <2>11, <2>12
<1> HIDE DEF T, Good
<1>8. Good(m)
  <2>1. m \in T
    BY <1>1, <1>6, <1>7, NatSetInduction
  <2> QED BY <2>1, <1>1 DEF T
<1>9. SubSeq(R, 1, m) = R
  BY <1>5
<1>10. PICK text, D : text = after[m] /\ D = LastOf(m)
  OBVIOUS
<1>11. text \in Seq(PlainLine(slash)) /\ Parse(text, slash) = Reading(R, D) /\ D \in Seq(CommentLine)
  <2>1. text \in Seq(PlainLine(slash))
    BY <1>1, <1>3, <1>10
  <2>2. Parse(text, slash) = Reading(R, D)
    BY <1>8, <1>9, <1>10 DEF Good
  <2>3. D \in Seq(CommentLine)
    <3>1. CASE m = 0
      BY <1>10, <3>1
    <3>2. CASE m # 0
      <4>1. PICK s : s = t[m]
        OBVIOUS
      <4>2. s \in PlainSection(slash)
        BY <1>1, <1>2, <3>2, <4>1
      <4>3. LastTail(s) \in Seq(CommentLine)
        BY <4>2, SectionLinesType
      <4> QED BY <1>10, <3>2, <4>1, <4>3
    <3> QED BY <3>1, <3>2
  <2> QED BY <2>1, <2>2, <2>3
<1>12. Blank \in PlainLine(slash) /\ Blank.kind \in {"comment", "blank"} /\ Blank \in CommentLine
  <2>1. <<>> \in Seq(Token)
    OBVIOUS
  <2> QED BY <2>1 DEF Blank, PlainLine, CommentLine, Line, Kind
<1>13. PICK e : e = Blank
  OBVIOUS
<1>14. Append(text, e) \in Seq(PlainLine(slash)) /\ Append(D, e) \in Seq(CommentLine)
  BY <1>11, <1>12, <1>13
<1>15. Parse(Append(text, e), slash) = ReadLine(Reading(R, D), e, slash)
  BY <1>11, <1>12, <1>13, ParseMore
<1>16. ReadLine(Reading(R, D), e, slash) = Reading(R, Append(D, e))
  BY <1>12, <1>13, ReadComment
<1>17. Written(t, discard) = Append(text, e)
  BY <1>3, <1>10, <1>13 DEF Written, TreeText
<1> QED BY <1>4, <1>14, <1>15, <1>16, <1>17

-----------------------------------------------------------------------------
(* Reading the first part of such lines. *)

\* A line that is read without an error adds to what was read before it.
LEMMA ReadAdds ==
  ASSUME NEW slash \in BOOLEAN, NEW st \in PlainState(slash), NEW l \in PlainLine(slash),
         ReadLine(st, l, slash).rc = "NO_ERROR", Unique(ReadLine(st, l, slash).sections)
  PROVE  st.rc = "NO_ERROR" /\ Unique(st.sections)
<1>1. st.rc = "NO_ERROR"
  <2>1. st.rc # "NO_ERROR" => ReadLine(st, l, slash) = st
    BY DEF ReadLine
  <2> QED BY <2>1
<1>2. PICK S \in Seq(PlainSection(slash)), C \in Seq(CommentLine) : st = Reading(S, C)
  BY <1>1, StateIsReading
<1>3. PICK r : r = ReadLine(st, l, slash)
  OBVIOUS
<1>4. r.rc = "NO_ERROR" /\ Unique(r.sections) /\ r = ReadLine(Reading(S, C), l, slash)
  BY <1>2, <1>3
<1>5. Unique(S)
  <2>1. CASE l.kind \in {"comment", "blank"}
    <3>1. r = Reading(S, Append(C, l))
      BY <1>4, <2>1, ReadComment
    <3> QED BY <1>4, <3>1 DEF Reading
  <2>2. CASE l.kind = "section"
    <3>1. PICK x : x = [name |-> l.name, comment |-> C, tail |-> <<>>, keys |-> <<>>]
      OBVIOUS
    <3>2. x \in PlainSection(slash)
      <4>1. l.name \in Name /\ <<>> \in Seq(CommentLine) /\ <<>> \in Seq(PlainKey(slash))
        BY <2>2 DEF PlainLine
      <4> QED BY <3>1, <4>1 DEF PlainSection
    <3>3. PICK T : T = Append(S, x)
      OBVIOUS
    <3>4. r = Reading(T, <<>>)
      BY <1>4, <2>2, <3>1, <3>3, ReadSection
    <3>5. Unique(T)
      BY <1>4, <3>4 DEF Reading
    <3>6. \A i \in DOMAIN S : i \in DOMAIN T /\ T[i] = S[i]
      BY <3>2, <3>3
    <3> QED BY ONLY <3>5, <3>6 DEF Unique, Distinct
  <2>3. CASE l.kind = "key" /\ S # <<>>
    <3>1. PICK k, T : k = NewKeyOf(l, C, slash) /\ T = WithKey(S, k)
      OBVIOUS
    <3>2. k \in PlainKey(slash) /\ T \in Seq(PlainSection(slash)) /\ r = Reading(T, <<>>)
      <4>1. l.kind = "key" /\ S # <<>>
        BY <2>3
      <4> QED BY <1>4, <3>1, <4>1, ReadKeyLine
    <3>3. Unique(T)
      BY <1>4, <3>2 DEF Reading
    <3>4. PICK n \in Nat : n = Len(S) /\ DOMAIN S = 1 .. n /\ n # 0
      BY <2>3
    <3>5. PICK x :
            x = [name |-> S[n].name, comment |-> S[n].comment, tail |-> S[n].tail,
                keys |-> Append(S[n].keys, k)]
      OBVIOUS
    <3>6. T = [S EXCEPT ![n] = x]
      BY <3>1, <3>4, <3>5 DEF WithKey
    <3>7. DOMAIN T = 1 .. n /\ \A i \in 1 .. n : T[i] = IF i = n THEN x ELSE S[i]
      BY ONLY <3>4, <3>6
    <3>8. \A i \in 1 .. n : T[i].name = S[i].name
      <4>1. x.name = S[n].name
        BY ONLY <3>5
      <4> QED BY ONLY <3>7, <4>1
    <3>9. Distinct(S)
      BY ONLY <3>3, <3>4, <3>7, <3>8 DEF Unique, Distinct
    <3>10. ASSUME NEW i \in 1 .. n PROVE Distinct(S[i].keys)
      <4>1. Distinct(T[i].keys)
        BY <3>3, <3>7 DEF Unique
      <4>2. CASE i # n
        BY <3>7, <4>1, <4>2
      <4>3. CASE i = n
        <5>1. PICK ks : ks = S[n].keys
          OBVIOUS
        <5>2. ks \in Seq(PlainKey(slash))
          <6>1. S[n] \in PlainSection(slash)
            BY <3>4
          <6> QED BY <5>1, <6>1 DEF PlainSection
        <5>3. T[i].keys = Append(ks, k)
          BY <3>5, <3>7, <4>3, <5>1
        <5>4. \A j \in DOMAIN ks : j \in DOMAIN Append(ks, k) /\ Append(ks, k)[j] = ks[j]
          BY <3>2, <5>2
        <5> QED BY ONLY <4>1, <4>3, <5>1, <5>3, <5>4, SMTT(30) DEF Distinct
      <4> QED BY <4>2, <4>3
    <3> QED BY <3>4, <3>9, <3>10 DEF Unique
  <2>4. CASE l.kind = "key" /\ S = <<>>
    BY <2>4 DEF Unique, Distinct
  <2> QED BY <2>1, <2>2, <2>3, <2>4 DEF PlainLine
<1> QED BY <1>1, <1>2, <1>5 DEF Reading

\* If plain lines are read as a tree in which no name stands twice, so is each
\* first part of them.
LEMMA PartIsPlain ==
  ASSUME NEW slash \in BOOLEAN, NEW w \in Seq(PlainLine(slash)), NEW n \in 0 .. Len(w),
         Parse(w, slash).rc = "NO_ERROR" => Unique(Parse(w, slash).sections)
  PROVE  PlainFile(SubSeq(w, 1, n), slash)
<1>1. PICK m \in Nat : m = Len(w)
  OBVIOUS
<1> DEFINE State(i) == Parse(SubSeq(w, 1, i), slash)
           Good(i) == State(i).rc = "NO_ERROR" => Unique(State(i).sections)
           T == {k \in Nat : k <= m => Good(m - k)}
<1>2. 0 \in T
  <2>1. SubSeq(w, 1, m) = w /\ m - 0 = m
    BY <1>1
  <2> QED BY <2>1
<1>3. ASSUME NEW k \in Nat, k \in T PROVE k + 1 \in T
  <2> SUFFICES ASSUME k + 1 <= m PROVE Good(m - (k + 1))
    OBVIOUS
  <2>0. m - (k + 1) \in Nat /\ m - (k + 1) < m /\ (m - (k + 1)) + 1 = m - k /\ k <= m
    OBVIOUS
  <2>a. PICK i : i = m - (k + 1)
    OBVIOUS
  <2>1. i \in Nat /\ i = m - (k + 1) /\ i + 1 = m - k /\ i \in 0 .. Len(w) /\ i < Len(w) /\ k <= m
    BY <1>1, <2>0, <2>a
  <2>2. Good(i + 1)
    BY <1>3, <2>1
  <2>3. PICK s, l : s = State(i) /\ l = w[i + 1]
    OBVIOUS
  <2>4. s \in PlainState(slash) /\ l \in PlainLine(slash) /\ State(i + 1) = ReadLine(s, l, slash)
    <3>1. i \in 0 .. Len(w) /\ i < Len(w)
      BY <2>1
    <3> QED BY ONLY slash \in BOOLEAN, w \in Seq(PlainLine(slash)), <3>1, <2>3, ParsePrefix
  <2>5. ReadLine(s, l, slash).rc = "NO_ERROR" => Unique(ReadLine(s, l, slash).sections)
    BY <2>2, <2>4
  <2>6. s.rc = "NO_ERROR" => Unique(s.sections)
    <3>1. CASE ReadLine(s, l, slash).rc = "NO_ERROR"
      BY <2>4, <2>5, <3>1, ReadAdds
    <3>2. CASE ReadLine(s, l, slash).rc # "NO_ERROR"
      <4> SUFFICES ASSUME s.rc = "NO_ERROR" PROVE Unique(s.sections)
        OBVIOUS
      <4>1. PICK S \in Seq(PlainSection(slash)), C \in Seq(CommentLine) : s = Reading(S, C)
        BY <2>4, StateIsReading
      <4>2. S = <<>>
        <5>1. CASE l.kind \in {"comment", "blank"}
          <6>1. ReadLine(s, l, slash) = Reading(S, Append(C, l))
            BY <4>1, <5>1, ReadComment
          <6> QED BY <3>2, <6>1 DEF Reading
        <5>2. CASE l.kind = "section"
          <6>a. PICK U : U = Append(S, [name |-> l.name, comment |-> C, tail |-> <<>>, keys |-> <<>>])
            OBVIOUS
          <6>1. ReadLine(s, l, slash) = Reading(U, <<>>)
            BY <4>1, <5>2, <6>a, ReadSection
          <6> QED BY <3>2, <6>1 DEF Reading
        <5>3. CASE l.kind = "key"
          <6> SUFFICES ASSUME S # <<>> PROVE FALSE
            OBVIOUS
          <6>1. ReadLine(s, l, slash) = Reading(WithKey(S, NewKeyOf(l, C, slash)), <<>>)
            BY <2>4, <4>1, <5>3, ReadKeyLine
          <6> QED BY <3>2, <6>1 DEF Reading
        <5> QED BY <2>4, <5>1, <5>2, <5>3 DEF PlainLine
      <4> QED BY <4>1, <4>2 DEF Reading, Unique, Distinct
    <3> QED BY <3>1, <3>2
  <2> QED BY <2>1, <2>3, <2>6
<1> HIDE DEF T, Good, State
<1>4. Good(n)
  <2>1. PICK k \in Nat : k = m - n /\ m - k = n /\ k <= m
    BY <1>1
  <2>2. k \in T
    BY <1>2, <1>3, NatSetInduction
  <2> QED BY <2>1, <2>2 DEF T
<1>5. State(n) \in PlainState(slash)
  BY ParsePrefix DEF State
<1>6. PICK s : s = State(n)
  OBVIOUS
<1>7. s.rc = "NO_ERROR" => ~s.quoting /\ s.sections \in PlainTree(slash)
  BY <1>4, <1>5, <1>6 DEF Good, PlainState, PlainTree
<1> QED BY <1>6, <1>7 DEF PlainFile, State

-----------------------------------------------------------------------------
(* The values of a tree, and trees of which some values differ. *)

Matches(entry, n) == Fold[entry.name] = Fold[n]

\* What is found by a name in a list that has no name twice.
LEMMA FindIs ==
  ASSUME NEW A, NEW es \in Seq(A), Distinct(es), NEW n
  PROVE  /\ \A i \in DOMAIN es : Matches(es[i], n) => Find(es, n) = i
         /\ (\A i \in DOMAIN es : ~Matches(es[i], n)) => Find(es, n) = 0
         /\ Find(es, n) # 0 => Find(es, n) \in DOMAIN es /\ Matches(es[Find(es, n)], n)
         /\ Find(es, n) = 0 => \A i \in DOMAIN es : ~Matches(es[i], n)
<1> DEFINE I == {i \in 1 .. Len(es) : Matches(es[i], n)}
<1>1. DOMAIN es = 1 .. Len(es) /\ Len(es) \in Nat
  OBVIOUS
<1>2. Find(es, n) = IF I # {} THEN Min(I) ELSE 0
  BY DEF Find, SelectInSeq, Matches
<1>3. ASSUME NEW i \in DOMAIN es, Matches(es[i], n) PROVE Find(es, n) = i
  <2>1. I = {i}
    <3>1. \A j \in I : j = i
      BY <1>1, <1>3 DEF Distinct, Matches
    <3>2. i \in I
      BY <1>1, <1>3
    <3> QED BY <3>1, <3>2
  <2>2. Min({i}) = i
    <3>1. i \in Nat
      BY <1>1
    <3>2. i \in {i} /\ \A y \in {i} : i <= y
      BY <3>1
    <3> QED BY <3>2 DEF Min
  <2> QED BY <1>2, <2>1, <2>2
<1>4. ASSUME \A i \in DOMAIN es : ~Matches(es[i], n) PROVE Find(es, n) = 0
  BY <1>1, <1>2, <1>4
<1>5. \A i \in DOMAIN es : i # 0
  BY <1>1
<1> HIDE DEF I, Matches
<1>6. CASE \E i \in DOMAIN es : Matches(es[i], n)
  <2>1. PICK i \in DOMAIN es : Matches(es[i], n)
    BY <1>6
  <2>2. Find(es, n) = i /\ i # 0
    BY <1>3, <1>5, <2>1
  <2> QED BY <1>3, <1>4, <2>1, <2>2
<1>7. CASE \A i \in DOMAIN es : ~Matches(es[i], n)
  BY <1>3, <1>4, <1>7
<1> QED BY <1>6, <1>7

\* The value of a key in a list of keys, and of its section.
KeyValue(keys, k) == IF Find(keys, k) = 0 THEN <<>> ELSE keys[Find(keys, k)].value

\* In ls the keys with the name of e have the value v, all others that of ks.
KeyBecomes(ls, ks, e, v) ==
  \A k : /\ Matches(e, k) => KeyValue(ls, k) = v
         /\ ~Matches(e, k) => KeyValue(ls, k) = KeyValue(ks, k)

\* In u the section with the name of x has the values of the keys ks, all others
\* those of t.
SectionBecomes(u, t, x, ks) ==
  \A s, k : /\ Matches(x, s) => ValueOf(u, s, k) = KeyValue(ks, k)
            /\ ~Matches(x, s) => ValueOf(u, s, k) = ValueOf(t, s, k)

\* In u the key of entry e in section x has the value v, all others that of t.
ValueBecomes(u, t, x, e, v) ==
  \A s, k : /\ Matches(x, s) /\ Matches(e, k) => ValueOf(u, s, k) = v
            /\ ~(Matches(x, s) /\ Matches(e, k)) => ValueOf(u, s, k) = ValueOf(t, s, k)

\* No section with the name of x has values in u, all others have those of t.
SectionEnds(u, t, x) ==
  \A s, k : /\ Matches(x, s) => ValueOf(u, s, k) = <<>>
            /\ ~Matches(x, s) => ValueOf(u, s, k) = ValueOf(t, s, k)

\* The value of a key is that of the only one with its name.
LEMMA KeyValueIs ==
  ASSUME NEW A, NEW keys \in Seq(A), Distinct(keys), NEW k
  PROVE  /\ \A j \in DOMAIN keys : Matches(keys[j], k) => KeyValue(keys, k) = keys[j].value
         /\ (\A j \in DOMAIN keys : ~Matches(keys[j], k)) => KeyValue(keys, k) = <<>>
<1>1. /\ \A i \in DOMAIN keys : Matches(keys[i], k) => Find(keys, k) = i
      /\ (\A i \in DOMAIN keys : ~Matches(keys[i], k)) => Find(keys, k) = 0
  BY FindIs
<1>2. \A i \in DOMAIN keys : i # 0
  OBVIOUS
<1> HIDE DEF Matches
<1> QED BY <1>1, <1>2 DEF KeyValue

\* The value of a key in a section is that of the only section with its name.
LEMMA ValueIs ==
  ASSUME NEW slash, NEW t \in PlainTree(slash), NEW s, NEW k
  PROVE  /\ \A i \in DOMAIN t : Matches(t[i], s) => ValueOf(t, s, k) = KeyValue(t[i].keys, k)
         /\ (\A i \in DOMAIN t : ~Matches(t[i], s)) => ValueOf(t, s, k) = <<>>
<1>1. t \in Seq(PlainSection(slash)) /\ Distinct(t)
  BY DEF PlainTree, Unique
<1>2. /\ \A i \in DOMAIN t : Matches(t[i], s) => Find(t, s) = i
      /\ (\A i \in DOMAIN t : ~Matches(t[i], s)) => Find(t, s) = 0
  BY <1>1, FindIs
<1>3. \A i \in DOMAIN t : i # 0
  BY <1>1
<1>4. ValueOf(t, s, k) = IF Find(t, s) = 0 THEN <<>> ELSE KeyValue(t[Find(t, s)].keys, k)
  BY DEF ValueOf, KeyValue
<1> HIDE DEF Matches
<1> QED BY <1>2, <1>3, <1>4

(* Lists of keys. *)

\* A list with the same names and values.
LEMMA SameKeys ==
  ASSUME NEW A, NEW B, NEW ks \in Seq(A), NEW ls \in Seq(B), Len(ks) = Len(ls), Distinct(ks),
         \A j \in 1 .. Len(ks) : ls[j].name = ks[j].name /\ ls[j].value = ks[j].value
  PROVE  Distinct(ls) /\ \A k : KeyValue(ls, k) = KeyValue(ks, k)
<1>1. DOMAIN ks = 1 .. Len(ks) /\ DOMAIN ls = 1 .. Len(ks)
  OBVIOUS
<1>2. Distinct(ls)
  BY <1>1 DEF Distinct
<1>3. ASSUME NEW k PROVE KeyValue(ls, k) = KeyValue(ks, k)
  <2>1. \A j \in DOMAIN ks : Matches(ls[j], k) <=> Matches(ks[j], k)
    BY <1>1 DEF Matches
  <2>2. CASE \E j \in DOMAIN ks : Matches(ks[j], k)
    <3>1. PICK j \in DOMAIN ks : Matches(ks[j], k)
      BY <2>2
    <3>2. KeyValue(ks, k) = ks[j].value
      BY <3>1, KeyValueIs
    <3>3. j \in DOMAIN ls /\ Matches(ls[j], k)
      BY <1>1, <2>1, <3>1
    <3>4. KeyValue(ls, k) = ls[j].value
      BY <1>2, <3>3, KeyValueIs
    <3> QED BY <1>1, <3>2, <3>4
  <2>3. CASE \A j \in DOMAIN ks : ~Matches(ks[j], k)
    <3>1. KeyValue(ks, k) = <<>>
      BY <2>3, KeyValueIs
    <3>2. \A j \in DOMAIN ls : ~Matches(ls[j], k)
      BY <1>1, <2>1, <2>3
    <3>3. KeyValue(ls, k) = <<>>
      BY <1>2, <3>2, KeyValueIs
    <3> QED BY <3>1, <3>3
  <2> QED BY <2>2, <2>3
<1> QED BY <1>2, <1>3

\* A list in which one key has another value.
LEMMA OneKeyChanged ==
  ASSUME NEW A, NEW B, NEW ks \in Seq(A), NEW ls \in Seq(B), Len(ks) = Len(ls), Distinct(ks),
         NEW i \in 1 .. Len(ks), NEW v, ls[i].value = v,
         \A j \in 1 .. Len(ks) : ls[j].name = ks[j].name,
         \A j \in 1 .. Len(ks) : j # i => ls[j].value = ks[j].value
  PROVE  /\ Distinct(ls)
         /\ KeyBecomes(ls, ks, ks[i], v)
<1>1. DOMAIN ks = 1 .. Len(ks) /\ DOMAIN ls = 1 .. Len(ks)
  OBVIOUS
<1>2. Distinct(ls)
  BY <1>1 DEF Distinct
<1>3. ASSUME NEW k
      PROVE  /\ Matches(ks[i], k) => KeyValue(ls, k) = v
             /\ ~Matches(ks[i], k) => KeyValue(ls, k) = KeyValue(ks, k)
  <2>1. \A j \in DOMAIN ks : Matches(ls[j], k) <=> Matches(ks[j], k)
    BY <1>1 DEF Matches
  <2>2. CASE \E j \in DOMAIN ks : Matches(ks[j], k)
    <3>1. PICK j \in DOMAIN ks : Matches(ks[j], k)
      BY <2>2
    <3>2. KeyValue(ks, k) = ks[j].value
      BY <3>1, KeyValueIs
    <3>3. j \in DOMAIN ls /\ Matches(ls[j], k)
      BY <1>1, <2>1, <3>1
    <3>4. KeyValue(ls, k) = ls[j].value
      BY <1>2, <3>3, KeyValueIs
    <3>5. Matches(ks[i], k) <=> i = j
      BY <1>1, <3>1 DEF Distinct, Matches
    <3> QED BY <1>1, <3>1, <3>2, <3>4, <3>5
  <2>3. CASE \A j \in DOMAIN ks : ~Matches(ks[j], k)
    <3>1. KeyValue(ks, k) = <<>>
      BY <2>3, KeyValueIs
    <3>2. \A j \in DOMAIN ls : ~Matches(ls[j], k)
      BY <1>1, <2>1, <2>3
    <3>3. KeyValue(ls, k) = <<>>
      BY <1>2, <3>2, KeyValueIs
    <3> QED BY <1>1, <2>3, <3>1, <3>3
  <2> QED BY <2>2, <2>3
<1> QED BY <1>2, <1>3 DEF KeyBecomes

\* A list with one more key, of which no other has the name.
LEMMA KeyAdded ==
  ASSUME NEW A, NEW ks \in Seq(A), Distinct(ks), NEW e \in A, Find(ks, e.name) = 0
  PROVE  /\ Distinct(Append(ks, e))
         /\ KeyBecomes(Append(ks, e), ks, e, e.value)
<1>1. PICK n \in Nat : n = Len(ks) /\ DOMAIN ks = 1 .. n
  OBVIOUS
<1>2. PICK ls : ls = Append(ks, e)
  OBVIOUS
<1>3. ls \in Seq(A) /\ DOMAIN ls = 1 .. n + 1 /\ ls[n + 1] = e /\ \A j \in 1 .. n : ls[j] = ks[j]
  BY <1>1, <1>2
<1>4. \A j \in 1 .. n : Fold[ks[j].name] # Fold[e.name]
  BY <1>1, FindIs DEF Matches
<1>5. \A j \in 1 .. n + 1 : j = n + 1 \/ j \in 1 .. n
  BY <1>1
<1>6. Distinct(ls)
  BY ONLY <1>1, <1>3, <1>4, <1>5, Distinct(ks) DEF Distinct
<1>7. ASSUME NEW k
      PROVE  /\ Matches(e, k) => KeyValue(ls, k) = e.value
             /\ ~Matches(e, k) => KeyValue(ls, k) = KeyValue(ks, k)
  <2>1. CASE Matches(e, k)
    <3>1. n + 1 \in DOMAIN ls /\ Matches(ls[n + 1], k)
      BY <1>1, <1>3, <2>1
    <3>2. KeyValue(ls, k) = ls[n + 1].value
      BY <1>3, <1>6, <3>1, KeyValueIs
    <3> QED BY <1>3, <2>1, <3>2
  <2>2. CASE ~Matches(e, k) /\ \E j \in 1 .. n : Matches(ks[j], k)
    <3>1. PICK j \in 1 .. n : Matches(ks[j], k)
      BY <2>2
    <3>2. KeyValue(ks, k) = ks[j].value
      BY <1>1, <3>1, KeyValueIs
    <3>3. j \in DOMAIN ls /\ Matches(ls[j], k)
      BY <1>1, <1>3, <3>1
    <3>4. KeyValue(ls, k) = ls[j].value
      BY <1>3, <1>6, <3>3, KeyValueIs
    <3> QED BY <1>3, <2>2, <3>1, <3>2, <3>4
  <2>3. CASE ~Matches(e, k) /\ \A j \in 1 .. n : ~Matches(ks[j], k)
    <3>1. KeyValue(ks, k) = <<>>
      BY <1>1, <2>3, KeyValueIs
    <3>2. \A j \in DOMAIN ls : ~Matches(ls[j], k)
      BY <1>3, <1>5, <2>3
    <3>3. KeyValue(ls, k) = <<>>
      BY <1>3, <1>6, <3>2, KeyValueIs
    <3> QED BY <2>3, <3>1, <3>3
  <2> QED BY <2>1, <2>2, <2>3
<1> QED BY <1>2, <1>6, <1>7 DEF KeyBecomes

\* The place of an entry in a list before the entry at i is taken out.
Was(j, i) == IF j < i THEN j ELSE j + 1

\* A list of which one entry has been taken out (_destroyKEY, _destroySECTION).
LEMMA WithoutOne ==
  ASSUME NEW A, NEW es \in Seq(A), NEW i \in 1 .. Len(es)
  PROVE  /\ RemoveAt(es, i) \in Seq(A) /\ Len(RemoveAt(es, i)) = Len(es) - 1
         /\ \A j \in 1 .. Len(es) - 1 :
              Was(j, i) \in 1 .. Len(es) /\ Was(j, i) # i /\ RemoveAt(es, i)[j] = es[Was(j, i)]
<1>1. PICK n \in Nat : n = Len(es)
  OBVIOUS
<1>2. PICK a, b : a = SubSeq(es, 1, i - 1) /\ b = SubSeq(es, i + 1, n)
  OBVIOUS
<1>3. a \in Seq(A) /\ Len(a) = i - 1 /\ \A j \in 1 .. i - 1 : a[j] = es[j]
  BY <1>1, <1>2
<1>4. b \in Seq(A) /\ Len(b) = n - i /\ \A j \in 1 .. n - i : b[j] = es[i + j]
  BY <1>1, <1>2
<1>5. PICK r : r = a \o b
  OBVIOUS
<1>6. /\ r \in Seq(A) /\ Len(r) = Len(a) + Len(b)
      /\ \A j \in 1 .. Len(a) : r[j] = a[j]
      /\ \A j \in 1 .. Len(b) : r[Len(a) + j] = b[j]
  <2>1. a \in Seq(A) /\ b \in Seq(A)
    BY <1>3, <1>4
  <2>2. /\ a \o b \in Seq(A) /\ Len(a \o b) = Len(a) + Len(b)
        /\ \A j \in 1 .. Len(a) : (a \o b)[j] = a[j]
        /\ \A j \in 1 .. Len(b) : (a \o b)[Len(a) + j] = b[j]
    BY ONLY <2>1, ConcatElements
  <2> QED BY <1>5, <2>2
<1>7. r = RemoveAt(es, i)
  BY <1>1, <1>2, <1>5 DEF RemoveAt
<1>8. Len(r) = n - 1
  BY ONLY <1>1, <1>3, <1>4, <1>6, i \in 1 .. Len(es), n \in Nat
<1>9. ASSUME NEW j \in 1 .. n - 1
      PROVE  Was(j, i) \in 1 .. n /\ Was(j, i) # i /\ r[j] = es[Was(j, i)]
  <2>1. CASE j < i
    <3>1. j \in 1 .. i - 1 /\ j \in 1 .. n
      BY <1>1, <2>1
    <3> QED BY ONLY <1>3, <1>6, <2>1, <3>1 DEF Was
  <2>2. CASE ~(j < i)
    <3>1. PICK q : q = j - (i - 1)
      OBVIOUS
    <3>2. q \in 1 .. n - i /\ (i - 1) + q = j /\ i + q = j + 1 /\ j + 1 \in 1 .. n /\ j + 1 # i
      BY <1>1, <2>2, <3>1
    <3>3. r[(i - 1) + q] = b[q] /\ b[q] = es[i + q]
      BY ONLY <1>3, <1>4, <1>6, <3>2
    <3> QED BY ONLY <2>2, <3>2, <3>3 DEF Was
  <2> QED BY <2>1, <2>2
<1> QED BY <1>1, <1>6, <1>7, <1>8, <1>9

\* Every other entry is at one place of that list.
LEMMA WasPlaces ==
  ASSUME NEW n \in Nat, NEW i \in 1 .. n
  PROVE  /\ \A j, k \in 1 .. n - 1 : Was(j, i) = Was(k, i) => j = k
         /\ \A k \in 1 .. n : k # i => \E j \in 1 .. n - 1 : Was(j, i) = k
<1>1. \A j, k \in 1 .. n - 1 : Was(j, i) = Was(k, i) => j = k
  BY DEF Was
<1>2. ASSUME NEW k \in 1 .. n, k # i PROVE \E j \in 1 .. n - 1 : Was(j, i) = k
  <2>1. CASE k < i
    <3>1. k \in 1 .. n - 1 /\ Was(k, i) = k
      BY <2>1 DEF Was
    <3> QED BY <3>1
  <2>2. CASE ~(k < i)
    <3>1. k - 1 \in 1 .. n - 1 /\ Was(k - 1, i) = k
      BY <1>2, <2>2 DEF Was
    <3> QED BY <3>1
  <2> QED BY <2>1, <2>2
<1> QED BY <1>1, <1>2

\* A list of which a key has been taken out.
LEMMA KeyRemoved ==
  ASSUME NEW A, NEW B, NEW ks \in Seq(A), NEW ls \in Seq(B), Distinct(ks),
         NEW i \in 1 .. Len(ks), Len(ls) = Len(ks) - 1,
         \A j \in 1 .. Len(ks) - 1 : ls[j].name = ks[Was(j, i)].name /\ ls[j].value = ks[Was(j, i)].value
  PROVE  /\ Distinct(ls)
         /\ KeyBecomes(ls, ks, ks[i], <<>>)
<1>1. PICK n \in Nat : n = Len(ks) /\ DOMAIN ks = 1 .. n /\ DOMAIN ls = 1 .. n - 1
  OBVIOUS
<1>2. \A j \in 1 .. n - 1 : Was(j, i) \in 1 .. n /\ Was(j, i) # i
  BY <1>1 DEF Was
<1>a. i \in 1 .. n
  BY <1>1
<1>3. /\ \A j, k \in 1 .. n - 1 : Was(j, i) = Was(k, i) => j = k
      /\ \A k \in 1 .. n : k # i => \E j \in 1 .. n - 1 : Was(j, i) = k
  BY <1>a, WasPlaces
<1>4. \A j \in 1 .. n - 1 : ls[j].name = ks[Was(j, i)].name /\ ls[j].value = ks[Was(j, i)].value
  BY <1>1
<1>5. Distinct(ls)
  <2> SUFFICES ASSUME NEW a \in 1 .. n - 1, NEW b \in 1 .. n - 1, Fold[ls[a].name] = Fold[ls[b].name]
               PROVE  a = b
    BY <1>1 DEF Distinct
  <2>1. PICK p, q : p = Was(a, i) /\ q = Was(b, i)
    OBVIOUS
  <2>2. p \in 1 .. n /\ q \in 1 .. n /\ Fold[ks[p].name] = Fold[ks[q].name]
    BY <1>2, <1>4, <2>1
  <2>3. p = q
    BY ONLY <1>1, <2>2, Distinct(ks) DEF Distinct
  <2> QED BY ONLY <1>3, <2>1, <2>3, a \in 1 .. n - 1, b \in 1 .. n - 1
<1>6. ASSUME NEW k
      PROVE  /\ Matches(ks[i], k) => KeyValue(ls, k) = <<>>
             /\ ~Matches(ks[i], k) => KeyValue(ls, k) = KeyValue(ks, k)
  <2>0. \A j \in 1 .. n - 1 : Matches(ls[j], k) <=> Matches(ks[Was(j, i)], k)
    BY <1>4 DEF Matches
  <2>a. \A p, q \in 1 .. n : Matches(ks[p], k) /\ Matches(ks[q], k) => p = q
    BY ONLY <1>1, Distinct(ks) DEF Distinct, Matches
  <2>1. CASE \E j \in 1 .. n - 1 : Matches(ks[Was(j, i)], k)
    <3>1. PICK j \in 1 .. n - 1 : Matches(ks[Was(j, i)], k)
      BY <2>1
    <3>2. PICK p : p = Was(j, i)
      OBVIOUS
    <3>3. p \in 1 .. n /\ p # i /\ Matches(ks[p], k) /\ ls[j].value = ks[p].value
      BY <1>2, <1>4, <3>1, <3>2
    <3>4. p \in DOMAIN ks
      BY <1>1, <3>3
    <3>5. KeyValue(ks, k) = ks[p].value
      BY ONLY <3>3, <3>4, KeyValueIs, ks \in Seq(A), Distinct(ks)
    <3>6. j \in DOMAIN ls /\ Matches(ls[j], k)
      BY <1>1, <2>0, <3>1
    <3>7. KeyValue(ls, k) = ls[j].value
      BY ONLY <1>5, <3>6, KeyValueIs, ls \in Seq(B)
    <3>8. ~Matches(ks[i], k)
      BY <1>a, <2>a, <3>3
    <3> QED BY <3>3, <3>5, <3>7, <3>8
  <2>2. CASE \A j \in 1 .. n - 1 : ~Matches(ks[Was(j, i)], k)
    <3>1. \A j \in DOMAIN ls : ~Matches(ls[j], k)
      BY <1>1, <2>0, <2>2
    <3>2. KeyValue(ls, k) = <<>>
      BY ONLY <1>5, <3>1, KeyValueIs, ls \in Seq(B)
    <3>3. CASE Matches(ks[i], k)
      BY <3>2, <3>3
    <3>4. CASE ~Matches(ks[i], k)
      <4>1. \A p \in DOMAIN ks : ~Matches(ks[p], k)
        BY <1>1, <1>3, <2>2, <3>4
      <4>2. KeyValue(ks, k) = <<>>
        BY ONLY <4>1, KeyValueIs, ks \in Seq(A), Distinct(ks)
      <4> QED BY <3>2, <3>4, <4>2
    <3> QED BY <3>3, <3>4
  <2> QED BY <2>1, <2>2
<1> QED BY <1>5, <1>6 DEF KeyBecomes

-----------------------------------------------------------------------------
(* Changes of the sections of a tree. *)

\* The fields of a section that can be written.
LEMMA PlainSectionType ==
  ASSUME NEW slash, NEW s \in PlainSection(slash)
  PROVE  /\ s.name \in Name /\ s.comment \in Seq(CommentLine) /\ s.tail \in Seq(CommentLine)
         /\ s.keys \in Seq(PlainKey(slash))
         /\ s = [name |-> s.name, comment |-> s.comment, tail |-> s.tail, keys |-> s.keys]
BY DEF PlainSection

\* The sections of a tree that can be written.
LEMMA PlainTreeType ==
  ASSUME NEW slash, NEW t \in PlainTree(slash)
  PROVE  /\ t \in Seq(PlainSection(slash)) /\ Distinct(t) /\ DOMAIN t = 1 .. Len(t) /\ Len(t) \in Nat
         /\ \A i \in DOMAIN t : /\ t[i] \in PlainSection(slash) /\ Distinct(t[i].keys)
                                /\ t[i].name \in Name /\ t[i].keys \in Seq(PlainKey(slash))
<1>1. t \in Seq(PlainSection(slash)) /\ Distinct(t) /\ \A i \in DOMAIN t : Distinct(t[i].keys)
  BY DEF PlainTree, Unique
<1>2. \A i \in DOMAIN t : t[i] \in PlainSection(slash)
  BY <1>1
<1>3. DOMAIN t = 1 .. Len(t) /\ Len(t) \in Nat
  BY <1>1
<1> QED BY <1>1, <1>2, <1>3, PlainSectionType

\* A tree with the same names and values.
LEMMA SameTree ==
  ASSUME NEW slash, NEW t \in PlainTree(slash), NEW u \in Seq(PlainSection(slash)), Len(u) = Len(t),
         \A i \in 1 .. Len(t) :
           /\ u[i].name = t[i].name /\ Distinct(u[i].keys)
           /\ \A k : KeyValue(u[i].keys, k) = KeyValue(t[i].keys, k)
  PROVE  u \in PlainTree(slash) /\ \A s, k : ValueOf(u, s, k) = ValueOf(t, s, k)
<1>1. PICK n \in Nat : n = Len(t) /\ DOMAIN t = 1 .. n /\ DOMAIN u = 1 .. n
  BY PlainTreeType
<1>2. \A i \in 1 .. n : u[i].name = t[i].name /\ Distinct(u[i].keys)
  BY <1>1
<1>3. Distinct(t)
  BY PlainTreeType
<1>4. u \in PlainTree(slash)
  BY ONLY <1>1, <1>2, <1>3, u \in Seq(PlainSection(slash)) DEF PlainTree, Unique, Distinct
<1>5. ASSUME NEW s, NEW k PROVE ValueOf(u, s, k) = ValueOf(t, s, k)
  <2>1. \A i \in 1 .. n : Matches(u[i], s) <=> Matches(t[i], s)
    BY <1>2 DEF Matches
  <2>2. CASE \E i \in 1 .. n : Matches(t[i], s)
    <3>1. PICK i \in 1 .. n : Matches(t[i], s)
      BY <2>2
    <3>2. i \in DOMAIN t /\ i \in DOMAIN u /\ Matches(u[i], s)
      BY <1>1, <2>1, <3>1
    <3>3. ValueOf(t, s, k) = KeyValue(t[i].keys, k)
      BY <3>1, <3>2, ValueIs
    <3>4. ValueOf(u, s, k) = KeyValue(u[i].keys, k)
      BY <1>4, <3>2, ValueIs
    <3> QED BY <1>1, <3>3, <3>4
  <2>3. CASE \A i \in 1 .. n : ~Matches(t[i], s)
    <3>1. (\A i \in DOMAIN t : ~Matches(t[i], s)) /\ \A i \in DOMAIN u : ~Matches(u[i], s)
      BY <1>1, <2>1, <2>3
    <3>2. ValueOf(t, s, k) = <<>> /\ ValueOf(u, s, k) = <<>>
      BY <1>4, <3>1, ValueIs
    <3> QED BY <3>2
  <2> QED BY <2>2, <2>3
<1> QED BY <1>4, <1>5

\* A tree in which one section has other keys.
LEMMA SectionChanged ==
  ASSUME NEW slash, NEW t \in PlainTree(slash), NEW i \in DOMAIN t, NEW x \in PlainSection(slash),
         x.name = t[i].name, Distinct(x.keys), NEW u, u = [t EXCEPT ![i] = x]
  PROVE  u \in PlainTree(slash) /\ SectionBecomes(u, t, t[i], x.keys)
<1>1. PICK n \in Nat : n = Len(t) /\ DOMAIN t = 1 .. n
  BY PlainTreeType
<1>2. u = [t EXCEPT ![i] = x]
  OBVIOUS
<1>3. /\ u \in Seq(PlainSection(slash)) /\ DOMAIN u = 1 .. n
      /\ \A j \in 1 .. n : u[j] = IF j = i THEN x ELSE t[j]
  <2>1. t \in Seq(PlainSection(slash))
    BY PlainTreeType
  <2> QED BY <1>1, <1>2, <2>1
<1>4. \A j \in 1 .. n : u[j].name = t[j].name /\ Distinct(u[j].keys)
  <2>1. \A j \in 1 .. n : Distinct(t[j].keys)
    BY <1>1, PlainTreeType
  <2> QED BY <1>3, <2>1
<1>5. Distinct(t)
  BY PlainTreeType
<1>6. u \in PlainTree(slash)
  BY ONLY <1>1, <1>3, <1>4, <1>5 DEF PlainTree, Unique, Distinct
<1>7. ASSUME NEW s, NEW k
      PROVE  /\ Matches(t[i], s) => ValueOf(u, s, k) = KeyValue(x.keys, k)
             /\ ~Matches(t[i], s) => ValueOf(u, s, k) = ValueOf(t, s, k)
  <2>1. \A j \in 1 .. n : Matches(u[j], s) <=> Matches(t[j], s)
    BY <1>4 DEF Matches
  <2>2. CASE Matches(t[i], s)
    <3>1. i \in DOMAIN u /\ Matches(u[i], s) /\ u[i] = x
      BY <1>1, <1>3, <2>1, <2>2
    <3> QED BY <1>6, <2>2, <3>1, ValueIs
  <2>3. CASE ~Matches(t[i], s) /\ \E j \in 1 .. n : Matches(t[j], s)
    <3>1. PICK j \in 1 .. n : Matches(t[j], s)
      BY <2>3
    <3>2. j \in DOMAIN t /\ j \in DOMAIN u /\ Matches(u[j], s) /\ u[j] = t[j]
      BY <1>1, <1>3, <2>1, <2>3, <3>1
    <3>3. ValueOf(t, s, k) = KeyValue(t[j].keys, k)
      BY <3>1, <3>2, ValueIs
    <3>4. ValueOf(u, s, k) = KeyValue(u[j].keys, k)
      BY <1>6, <3>2, ValueIs
    <3> QED BY <2>3, <3>2, <3>3, <3>4
  <2>4. CASE \A j \in 1 .. n : ~Matches(t[j], s)
    <3>1. (\A j \in DOMAIN t : ~Matches(t[j], s)) /\ \A j \in DOMAIN u : ~Matches(u[j], s)
      BY <1>1, <1>3, <2>1, <2>4
    <3>2. ValueOf(t, s, k) = <<>> /\ ValueOf(u, s, k) = <<>>
      BY <1>6, <3>1, ValueIs
    <3> QED BY <1>1, <2>4, <3>2
  <2> QED BY <2>2, <2>3, <2>4
<1> QED BY <1>6, <1>7 DEF SectionBecomes

\* A new section can be written.
LEMMA NewSectionType ==
  ASSUME NEW slash, NEW s \in Name
  PROVE  /\ NewSection(s) \in PlainSection(slash) /\ NewSection(s).name = s /\ NewSection(s).keys = <<>>
<1>1. Blank \in CommentLine
  <2>1. <<>> \in Seq(Token)
    OBVIOUS
  <2> QED BY <2>1 DEF Blank, CommentLine, Line, Kind
<1>2. <<>> \in Seq(PlainKey(slash)) /\ <<>> \in Seq(CommentLine) /\ <<Blank>> \in Seq(CommentLine)
  BY <1>1
<1> QED BY <1>2 DEF NewSection, PlainSection

\* A tree with one more section that has no keys yet.
LEMMA SectionAdded ==
  ASSUME NEW slash, NEW t \in PlainTree(slash), NEW s \in Name, Find(t, s) = 0
  PROVE  /\ AddSection(t, s) \in PlainTree(slash)
         /\ Len(AddSection(t, s)) \in DOMAIN AddSection(t, s)
         /\ AddSection(t, s)[Len(AddSection(t, s))] = NewSection(s)
         /\ \A r, k : ValueOf(AddSection(t, s), r, k) = ValueOf(t, r, k)
<1>1. PICK n \in Nat : n = Len(t) /\ DOMAIN t = 1 .. n
  BY PlainTreeType
<1>2. PICK u, e : u = Append(t, e) /\ e = NewSection(s)
  OBVIOUS
<1>3. e \in PlainSection(slash) /\ e.name = s /\ e.keys = <<>>
  BY <1>2, NewSectionType
<1>4. t \in Seq(PlainSection(slash)) /\ Distinct(t) /\ \A j \in 1 .. n : Distinct(t[j].keys)
  BY <1>1, PlainTreeType
<1>5. /\ u \in Seq(PlainSection(slash)) /\ DOMAIN u = 1 .. n + 1 /\ Len(u) = n + 1 /\ u[n + 1] = e
      /\ \A j \in 1 .. n : u[j] = t[j]
  BY <1>1, <1>2, <1>3, <1>4
<1>6. \A j \in 1 .. n + 1 : j = n + 1 \/ j \in 1 .. n
  BY <1>1
<1>7. \A j \in 1 .. n : Fold[t[j].name] # Fold[s]
  BY <1>1, <1>4, FindIs DEF Matches
<1>8. u \in PlainTree(slash)
  <2>1. Distinct(u)
    BY ONLY <1>1, <1>3, <1>4, <1>5, <1>6, <1>7 DEF Distinct
  <2>2. \A j \in 1 .. n + 1 : Distinct(u[j].keys)
    <3>1. Distinct(e.keys)
      BY <1>3 DEF Distinct
    <3> QED BY ONLY <1>4, <1>5, <1>6, <3>1
  <2> QED BY <1>5, <2>1, <2>2 DEF PlainTree, Unique
<1>9. ASSUME NEW r, NEW k PROVE ValueOf(u, r, k) = ValueOf(t, r, k)
  <2>1. CASE \E j \in 1 .. n : Matches(t[j], r)
    <3>1. PICK j \in 1 .. n : Matches(t[j], r)
      BY <2>1
    <3>2. j \in DOMAIN t /\ j \in DOMAIN u /\ Matches(u[j], r) /\ u[j] = t[j]
      BY <1>1, <1>5, <3>1
    <3>3. ValueOf(t, r, k) = KeyValue(t[j].keys, k)
      BY <3>1, <3>2, ValueIs
    <3>4. ValueOf(u, r, k) = KeyValue(u[j].keys, k)
      BY <1>8, <3>2, ValueIs
    <3> QED BY <3>2, <3>3, <3>4
  <2>2. CASE \A j \in 1 .. n : ~Matches(t[j], r)
    <3>1. ValueOf(t, r, k) = <<>>
      BY <1>1, <2>2, ValueIs
    <3>2. CASE Matches(e, r)
      <4>1. n + 1 \in DOMAIN u /\ Matches(u[n + 1], r)
        BY <1>1, <1>5, <3>2
      <4>2. ValueOf(u, r, k) = KeyValue(u[n + 1].keys, k)
        BY <1>8, <4>1, ValueIs
      <4>3. KeyValue(<<>>, k) = <<>>
        <5>1. Find(<<>>, k) = 0
          <6>1. Len(<<>>) = 0
            OBVIOUS
          <6> QED BY <6>1 DEF Find, SelectInSeq
        <5> QED BY <5>1 DEF KeyValue
      <4> QED BY <1>3, <1>5, <3>1, <4>2, <4>3
    <3>3. CASE ~Matches(e, r)
      <4>1. \A j \in DOMAIN u : ~Matches(u[j], r)
        BY <1>5, <1>6, <2>2, <3>3
      <4>2. ValueOf(u, r, k) = <<>>
        BY <1>8, <4>1, ValueIs
      <4> QED BY <3>1, <4>2
    <3> QED BY <3>2, <3>3
  <2> QED BY <2>1, <2>2
<1>10. u = AddSection(t, s)
  BY <1>2 DEF AddSection
<1>11. Len(u) \in DOMAIN u /\ u[Len(u)] = e
  BY <1>1, <1>5
<1> QED BY <1>2, <1>8, <1>9, <1>10, <1>11

\* A tree without one of its sections.
LEMMA SectionRemoved ==
  ASSUME NEW slash, NEW t \in PlainTree(slash), NEW i \in DOMAIN t
  PROVE  /\ RemoveSection(t, i) \in PlainTree(slash)
         /\ SectionEnds(RemoveSection(t, i), t, t[i])
<1>1. PICK n \in Nat : n = Len(t) /\ DOMAIN t = 1 .. n
  BY PlainTreeType
<1>2. t \in Seq(PlainSection(slash)) /\ Distinct(t) /\ \A j \in 1 .. n : Distinct(t[j].keys)
  BY <1>1, PlainTreeType
<1>3. PICK u : u = RemoveAt(t, i)
  OBVIOUS
<1>a. i \in 1 .. n
  BY <1>1
<1>4. /\ u \in Seq(PlainSection(slash)) /\ DOMAIN u = 1 .. n - 1
      /\ \A j \in 1 .. n - 1 : Was(j, i) \in 1 .. n /\ Was(j, i) # i /\ u[j] = t[Was(j, i)]
  <2>1. i \in 1 .. Len(t)
    BY <1>1
  <2>2. /\ u \in Seq(PlainSection(slash)) /\ Len(u) = Len(t) - 1
        /\ \A j \in 1 .. Len(t) - 1 : Was(j, i) \in 1 .. Len(t) /\ Was(j, i) # i /\ u[j] = t[Was(j, i)]
    BY <1>2, <1>3, <2>1, WithoutOne
  <2> QED BY <1>1, <2>2
<1>5. /\ \A j, k \in 1 .. n - 1 : Was(j, i) = Was(k, i) => j = k
      /\ \A k \in 1 .. n : k # i => \E j \in 1 .. n - 1 : Was(j, i) = k
  BY <1>a, WasPlaces
<1>6. u \in PlainTree(slash)
  <2>1. Distinct(u)
    <3> SUFFICES ASSUME NEW a \in 1 .. n - 1, NEW b \in 1 .. n - 1, Fold[u[a].name] = Fold[u[b].name]
                 PROVE  a = b
      BY <1>4 DEF Distinct
    <3>1. PICK p, q : p = Was(a, i) /\ q = Was(b, i)
      OBVIOUS
    <3>2. p \in 1 .. n /\ q \in 1 .. n /\ Fold[t[p].name] = Fold[t[q].name]
      BY <1>4, <3>1
    <3>3. p = q
      BY ONLY <1>1, <3>2, <1>2 DEF Distinct
    <3> QED BY ONLY <1>5, <3>1, <3>3, a \in 1 .. n - 1, b \in 1 .. n - 1
  <2>2. \A j \in DOMAIN u : Distinct(u[j].keys)
    BY <1>2, <1>4
  <2> QED BY <1>4, <2>1, <2>2 DEF PlainTree, Unique
<1>7. ASSUME NEW s, NEW k
      PROVE  /\ Matches(t[i], s) => ValueOf(u, s, k) = <<>>
             /\ ~Matches(t[i], s) => ValueOf(u, s, k) = ValueOf(t, s, k)
  <2>a. \A p, q \in 1 .. n : Matches(t[p], s) /\ Matches(t[q], s) => p = q
    BY ONLY <1>1, <1>2 DEF Distinct, Matches
  <2>1. CASE \E j \in 1 .. n - 1 : Matches(t[Was(j, i)], s)
    <3>1. PICK j \in 1 .. n - 1 : Matches(t[Was(j, i)], s)
      BY <2>1
    <3>2. PICK p : p = Was(j, i)
      OBVIOUS
    <3>3. p \in 1 .. n /\ p # i /\ Matches(t[p], s) /\ u[j] = t[p]
      BY <1>4, <3>1, <3>2
    <3>4. p \in DOMAIN t /\ j \in DOMAIN u /\ Matches(u[j], s)
      BY <1>1, <1>4, <3>3
    <3>5. ValueOf(t, s, k) = KeyValue(t[p].keys, k)
      BY ONLY <3>3, <3>4, ValueIs, t \in PlainTree(slash)
    <3>6. ValueOf(u, s, k) = KeyValue(u[j].keys, k)
      BY ONLY <3>4, ValueIs, <1>6
    <3>7. ~Matches(t[i], s)
      BY <1>a, <2>a, <3>3
    <3> QED BY <3>3, <3>5, <3>6, <3>7
  <2>2. CASE \A j \in 1 .. n - 1 : ~Matches(t[Was(j, i)], s)
    <3>1. \A j \in DOMAIN u : ~Matches(u[j], s)
      BY <1>4, <2>2
    <3>2. ValueOf(u, s, k) = <<>>
      BY ONLY <1>6, <3>1, ValueIs
    <3>3. CASE Matches(t[i], s)
      BY <3>2, <3>3
    <3>4. CASE ~Matches(t[i], s)
      <4>1. \A p \in DOMAIN t : ~Matches(t[p], s)
        BY <1>1, <1>5, <2>2, <3>4
      <4>2. ValueOf(t, s, k) = <<>>
        BY ONLY <4>1, ValueIs, t \in PlainTree(slash)
      <4> QED BY <3>2, <3>4, <4>2
    <3> QED BY <3>3, <3>4
  <2> QED BY <2>1, <2>2
<1> QED BY <1>3, <1>6, <1>7 DEF RemoveSection, SectionEnds

-----------------------------------------------------------------------------
(* Changes of the keys of a section. *)

\* The section with other keys.
WithKeys(s, ks) == [name |-> s.name, comment |-> s.comment, tail |-> s.tail, keys |-> ks]

\* So can a section with other keys.
LEMMA WithKeysType ==
  ASSUME NEW slash, NEW s \in PlainSection(slash), NEW ks \in Seq(PlainKey(slash))
  PROVE  /\ WithKeys(s, ks) \in PlainSection(slash) /\ WithKeys(s, ks).name = s.name
         /\ WithKeys(s, ks).keys = ks /\ [s EXCEPT !.keys = ks] = WithKeys(s, ks)
<1>1. s.name \in Name /\ s.comment \in Seq(CommentLine) /\ s.tail \in Seq(CommentLine)
  BY PlainSectionType
<1>2. WithKeys(s, ks) \in PlainSection(slash)
  BY <1>1 DEF WithKeys, PlainSection
<1>3. PICK a, b, c, d : a = s.name /\ b = s.comment /\ c = s.tail /\ d = s.keys
  OBVIOUS
<1>4. s = [name |-> a, comment |-> b, tail |-> c, keys |-> d]
  BY <1>3, PlainSectionType
<1>5. [s EXCEPT !.keys = ks] = [name |-> a, comment |-> b, tail |-> c, keys |-> ks]
  BY ONLY <1>4
<1> QED BY <1>2, <1>3, <1>5 DEF WithKeys

\* The fields of a key, of which the value is not empty.
LEMMA PlainKeyType ==
  ASSUME NEW slash, NEW k \in PlainKey(slash)
  PROVE  /\ k.name \in Name /\ k.value \in Seq(Token) /\ PlainValue(k.value, slash) /\ k.value # <<>>
         /\ k.note \in Seq(Token) /\ k.comment \in Seq(CommentLine) /\ k.tail \in Seq(CommentLine)
         /\ k = [name |-> k.name, value |-> k.value, note |-> k.note, comment |-> k.comment,
                tail |-> k.tail]
BY DEF PlainKey, PlainValue

\* A new key can be written.
LEMMA NewKeyType ==
  ASSUME NEW slash, NEW n \in Name, NEW v \in Seq(Token), PlainValue(v, slash)
  PROVE  NewKey(n, v) \in PlainKey(slash) /\ NewKey(n, v).name = n /\ NewKey(n, v).value = v
<1>1. <<>> \in Seq(Token) /\ <<>> \in Seq(CommentLine)
  OBVIOUS
<1> QED BY <1>1 DEF NewKey, PlainKey

\* A value is set, and no other value changed (_setKEYvalue).
LEMMA SetValueSets ==
  ASSUME NEW slash, NEW t \in PlainTree(slash), NEW i \in DOMAIN t, NEW j \in DOMAIN t[i].keys,
         NEW v \in Seq(Token), PlainValue(v, slash)
  PROVE  /\ SetValue(t, i, j, v) \in PlainTree(slash)
         /\ ValueBecomes(SetValue(t, i, j, v), t, t[i], t[i].keys[j], v)
<1>1. PICK x, ks, e : x = t[i] /\ ks = t[i].keys /\ e = t[i].keys[j]
  OBVIOUS
<1>2. /\ x \in PlainSection(slash)
      /\ ks \in Seq(PlainKey(slash))
      /\ Distinct(ks)
      /\ j \in 1 .. Len(ks)
      /\ x.keys = ks
  <2>1. x \in PlainSection(slash) /\ ks \in Seq(PlainKey(slash)) /\ Distinct(ks)
    BY <1>1, PlainTreeType
  <2> QED BY <1>1, <2>1
<1>3. e \in PlainKey(slash) /\ e = ks[j]
  BY <1>1, <1>2
<1>4. PICK f :
        f = [name |-> e.name, value |-> v, note |-> e.note, comment |-> e.comment, tail |-> e.tail]
  OBVIOUS
<1>5. f \in PlainKey(slash) /\ f.name = e.name /\ f.value = v
  BY <1>3, <1>4 DEF PlainKey
<1>6. [e EXCEPT !.value = v] = f
  <2>1. PICK a, b, c, d, g : a = e.name /\ b = e.value /\ c = e.note /\ d = e.comment /\ g = e.tail
    OBVIOUS
  <2>2. e = [name |-> a, value |-> b, note |-> c, comment |-> d, tail |-> g]
    BY <1>3, <2>1, PlainKeyType
  <2>3. [e EXCEPT !.value = v] = [name |-> a, value |-> v, note |-> c, comment |-> d, tail |-> g]
    BY ONLY <2>2
  <2> QED BY <1>4, <2>1, <2>3
<1>7. PICK ls : ls = [ks EXCEPT ![j] = f]
  OBVIOUS
<1>8. /\ ls \in Seq(PlainKey(slash)) /\ Len(ls) = Len(ks) /\ ls[j] = f
      /\ \A q \in 1 .. Len(ks) : q # j => ls[q] = ks[q]
  BY <1>2, <1>5, <1>7
<1>9. /\ Distinct(ls)
      /\ KeyBecomes(ls, ks, e, v)
  <2>1. /\ ls[j].value = v /\ \A q \in 1 .. Len(ks) : ls[q].name = ks[q].name
        /\ \A q \in 1 .. Len(ks) : q # j => ls[q].value = ks[q].value
    BY <1>3, <1>5, <1>8
  <2>2. Len(ks) = Len(ls)
    BY <1>8
  <2>3. Distinct(ls) /\ KeyBecomes(ls, ks, ks[j], v)
    <3>1. /\ ks \in Seq(PlainKey(slash))
          /\ ls \in Seq(PlainKey(slash))
          /\ Distinct(ks)
          /\ j \in 1 .. Len(ks)
      BY <1>2, <1>8
    <3> QED BY ONLY <2>1, <2>2, <3>1, OneKeyChanged
  <2> QED BY <1>3, <2>3
<1>10. PICK y : y = WithKeys(x, ls)
  OBVIOUS
<1>11. y \in PlainSection(slash) /\ y.name = x.name /\ y.keys = ls /\ [x EXCEPT !.keys = ls] = y
  BY <1>2, <1>8, <1>10, WithKeysType
<1>12. SetValue(t, i, j, v) = [t EXCEPT ![i] = y]
  <2>1. SetValue(t, i, j, v) = [t EXCEPT ![i] = [t[i] EXCEPT !.keys = [t[i].keys EXCEPT ![j] =
            [t[i].keys[j] EXCEPT !.value = v]]]]
    BY DEF SetValue
  <2> QED BY <1>1, <1>6, <1>7, <1>11, <2>1
<1>b. PICK u : u = [t EXCEPT ![i] = y]
  OBVIOUS
<1>13. u \in PlainTree(slash) /\ SectionBecomes(u, t, t[i], y.keys)
  <2>1. y \in PlainSection(slash) /\ y.name = t[i].name /\ Distinct(y.keys)
    BY <1>1, <1>9, <1>11
  <2>2. y \in PlainSection(slash)
    BY <2>1
  <2> QED BY ONLY <1>b, <2>1, <2>2, SectionChanged, t \in PlainTree(slash), i \in DOMAIN t
<1>14. \A s, k : Matches(t[i], s) => ValueOf(t, s, k) = KeyValue(ks, k)
  BY <1>1, ValueIs
<1>15. ValueBecomes(u, t, t[i], e, v)
  <2> SUFFICES ASSUME NEW s, NEW k
               PROVE  /\ Matches(t[i], s) /\ Matches(e, k) => ValueOf(u, s, k) = v
                      /\ ~(Matches(t[i], s) /\ Matches(e, k)) => ValueOf(u, s, k) = ValueOf(t, s, k)
    BY DEF ValueBecomes
  <2>1. CASE Matches(t[i], s)
    <3>1. ValueOf(u, s, k) = KeyValue(y.keys, k) /\ ValueOf(t, s, k) = KeyValue(ks, k)
      BY <1>13, <1>14, <2>1 DEF SectionBecomes
    <3>2. /\ Matches(e, k) => KeyValue(y.keys, k) = v
          /\ ~Matches(e, k) => KeyValue(y.keys, k) = KeyValue(ks, k)
      BY <1>9, <1>11 DEF KeyBecomes
    <3> QED BY <2>1, <3>1, <3>2
  <2>2. CASE ~Matches(t[i], s)
    BY <1>13, <2>2 DEF SectionBecomes
  <2> QED BY <2>1, <2>2
<1> QED BY <1>1, <1>12, <1>b, <1>13, <1>15

\* A key is added at the end of its section, and no other value changed.
LEMMA AddKeyAdds ==
  ASSUME NEW slash, NEW t \in PlainTree(slash), NEW i \in DOMAIN t, NEW n \in Name,
         NEW v \in Seq(Token), PlainValue(v, slash), Find(t[i].keys, n) = 0
  PROVE  /\ AddKey(t, i, n, v) \in PlainTree(slash)
         /\ ValueBecomes(AddKey(t, i, n, v), t, t[i], NewKey(n, v), v)
<1>1. PICK x, ks, e : x = t[i] /\ ks = t[i].keys /\ e = NewKey(n, v)
  OBVIOUS
<1>2. x \in PlainSection(slash) /\ ks \in Seq(PlainKey(slash)) /\ Distinct(ks) /\ x.keys = ks
  BY <1>1, PlainTreeType
<1>3. e \in PlainKey(slash) /\ e.name = n /\ e.value = v
  BY <1>1, NewKeyType
<1>4. PICK ls : ls = Append(ks, e)
  OBVIOUS
<1>5. ls \in Seq(PlainKey(slash))
  BY <1>2, <1>3, <1>4
<1>6. /\ Distinct(ls)
      /\ KeyBecomes(ls, ks, e, v)
  <2>1. Find(ks, e.name) = 0
    BY <1>1, <1>3
  <2>2. e \in PlainKey(slash) /\ ks \in Seq(PlainKey(slash)) /\ Distinct(ks)
    BY <1>2, <1>3
  <2>3. /\ Distinct(Append(ks, e))
        /\ KeyBecomes(Append(ks, e), ks, e, e.value)
    BY ONLY <2>1, <2>2, KeyAdded
  <2> QED BY <1>3, <1>4, <2>3
<1>10. PICK y : y = WithKeys(x, ls)
  OBVIOUS
<1>11. y \in PlainSection(slash) /\ y.name = x.name /\ y.keys = ls /\ [x EXCEPT !.keys = ls] = y
  BY <1>2, <1>5, <1>10, WithKeysType
<1>12. AddKey(t, i, n, v) = [t EXCEPT ![i] = y]
  <2>1. AddKey(t, i, n, v) = [t EXCEPT ![i] = [t[i] EXCEPT !.keys = Append(t[i].keys, NewKey(n, v))]]
    BY DEF AddKey
  <2> QED BY <1>1, <1>4, <1>11, <2>1
<1>b. PICK u : u = [t EXCEPT ![i] = y]
  OBVIOUS
<1>13. u \in PlainTree(slash) /\ SectionBecomes(u, t, t[i], y.keys)
  <2>1. y \in PlainSection(slash) /\ y.name = t[i].name /\ Distinct(y.keys)
    BY <1>1, <1>6, <1>11
  <2>2. y \in PlainSection(slash)
    BY <2>1
  <2> QED BY ONLY <1>b, <2>1, <2>2, SectionChanged, t \in PlainTree(slash), i \in DOMAIN t
<1>14. \A s, k : Matches(t[i], s) => ValueOf(t, s, k) = KeyValue(ks, k)
  BY <1>1, ValueIs
<1>15. ValueBecomes(u, t, t[i], e, v)
  <2> SUFFICES ASSUME NEW s, NEW k
               PROVE  /\ Matches(t[i], s) /\ Matches(e, k) => ValueOf(u, s, k) = v
                      /\ ~(Matches(t[i], s) /\ Matches(e, k)) => ValueOf(u, s, k) = ValueOf(t, s, k)
    BY DEF ValueBecomes
  <2>1. CASE Matches(t[i], s)
    <3>1. ValueOf(u, s, k) = KeyValue(y.keys, k) /\ ValueOf(t, s, k) = KeyValue(ks, k)
      BY <1>13, <1>14, <2>1 DEF SectionBecomes
    <3>2. /\ Matches(e, k) => KeyValue(y.keys, k) = v
          /\ ~Matches(e, k) => KeyValue(y.keys, k) = KeyValue(ks, k)
      BY <1>6, <1>11 DEF KeyBecomes
    <3> QED BY <2>1, <3>1, <3>2
  <2>2. CASE ~Matches(t[i], s)
    BY <1>13, <2>2 DEF SectionBecomes
  <2> QED BY <2>1, <2>2
<1> QED BY <1>1, <1>12, <1>b, <1>13, <1>15

\* What remains of a key that was deleted softly.
LEMMA RemainsType ==
  ASSUME NEW slash, NEW k \in PlainKey(slash)
  PROVE  Remains(k) \in Seq(CommentLine)
<1>1. PICK l : l = Comment(k.name, k.value)
  OBVIOUS
<1>2. l \in CommentLine
  BY <1>1, PlainKeyType DEF Comment, CommentLine, Line, Kind
<1>3. PICK c : c = k.comment
  OBVIOUS
<1>4. c \in Seq(CommentLine)
  BY <1>3, PlainKeyType
<1> QED BY <1>1, <1>2, <1>3, <1>4 DEF Remains

\* A key is deleted, and no other value changed.
LEMMA RemoveKeyRemoves ==
  ASSUME NEW slash, NEW t \in PlainTree(slash), NEW i \in DOMAIN t, NEW j \in DOMAIN t[i].keys,
         NEW soft \in BOOLEAN
  PROVE  /\ RemoveKey(t, i, j, soft) \in PlainTree(slash)
         /\ ValueBecomes(RemoveKey(t, i, j, soft), t, t[i], t[i].keys[j], <<>>)
<1>1. PICK x, ks, e, r : x = t[i] /\ ks = t[i].keys /\ e = t[i].keys[j] /\ r = Remains(t[i].keys[j])
  OBVIOUS
<1>2. /\ x \in PlainSection(slash)
      /\ ks \in Seq(PlainKey(slash))
      /\ Distinct(ks)
      /\ j \in 1 .. Len(ks)
      /\ x.keys = ks
  <2>1. x \in PlainSection(slash) /\ ks \in Seq(PlainKey(slash)) /\ Distinct(ks)
    BY <1>1, PlainTreeType
  <2> QED BY <1>1, <2>1
<1>3. e \in PlainKey(slash) /\ e = ks[j] /\ r \in Seq(CommentLine)
  <2>1. e \in PlainKey(slash) /\ e = ks[j]
    BY <1>1, <1>2
  <2> QED BY <1>1, <2>1, RemainsType
<1>4. PICK ls : ls = RemoveAt(ks, j)
  OBVIOUS
<1>5. /\ ls \in Seq(PlainKey(slash)) /\ Len(ls) = Len(ks) - 1
      /\ \A q \in 1 .. Len(ks) - 1 : ls[q] = ks[Was(q, j)]
  BY <1>2, <1>4, WithoutOne
<1>6. PICK m \in Nat : m = Len(ks)
  BY <1>2
<1> DEFINE IsRemoved(y) ==
             /\ y \in PlainSection(slash) /\ y.name = x.name /\ Len(y.keys) = m - 1
             /\ \A q \in 1 .. m - 1 : y.keys[q].name = ls[q].name /\ y.keys[q].value = ls[q].value
<1>7. \E y : IsRemoved(y) /\ RemoveKey(t, i, j, soft) = [t EXCEPT ![i] = y]
  <2>1. PICK u, y : u = [t EXCEPT ![i].keys = RemoveAt(@, j)] /\ y = WithKeys(x, ls)
    OBVIOUS
  <2>2. y \in PlainSection(slash) /\ y.name = x.name /\ y.keys = ls /\ [x EXCEPT !.keys = ls] = y
    BY <1>2, <1>5, <2>1, WithKeysType
  <2>3. u = [t EXCEPT ![i] = y]
    <3>1. u = [t EXCEPT ![i] = [t[i] EXCEPT !.keys = RemoveAt(t[i].keys, j)]]
      BY <2>1
    <3> QED BY <1>1, <1>4, <2>2, <3>1
  <2>4. i \in DOMAIN u /\ u[i] = y
    BY <2>3
  <2>5. IsRemoved(y)
    BY <1>5, <1>6, <2>2
  <2>6. CASE soft = FALSE
    <3>1. RemoveKey(t, i, j, soft) = u
      BY <2>1, <2>6 DEF RemoveKey
    <3> QED BY <2>3, <2>5, <3>1
  <2>7. CASE soft = TRUE /\ j = 1
    <3>1. RemoveKey(t, i, j, soft) = [u EXCEPT ![i].tail = @ \o r]
      BY <1>1, <2>1, <2>7 DEF RemoveKey
    <3>2. PICK z : z = [name |-> y.name, comment |-> y.comment, tail |-> y.tail \o r, keys |-> y.keys]
      OBVIOUS
    <3>3. [y EXCEPT !.tail = @ \o r] = z
      <4>1. PICK a, b, c, d, f :
              a = y.name /\ b = y.comment /\ c = y.tail /\ d = y.keys /\ f = y.tail \o r
        OBVIOUS
      <4>2. y = [name |-> a, comment |-> b, tail |-> c, keys |-> d]
        BY <2>2, <4>1, PlainSectionType
      <4>3. [y EXCEPT !.tail = f] = [name |-> a, comment |-> b, tail |-> f, keys |-> d]
        BY ONLY <4>2
      <4> QED BY <3>2, <4>1, <4>3
    <3>4. [u EXCEPT ![i].tail = @ \o r] = [t EXCEPT ![i] = z]
      <4>1. [u EXCEPT ![i].tail = @ \o r] = [u EXCEPT ![i] = [u[i] EXCEPT !.tail = u[i].tail \o r]]
        OBVIOUS
      <4>2. [u EXCEPT ![i].tail = @ \o r] = [u EXCEPT ![i] = z]
        BY <2>4, <3>3, <4>1
      <4> QED BY <2>3, <4>2
    <3>5. z \in PlainSection(slash) /\ z.name = x.name /\ z.keys = y.keys
      <4>1. PICK c : c = y.tail
        OBVIOUS
      <4>2. c \in Seq(CommentLine) /\ c \o r \in Seq(CommentLine)
        BY <1>3, <2>2, <4>1, PlainSectionType
      <4>3. y.name \in Name /\ y.comment \in Seq(CommentLine) /\ y.keys \in Seq(PlainKey(slash))
        BY <2>2, PlainSectionType
      <4> QED BY <2>2, <3>2, <4>1, <4>2, <4>3 DEF PlainSection
    <3>6. IsRemoved(z)
      BY <2>5, <3>5
    <3> QED BY <3>1, <3>4, <3>6
  <2>8. CASE soft = TRUE /\ j # 1
    <3>1. RemoveKey(t, i, j, soft) = [u EXCEPT ![i].keys[j - 1].tail = @ \o r]
      BY <1>1, <2>1, <2>8 DEF RemoveKey
    <3>2. j - 1 \in 1 .. m - 1 /\ j - 1 \in DOMAIN ls
      BY <1>2, <1>5, <1>6, <2>8
    <3>3. PICK p, o : p = j - 1 /\ o = ls[j - 1]
      OBVIOUS
    <3>4. o \in PlainKey(slash)
      BY <1>5, <3>2, <3>3
    <3>5. PICK f :
            f = [name |-> o.name, value |-> o.value, note |-> o.note, comment |-> o.comment,
                tail |-> o.tail \o r]
      OBVIOUS
    <3>6. [o EXCEPT !.tail = o.tail \o r] = f
      <4>1. PICK a, b, c, d, g, h :
              a = o.name /\ b = o.value /\ c = o.note /\ d = o.comment /\ g = o.tail /\ h = o.tail \o r
        OBVIOUS
      <4>2. o = [name |-> a, value |-> b, note |-> c, comment |-> d, tail |-> g]
        BY <3>4, <4>1, PlainKeyType
      <4>3. [o EXCEPT !.tail = h] = [name |-> a, value |-> b, note |-> c, comment |-> d, tail |-> h]
        BY ONLY <4>2
      <4> QED BY <3>5, <4>1, <4>3
    <3>7. f \in PlainKey(slash) /\ f.name = o.name /\ f.value = o.value
      <4>1. PICK c : c = o.tail
        OBVIOUS
      <4>2. c \in Seq(CommentLine) /\ c \o r \in Seq(CommentLine)
        BY <1>3, <3>4, <4>1, PlainKeyType
      <4>3. f.tail \in Seq(CommentLine)
        BY <3>5, <4>1, <4>2
      <4> QED BY <3>4, <3>5, <4>3 DEF PlainKey
    <3>8. PICK ms, z : ms = [ls EXCEPT ![p] = f] /\ z = WithKeys(x, ms)
      OBVIOUS
    <3>9. /\ ms \in Seq(PlainKey(slash)) /\ Len(ms) = Len(ls)
          /\ \A q \in 1 .. m - 1 : ms[q] = IF q = p THEN f ELSE ls[q]
      BY <1>5, <1>6, <3>2, <3>3, <3>7, <3>8
    <3>10. z \in PlainSection(slash) /\ z.name = x.name /\ z.keys = ms /\ [y EXCEPT !.keys = ms] = z
      <4>1. z \in PlainSection(slash) /\ z.name = x.name /\ z.keys = ms
        <5>1. ms \in Seq(PlainKey(slash)) /\ x \in PlainSection(slash)
          BY <1>2, <3>9
        <5>2. /\ WithKeys(x, ms) \in PlainSection(slash)
              /\ WithKeys(x, ms).name = x.name
              /\ WithKeys(x, ms).keys = ms
          BY ONLY <5>1, WithKeysType
        <5> QED BY <3>8, <5>2
      <4>2. [y EXCEPT !.keys = ms] = WithKeys(y, ms)
        BY <2>2, <3>9, WithKeysType
      <4>3. WithKeys(y, ms) = z
        BY <2>1, <3>8 DEF WithKeys
      <4> QED BY <4>1, <4>2, <4>3
    <3>11. [u EXCEPT ![i].keys[j - 1].tail = @ \o r] = [t EXCEPT ![i] = z]
      <4>1. [u EXCEPT ![i].keys[p].tail = @ \o r]
            = [u EXCEPT ![i] = [u[i] EXCEPT !.keys = [u[i].keys EXCEPT ![p] =
                [u[i].keys[p] EXCEPT !.tail = u[i].keys[p].tail \o r]]]]
        OBVIOUS
      <4>2. [u EXCEPT ![i].keys[p].tail = @ \o r] = [u EXCEPT ![i] = z]
        BY <2>2, <2>4, <3>3, <3>6, <3>8, <3>10, <4>1
      <4> QED BY <2>3, <3>3, <4>2
    <3>12. IsRemoved(z)
      <4>1. \A q \in 1 .. m - 1 : ms[q].name = ls[q].name /\ ms[q].value = ls[q].value
        BY <3>3, <3>7, <3>9
      <4> QED BY <1>5, <1>6, <3>9, <3>10, <4>1
    <3> QED BY <3>1, <3>11, <3>12
  <2> QED BY <2>6, <2>7, <2>8
<1>8. PICK y : IsRemoved(y) /\ RemoveKey(t, i, j, soft) = [t EXCEPT ![i] = y]
  BY <1>7
<1>9. /\ Distinct(y.keys)
      /\ KeyBecomes(y.keys, ks, e, <<>>)
  <2>1. PICK ms : ms = y.keys
    OBVIOUS
  <2>2. ms \in Seq(PlainKey(slash))
    BY <1>8, <2>1, PlainSectionType
  <2>3. Len(ms) = Len(ks) - 1
    BY <1>6, <1>8, <2>1
  <2>4. \A q \in 1 .. Len(ks) - 1 : ms[q].name = ks[Was(q, j)].name /\ ms[q].value = ks[Was(q, j)].value
    BY <1>5, <1>6, <1>8, <2>1
  <2>5. Distinct(ms) /\ KeyBecomes(ms, ks, ks[j], <<>>)
    <3>1. ks \in Seq(PlainKey(slash)) /\ Distinct(ks) /\ j \in 1 .. Len(ks)
      BY <1>2
    <3> HIDE DEF Was
    <3> QED BY ONLY <2>2, <2>3, <2>4, <3>1, KeyRemoved
  <2> QED BY <1>3, <2>1, <2>5
<1>10. y \in PlainSection(slash) /\ y.name = t[i].name
  BY <1>1, <1>8
<1> HIDE DEF IsRemoved
<1>b. PICK u : u = [t EXCEPT ![i] = y]
  OBVIOUS
<1>13. u \in PlainTree(slash) /\ SectionBecomes(u, t, t[i], y.keys)
  <2>1. y \in PlainSection(slash) /\ y.name = t[i].name /\ Distinct(y.keys)
    BY <1>9, <1>10
  <2>2. y \in PlainSection(slash)
    BY <2>1
  <2> QED BY ONLY <1>b, <2>1, <2>2, SectionChanged, t \in PlainTree(slash), i \in DOMAIN t
<1>14. \A s, k : Matches(t[i], s) => ValueOf(t, s, k) = KeyValue(ks, k)
  BY <1>1, ValueIs
<1>15. ValueBecomes(u, t, t[i], e, <<>>)
  <2> SUFFICES ASSUME NEW s, NEW k
               PROVE  /\ Matches(t[i], s) /\ Matches(e, k) => ValueOf(u, s, k) = <<>>
                      /\ ~(Matches(t[i], s) /\ Matches(e, k)) => ValueOf(u, s, k) = ValueOf(t, s, k)
    BY DEF ValueBecomes
  <2>1. CASE Matches(t[i], s)
    <3>1. ValueOf(u, s, k) = KeyValue(y.keys, k) /\ ValueOf(t, s, k) = KeyValue(ks, k)
      BY <1>13, <1>14, <2>1 DEF SectionBecomes
    <3>2. /\ Matches(e, k) => KeyValue(y.keys, k) = <<>>
          /\ ~Matches(e, k) => KeyValue(y.keys, k) = KeyValue(ks, k)
      BY <1>9 DEF KeyBecomes
    <3> QED BY <2>1, <3>1, <3>2
  <2>2. CASE ~Matches(t[i], s)
    BY <1>13, <2>2 DEF SectionBecomes
  <2> QED BY <2>1, <2>2
<1> QED BY <1>1, <1>8, <1>b, <1>13, <1>15

-----------------------------------------------------------------------------
(* What is written for a tree, read again. *)

\* Reading a tree again changes no name and no value.
LEMMA TreeReadIsTree ==
  ASSUME NEW slash \in BOOLEAN, NEW discard \in BOOLEAN, NEW t \in PlainTree(slash)
  PROVE  /\ TreeRead(t, discard) \in PlainTree(slash)
         /\ \A s, k : ValueOf(TreeRead(t, discard), s, k) = ValueOf(t, s, k)
<1>1. /\ t \in Seq(PlainSection(slash))
      /\ DOMAIN t = 1 .. Len(t)
      /\ \A i \in DOMAIN t : t[i] \in PlainSection(slash)
  BY PlainTreeType
<1>2. PICK u : u = TreeRead(t, discard)
  OBVIOUS
<1>3. /\ u \in Seq(PlainSection(slash)) /\ Len(u) = Len(t)
      /\ \A i \in 1 .. Len(t) : u[i] = SectionRead(t[i], FrontOf(t, i), discard)
  BY <1>1, <1>2, TreeReadType
<1>4. ASSUME NEW i \in 1 .. Len(t)
      PROVE  /\ u[i].name = t[i].name /\ Distinct(u[i].keys)
             /\ \A k : KeyValue(u[i].keys, k) = KeyValue(t[i].keys, k)
  <2>1. PICK x, ks, ls : x = t[i] /\ ks = t[i].keys /\ ls = KeysRead(t[i], discard)
    OBVIOUS
  <2>2. x \in PlainSection(slash) /\ ks \in Seq(PlainKey(slash)) /\ Distinct(ks)
    BY <1>1, <2>1, PlainTreeType
  <2>3. /\ ls \in Seq(PlainKey(slash)) /\ Len(ls) = Len(ks)
        /\ \A j \in 1 .. Len(ks) : ls[j] = KeyAgain(ks[j], Before(x, j), discard)
    <3>1. /\ KeysRead(x, discard) \in Seq(PlainKey(slash))
          /\ Len(KeysRead(x, discard)) = Len(x.keys)
          /\ \A j \in 1 .. Len(x.keys) : KeysRead(x, discard)[j] = KeyAgain(x.keys[j], Before(x, j),
                 discard)
      BY <2>2, KeysReadType
    <3> QED BY <2>1, <3>1
  <2>4. \A j \in 1 .. Len(ks) : ls[j].name = ks[j].name /\ ls[j].value = ks[j].value
    <3> SUFFICES ASSUME NEW j \in 1 .. Len(ks) PROVE ls[j].name = ks[j].name /\ ls[j].value = ks[j].value
      OBVIOUS
    <3>1. PICK b, l, k : b = Before(x, j) /\ l = ls[j] /\ k = ks[j]
      OBVIOUS
    <3>2. l = KeyAgain(k, b, discard)
      BY <2>3, <3>1
    <3>3. l.name = k.name /\ l.value = k.value
      BY ONLY <3>2 DEF KeyAgain
    <3> QED BY <3>1, <3>3
  <2>5. Distinct(ls) /\ \A k : KeyValue(ls, k) = KeyValue(ks, k)
    <3>1. Len(ks) = Len(ls) /\ ls \in Seq(PlainKey(slash))
      BY <2>3
    <3> QED BY ONLY <2>2, <2>4, <3>1, SameKeys
  <2>6. u[i].name = t[i].name /\ u[i].keys = ls
    <3>1. PICK b, y : b = FrontOf(t, i) /\ y = u[i]
      OBVIOUS
    <3>2. y = SectionRead(x, b, discard)
      BY <1>3, <2>1, <3>1
    <3>3. y.name = x.name /\ y.keys = KeysRead(x, discard)
      BY ONLY <3>2 DEF SectionRead
    <3> QED BY <2>1, <3>1, <3>3
  <2> QED BY <2>1, <2>5, <2>6
<1>5. u \in PlainTree(slash) /\ \A s, k : ValueOf(u, s, k) = ValueOf(t, s, k)
  <2>1. u \in Seq(PlainSection(slash)) /\ Len(u) = Len(t)
    BY <1>3
  <2> QED BY ONLY <1>4, <2>1, SameTree, t \in PlainTree(slash)
<1> QED BY <1>2, <1>5

\* What is written for a tree is read as the same tree, and each first part of it
\* as a tree.
LEMMA WrittenIsRead ==
  ASSUME NEW slash \in BOOLEAN, NEW discard \in BOOLEAN, NEW t \in PlainTree(slash)
  PROVE  /\ Written(t, discard) \in Seq(PlainLine(slash)) /\ Written(t, discard) \in Seq(Line)
         /\ Parse(Written(t, discard), slash).rc = "NO_ERROR"
         /\ ~Parse(Written(t, discard), slash).quoting
         /\ Parse(Written(t, discard), slash).sections = TreeRead(t, discard)
         /\ \A n \in 0 .. Len(Written(t, discard)) : PlainFile(SubSeq(Written(t, discard), 1, n), slash)
<1>1. PICK w : w = Written(t, discard)
  OBVIOUS
<1>2. t \in Seq(PlainSection(slash))
  BY PlainTreeType
<1>3. /\ w \in Seq(PlainLine(slash))
      /\ \E C \in Seq(CommentLine) : Parse(w, slash) = Reading(TreeRead(t, discard), C)
  BY <1>1, <1>2, ParseTree
<1>4. /\ Parse(w, slash).rc = "NO_ERROR" /\ ~Parse(w, slash).quoting
      /\ Parse(w, slash).sections = TreeRead(t, discard)
  BY <1>3 DEF Reading
<1>5. PlainLine(slash) \subseteq Line
  BY DEF PlainLine
<1>6. w \in Seq(Line)
  BY <1>3, <1>5
<1>7. Unique(Parse(w, slash).sections)
  BY <1>4, TreeReadIsTree DEF PlainTree
<1>8. ASSUME NEW n \in 0 .. Len(w) PROVE PlainFile(SubSeq(w, 1, n), slash)
  BY <1>3, <1>7, PartIsPlain
<1> QED BY <1>1, <1>3, <1>4, <1>6, <1>8

\* The same, as the property says it.
LEMMA AgainIsRead ==
  ASSUME mode.discard \in BOOLEAN, NEW slash \in BOOLEAN, NEW t \in PlainTree(slash)
  PROVE  TreeAgain(t) = TreeRead(t, mode.discard)
<1>1. t \in Seq(PlainSection(slash)) /\ \A i \in DOMAIN t : t[i] \in PlainSection(slash)
  BY PlainTreeType
<1>2. PICK discard \in BOOLEAN : discard = mode.discard
  OBVIOUS
<1>3. ASSUME NEW k \in PlainKey(slash), NEW before
      PROVE  Again(k, before) = KeyAgain(k, before, discard)
  <2>1. PICK c : c = before \o Kept(k, discard)
    OBVIOUS
  <2>2. Again(k, before) = [k EXCEPT !.comment = c, !.tail = <<>>]
    BY <1>2, <2>1 DEF Again, Kept
  <2>3. PICK a, b, n, d, g : a = k.name /\ b = k.value /\ n = k.note /\ d = k.comment /\ g = k.tail
    OBVIOUS
  <2>4. k = [name |-> a, value |-> b, note |-> n, comment |-> d, tail |-> g]
    BY <2>3, PlainKeyType
  <2>5. PICK x : x = [k EXCEPT !.comment = c, !.tail = <<>>]
    OBVIOUS
  <2>6. x = [name |-> a, value |-> b, note |-> n, comment |-> c, tail |-> <<>>]
    BY ONLY <2>4, <2>5
  <2> QED BY <2>1, <2>2, <2>3, <2>5, <2>6 DEF KeyAgain
<1>4. ASSUME NEW s \in PlainSection(slash) PROVE KeysAgain(s) = KeysRead(s, discard)
  <2>1. s.keys \in Seq(PlainKey(slash))
    BY PlainSectionType
  <2>2. \A j \in DOMAIN s.keys : s.keys[j] \in PlainKey(slash)
    BY <2>1
  <2>3. \A j \in DOMAIN s.keys : Again(s.keys[j], Before(s, j)) = KeyAgain(s.keys[j], Before(s, j),
            discard)
    BY <1>3, <2>2
  <2>4. KeysAgain(s) = [j \in DOMAIN s.keys |-> Again(s.keys[j], Before(s, j))]
    BY DEF KeysAgain, Before
  <2> QED BY <2>3, <2>4 DEF KeysRead
<1>5. ASSUME NEW s \in PlainSection(slash), NEW before
      PROVE  [Again(s, before) EXCEPT !.keys = KeysAgain(s)] = SectionRead(s, before, discard)
  <2>1. PICK c, ks : c = before \o Kept(s, discard) /\ ks = KeysAgain(s)
    OBVIOUS
  <2>2. Again(s, before) = [s EXCEPT !.comment = c, !.tail = <<>>]
    BY <1>2, <2>1 DEF Again, Kept
  <2>3. PICK a, b, d, g : a = s.name /\ b = s.comment /\ d = s.tail /\ g = s.keys
    OBVIOUS
  <2>4. s = [name |-> a, comment |-> b, tail |-> d, keys |-> g]
    BY <2>3, PlainSectionType
  <2>5. PICK x : x = [s EXCEPT !.comment = c, !.tail = <<>>]
    OBVIOUS
  <2>6. x = [name |-> a, comment |-> c, tail |-> <<>>, keys |-> g]
    BY ONLY <2>4, <2>5
  <2>7. [x EXCEPT !.keys = ks] = [name |-> a, comment |-> c, tail |-> <<>>, keys |-> ks]
    BY ONLY <2>6
  <2> QED BY <1>4, <2>1, <2>2, <2>3, <2>5, <2>7 DEF SectionRead
<1>6. \A i \in DOMAIN t : [Again(t[i], FrontOf(t, i)) EXCEPT !.keys = KeysAgain(t[i])]
                          = SectionRead(t[i], FrontOf(t, i), discard)
  BY <1>1, <1>5
<1>7. TreeAgain(t) = [i \in DOMAIN t |-> [Again(t[i], FrontOf(t, i)) EXCEPT !.keys = KeysAgain(t[i])]]
  BY DEF TreeAgain, FrontOf
<1> QED BY <1>2, <1>6, <1>7 DEF TreeRead

-----------------------------------------------------------------------------
(* The inductive invariant. *)

\* a is the first part of w.
PartOf(a, w) == \E n \in 0 .. Len(w) : a = SubSeq(w, 1, n)

\* A line that reaches the disk leaves the file and what has still to be written
\* to it, taken together, as they were.
LEMMA FlushMoves ==
  ASSUME NEW A, NEW a \in Seq(A), NEW b \in Seq(A), b # <<>>
  PROVE  /\ Append(a, Head(b)) \o Tail(b) = a \o b
         /\ Tail(b) \in Seq(A) /\ Head(b) \in A /\ Append(a, Head(b)) \in Seq(A)
<1>1. PICK h, t : h = Head(b) /\ t = Tail(b)
  OBVIOUS
<1>2. h \in A /\ t \in Seq(A) /\ Append(a, h) \in Seq(A)
  BY <1>1
<1>3. <<h>> \o t = b
  BY <1>1
<1>4. <<h>> \in Seq(A) /\ a \o <<h>> = Append(a, h)
  BY <1>2
<1>5. PICK o : o = <<h>>
  OBVIOUS
<1>6. a \o (o \o t) = (a \o o) \o t
  <2>1. o \in Seq(A)
    BY <1>4, <1>5
  <2> QED BY ONLY <1>2, <2>1, a \in Seq(A), ConcatAssoc
<1> QED BY <1>1, <1>2, <1>3, <1>4, <1>5, <1>6

\* A file is a first part of what will be written, if it is one with the lines
\* that have still to be written.
LEMMA FirstIsPart ==
  ASSUME NEW A, NEW a \in Seq(A), NEW b \in Seq(A), NEW w \in Seq(A), PartOf(a \o b, w)
  PROVE  PartOf(a, w)
<1>1. PICK n \in 0 .. Len(w) : a \o b = SubSeq(w, 1, n)
  BY DEF PartOf
<1>2. PICK c : c = a \o b
  OBVIOUS
<1>3. /\ c \in Seq(A) /\ Len(c) = Len(a) + Len(b) /\ Len(a) \in Nat /\ Len(b) \in Nat
      /\ \A i \in 1 .. Len(a) : c[i] = a[i]
  <2>1. /\ a \o b \in Seq(A) /\ Len(a \o b) = Len(a) + Len(b) /\ Len(a) \in Nat /\ Len(b) \in Nat
        /\ \A i \in 1 .. Len(a) : (a \o b)[i] = a[i]
    BY ConcatElements
  <2> QED BY <1>2, <2>1
<1>4. c = SubSeq(w, 1, n)
  BY <1>1, <1>2
<1>5. Len(c) = n /\ \A i \in 1 .. n : c[i] = w[i]
  BY <1>4
<1>6. PICK m \in Nat : m = Len(a) /\ m \in 0 .. n
  BY ONLY <1>3, <1>5, n \in 0 .. Len(w)
<1>7. PICK d : d = SubSeq(w, 1, m)
  OBVIOUS
<1>8. d \in Seq(A) /\ Len(d) = m /\ \A i \in 1 .. m : d[i] = w[i]
  BY <1>6, <1>7
<1>9. \A i \in 1 .. Len(a) : a[i] = d[i]
  BY <1>3, <1>5, <1>6, <1>8
<1>10. a = d
  BY ONLY <1>6, <1>8, <1>9, a \in Seq(A), SameSeq
<1> QED BY <1>6, <1>7, <1>10 DEF PartOf

\* The modes, and the constants they are made of.
LEMMA ModeIs ==
  ASSUME NEW m \in Modes
  PROVE  /\ m.discard \in BOOLEAN /\ m.soft \in BOOLEAN /\ m.slash \in BOOLEAN
         /\ m.image \in {Absent} \cup Seq(Line)
         /\ m.opens \in Nat /\ m.changes \in Nat
         /\ m.image # Absent => PlainFile(m.image, m.slash)
         /\ \A v \in AppValue : v \in Seq(Token) /\ PlainValue(v, m.slash)
         /\ Absent # Garbled /\ Absent \notin Seq(Line) /\ Garbled \notin Seq(Line)
         /\ AppSection \subseteq Name /\ AppKey \subseteq Name
<1>1. m \in Mode
  BY ProfileAssumption
<1>2. /\ m.discard \in BOOLEAN /\ m.soft \in BOOLEAN /\ m.slash \in BOOLEAN
      /\ m.image \in {Absent} \cup Seq(Line) /\ m.opens \in Nat /\ m.changes \in Nat
  BY <1>1 DEF Mode
<1>3. /\ m.image # Absent => PlainFile(m.image, m.slash)
      /\ \A v \in AppValue : v \in Seq(Token) /\ PlainValue(v, m.slash)
  BY ProfileAssumption
<1>4. /\ Absent # Garbled /\ Absent \notin Seq(Line) /\ Garbled \notin Seq(Line)
      /\ AppSection \subseteq Name /\ AppKey \subseteq Name
  BY ProfileAssumption
<1> QED BY <1>2, <1>3, <1>4

\* Trees with the same values.
LEMMA SameValues ==
  ASSUME NEW t, NEW u, \A s, k : ValueOf(u, s, k) = ValueOf(t, s, k)
  PROVE  Values(u) = Values(t)
BY DEF Values

\* A file without lines has the empty tree.
LEMMA EmptyTree ==
  ASSUME NEW slash
  PROVE  /\ <<>> \in PlainTree(slash) /\ PlainFile(<<>>, slash)
         /\ Parse(<<>>, slash).rc = "NO_ERROR" /\ Parse(<<>>, slash).sections = <<>>
<1>1. <<>> \in PlainTree(slash)
  BY DEF PlainTree, Unique, Distinct
<1>2. /\ Parse(<<>>, slash).rc = "NO_ERROR" /\ Parse(<<>>, slash).sections = <<>>
      /\ Parse(<<>>, slash).quoting = FALSE
  BY ParseNothing DEF Start
<1> QED BY <1>1, <1>2 DEF PlainFile

\* The types of the proof are those that TypeOK tests.
LEMMA LinesOfSeq == ASSUME NEW s \in Seq(Line) PROVE Lines(s)
<1>1. \A i \in DOMAIN s : s[i] \in Line
  OBVIOUS
<1> QED BY <1>1 DEF Lines, Line

\* A tree that can be written has the type that TypeOK tests.
LEMMA SectionsOfTree == ASSUME NEW slash, NEW t \in PlainTree(slash) PROVE Sections(t)
<1> SUFFICES ASSUME NEW i \in DOMAIN t
             PROVE  /\ t[i].name \in Name /\ Lines(t[i].comment) /\ Lines(t[i].tail)
                    /\ \A j \in DOMAIN t[i].keys : t[i].keys[j].name \in Name /\ t[i].keys[j].value # <<>>
  BY DEF Sections
<1>1. PICK s : s = t[i]
  OBVIOUS
<1>2. s \in PlainSection(slash)
  BY <1>1, PlainTreeType
<1>3. /\ s.name \in Name /\ s.comment \in Seq(CommentLine) /\ s.tail \in Seq(CommentLine)
      /\ s.keys \in Seq(PlainKey(slash))
  BY <1>2, PlainSectionType
<1>4. CommentLine \subseteq Line
  BY DEF CommentLine
<1>5. s.comment \in Seq(Line) /\ s.tail \in Seq(Line)
  BY <1>3, <1>4
<1>6. \A j \in DOMAIN s.keys : s.keys[j] \in PlainKey(slash)
  BY <1>3
<1>7. \A j \in DOMAIN s.keys : s.keys[j].name \in Name /\ s.keys[j].value # <<>>
  BY <1>6, PlainKeyType
<1> QED BY <1>1, <1>3, <1>5, <1>7, LinesOfSeq

ProfileType ==
  /\ mode \in Modes
  /\ file \in {Absent, Garbled} \cup Seq(Line) /\ backup \in {Absent} \cup Seq(Line)
  /\ pc \in {"none", "open"} \cup Closing
  /\ ulOpenMode \in OpenMode /\ pfile \in BOOLEAN /\ fModified \in BOOLEAN
  /\ psectionFirst \in PlainTree(mode.slash)
  /\ buffered \in Seq(Line) /\ leaked \in Seq(Line)
  /\ overtaken \in BOOLEAN /\ lost \in BOOLEAN
  /\ opens \in 0 .. mode.opens /\ changes \in 0 .. mode.changes

\* What is in the file can be read as a plain tree, if it can be read at all.
FileInv ==
  /\ Readable(file) => PlainFile(file, mode.slash)
  /\ stored = InFile(file)

\* The handle is as far as the call is.
HandleInv ==
  /\ pc = "none" => psectionFirst = <<>> /\ ulOpenMode = "INMEMORY" /\ ~fModified
  /\ pc \in Closing => ulOpenMode = "READWRITE" /\ fModified /\ ret.call = "none"
  /\ pfile \/ pc \in Closing => file \in Seq(Line)
  /\ pc = "updateBackup" => backup \in Seq(Line)

\* The file and what has still to be written to it are what will be written for
\* the tree, or the first part of that if a write has failed.  So are the file and
\* the lines of a stream that was not closed, unless it was written again.
StreamInv ==
  /\ pc \in {"update", "updateOriginal"} =>
       /\ PartOf(file \o buffered, Written(psectionFirst, mode.discard))
       /\ ~lost => file \o buffered = Written(psectionFirst, mode.discard)
       /\ leaked = <<>> \/ overtaken
  /\ leaked # <<>> /\ ~overtaken => file \in Seq(Line) /\ PlainFile(file \o leaked, mode.slash)

FlagInv == ~fModified => Values(psectionFirst) = Values(opened)

ProfileInv == ProfileType /\ FileInv /\ HandleInv /\ StreamInv /\ FlagInv

\* What has to be shown follows from the invariant.
LEMMA InvImplies == ProfileInv => TreeIsKept
<1> SUFFICES ASSUME ProfileInv PROVE TreeIsKept
  OBVIOUS
<1> USE DEF ProfileInv
<1>1. mode.discard \in BOOLEAN /\ mode.slash \in BOOLEAN
  BY ModeIs DEF ProfileType
<1>2. TypeOK
  BY LinesOfSeq, SectionsOfTree DEF ProfileType, TypeOK
<1>3. NamesUnique
  BY DEF ProfileType, PlainTree, NamesUnique
<1>4. ModifiedIsFlagged
  BY DEF FlagInv, ModifiedIsFlagged
<1>5. RoundTrip
  <2>1. PICK d \in BOOLEAN, s \in BOOLEAN, t \in PlainTree(mode.slash) :
            d = mode.discard /\ s = mode.slash /\ t = psectionFirst
    BY <1>1 DEF ProfileType
  <2>2. t \in PlainTree(s)
    BY <2>1 DEF ProfileType
  <2>3. /\ Parse(Written(t, d), s).rc = "NO_ERROR"
        /\ ~Parse(Written(t, d), s).quoting
        /\ Parse(Written(t, d), s).sections = TreeRead(t, d)
    BY <2>2, WrittenIsRead
  <2>4. TreeAgain(t) = TreeRead(t, d)
    BY <1>1, <2>1, <2>2, AgainIsRead
  <2> QED BY <2>1, <2>3, <2>4 DEF RoundTrip
<1> QED BY <1>2, <1>3, <1>4, <1>5 DEF TreeIsKept

-----------------------------------------------------------------------------
(* Opening. *)

\* The values in a file, or none if it is not one that can be read.
LEMMA InFileIs ==
  ASSUME NEW slash \in BOOLEAN, slash = mode.slash, NEW f
  PROVE  /\ Readable(f) => InFile(f) = Values(Parse(f, slash).sections)
         /\ ~Readable(f) => InFile(f) = Values(<<>>)
BY DEF InFile

\* The invariant holds before the first call.
LEMMA InitInv == Init => ProfileInv
<1> SUFFICES ASSUME Init PROVE ProfileInv
  OBVIOUS
<1>1. mode \in Modes /\ file = mode.image /\ stored = InFile(file) /\ backup = Absent
  BY DEF Init
<1>2. /\ mode.slash \in BOOLEAN /\ mode.image \in {Absent} \cup Seq(Line) /\ mode.opens \in Nat /\ mode.changes \in Nat
      /\ mode.image # Absent => PlainFile(mode.image, mode.slash)
  BY <1>1, ModeIs
<1>3. <<>> \in PlainTree(mode.slash)
  BY EmptyTree
<1>4. ProfileType
  <2>1. opens \in 0 .. mode.opens /\ changes \in 0 .. mode.changes
    BY <1>2 DEF Init
  <2>2. <<>> \in Seq(Line)
    OBVIOUS
  <2>3. /\ file \in {Absent, Garbled} \cup Seq(Line) /\ backup \in {Absent} \cup Seq(Line)
        /\ buffered \in Seq(Line) /\ leaked \in Seq(Line) /\ psectionFirst \in PlainTree(mode.slash)
    BY <1>1, <1>2, <1>3, <2>2 DEF Init
  <2> QED BY <1>1, <2>1, <2>3 DEF Init, ProfileType, OpenMode
<1>5. FileInv
  BY <1>1, <1>2 DEF FileInv, Readable
<1>6. HandleInv
  BY DEF Init, HandleInv, Closing
<1>7. StreamInv
  BY DEF Init, StreamInv
<1>8. FlagInv
  BY DEF Init, FlagInv
<1> QED BY <1>4, <1>5, <1>6, <1>7, <1>8 DEF ProfileInv

\* What a step leaves alone.
LeftAlone == UNCHANGED <<mode, file, stored, backup, pc, ulOpenMode, pfile, fModified, psectionFirst,
                    buffered, leaked, overtaken, lost, opens, changes, opened>>

\* Queries, and calls that fail before they have done anything.
LEMMA SameInv ==
  ASSUME ProfileInv, LeftAlone, ret' = ret \/ pc \notin Closing
  PROVE  ProfileInv'
<1>1. ProfileType' /\ FileInv' /\ StreamInv' /\ FlagInv'
  BY DEF ProfileInv, LeftAlone, ProfileType, FileInv, StreamInv, FlagInv, InFile
<1>2. HandleInv'
  BY DEF ProfileInv, LeftAlone, HandleInv
<1> QED BY <1>1, <1>2 DEF ProfileInv

\* The file as WtkOpenInitProfile reads it.
LEMMA OpenedIs ==
  ASSUME ProfileInv, NEW m \in OpenMode, file # Garbled
  PROVE  /\ Opened(m) \in {Absent} \cup Seq(Line)
         /\ Opened(m) # Absent => PlainFile(Opened(m), mode.slash) /\ Opened(m) \in Seq(Line)
         /\ InFile(Opened(m)) = stored
         /\ Opened(m) # Absent => InFile(Opened(m)) = Values(Parse(Opened(m), mode.slash).sections)
         /\ Opened(m) = file \/ (file = Absent /\ Opened(m) = <<>>)
<1>1. mode.slash \in BOOLEAN /\ Absent \notin Seq(Line) /\ Garbled \notin Seq(Line) /\ Absent # Garbled
  BY ModeIs DEF ProfileInv, ProfileType
<1>2. PICK slash \in BOOLEAN : slash = mode.slash
  BY <1>1
<1>3. CASE Opened(m) = file
  <2>1. file \in {Absent} \cup Seq(Line)
    BY DEF ProfileInv, ProfileType
  <2>2. file # Absent => Readable(file) /\ PlainFile(file, slash)
    BY <1>2 DEF ProfileInv, FileInv, Readable
  <2>3. stored = InFile(file)
    BY DEF ProfileInv, FileInv
  <2> QED BY <1>2, <1>3, <2>1, <2>2, <2>3, InFileIs
<1>4. CASE Opened(m) # file
  <2>1. Opened(m) = <<>> /\ file = Absent
    BY <1>4 DEF Opened
  <2>2. PICK f : f = <<>>
    OBVIOUS
  <2>3. f \in Seq(Line) /\ PlainFile(f, slash) /\ Parse(f, slash).sections = <<>>
    BY <2>2, EmptyTree
  <2>4. Readable(f) /\ ~Readable(file)
    BY <1>1, <2>1, <2>3 DEF Readable
  <2>5. InFile(f) = Values(<<>>)
    BY <1>2, <2>3, <2>4, InFileIs
  <2>6. stored = Values(<<>>)
    BY <1>2, <2>4, InFileIs DEF ProfileInv, FileInv
  <2> QED BY <1>2, <2>1, <2>2, <2>3, <2>5, <2>6
<1> QED BY <1>3, <1>4

\* A new handle (WtkOpenInitProfile), with the tree that was read.
LEMMA OpenInv ==
  ASSUME ProfileInv, NEW m \in OpenMode, OpenInMemory \/ OpenFile(m)
  PROVE  ProfileInv'
<1>1. CASE OpenInMemory
  <2>1. /\ UNCHANGED <<mode, file, stored, backup, buffered, leaked, overtaken, changes>>
        /\ pc' = "open" /\ ulOpenMode' = "INMEMORY" /\ pfile' = FALSE /\ fModified' = FALSE
        /\ psectionFirst' = <<>> /\ opened' = <<>> /\ lost' = FALSE
        /\ opens < mode.opens /\ opens' = opens + 1
    BY <1>1 DEF OpenInMemory, OpenHandle, OpenBegins, fileVars
  <2>2. opens' \in 0 .. mode.opens
    BY <2>1, ModeIs DEF ProfileInv, ProfileType
  <2>3. <<>> \in PlainTree(mode.slash)
    BY EmptyTree
  <2>4. ProfileType'
    BY <2>1, <2>2, <2>3 DEF ProfileInv, ProfileType, OpenMode
  <2>5. FileInv' /\ StreamInv' /\ FlagInv' /\ HandleInv'
    BY <2>1 DEF ProfileInv, FileInv, StreamInv, FlagInv, HandleInv, InFile, Closing
  <2> QED BY <2>4, <2>5 DEF ProfileInv
<1>2. CASE OpenFile(m)
  <2>1. PICK f, st : f = Opened(m) /\ st = Parse(Opened(m), mode.slash)
    OBVIOUS
  <2>2. /\ UNCHANGED <<mode, backup, buffered, leaked, overtaken, changes>>
        /\ file' = f /\ stored' = InFile(f)
        /\ pc' = "open" /\ ulOpenMode' = m /\ pfile' \in BOOLEAN /\ fModified' = FALSE
        /\ psectionFirst' = st.sections /\ opened' = st.sections /\ lost' = FALSE
        /\ opens < mode.opens /\ opens' = opens + 1
        /\ f # Absent /\ st.rc = "NO_ERROR" /\ file # Garbled
    BY <1>2, <2>1 DEF OpenFile, OpenHandle, OpenBegins, FileBecomes
  <2>3. opens' \in 0 .. mode.opens
    BY <2>2, ModeIs DEF ProfileInv, ProfileType
  <2>4. /\ f \in Seq(Line)
        /\ PlainFile(f, mode.slash)
        /\ InFile(f) = stored
        /\ (f = file \/ (file = Absent /\ f = <<>>))
    BY <2>1, <2>2, OpenedIs
  <2>5. st.sections \in PlainTree(mode.slash)
    BY <2>1, <2>2, <2>4 DEF PlainFile
  <2>6. ProfileType'
    BY <2>2, <2>3, <2>4, <2>5 DEF ProfileInv, ProfileType
  <2>7. FileInv'
    BY <2>2, <2>4 DEF FileInv, InFile
  <2>8. HandleInv' /\ FlagInv'
    BY <2>2, <2>4 DEF HandleInv, FlagInv, Closing
  <2>9. StreamInv'
    <3>1. file = Absent => leaked = <<>> \/ overtaken
      BY ModeIs DEF ProfileInv, ProfileType, StreamInv
    <3> QED BY <2>2, <2>4, <3>1 DEF ProfileInv, StreamInv
  <2> QED BY <2>6, <2>7, <2>8, <2>9 DEF ProfileInv
<1> QED BY <1>1, <1>2

\* No handle, and perhaps a new file.
LEMMA OpenFailsInv ==
  ASSUME ProfileInv, NEW m \in OpenMode, OpenFails(m)
  PROVE  ProfileInv'
<1>1. /\ UNCHANGED <<mode, backup, pc, ulOpenMode, pfile, fModified, psectionFirst,
                     buffered, leaked, overtaken, lost, changes, opened>>
      /\ pc = "none" /\ opens < mode.opens /\ opens' = opens + 1 /\ file # Garbled
  BY DEF OpenFails, OpenBegins, initVars, streamVars, history
<1>2. \E f \in {file, Opened(m)} : file' = f /\ stored' = InFile(f)
  <2>1. stored = InFile(file)
    BY DEF ProfileInv, FileInv
  <2> QED BY <2>1 DEF OpenFails, FileBecomes, fileVars
<1>3. PICK f \in {file, Opened(m)} : file' = f /\ stored' = InFile(f)
  BY <1>2
<1>4. /\ f \in {Absent, Garbled} \cup Seq(Line) /\ (Readable(f) => PlainFile(f, mode.slash))
      /\ f = file \/ (file = Absent /\ f \in Seq(Line))
  <2>1. /\ file \in {Absent, Garbled} \cup Seq(Line)
        /\ Readable(file) => PlainFile(file, mode.slash)
    BY DEF ProfileInv, ProfileType, FileInv
  <2>2. Opened(m) # Absent => PlainFile(Opened(m), mode.slash) /\ Opened(m) \in Seq(Line)
    BY <1>1, OpenedIs
  <2>3. Opened(m) = file \/ (file = Absent /\ Opened(m) = <<>>)
    BY <1>1, OpenedIs
  <2> QED BY <2>1, <2>2, <2>3 DEF Readable
<1>5. opens' \in 0 .. mode.opens
  BY <1>1, ModeIs DEF ProfileInv, ProfileType
<1>6. ProfileType'
  BY <1>1, <1>3, <1>4, <1>5 DEF ProfileInv, ProfileType
<1>7. FileInv'
  BY <1>1, <1>3, <1>4 DEF FileInv, InFile
<1>8. HandleInv' /\ FlagInv'
  BY <1>1, <1>3, <1>4 DEF ProfileInv, HandleInv, FlagInv, Closing
<1>9. StreamInv'
  <2>1. file = Absent => leaked = <<>> \/ overtaken
    BY ModeIs DEF ProfileInv, ProfileType, StreamInv
  <2> QED BY <1>1, <1>3, <1>4, <2>1 DEF ProfileInv, StreamInv
<1> QED BY <1>6, <1>7, <1>8, <1>9 DEF ProfileInv

-----------------------------------------------------------------------------
(* Changing the tree. *)

\* A change leaves a plain tree, and sets fModified if a value is another one.
LEMMA LeaveTreeInv ==
  ASSUME ProfileInv, NEW t \in PlainTree(mode.slash), NEW rc, NEW changed \in BOOLEAN,
         LeaveTree(t, rc, changed),
         ~changed \/ rc # "NO_ERROR" => Values(t) = Values(psectionFirst)
  PROVE  ProfileInv'
<1>1. /\ UNCHANGED <<mode, file, stored, backup, pc, ulOpenMode, pfile,
                     buffered, leaked, overtaken, lost, opens, opened>>
      /\ pc = "open" /\ changes < mode.changes /\ changes' = changes + 1 /\ psectionFirst' = t
      /\ fModified' = (fModified \/ (rc = "NO_ERROR" /\ changed))
  BY DEF LeaveTree, diskVars, fileVars, streamVars, history
<1>2. changes' \in 0 .. mode.changes
  BY <1>1, ModeIs DEF ProfileInv, ProfileType
<1>3. ProfileType'
  <2>1. fModified' \in BOOLEAN
    BY <1>1 DEF ProfileInv, ProfileType
  <2> QED BY <1>1, <1>2, <2>1 DEF ProfileInv, ProfileType
<1>4. FileInv'
  BY <1>1 DEF ProfileInv, FileInv, InFile
<1>5. HandleInv' /\ StreamInv'
  BY <1>1 DEF ProfileInv, HandleInv, StreamInv, Closing
<1>6. FlagInv'
  <2> SUFFICES ASSUME ~fModified' PROVE Values(t) = Values(opened)
    BY <1>1 DEF FlagInv, Values
  <2>1. ~fModified /\ (~changed \/ rc # "NO_ERROR")
    BY <1>1
  <2> QED BY <2>1 DEF ProfileInv, FlagInv
<1> QED BY <1>3, <1>4, <1>5, <1>6 DEF ProfileInv

\* What SectionAt and KeyAt find.
LEMMA FoundIs ==
  ASSUME ProfileInv, NEW s \in Name
  PROVE  /\ SectionAt(s) # 0 => SectionAt(s) \in DOMAIN psectionFirst /\ Matches(psectionFirst[SectionAt(s)], s)
         /\ SectionAt(s) = 0 => Find(psectionFirst, s) = 0 /\ \A k : ValueOf(psectionFirst, s, k) = <<>>
         /\ \A k \in Name : KeyAt(s, k) # 0 =>
              /\ SectionAt(s) # 0
              /\ KeyAt(s, k) \in DOMAIN psectionFirst[SectionAt(s)].keys
              /\ Matches(psectionFirst[SectionAt(s)].keys[KeyAt(s, k)], k)
              /\ ValueOf(psectionFirst, s, k) = psectionFirst[SectionAt(s)].keys[KeyAt(s, k)].value
         /\ \A k \in Name : KeyAt(s, k) = 0 =>
              /\ SectionAt(s) # 0 => Find(psectionFirst[SectionAt(s)].keys, k) = 0
              /\ ValueOf(psectionFirst, s, k) = <<>>
<1>1. PICK slash, t : slash = mode.slash /\ t = psectionFirst
  OBVIOUS
<1>2. t \in PlainTree(slash)
  BY <1>1 DEF ProfileInv, ProfileType
<1>3. t \in Seq(PlainSection(slash)) /\ Distinct(t)
  BY <1>2, PlainTreeType
<1>4. PICK i : i = SectionAt(s)
  OBVIOUS
<1>5. i = Find(t, s)
  BY <1>1, <1>4 DEF SectionAt
<1>6. i # 0 => i \in DOMAIN t /\ Matches(t[i], s)
  BY <1>3, <1>5, FindIs
<1>7. i = 0 => \A k : ValueOf(t, s, k) = <<>>
  <2>1. i = 0 => \A j \in DOMAIN t : ~Matches(t[j], s)
    BY <1>3, <1>5, FindIs
  <2> QED BY <1>2, <2>1, ValueIs
<1>8. ASSUME NEW k \in Name
      PROVE  /\ KeyAt(s, k) # 0 => /\ i # 0 /\ KeyAt(s, k) \in DOMAIN t[i].keys
                                   /\ Matches(t[i].keys[KeyAt(s, k)], k)
                                   /\ ValueOf(t, s, k) = t[i].keys[KeyAt(s, k)].value
             /\ KeyAt(s, k) = 0 => /\ i # 0 => Find(t[i].keys, k) = 0
                                   /\ ValueOf(t, s, k) = <<>>
  <2>1. CASE i = 0
    <3>1. KeyAt(s, k) = 0
      BY <1>4, <2>1 DEF KeyAt
    <3> QED BY <1>7, <2>1, <3>1
  <2>2. CASE i # 0
    <3>1. PICK ks, j : ks = t[i].keys /\ j = Find(ks, k)
      OBVIOUS
    <3>2. KeyAt(s, k) = j
      BY <1>1, <1>4, <2>2, <3>1 DEF KeyAt
    <3>3. ks \in Seq(PlainKey(slash)) /\ Distinct(ks)
      BY <1>2, <1>6, <2>2, <3>1, PlainTreeType
    <3>4. ValueOf(t, s, k) = KeyValue(ks, k)
      BY <1>2, <1>6, <2>2, <3>1, ValueIs
    <3>5. j # 0 => j \in DOMAIN ks /\ Matches(ks[j], k)
      BY <3>1, <3>3, FindIs
    <3>6. KeyValue(ks, k) = IF j = 0 THEN <<>> ELSE ks[j].value
      BY <3>1 DEF KeyValue
    <3> QED BY <2>2, <3>1, <3>2, <3>4, <3>5, <3>6
  <2> QED BY <2>1, <2>2
<1> QED BY <1>1, <1>4, <1>5, <1>6, <1>7, <1>8

\* The tree with a new section, if there was none of that name.
LEMMA SectionThere ==
  ASSUME ProfileInv, NEW s \in Name, SectionAt(s) = 0
  PROVE  /\ AddSection(psectionFirst, s) \in PlainTree(mode.slash)
         /\ \A r, k : ValueOf(AddSection(psectionFirst, s), r, k) = ValueOf(psectionFirst, r, k)
         /\ LET t == AddSection(psectionFirst, s)
            IN  Len(t) \in DOMAIN t /\ Matches(t[Len(t)], s) /\ \A k : Find(t[Len(t)].keys, k) = 0
<1>1. PICK slash, t, u : slash = mode.slash /\ t = psectionFirst /\ u = AddSection(t, s)
  OBVIOUS
<1>2. t \in PlainTree(slash) /\ Find(t, s) = 0
  BY <1>1 DEF ProfileInv, ProfileType, SectionAt
<1>3. /\ u \in PlainTree(slash) /\ Len(u) \in DOMAIN u /\ u[Len(u)] = NewSection(s)
      /\ \A r, k : ValueOf(u, r, k) = ValueOf(t, r, k)
  BY <1>1, <1>2, SectionAdded
<1>4. NewSection(s).name = s /\ NewSection(s).keys = <<>>
  BY NewSectionType
<1>5. \A k : Find(<<>>, k) = 0
  BY DEF Find, SelectInSeq
<1>6. Matches(u[Len(u)], s) /\ \A k : Find(u[Len(u)].keys, k) = 0
  BY <1>3, <1>4, <1>5 DEF Matches
<1> QED BY <1>1, <1>3, <1>6

\* A table in which the keys with a name of K, in the sections with the name of s,
\* have the value v, all others that of the tree.
Table(t, s, K, v) ==
  [x \in Name \X Name |->
     IF Promise!Same(x[1], s) /\ (\E k \in K : Promise!Same(x[2], k)) THEN v ELSE Values(t)[x]]

\* The call sets the values to v and reports it, and no value is another one if it
\* takes nothing for changed.
Sets(s, K, v, changed) ==
  \E t \in PlainTree(mode.slash) :
    /\ LeaveTree(t, "NO_ERROR", changed) /\ Return("write", "NO_ERROR")
    /\ Values(t) = Table(psectionFirst, s, K, v)
    /\ ~changed => Values(t) = Values(psectionFirst)

\* The call changes no value.
Fails ==
  \E t \in PlainTree(mode.slash), rc \in {"NO_ERROR", "ERROR_NOT_ENOUGH_MEMORY",
      "ERROR_FILE_NOT_FOUND"} :
    /\ Values(t) = Values(psectionFirst)
    /\ \/ rc # "NO_ERROR" /\ LeaveTree(t, rc, FALSE) /\ Return("write", rc)
       \/ rc = "NO_ERROR" /\ LeaveTree(t, rc, TRUE) /\ Return("writeLost", rc)

\* The table of a tree in which one value was set.
LEMMA TableOfOne ==
  ASSUME NEW t, NEW u, NEW x, NEW e, NEW v, NEW s \in Name, NEW k \in Name,
         Matches(x, s), Matches(e, k), ValueBecomes(u, t, x, e, v)
  PROVE  Values(u) = Table(t, s, {k}, v) /\ Values(u)[<<s, k>>] = v
<1>1. ASSUME NEW r \in Name, NEW l \in Name
      PROVE  Values(u)[<<r, l>>] = Table(t, s, {k}, v)[<<r, l>>]
  <2>1. Matches(x, r) <=> Promise!Same(r, s)
    BY DEF Matches, Promise!Same
  <2>2. Matches(e, l) <=> \E q \in {k} : Promise!Same(l, q)
    BY DEF Matches, Promise!Same
  <2>3. /\ Matches(x, r) /\ Matches(e, l) => ValueOf(u, r, l) = v
        /\ ~(Matches(x, r) /\ Matches(e, l)) => ValueOf(u, r, l) = ValueOf(t, r, l)
    BY DEF ValueBecomes
  <2>4. Values(u)[<<r, l>>] = ValueOf(u, r, l) /\ Values(t)[<<r, l>>] = ValueOf(t, r, l)
    BY DEF Values
  <2>5. Table(t, s, {k}, v)[<<r, l>>] =
          IF Promise!Same(r, s) /\ (\E q \in {k} : Promise!Same(l, q)) THEN v ELSE Values(t)[<<r, l>>]
    BY DEF Table
  <2> QED BY ONLY <2>1, <2>2, <2>3, <2>4, <2>5
<1>2. /\ Values(u) = [y \in Name \X Name |-> Values(u)[y]]
      /\ Table(t, s, {k}, v) = [y \in Name \X Name |-> Table(t, s, {k}, v)[y]]
  BY DEF Values, Table
<1>3. \A y \in Name \X Name : Values(u)[y] = Table(t, s, {k}, v)[y]
  BY <1>1
<1>4. Values(u) = Table(t, s, {k}, v)
  BY ONLY <1>2, <1>3
<1>5. Values(u)[<<s, k>>] = v
  BY DEF Values, ValueBecomes
<1> QED BY <1>4, <1>5

\* The table of a tree of which a section was deleted.
LEMMA TableOfSection ==
  ASSUME NEW t, NEW u, NEW x, NEW s \in Name, Matches(x, s), SectionEnds(u, t, x)
  PROVE  Values(u) = Table(t, s, Name, <<>>)
<1>1. ASSUME NEW r \in Name, NEW l \in Name
      PROVE  Values(u)[<<r, l>>] = Table(t, s, Name, <<>>)[<<r, l>>]
  <2>1. Matches(x, r) <=> Promise!Same(r, s)
    BY DEF Matches, Promise!Same
  <2>2. \E q \in Name : Promise!Same(l, q)
    BY DEF Promise!Same
  <2>3. /\ Matches(x, r) => ValueOf(u, r, l) = <<>>
        /\ ~Matches(x, r) => ValueOf(u, r, l) = ValueOf(t, r, l)
    BY DEF SectionEnds
  <2>4. Values(u)[<<r, l>>] = ValueOf(u, r, l) /\ Values(t)[<<r, l>>] = ValueOf(t, r, l)
    BY DEF Values
  <2>5. Table(t, s, Name, <<>>)[<<r, l>>] =
          IF Promise!Same(r, s) /\ (\E q \in Name : Promise!Same(l, q)) THEN <<>> ELSE Values(t)[<<r,
              l>>]
    BY DEF Table
  <2> QED BY ONLY <2>1, <2>2, <2>3, <2>4, <2>5
<1>2. /\ Values(u) = [y \in Name \X Name |-> Values(u)[y]]
      /\ Table(t, s, Name, <<>>) = [y \in Name \X Name |-> Table(t, s, Name, <<>>)[y]]
  BY DEF Values, Table
<1>3. \A y \in Name \X Name : Values(u)[y] = Table(t, s, Name, <<>>)[y]
  BY <1>1
<1> QED BY ONLY <1>2, <1>3

\* A change of the tree keeps the invariant.
LEMMA SetsInv ==
  ASSUME ProfileInv, NEW s \in Name, NEW K, NEW v, NEW changed \in BOOLEAN, Sets(s, K, v, changed)
  PROVE  ProfileInv'
BY LeaveTreeInv DEF Sets

\* A call that changes no value keeps the invariant.
LEMMA FailsInv == ASSUME ProfileInv, Fails PROVE ProfileInv'
<1>1. PICK t \in PlainTree(mode.slash), rc \in {"NO_ERROR", "ERROR_NOT_ENOUGH_MEMORY",
          "ERROR_FILE_NOT_FOUND"} :
        /\ Values(t) = Values(psectionFirst)
        /\ LeaveTree(t, rc, FALSE) \/ LeaveTree(t, rc, TRUE)
  BY DEF Fails
<1>2. CASE LeaveTree(t, rc, FALSE)
  BY <1>1, <1>2, LeaveTreeInv
<1>3. CASE LeaveTree(t, rc, TRUE)
  BY <1>1, <1>3, LeaveTreeInv
<1> QED BY <1>1, <1>2, <1>3

\* A value is written to a key that is there.
LEMMA WriteValueIs ==
  ASSUME ProfileInv, NEW s \in AppSection, NEW k \in AppKey, NEW v \in AppValue, WriteValue(s, k, v)
  PROVE  \/ \E changed \in BOOLEAN :
              Sets(s, {k}, v, changed) /\ (changed <=> Values(psectionFirst)' # Values(psectionFirst))
         \/ Fails
<1>1. mode \in Modes /\ psectionFirst \in PlainTree(mode.slash)
  BY DEF ProfileInv, ProfileType
<1>2. s \in Name /\ k \in Name /\ v \in Seq(Token) /\ PlainValue(v, mode.slash)
  BY <1>1, ModeIs
<1>3. PICK i, j, t : i = SectionAt(s) /\ j = KeyAt(s, k) /\ t = psectionFirst
  OBVIOUS
<1>4. j # 0
  BY <1>3 DEF WriteValue
<1>5. /\ i \in DOMAIN t /\ j \in DOMAIN t[i].keys /\ Matches(t[i], s) /\ Matches(t[i].keys[j], k)
      /\ ValueOf(t, s, k) = t[i].keys[j].value
  BY <1>2, <1>3, <1>4, FoundIs
<1>6. PICK x, e : x = t[i] /\ e = t[i].keys[j]
  OBVIOUS
<1>7. PICK slash \in BOOLEAN : slash = mode.slash
  BY <1>1, ModeIs
<1>8. PICK u : u = SetValue(t, i, j, v)
  OBVIOUS
<1>9. u \in PlainTree(slash) /\ ValueBecomes(u, t, x, e, v)
  BY <1>1, <1>2, <1>3, <1>5, <1>6, <1>7, <1>8, SetValueSets
<1>10. Matches(x, s) /\ Matches(e, k)
  BY <1>5, <1>6
<1>11. Values(u) = Table(t, s, {k}, v) /\ Values(u)[<<s, k>>] = v
  BY ONLY <1>2, <1>9, <1>10, TableOfOne
<1>12. Values(t)[<<s, k>>] = e.value
  BY <1>2, <1>5, <1>6 DEF Values
<1>13. e.value = v => Values(u) = Values(t)
  <2> SUFFICES ASSUME e.value = v PROVE Values(u) = Values(t)
    OBVIOUS
  <2>1. ASSUME NEW r, NEW l PROVE ValueOf(u, r, l) = ValueOf(t, r, l)
    <3>1. CASE Matches(x, r) /\ Matches(e, l)
      <4>1. ValueOf(u, r, l) = v
        BY <1>9, <3>1 DEF ValueBecomes
      <4>2. t \in PlainTree(slash)
        BY <1>1, <1>3, <1>7
      <4>3. t[i].keys \in Seq(PlainKey(slash)) /\ Distinct(t[i].keys)
        BY <1>5, <4>2, PlainTreeType
      <4>4. ValueOf(t, r, l) = KeyValue(t[i].keys, l)
        BY <1>5, <1>6, <3>1, <4>2, ValueIs
      <4>5. KeyValue(t[i].keys, l) = t[i].keys[j].value
        BY <1>5, <1>6, <3>1, <4>3, KeyValueIs
      <4> QED BY <1>6, <4>1, <4>4, <4>5
    <3>2. CASE ~(Matches(x, r) /\ Matches(e, l))
      BY <1>9, <3>2 DEF ValueBecomes
    <3> QED BY <3>1, <3>2
  <2> QED BY <2>1, SameValues
<1>14. \/ LeaveTree(u, "NO_ERROR", e.value # v) /\ Return("write", "NO_ERROR")
       \/ /\ LeaveTree(t, "ERROR_NOT_ENOUGH_MEMORY", FALSE)
          /\ Return("write", "ERROR_NOT_ENOUGH_MEMORY")
  BY <1>3, <1>6, <1>8 DEF WriteValue, ReturnTree
<1>15. CASE LeaveTree(u, "NO_ERROR", e.value # v) /\ Return("write", "NO_ERROR")
  <2>1. PICK changed \in BOOLEAN : changed = (e.value # v)
    OBVIOUS
  <2>2. LeaveTree(u, "NO_ERROR", changed)
    BY <1>15, <2>1
  <2>3. psectionFirst' = u
    BY <2>2 DEF LeaveTree
  <2>4. Values(psectionFirst)' = Values(u)
    BY <2>3 DEF Values
  <2>5. changed <=> Values(psectionFirst)' # Values(psectionFirst)
    BY <1>3, <1>11, <1>12, <1>13, <2>1, <2>4
  <2>6. Sets(s, {k}, v, changed)
    BY <1>3, <1>7, <1>9, <1>11, <1>13, <1>15, <2>1, <2>2 DEF Sets
  <2> QED BY <2>5, <2>6
<1>16. CASE /\ LeaveTree(t, "ERROR_NOT_ENOUGH_MEMORY", FALSE)
            /\ Return("write", "ERROR_NOT_ENOUGH_MEMORY")
  BY <1>1, <1>3, <1>16 DEF Fails
<1> QED BY <1>14, <1>15, <1>16

\* A key is made, in a section that is there or is made before.
LEMMA CreateKeyIs ==
  ASSUME ProfileInv, NEW s \in AppSection, NEW k \in AppKey, NEW v \in AppValue, CreateKey(s, k, v)
  PROVE  \/ Sets(s, {k}, v, TRUE) /\ Values(psectionFirst)' # Values(psectionFirst)
         \/ Fails
<1>1. mode \in Modes /\ psectionFirst \in PlainTree(mode.slash)
  BY DEF ProfileInv, ProfileType
<1>2. s \in Name /\ k \in Name /\ v \in Seq(Token) /\ PlainValue(v, mode.slash)
  BY <1>1, ModeIs
<1>3. PICK i, p : i = SectionAt(s) /\ p = psectionFirst
  OBVIOUS
<1>4. PICK slash \in BOOLEAN : slash = mode.slash
  BY <1>1, ModeIs
<1>5. PICK t : t = IF i = 0 THEN AddSection(p, s) ELSE p
  OBVIOUS
<1>6. PICK n : n = IF i = 0 THEN Len(t) ELSE i
  OBVIOUS
<1>7. KeyAt(s, k) = 0
  BY DEF CreateKey
<1>8. /\ t \in PlainTree(slash) /\ n \in DOMAIN t /\ Matches(t[n], s) /\ Find(t[n].keys, k) = 0
      /\ \A r, l : ValueOf(t, r, l) = ValueOf(p, r, l)
  <2>1. CASE i = 0
    BY <1>2, <1>3, <1>4, <1>5, <1>6, <2>1, SectionThere
  <2>2. CASE i # 0
    BY <1>1, <1>2, <1>3, <1>4, <1>5, <1>6, <1>7, <2>2, FoundIs
  <2> QED BY <2>1, <2>2
<1>9. Values(t) = Values(p)
  BY <1>8, SameValues
<1>10. Values(p)[<<s, k>>] = <<>>
  <2>1. ValueOf(p, s, k) = <<>>
    BY <1>2, <1>3, <1>7, FoundIs
  <2> QED BY <1>2, <2>1 DEF Values
<1>11. PICK u, x, e : u = AddKey(t, n, k, v) /\ x = t[n] /\ e = NewKey(k, v)
  OBVIOUS
<1>12. u \in PlainTree(slash) /\ ValueBecomes(u, t, x, e, v)
  BY <1>2, <1>4, <1>8, <1>11, AddKeyAdds
<1>13. Matches(x, s) /\ Matches(e, k)
  <2>1. e.name = k
    BY <1>11 DEF NewKey
  <2> QED BY <1>8, <1>11, <2>1 DEF Matches
<1>14. Values(u) = Table(t, s, {k}, v) /\ Values(u)[<<s, k>>] = v
  BY ONLY <1>2, <1>12, <1>13, TableOfOne
<1>15. Table(t, s, {k}, v) = Table(p, s, {k}, v)
  BY <1>9 DEF Table
<1>16. \/ LeaveTree(u, "NO_ERROR", TRUE) /\ Return("write", "NO_ERROR")
       \/ \E w \in {p, t} : /\ LeaveTree(w, "ERROR_NOT_ENOUGH_MEMORY", FALSE)
                            /\ Return("write", "ERROR_NOT_ENOUGH_MEMORY")
       \/ \E w \in {p, t} : LeaveTree(w, "NO_ERROR", TRUE) /\ Return("writeLost", "NO_ERROR")
  BY <1>3, <1>5, <1>6, <1>11 DEF CreateKey, ReturnTree, LoseEntry
<1>17. CASE LeaveTree(u, "NO_ERROR", TRUE) /\ Return("write", "NO_ERROR")
  <2>1. Values(psectionFirst)' = Values(u)
    BY <1>17 DEF LeaveTree, Values
  <2>2. Sets(s, {k}, v, TRUE)
    BY <1>3, <1>4, <1>12, <1>14, <1>15, <1>17 DEF Sets
  <2>3. v # <<>>
    BY <1>2 DEF PlainValue
  <2> QED BY <1>3, <1>10, <1>14, <2>1, <2>2, <2>3
<1>18. CASE \E w \in {p, t} : /\ LeaveTree(w, "ERROR_NOT_ENOUGH_MEMORY", FALSE)
                              /\ Return("write", "ERROR_NOT_ENOUGH_MEMORY")
  BY <1>1, <1>3, <1>4, <1>8, <1>9, <1>18 DEF Fails
<1>19. CASE \E w \in {p, t} : LeaveTree(w, "NO_ERROR", TRUE) /\ Return("writeLost", "NO_ERROR")
  BY <1>1, <1>3, <1>4, <1>8, <1>9, <1>19 DEF Fails
<1> QED BY <1>16, <1>17, <1>18, <1>19

\* A key is deleted, softly or not, or there is none.
LEMMA DeleteKeyIs ==
  ASSUME ProfileInv, NEW s \in AppSection, NEW k \in AppKey, DeleteKey(s, k)
  PROVE  Sets(s, {k}, <<>>, TRUE) \/ Fails
<1>1. mode \in Modes /\ psectionFirst \in PlainTree(mode.slash)
  BY DEF ProfileInv, ProfileType
<1>2. s \in Name /\ k \in Name
  BY <1>1, ModeIs
<1>3. CASE LeaveTree(psectionFirst, "ERROR_FILE_NOT_FOUND", FALSE) /\ Return("write",
          "ERROR_FILE_NOT_FOUND")
  BY <1>1, <1>3 DEF Fails
<1>4. CASE /\ KeyAt(s, k) # 0
           /\ ReturnTree(RemoveKey(psectionFirst, SectionAt(s), KeyAt(s, k), mode.soft), "NO_ERROR",
                  TRUE)
  <2>1. PICK i, j, t : i = SectionAt(s) /\ j = KeyAt(s, k) /\ t = psectionFirst
    OBVIOUS
  <2>2. PICK slash \in BOOLEAN, soft \in BOOLEAN : slash = mode.slash /\ soft = mode.soft
    BY <1>1, ModeIs
  <2>3. /\ i \in DOMAIN t /\ j \in DOMAIN t[i].keys /\ Matches(t[i], s) /\ Matches(t[i].keys[j], k)
    BY <1>2, <1>4, <2>1, FoundIs
  <2>4. PICK u, x, e : u = RemoveKey(t, i, j, soft) /\ x = t[i] /\ e = t[i].keys[j]
    OBVIOUS
  <2>5. PICK v : v = <<>>
    OBVIOUS
  <2>6. u \in PlainTree(slash) /\ ValueBecomes(u, t, x, e, v)
    BY <1>1, <2>1, <2>2, <2>3, <2>4, <2>5, RemoveKeyRemoves
  <2>7. Matches(x, s) /\ Matches(e, k)
    BY <2>3, <2>4
  <2>8. Values(u) = Table(t, s, {k}, v) /\ Values(u)[<<s, k>>] = v
    BY ONLY <1>2, <2>6, <2>7, TableOfOne
  <2> QED BY <1>4, <2>1, <2>2, <2>4, <2>5, <2>6, <2>8 DEF Sets, ReturnTree
<1> QED BY <1>3, <1>4 DEF DeleteKey, ReturnTree

\* A section is deleted, or there is none.
LEMMA DeleteSectionIs ==
  ASSUME ProfileInv, NEW s \in AppSection, DeleteSection(s)
  PROVE  Sets(s, Name, <<>>, TRUE) \/ Fails
<1>1. mode \in Modes /\ psectionFirst \in PlainTree(mode.slash)
  BY DEF ProfileInv, ProfileType
<1>2. s \in Name
  BY <1>1, ModeIs
<1>3. CASE LeaveTree(psectionFirst, "ERROR_FILE_NOT_FOUND", FALSE) /\ Return("write",
          "ERROR_FILE_NOT_FOUND")
  BY <1>1, <1>3 DEF Fails
<1>4. CASE /\ SectionAt(s) # 0
           /\ ReturnTree(RemoveSection(psectionFirst, SectionAt(s)), "NO_ERROR", TRUE)
  <2>1. PICK i, t, slash : i = SectionAt(s) /\ t = psectionFirst /\ slash = mode.slash
    OBVIOUS
  <2>2. i \in DOMAIN t /\ Matches(t[i], s)
    BY <1>2, <1>4, <2>1, FoundIs
  <2>3. PICK u, x : u = RemoveSection(t, i) /\ x = t[i]
    OBVIOUS
  <2>4. u \in PlainTree(slash) /\ SectionEnds(u, t, x)
    BY <1>1, <2>1, <2>2, <2>3, SectionRemoved
  <2>5. Matches(x, s)
    BY <2>2, <2>3
  <2>6. Values(u) = Table(t, s, Name, <<>>)
    BY ONLY <1>2, <2>4, <2>5, TableOfSection
  <2> QED BY <1>4, <2>1, <2>3, <2>4, <2>6 DEF Sets, ReturnTree
<1> QED BY <1>3, <1>4 DEF DeleteSection, ReturnTree

\* Queries change nothing.
LEMMA AskedInv == ASSUME ProfileInv, pc = "open", Asked PROVE ProfileInv'
<1>1. pc \notin Closing
  BY DEF Closing
<1> QED BY <1>1, SameInv DEF Asked, LeftAlone, diskVars, fileVars, initVars, streamVars, history

-----------------------------------------------------------------------------
(* Closing. *)

\* The handle is gone; no line that has not reached the disk is of its stream.
LEMMA FreeInv ==
  ASSUME ProfileInv, Free, UNCHANGED <<mode, backup, lost, opens, changes>>,
         buffered' \in Seq(Line), leaked' \in Seq(Line), overtaken' \in BOOLEAN,
         file' \in {Absent, Garbled} \cup Seq(Line),
         Readable(file') => PlainFile(file', mode.slash), stored' = InFile(file'),
         leaked' # <<>> /\ ~overtaken' => file' \in Seq(Line) /\ PlainFile(file' \o leaked', mode.slash)
  PROVE  ProfileInv'
<1>1. /\ pc' = "none" /\ ulOpenMode' = "INMEMORY" /\ pfile' = FALSE /\ fModified' = FALSE
      /\ psectionFirst' = <<>> /\ opened' = <<>>
  BY DEF Free
<1>2. <<>> \in PlainTree(mode.slash)
  BY EmptyTree
<1>3. ProfileType'
  BY <1>1, <1>2 DEF ProfileInv, ProfileType, OpenMode
<1>4. FileInv'
  BY DEF FileInv, InFile
<1>5. HandleInv' /\ FlagInv'
  BY <1>1 DEF HandleInv, FlagInv, Closing
<1>6. StreamInv'
  BY <1>1 DEF StreamInv
<1> QED BY <1>3, <1>4, <1>5, <1>6 DEF ProfileInv

\* A call ends, and the handle is still there.
LEMMA StayInv ==
  ASSUME ProfileInv, pc' = "open", pc # "none", UNCHANGED pfile \/ ~pfile',
         pfile' \in BOOLEAN,
         UNCHANGED <<mode, diskVars, ulOpenMode, fModified, psectionFirst, streamVars, opens, changes,
             opened>>
  PROVE  ProfileInv'
<1>1. UNCHANGED <<mode, file, stored, backup, ulOpenMode, fModified, psectionFirst,
                  buffered, leaked, overtaken, lost, opens, changes, opened>>
  BY DEF diskVars, fileVars, streamVars
<1>2. pfile' \in BOOLEAN /\ (pfile' => pfile)
  OBVIOUS
<1>3. ProfileType'
  BY <1>1, <1>2 DEF ProfileInv, ProfileType
<1>4. FileInv' /\ FlagInv'
  BY <1>1 DEF ProfileInv, FileInv, FlagInv, InFile
<1>5. HandleInv'
  BY <1>1, <1>2 DEF ProfileInv, HandleInv, Closing
<1>6. StreamInv'
  BY <1>1 DEF ProfileInv, StreamInv
<1> QED BY <1>3, <1>4, <1>5, <1>6 DEF ProfileInv

\* The lines that will be written are those of a plain file, and so is each first
\* part of them.
LEMMA WrittenLines ==
  ASSUME ProfileInv
  PROVE  /\ Written(psectionFirst, mode.discard) \in Seq(Line)
         /\ \A f : PartOf(f, Written(psectionFirst, mode.discard)) => PlainFile(f, mode.slash)
<1>1. mode.slash \in BOOLEAN /\ mode.discard \in BOOLEAN /\ psectionFirst \in PlainTree(mode.slash)
  BY ModeIs DEF ProfileInv, ProfileType
<1>2. /\ Written(psectionFirst, mode.discard) \in Seq(Line)
      /\ \A n \in 0 .. Len(Written(psectionFirst, mode.discard)) :
           PlainFile(SubSeq(Written(psectionFirst, mode.discard), 1, n), mode.slash)
  BY <1>1, WrittenIsRead
<1> QED BY <1>2 DEF PartOf

\* The file is emptied, and its lines will be written.
LEMMA RewriteInv ==
  ASSUME ProfileInv, Rewrite, pc' \in {"update", "updateOriginal"},
         ulOpenMode = "READWRITE", fModified, ret'.call = "none",
         UNCHANGED <<mode, backup, initVars, leaked, lost, opens, changes, opened>>
  PROVE  ProfileInv'
<1>1. /\ file' = <<>> /\ stored' = InFile(<<>>) /\ buffered' = Written(psectionFirst, mode.discard)
      /\ overtaken' = (overtaken \/ leaked # <<>>)
      /\ UNCHANGED <<mode, backup, ulOpenMode, pfile, fModified, psectionFirst, leaked, lost,
                     opens, changes, opened>>
  BY DEF Rewrite, FileBecomes, initVars
<1>2. Written(psectionFirst, mode.discard) \in Seq(Line)
  BY WrittenLines
<1>3. PICK W : W = Written(psectionFirst, mode.discard)
  OBVIOUS
<1>4. ProfileType'
  <2>1. overtaken' \in BOOLEAN /\ <<>> \in Seq(Line)
    BY <1>1 DEF ProfileInv, ProfileType
  <2> QED BY <1>1, <1>2, <2>1 DEF ProfileInv, ProfileType, Closing
<1>5. FileInv'
  BY <1>1, EmptyTree DEF FileInv, InFile
<1>6. HandleInv' /\ FlagInv'
  <2>1. <<>> \in Seq(Line)
    OBVIOUS
  <2> QED BY <1>1, <2>1 DEF ProfileInv, HandleInv, FlagInv, Closing
<1>7. StreamInv'
  <2>1. <<>> \o W = W /\ W = SubSeq(W, 1, Len(W)) /\ Len(W) \in 0 .. Len(W)
    BY <1>2, <1>3
  <2>2. PartOf(W, W)
    BY <2>1 DEF PartOf
  <2>3. file' \o buffered' = W /\ Written(psectionFirst, mode.discard)' = W
    BY <1>1, <1>3, <2>1
  <2>4. leaked' = <<>> \/ overtaken'
    BY <1>1
  <2> QED BY <2>2, <2>3, <2>4 DEF StreamInv
<1> QED BY <1>4, <1>5, <1>6, <1>7 DEF ProfileInv

\* A line is written to the disk, or the disk is full.
LEMMA FlushInv == ASSUME ProfileInv, Flush PROVE ProfileInv'
<1>1. /\ UNCHANGED <<mode, pc, ulOpenMode, pfile, fModified, psectionFirst, leaked, overtaken, ret,
                     opens, changes, opened>>
      /\ pc \in {"update", "updateOriginal", "updateBackup"} /\ buffered # <<>>
  BY DEF Flush, initVars, history
<1>2. PICK W, b : W = Written(psectionFirst, mode.discard) /\ b = buffered
  OBVIOUS
<1>3. /\ W \in Seq(Line) /\ b \in Seq(Line) /\ b # <<>>
      /\ \A f : PartOf(f, W) => PlainFile(f, mode.slash)
  BY <1>1, <1>2, WrittenLines DEF ProfileInv, ProfileType
<1>4. Written(psectionFirst, mode.discard)' = W
  BY <1>1, <1>2
<1>5. Tail(b) \in Seq(Line) /\ Head(b) \in Line /\ <<>> \in Seq(Line)
  BY <1>3
<1>6. FlagInv'
  BY <1>1 DEF ProfileInv, FlagInv
<1>7. file \in Seq(Line)
  BY <1>1 DEF ProfileInv, HandleInv, Closing
<1>8. PICK f : f = file
  OBVIOUS
<1>9. f \in Seq(Line)
  BY <1>7, <1>8
<1>10. CASE pc = "updateBackup"
  <2>1. /\ UNCHANGED <<file, stored>>
        /\ buffered' \in Seq(Line) /\ lost' \in BOOLEAN /\ backup' \in Seq(Line)
    <3>1. backup \in Seq(Line)
      BY <1>10 DEF ProfileInv, HandleInv
    <3>2. Append(backup, Head(b)) \in Seq(Line)
      BY <1>5, <3>1
    <3> QED BY <1>2, <1>5, <1>10, <3>1, <3>2 DEF Flush, ProfileInv, ProfileType, diskVars, fileVars
  <2>2. ProfileType' /\ FileInv'
    BY <1>1, <2>1 DEF ProfileInv, ProfileType, FileInv, InFile
  <2>3. HandleInv' /\ StreamInv'
    BY <1>1, <1>10, <2>1 DEF ProfileInv, HandleInv, StreamInv, Closing
  <2> QED BY <1>6, <2>2, <2>3 DEF ProfileInv
<1>11. CASE pc # "updateBackup"
  <2>1. /\ PartOf(f \o b, W)
        /\ ~lost => f \o b = W
        /\ leaked = <<>> \/ overtaken
    BY <1>1, <1>2, <1>8, <1>11 DEF ProfileInv, StreamInv
  <2>2. PartOf(f, W)
    BY ONLY <1>3, <1>9, <2>1, FirstIsPart
  <2>3. CASE buffered' = <<>> /\ lost' = TRUE /\ UNCHANGED <<file, stored, backup>>
    <3>1. ProfileType' /\ FileInv'
      BY <1>1, <1>5, <2>3 DEF ProfileInv, ProfileType, FileInv, InFile
    <3>2. HandleInv'
      BY <1>1, <2>3 DEF ProfileInv, HandleInv
    <3>3. file' \o buffered' = f
      BY <1>8, <1>9, <2>3
    <3>4. StreamInv'
      BY <1>1, <1>4, <2>1, <2>2, <2>3, <3>3 DEF StreamInv
    <3> QED BY <1>6, <3>1, <3>2, <3>4 DEF ProfileInv
  <2>4. CASE /\ buffered' = Tail(b) /\ UNCHANGED <<lost, backup>>
             /\ FileBecomes(Append(f, Head(b)))
    <3>1. PICK g, c : g = Append(f, Head(b)) /\ c = Tail(b)
      OBVIOUS
    <3>2. g \in Seq(Line) /\ c \in Seq(Line) /\ g \o c = f \o b
      BY <1>3, <1>9, <3>1, FlushMoves
    <3>3. PartOf(g \o c, W)
      BY <2>1, <3>2
    <3>4. PartOf(g, W)
      BY ONLY <1>3, <3>2, <3>3, FirstIsPart
    <3>5. file' = g /\ buffered' = c /\ stored' = InFile(g)
      BY <2>4, <3>1 DEF FileBecomes
    <3>6. ProfileType'
      BY <1>1, <2>4, <3>2, <3>5 DEF ProfileInv, ProfileType
    <3>7. FileInv'
      BY <1>1, <1>3, <3>4, <3>5 DEF FileInv, InFile
    <3>8. HandleInv'
      BY <1>1, <1>11, <3>2, <3>5 DEF ProfileInv, HandleInv
    <3>9. file' \o buffered' = f \o b
      BY <3>2, <3>5
    <3>10. StreamInv'
      BY <1>1, <1>4, <2>1, <2>4, <3>9 DEF StreamInv
    <3> QED BY <1>6, <3>6, <3>7, <3>8, <3>10 DEF ProfileInv
  <2> QED BY <1>2, <1>8, <1>11, <2>3, <2>4 DEF Flush, diskVars, fileVars
<1> QED BY <1>10, <1>11

\* What is left open, and what WtkCloseInitProfile* was called for.
LEMMA ClosingInv ==
  ASSUME ProfileInv,
         \/ \E b \in BOOLEAN : CloseOnly(b)
         \/ UpdateBegin \/ UpdateEnd
         \/ \E b, n \in BOOLEAN : BackupRefused(b, n) \/ BackupOnly(b, n) \/ BackupBegin(b, n)
         \/ CopyPart \/ CopyEnd \/ CopyFails \/ CreateFile \/ CreateFails \/ BackupEnd
         \/ Exit \/ Crash
  PROVE  ProfileInv'
<1>1. /\ ProfileType /\ FileInv /\ HandleInv /\ StreamInv /\ FlagInv
      /\ mode \in Modes /\ mode.slash \in BOOLEAN /\ mode.discard \in BOOLEAN
      /\ Absent # Garbled /\ Absent \notin Seq(Line) /\ Garbled \notin Seq(Line)
  BY ModeIs DEF ProfileInv, ProfileType
<1>2. /\ buffered \in Seq(Line) /\ leaked \in Seq(Line) /\ overtaken \in BOOLEAN
      /\ file \in {Absent, Garbled} \cup Seq(Line)
      /\ Readable(file) => PlainFile(file, mode.slash)
      /\ stored = InFile(file)
      /\ leaked # <<>> /\ ~overtaken => file \in Seq(Line) /\ PlainFile(file \o leaked, mode.slash)
  BY <1>1 DEF ProfileType, FileInv, StreamInv
<1>3. ASSUME Free, UNCHANGED <<mode, diskVars, streamVars, opens, changes>> PROVE ProfileInv'
  <2>1. UNCHANGED <<mode, file, stored, backup, buffered, leaked, overtaken, lost, opens, changes>>
    BY <1>3 DEF diskVars, fileVars, streamVars
  <2> QED BY <1>2, <1>3, <2>1, FreeInv
<1>4. CASE (\E b \in BOOLEAN : CloseOnly(b)) \/ UpdateEnd \/ \E b, n \in BOOLEAN : BackupOnly(b, n)
  BY <1>3, <1>4 DEF CloseOnly, UpdateEnd, BackupOnly
<1>5. CASE UpdateBegin
  <2>1. ulOpenMode = "READWRITE" /\ fModified
    BY <1>5 DEF UpdateBegin, NeedsNoUpdate
  <2>2. Rewrite /\ pc' = "update" /\ ret'.call = "none"
    BY <1>5 DEF UpdateBegin, Return
  <2>3. UNCHANGED <<mode, backup, initVars, leaked, lost, opens, changes, opened>>
    BY <1>5 DEF UpdateBegin, history
  <2> QED BY <2>1, <2>2, <2>3, RewriteInv
<1>6. ASSUME NEW rc, StayOpen(rc), pc # "none", UNCHANGED pfile \/ pfile' = FALSE PROVE ProfileInv'
  <2>1. pfile' \in BOOLEAN /\ (UNCHANGED pfile \/ ~pfile')
    BY <1>1, <1>6 DEF ProfileType
  <2>2. /\ pc' = "open"
        /\ UNCHANGED <<mode, diskVars, ulOpenMode, fModified, psectionFirst, streamVars, opens, changes,
               opened>>
    BY <1>6 DEF StayOpen, history
  <2> QED BY <1>6, <2>1, <2>2, StayInv
<1>7. CASE \E b, n \in BOOLEAN : BackupRefused(b, n)
  BY <1>6, <1>7 DEF BackupRefused
<1>8. CASE CopyFails \/ CreateFails
  BY <1>6, <1>8 DEF CopyFails, CreateFails
<1>9. CASE \E b, n \in BOOLEAN : BackupBegin(b, n)
  <2>1. pc = "open" /\ pfile /\ ulOpenMode = "READWRITE" /\ fModified /\ pfile' = FALSE
    BY <1>9 DEF BackupBegin, NeedsNoUpdate
  <2>2. CASE StayOpen("ERROR_COPY")
    BY <1>6, <2>1, <2>2
  <2>3. CASE /\ pc' \in {"copy", "createBackup"} /\ Return("none", "NO_ERROR")
             /\ UNCHANGED <<mode, diskVars, ulOpenMode, fModified, psectionFirst, streamVars,
                            opens, changes, opened>>
    <3>1. UNCHANGED <<mode, file, stored, backup, ulOpenMode, fModified, psectionFirst,
                      buffered, leaked, overtaken, lost, opens, changes, opened>>
      BY <2>3 DEF diskVars, fileVars, streamVars
    <3>2. FileInv' /\ FlagInv'
      BY <1>1, <3>1 DEF FileInv, FlagInv, InFile
    <3>3. pc' \in {"none", "open"} \cup Closing /\ pfile' \in BOOLEAN
      BY <2>1, <2>3 DEF Closing
    <3>4. ProfileType'
      BY <1>1, <3>1, <3>3 DEF ProfileType
    <3>5. HandleInv' /\ StreamInv'
      BY <1>1, <2>1, <2>3, <3>1 DEF HandleInv, StreamInv, Closing, Return
    <3> QED BY <3>2, <3>4, <3>5 DEF ProfileInv
  <2> QED BY <1>9, <2>2, <2>3 DEF BackupBegin
<1>10. CASE CopyPart \/ CopyEnd
  <2>1. /\ pc = "copy" /\ pc' \in {"copy", "createOriginal"}
        /\ UNCHANGED <<mode, file, stored, ulOpenMode, pfile, fModified, psectionFirst,
                       buffered, leaked, overtaken, lost, ret, opens, changes, opened>>
    BY <1>10 DEF CopyPart, CopyEnd, fileVars, initVars, streamVars, history
  <2>2. file \in Seq(Line)
    BY <1>1, <2>1 DEF HandleInv, Closing
  <2>3. backup' \in Seq(Line)
    <3>1. ASSUME NEW n \in 0 .. Len(file) PROVE SubSeq(file, 1, n) \in Seq(Line)
      BY <2>2
    <3> QED BY <1>10, <2>2, <3>1 DEF CopyPart, CopyEnd
  <2>4. ProfileType'
    BY <1>1, <2>1, <2>3 DEF ProfileType, Closing
  <2>5. FileInv' /\ FlagInv'
    BY <1>1, <2>1 DEF FileInv, FlagInv, InFile
  <2>6. HandleInv' /\ StreamInv'
    BY <1>1, <2>1, <2>2 DEF HandleInv, StreamInv, Closing
  <2> QED BY <2>4, <2>5, <2>6 DEF ProfileInv
<1>11. CASE CreateFile
  <2>1. /\ UNCHANGED <<mode, ulOpenMode, pfile, fModified, psectionFirst, leaked, lost, ret, opens,
               changes, opened>>
    BY <1>11 DEF CreateFile, initVars, history
  <2>2. CASE pc = "createOriginal" /\ pc' = "updateOriginal" /\ Rewrite /\ UNCHANGED backup
    <3>1. ulOpenMode = "READWRITE" /\ fModified /\ ret'.call = "none"
      BY <1>1, <2>1, <2>2 DEF HandleInv, Closing
    <3> QED BY <2>1, <2>2, <3>1, RewriteInv DEF initVars
  <2>3. CASE /\ pc = "createBackup" /\ pc' = "updateBackup"
             /\ backup' = <<>> /\ buffered' = Written(psectionFirst, mode.discard)
             /\ UNCHANGED <<fileVars, overtaken>>
    <3>1. buffered' \in Seq(Line) /\ backup' \in Seq(Line)
      <4>1. <<>> \in Seq(Line)
        OBVIOUS
      <4> QED BY <2>3, <4>1, WrittenLines
    <3>2. ProfileType'
      BY <1>1, <2>1, <2>3, <3>1 DEF ProfileType, Closing, fileVars
    <3>3. FileInv' /\ FlagInv'
      BY <1>1, <2>1, <2>3 DEF FileInv, FlagInv, InFile, fileVars
    <3>4. HandleInv' /\ StreamInv'
      BY <1>1, <2>1, <2>3, <3>1 DEF HandleInv, StreamInv, Closing, fileVars
    <3> QED BY <3>2, <3>3, <3>4 DEF ProfileInv
  <2> QED BY <1>11, <2>2, <2>3 DEF CreateFile
<1>12. CASE BackupEnd
  <2>1. Free /\ UNCHANGED <<mode, file, stored, backup, overtaken, lost, opens, changes>>
    BY <1>12 DEF BackupEnd, diskVars, fileVars
  <2>2. CASE UNCHANGED <<buffered, leaked>>
    BY <1>2, <2>1, <2>2, FreeInv
  <2>3. CASE pc = "updateOriginal" /\ buffered' = <<>> /\ leaked' = buffered
    <3>1. file \in Seq(Line)
      BY <1>1, <2>3 DEF HandleInv, Closing
    <3>2. PlainFile(file \o buffered, mode.slash)
      BY <1>1, <2>3, WrittenLines DEF StreamInv
    <3>3. <<>> \in Seq(Line)
      OBVIOUS
    <3>4. /\ file' \in Seq(Line) /\ PlainFile(file' \o leaked', mode.slash)
          /\ buffered' \in Seq(Line) /\ leaked' \in Seq(Line)
      BY <1>2, <2>1, <2>3, <3>1, <3>2, <3>3
    <3>5. /\ overtaken' \in BOOLEAN /\ file' \in {Absent, Garbled} \cup Seq(Line)
          /\ Readable(file') => PlainFile(file', mode.slash)
          /\ stored' = InFile(file')
      BY <1>2, <2>1
    <3> QED BY <2>1, <3>4, <3>5, FreeInv
  <2> QED BY <1>12, <2>2, <2>3 DEF BackupEnd
<1>13. CASE Exit
  <2>1. /\ Free /\ buffered' = <<>> /\ leaked' = <<>> /\ overtaken' = FALSE
        /\ UNCHANGED <<mode, backup, lost, opens, changes>>
    BY <1>13 DEF Exit, Gone
  <2>2. PICK f : f = IF leaked = <<>> THEN file ELSE IF overtaken THEN Garbled ELSE file \o leaked
    OBVIOUS
  <2>3. f \in {Absent, Garbled} \cup Seq(Line) /\ (Readable(f) => PlainFile(f, mode.slash))
    <3>1. file \in Seq(Line) => file \o leaked \in Seq(Line)
      BY <1>2
    <3> QED BY <1>2, <2>2, <3>1 DEF Readable
  <2>4. file' = f /\ stored' = InFile(f)
    BY <1>13, <2>2 DEF Exit, FileBecomes
  <2>5. <<>> \in Seq(Line)
    OBVIOUS
  <2> QED BY <2>1, <2>3, <2>4, <2>5, FreeInv
<1>14. CASE Crash
  <2>1. /\ Free /\ buffered' = <<>> /\ leaked' = <<>> /\ overtaken' = FALSE
        /\ UNCHANGED <<mode, file, stored, backup, lost, opens, changes>>
    BY <1>14 DEF Crash, Gone, fileVars
  <2>2. <<>> \in Seq(Line)
    OBVIOUS
  <2> QED BY <1>2, <2>1, <2>2, FreeInv
<1> QED BY <1>4, <1>5, <1>7, <1>8, <1>9, <1>10, <1>11, <1>12, <1>13, <1>14

-----------------------------------------------------------------------------
(* The tree is kept. *)

\* No step breaks the invariant.
LEMMA StepInv == ASSUME ProfileInv, [Next]_vars PROVE ProfileInv'
<1>1. CASE OpenInMemory \/ \E m \in OpenMode : OpenFile(m)
  <2>1. "INMEMORY" \in OpenMode
    BY DEF OpenMode
  <2> QED BY <1>1, <2>1, OpenInv
<1>2. CASE \E m \in OpenMode : OpenFails(m)
  BY <1>2, OpenFailsInv
<1>3. CASE WtkWriteInitProfileString
  <2>1. PICK s \in AppSection :
          \/ \E k \in AppKey, v \in AppValue : WriteValue(s, k, v) \/ CreateKey(s, k, v)
          \/ \E k \in AppKey : DeleteKey(s, k)
          \/ DeleteSection(s)
    BY <1>3 DEF WtkWriteInitProfileString
  <2>2. s \in Name
    BY ModeIs DEF ProfileInv, ProfileType
  <2>3. CASE Fails
    BY <2>3, FailsInv
  <2>4. ASSUME NEW K, NEW v, NEW changed \in BOOLEAN, Sets(s, K, v, changed) PROVE ProfileInv'
    BY <2>2, <2>4, SetsInv
  <2>5. ASSUME NEW k \in AppKey, NEW v \in AppValue, WriteValue(s, k, v) PROVE ProfileInv'
    BY <2>3, <2>4, <2>5, WriteValueIs
  <2>6. ASSUME NEW k \in AppKey, NEW v \in AppValue, CreateKey(s, k, v) PROVE ProfileInv'
    BY <2>3, <2>4, <2>6, CreateKeyIs
  <2>7. ASSUME NEW k \in AppKey, DeleteKey(s, k) PROVE ProfileInv'
    BY <2>3, <2>4, <2>7, DeleteKeyIs
  <2>8. ASSUME DeleteSection(s) PROVE ProfileInv'
    BY <2>3, <2>4, <2>8, DeleteSectionIs
  <2> QED BY <2>1, <2>5, <2>6, <2>7, <2>8
<1>4. CASE WtkQueryInitProfile
  <2>1. pc = "open" /\ Asked
    BY <1>4 DEF WtkQueryInitProfile, QueryString, QuerySize, QueryNames
  <2> QED BY <2>1, AskedInv
<1>5. CASE Flush
  BY <1>5, FlushInv
<1>6. CASE \/ \E b \in BOOLEAN : CloseOnly(b)
           \/ UpdateBegin \/ UpdateEnd
           \/ \E b, n \in BOOLEAN : BackupRefused(b, n) \/ BackupOnly(b, n) \/ BackupBegin(b, n)
           \/ CopyPart \/ CopyEnd \/ CopyFails \/ CreateFile \/ CreateFails \/ BackupEnd
           \/ Exit \/ Crash
  BY <1>6, ClosingInv
<1>7. CASE UNCHANGED vars
  <2>1. LeftAlone /\ ret' = ret
    BY <1>7 DEF vars, LeftAlone, diskVars, fileVars, initVars, streamVars, history
  <2> QED BY <2>1, SameInv
<1> QED BY <1>1, <1>2, <1>3, <1>4, <1>5, <1>6, <1>7 DEF Next

\* The invariant always holds.
LEMMA ProfileAlways == Spec => []ProfileInv
<1>1. Init => ProfileInv
  BY InitInv
<1>2. ProfileInv /\ [Next]_vars => ProfileInv'
  BY StepInv
<1> QED BY <1>1, <1>2, PTL DEF Spec

\* For every file whose names are unique and whose quoted values are closed, every
\* mode and choice of failing calls: no two entries have the same name for stricmp, a
\* close that does not write loses no value, and what the code writes for the tree it
\* reads again, each section and key with its value, note and comments.
THEOREM TreeAlwaysKept == Spec => []TreeIsKept
BY ProfileAlways, InvImplies, PTL

-----------------------------------------------------------------------------
(* The promise is kept. *)

\* The empty tree has an empty table.
LEMMA NothingRead == Values(<<>>) = Promise!Nothing
<1>1. ASSUME NEW s, NEW k PROVE ValueOf(<<>>, s, k) = <<>>
  <2>1. <<>> \in PlainTree(TRUE)
    BY EmptyTree
  <2>2. \A i \in DOMAIN <<>> : ~Matches(<<>>[i], s)
    OBVIOUS
  <2> QED BY <2>1, <2>2, ValueIs
<1> QED BY <1>1 DEF Values, Promise!Nothing

\* A step did what its call returned, except for an update.
LEMMA DidIs == ASSUME ret'.call # "update" PROVE Did' = ret'
BY DEF Did

\* The tables before and after a step.
LEMMA TablesAre == Values(psectionFirst)' = Values(psectionFirst')
BY DEF Values

\* The initial states are those of the promise.
LEMMA StartsAsPromised == Init => Promise!Init
<1> SUFFICES ASSUME Init PROVE Promise!Init
  OBVIOUS
<1>1. Values(psectionFirst) = Promise!Nothing
  BY NothingRead DEF Init
<1>2. stored \in [Name \X Name -> {stored[x] : x \in Name \X Name}]
  <2>1. PICK t : stored = Values(t)
    BY DEF Init, InFile
  <2>2. stored = [x \in Name \X Name |-> ValueOf(t, x[1], x[2])]
    BY <2>1 DEF Values
  <2> QED BY <2>2
<1>3. Did = ret
  BY DEF Init, Did
<1> QED BY <1>1, <1>2, <1>3 DEF Init, Promise!Init, Closing

\* A profile is opened with the values of its file (WtkOpenInitProfile).
LEMMA OpensAsPromised ==
  ASSUME ProfileInv, NEW m \in OpenMode, OpenInMemory \/ OpenFile(m)
  PROVE  Promise!OpenProfile
<1>1. /\ pc = "none" /\ pc' = "open" /\ fModified' = FALSE /\ ret' = [call |-> "open", rc |-> "NO_ERROR"]
      /\ file # Garbled
  BY DEF OpenInMemory, OpenFile, OpenBegins, OpenHandle, Return
<1>2. Did' = ret' /\ ret'.call = "open" /\ ret'.rc = "NO_ERROR"
  BY <1>1, DidIs
<1>3. Values(psectionFirst) = Promise!Nothing
  BY <1>1, NothingRead DEF ProfileInv, HandleInv
<1>4. pc \notin Closing /\ pc' \notin Closing
  BY <1>1 DEF Closing
<1>5. CASE OpenInMemory
  <2>1. psectionFirst' = <<>> /\ ulOpenMode' = "INMEMORY" /\ stored' = stored
    BY <1>5 DEF OpenInMemory, OpenHandle, fileVars
  <2>2. Values(psectionFirst)' = Promise!Nothing
    BY <2>1, NothingRead, TablesAre
  <2> QED BY <1>1, <1>2, <1>3, <1>4, <2>1, <2>2 DEF Promise!OpenProfile
<1>6. CASE OpenFile(m)
  <2>1. /\ Opened(m) # Absent /\ stored' = InFile(Opened(m))
        /\ psectionFirst' = Parse(Opened(m), mode.slash).sections
    BY <1>6 DEF OpenFile, OpenHandle, FileBecomes
  <2>2. stored' = stored /\ Values(Parse(Opened(m), mode.slash).sections) = stored
    BY <1>1, <2>1, OpenedIs
  <2>3. Values(psectionFirst)' = stored
    BY <2>1, <2>2, TablesAre
  <2> QED BY <1>1, <1>2, <1>3, <1>4, <2>2, <2>3 DEF Promise!OpenProfile
<1> QED BY <1>5, <1>6

\* Opening fails and changes no value: a file that it may leave behind is empty.
LEMMA OpenFailsAsPromised ==
  ASSUME ProfileInv, NEW m \in OpenMode, OpenFails(m)
  PROVE  Promise!Ask
<1>1. pc = "none" /\ file # Garbled /\ UNCHANGED <<pc, ulOpenMode, fModified, psectionFirst>>
  BY DEF OpenFails, OpenBegins, initVars
<1>2. ret'.call = "open"
  BY DEF OpenFails, Return
<1>3. Did' = ret'
  BY <1>2, DidIs
<1>4. stored' = stored
  <2>1. InFile(Opened(m)) = stored /\ InFile(file) = stored
    BY <1>1, OpenedIs DEF ProfileInv, FileInv
  <2> QED BY <2>1 DEF OpenFails, FileBecomes, fileVars
<1>5. Values(psectionFirst)' = Values(psectionFirst)
  BY <1>1, TablesAre
<1> QED BY <1>1, <1>2, <1>3, <1>4, <1>5 DEF Promise!Ask, Closing

\* What no call of WtkWriteInitProfileString touches.
LEMMA LeavesAlone ==
  ASSUME NEW t, NEW rc, NEW changed, LeaveTree(t, rc, changed)
  PROVE  /\ UNCHANGED <<stored, ulOpenMode, pc>> /\ Values(psectionFirst)' = Values(t)
         /\ fModified' = (fModified \/ (rc = "NO_ERROR" /\ changed))
BY TablesAre DEF LeaveTree, diskVars, fileVars

\* A change that fails changes no value.
LEMMA FailsAsPromised == ASSUME ProfileInv, Fails PROVE Promise!ChangeFails
<1>1. PICK t, rc : /\ Values(t) = Values(psectionFirst)
                   /\ \/ rc # "NO_ERROR" /\ LeaveTree(t, rc, FALSE) /\ Return("write", rc)
                      \/ rc = "NO_ERROR" /\ LeaveTree(t, rc, TRUE) /\ Return("writeLost", rc)
  BY DEF Fails
<1>2. /\ UNCHANGED <<stored, ulOpenMode, pc>> /\ Values(psectionFirst)' = Values(psectionFirst)
  BY <1>1, LeavesAlone
<1>3. fModified \in BOOLEAN
  BY DEF ProfileInv, ProfileType
<1>4. CASE rc # "NO_ERROR" /\ LeaveTree(t, rc, FALSE) /\ Return("write", rc)
  <2>1. fModified' = fModified
    BY <1>3, <1>4, LeavesAlone
  <2>2. ret'.call = "write" /\ ret'.rc = rc
    BY <1>4 DEF Return
  <2>3. Did' = ret'
    BY <2>2, DidIs
  <2> QED BY <1>2, <1>4, <2>1, <2>2, <2>3 DEF Promise!ChangeFails
<1>5. CASE rc = "NO_ERROR" /\ LeaveTree(t, rc, TRUE) /\ Return("writeLost", rc)
  <2>1. fModified' = TRUE
    BY <1>3, <1>5, LeavesAlone
  <2>2. ret'.call = "writeLost"
    BY <1>5 DEF Return
  <2>3. Did' = ret'
    BY <2>2, DidIs
  <2> QED BY <1>2, <2>1, <2>2, <2>3 DEF Promise!ChangeFails
<1> QED BY <1>1, <1>4, <1>5

\* What a change does to the table.
LEMMA SetsAre ==
  ASSUME ProfileInv, NEW s \in Name, NEW K, NEW v, NEW changed \in BOOLEAN, Sets(s, K, v, changed)
  PROVE  /\ Did' = [call |-> "write", rc |-> "NO_ERROR"]
         /\ Values(psectionFirst)' = Table(psectionFirst, s, K, v)
         /\ fModified' = (fModified \/ changed)
         /\ UNCHANGED <<stored, ulOpenMode, pc>>
<1>1. PICK t \in PlainTree(mode.slash) :
        /\ LeaveTree(t, "NO_ERROR", changed) /\ Return("write", "NO_ERROR")
        /\ Values(t) = Table(psectionFirst, s, K, v)
  BY DEF Sets
<1>2. /\ UNCHANGED <<stored, ulOpenMode, pc>> /\ Values(psectionFirst)' = Values(t)
      /\ fModified' = (fModified \/ changed)
  BY <1>1, LeavesAlone
<1>3. ret' = [call |-> "write", rc |-> "NO_ERROR"] /\ ret'.call # "update"
  BY <1>1 DEF Return
<1> QED BY <1>1, <1>2, <1>3, DidIs

\* A value that is set is set in the table, and nowhere else.
LEMMA WritesAsPromised ==
  ASSUME ProfileInv, NEW s \in Name, NEW k \in Name, NEW v, NEW changed \in BOOLEAN,
         Sets(s, {k}, v, changed), changed <=> Values(psectionFirst)' # Values(psectionFirst)
  PROVE  Promise!Write(s, k, v)
<1>1. /\ Did' = [call |-> "write", rc |-> "NO_ERROR"]
      /\ Values(psectionFirst)' = Table(psectionFirst, s, {k}, v)
      /\ fModified' = (fModified \/ changed)
      /\ UNCHANGED <<stored, ulOpenMode, pc>>
  BY SetsAre
<1>2. Values(psectionFirst)' =
        [x \in Name \X Name |-> IF Promise!Same(x[1], s) /\ Promise!Same(x[2], k) THEN v
                                ELSE Values(psectionFirst)[x]]
  BY <1>1 DEF Table
<1>3. Promise!Sets({<<s, k>>}, v)
  <2>1. Values(psectionFirst)'[<<s, k>>] = v
    BY <1>2 DEF Promise!Same
  <2>2. ASSUME NEW x \in (Name \X Name) \ {<<s, k>>}
        PROVE  \/ Values(psectionFirst)'[x] = Values(psectionFirst)[x]
               \/ /\ Values(psectionFirst)'[x] = v
                  /\ \E y \in {<<s, k>>} : Promise!Same(x[1], y[1]) /\ Promise!Same(x[2], y[2])
    BY <1>2
  <2>3. DOMAIN (Values(psectionFirst)') = Name \X Name
    BY <1>2
  <2> QED BY <2>1, <2>2, <2>3 DEF Promise!Sets
<1>4. fModified' = (fModified \/ Values(psectionFirst)' # Values(psectionFirst))
  BY <1>1
<1> QED BY <1>1, <1>3, <1>4 DEF Promise!Write

\* What is deleted is deleted in the table, and nothing else.
LEMMA DeletesAsPromised ==
  ASSUME ProfileInv, NEW s \in Name, NEW K \in SUBSET Name, Sets(s, K, <<>>, TRUE)
  PROVE  Promise!Delete(s, K)
<1>1. /\ Did' = [call |-> "write", rc |-> "NO_ERROR"]
      /\ Values(psectionFirst)' = Table(psectionFirst, s, K, <<>>)
      /\ fModified' = (fModified \/ TRUE)
      /\ UNCHANGED <<stored, ulOpenMode, pc>>
  BY SetsAre
<1>2. Values(psectionFirst)' =
        [x \in Name \X Name |-> IF Promise!Same(x[1], s) /\ \E k \in K : Promise!Same(x[2], k) THEN <<>>
                                ELSE Values(psectionFirst)[x]]
  BY <1>1 DEF Table
<1>3. Promise!Sets({s} \X K, <<>>)
  <2>1. ASSUME NEW x \in {s} \X K PROVE Values(psectionFirst)'[x] = <<>>
    <3>1. x \in Name \X Name /\ x[1] = s /\ x[2] \in K
      OBVIOUS
    <3> QED BY <1>2, <3>1 DEF Promise!Same
  <2>2. ASSUME NEW x \in (Name \X Name) \ ({s} \X K)
        PROVE  \/ Values(psectionFirst)'[x] = Values(psectionFirst)[x]
               \/ /\ Values(psectionFirst)'[x] = <<>>
                  /\ \E y \in {s} \X K : Promise!Same(x[1], y[1]) /\ Promise!Same(x[2], y[2])
    <3>1. ASSUME Promise!Same(x[1], s), NEW k \in K, Promise!Same(x[2], k)
          PROVE  \E y \in {s} \X K : Promise!Same(x[1], y[1]) /\ Promise!Same(x[2], y[2])
      <4>1. <<s, k>> \in {s} \X K /\ <<s, k>>[1] = s /\ <<s, k>>[2] = k
        OBVIOUS
      <4> QED BY <3>1, <4>1
    <3> QED BY <1>2, <3>1
  <2>3. DOMAIN (Values(psectionFirst)') = Name \X Name
    BY <1>2
  <2> QED BY <2>1, <2>2, <2>3 DEF Promise!Sets
<1> QED BY <1>1, <1>3 DEF Promise!Delete

\* Every call of WtkWriteInitProfileString is one of these changes.
LEMMA ChangesAsPromised ==
  ASSUME ProfileInv, WtkWriteInitProfileString
  PROVE  Promise!Next
<1>1. PICK s \in AppSection :
        \/ \E k \in AppKey, v \in AppValue : WriteValue(s, k, v) \/ CreateKey(s, k, v)
        \/ \E k \in AppKey : DeleteKey(s, k)
        \/ DeleteSection(s)
  BY DEF WtkWriteInitProfileString
<1>2. s \in Name /\ AppKey \subseteq Name
  BY ModeIs DEF ProfileInv, ProfileType
<1>3. CASE Fails
  BY <1>3, FailsAsPromised DEF Promise!Next
<1>4. ASSUME NEW k \in AppKey, NEW v \in AppValue, WriteValue(s, k, v) PROVE Promise!Next
  <2>1. CASE \E changed \in BOOLEAN :
               Sets(s, {k}, v, changed) /\ (changed <=> Values(psectionFirst)' # Values(psectionFirst))
    <3>1. Promise!Write(s, k, v)
      BY <1>2, <2>1, WritesAsPromised
    <3> QED BY <1>2, <3>1 DEF Promise!Next
  <2> QED BY <1>3, <1>4, <2>1, WriteValueIs
<1>5. ASSUME NEW k \in AppKey, NEW v \in AppValue, CreateKey(s, k, v) PROVE Promise!Next
  <2>1. CASE Sets(s, {k}, v, TRUE) /\ Values(psectionFirst)' # Values(psectionFirst)
    <3>1. Promise!Write(s, k, v)
      BY <1>2, <2>1, WritesAsPromised
    <3> QED BY <1>2, <3>1 DEF Promise!Next
  <2> QED BY <1>3, <1>5, <2>1, CreateKeyIs
<1>6. ASSUME NEW k \in AppKey, DeleteKey(s, k) PROVE Promise!Next
  <2>1. CASE Sets(s, {k}, <<>>, TRUE)
    <3>1. Promise!Delete(s, {k})
      BY <1>2, <2>1, DeletesAsPromised
    <3> QED BY <1>2, <3>1 DEF Promise!Next
  <2> QED BY <1>3, <1>6, <2>1, DeleteKeyIs
<1>7. ASSUME DeleteSection(s) PROVE Promise!Next
  <2>1. CASE Sets(s, Name, <<>>, TRUE)
    <3>1. Promise!Delete(s, Name)
      BY <1>2, <2>1, DeletesAsPromised
    <3> QED BY <1>2, <3>1 DEF Promise!Next
  <2> QED BY <1>3, <1>7, <2>1, DeleteSectionIs
<1> QED BY <1>1, <1>4, <1>5, <1>6, <1>7

\* A query returns the value in the table (WtkQueryInitProfileString).
LEMMA AnswersAsPromised ==
  ASSUME ProfileInv, WtkQueryInitProfile
  PROVE  Promise!Query \/ Promise!Ask
<1>1. UNCHANGED <<stored, ulOpenMode, fModified, psectionFirst, pc>> /\ pc = "open"
  BY DEF WtkQueryInitProfile, QueryString, QuerySize, QueryNames, Asked, diskVars, fileVars, initVars
<1>2. Values(psectionFirst)' = Values(psectionFirst)
  BY <1>1, TablesAre
<1>3. pc \notin Closing
  BY <1>1 DEF Closing
<1>4. CASE \E s \in AppSection, k \in AppKey : QueryString(s, k)
  <2>1. PICK s \in AppSection, k \in AppKey : QueryString(s, k)
    BY <1>4
  <2>2. /\ ret'.call = "query" /\ ret'.section = s /\ ret'.key = k
        /\ ret'.value = ValueOf(psectionFirst, s, k)
    BY <2>1 DEF QueryString
  <2>3. s \in Name /\ k \in Name
    BY ModeIs DEF ProfileInv, ProfileType
  <2>4. Values(psectionFirst)[<<s, k>>] = ValueOf(psectionFirst, s, k)
    BY <2>3 DEF Values
  <2>5. Did' = ret'
    BY <2>2, DidIs
  <2> QED BY <1>1, <1>2, <2>2, <2>4, <2>5 DEF Promise!Query
<1>5. CASE ret'.call \in {"names", "size"}
  <2>1. Did' = ret'
    BY <1>5, DidIs
  <2> QED BY <1>1, <1>2, <1>3, <1>5, <2>1 DEF Promise!Ask
<1>6. ASSUME NEW s, NEW n, QuerySize(s) \/ QueryNames(s, n) PROVE ret'.call \in {"names", "size"}
  BY <1>6 DEF QuerySize, QueryNames, Return
<1> QED BY <1>4, <1>5, <1>6 DEF WtkQueryInitProfile

\* The handle is gone.
LEMMA FreeIs ==
  ASSUME Free
  PROVE  /\ Values(psectionFirst)' = Promise!Nothing
         /\ ulOpenMode' = "INMEMORY" /\ fModified' = FALSE /\ pc' \notin Closing
BY NothingRead, TablesAre DEF Free, Closing

\* A profile is closed, and nothing has to be written.
LEMMA LeavesAsPromised ==
  ASSUME ProfileInv,
         \/ \E b \in BOOLEAN : CloseOnly(b)
         \/ \E b, n \in BOOLEAN : BackupOnly(b, n)
  PROVE  Promise!Close
<1>1. Free /\ stored' = stored /\ ret'.call = "close"
  BY DEF CloseOnly, BackupOnly, Return, diskVars, fileVars
<1>2. Did' = ret'
  BY <1>1, DidIs
<1> QED BY <1>1, <1>2, FreeIs DEF Promise!Close

\* It takes a change and the right to write for a call to begin with the file.
LEMMA BeginsAsPromised ==
  ASSUME ProfileInv, UpdateBegin \/ \E b, n \in BOOLEAN : BackupBegin(b, n)
  PROVE  Promise!Begin \/ Promise!Ask
<1>1. pc = "open" /\ ulOpenMode = "READWRITE" /\ fModified
  BY DEF UpdateBegin, BackupBegin, NeedsNoUpdate
<1>2. UNCHANGED <<ulOpenMode, fModified, psectionFirst>>
  BY DEF UpdateBegin, BackupBegin, StayOpen, initVars
<1>3. Values(psectionFirst)' = Values(psectionFirst)
  BY <1>2, TablesAre
<1>4. CASE pc' \in Closing
  BY <1>1, <1>2, <1>3, <1>4 DEF Promise!Begin, Closing
<1>5. CASE StayOpen("ERROR_COPY")
  <2>1. ret'.call = "backup" /\ stored' = stored /\ pc' = "open"
    BY <1>5 DEF StayOpen, Return, diskVars, fileVars
  <2>2. Did' = ret'
    BY <2>1, DidIs
  <2> QED BY <1>1, <1>2, <1>3, <2>1, <2>2 DEF Promise!Ask, Closing
<1> QED BY <1>4, <1>5 DEF UpdateBegin, BackupBegin, Closing

\* A close that fails leaves the table as it was.
LEMMA StaysAsPromised ==
  ASSUME ProfileInv, CopyFails \/ CreateFails \/ \E b, n \in BOOLEAN : BackupRefused(b, n)
  PROVE  Promise!Ask
<1>1. /\ UNCHANGED <<stored, ulOpenMode, fModified, psectionFirst>>
      /\ pc' = "open" /\ ret'.call = "backup"
  BY DEF CopyFails, CreateFails, BackupRefused, StayOpen, Return, diskVars, fileVars
<1>2. Values(psectionFirst)' = Values(psectionFirst)
  BY <1>1, TablesAre
<1>3. Did' = ret'
  BY <1>1, DidIs
<1> QED BY <1>1, <1>2, <1>3 DEF Promise!Ask, Closing

\* While the file is written nothing else happens.
LEMMA StoresAsPromised ==
  ASSUME ProfileInv, Flush \/ CopyPart \/ CopyEnd \/ CreateFile
  PROVE  Promise!Storing
<1>1. pc \in Closing /\ pc' \in Closing /\ UNCHANGED <<ulOpenMode, fModified, psectionFirst, ret>>
  BY DEF Flush, CopyPart, CopyEnd, CreateFile, initVars, Closing
<1>2. Values(psectionFirst)' = Values(psectionFirst)
  BY <1>1, TablesAre
<1>3. ret.call = "none"
  BY <1>1 DEF ProfileInv, HandleInv
<1>4. Did' = Did
  BY <1>1, <1>3 DEF Did
<1> QED BY <1>1, <1>2, <1>4 DEF Promise!Storing

\* When the file has been written, all values are in it, unless a write has failed.
LEMMA UpdatesAsPromised ==
  ASSUME ProfileInv, UpdateEnd
  PROVE  Promise!Update \/ Promise!UpdateInPart
<1>1. /\ Free /\ pc = "update" /\ buffered = <<>> /\ UNCHANGED <<file, stored, lost>>
      /\ ret' = [call |-> "update", rc |-> "NO_ERROR"]
  BY DEF UpdateEnd, Return, diskVars, fileVars, streamVars
<1>2. pc \in Closing
  BY <1>1 DEF Closing
<1>3. CASE lost
  <2>1. Did'.call = "updateInPart"
    <3>1. Did' = [ret' EXCEPT !.call = "updateInPart"]
      BY <1>1, <1>3 DEF Did
    <3> QED BY <1>1, <3>1
  <2> QED BY <1>1, <1>2, <2>1, FreeIs DEF Promise!UpdateInPart
<1>4. CASE ~lost
  <2>1. Did' = ret'
    BY <1>1, <1>4 DEF Did
  <2>2. PICK slash \in BOOLEAN, discard \in BOOLEAN, t \in PlainTree(mode.slash), f \in Seq(Line) :
          slash = mode.slash /\ discard = mode.discard /\ t = psectionFirst /\ f = file
    BY <1>2, ModeIs DEF ProfileInv, ProfileType, HandleInv
  <2>3. t \in PlainTree(slash) /\ f \in Seq(Line)
    BY <1>2, <2>2 DEF ProfileInv, ProfileType, HandleInv
  <2>4. file \o buffered = Written(psectionFirst, mode.discard)
    BY <1>1, <1>4 DEF ProfileInv, StreamInv
  <2>5. f = Written(t, discard)
    <3>1. f \o <<>> = f
      BY <2>3
    <3> QED BY <1>1, <2>2, <2>4, <3>1
  <2>6. Parse(f, slash).sections = TreeRead(t, discard)
    BY <2>3, <2>5, WrittenIsRead
  <2>7. Values(TreeRead(t, discard)) = Values(t)
    BY <2>3, TreeReadIsTree, SameValues
  <2>8. Readable(f)
    BY <2>3, ModeIs DEF Readable, ProfileInv, ProfileType
  <2>9. stored = Values(psectionFirst)
    BY <2>2, <2>6, <2>7, <2>8, InFileIs DEF ProfileInv, FileInv
  <2> QED BY <1>1, <1>2, <2>1, <2>9, FreeIs DEF Promise!Update
<1> QED BY <1>3, <1>4

\* WtkCloseInitProfileBackup has written the backup, or what it writes of the file.
LEMMA BackupsAsPromised ==
  ASSUME ProfileInv, BackupEnd
  PROVE  Promise!Close \/ Promise!UpdateInPart
<1>1. /\ Free /\ stored' = stored /\ pc \in Closing
      /\ ret'.call \in {"updateBackup", "updateOriginal"}
  BY DEF BackupEnd, Return, diskVars, fileVars, Closing
<1>2. Did' = ret'
  BY <1>1, DidIs
<1> QED BY <1>1, <1>2, FreeIs DEF Promise!Close, Promise!UpdateInPart

\* The process ends, in good order or not.
LEMMA EndsAsPromised == ASSUME ProfileInv, Exit \/ Crash PROVE Promise!LateStore
<1>1. Free /\ ret'.call = "none"
  BY DEF Exit, Crash, Gone, Return
<1>2. Did' = ret'
  BY <1>1, DidIs
<1> QED BY <1>1, <1>2, FreeIs DEF Promise!LateStore

\* Every step is one of the promise, or none.
LEMMA StepsAsPromised ==
  ASSUME ProfileInv, [Next]_vars
  PROVE  [Promise!Next]_(Promise!vars)
<1>1. CASE OpenInMemory \/ \E m \in OpenMode : OpenFile(m)
  <2>1. "INMEMORY" \in OpenMode
    BY DEF OpenMode
  <2> QED BY <1>1, <2>1, OpensAsPromised DEF Promise!Next
<1>2. CASE \E m \in OpenMode : OpenFails(m)
  BY <1>2, OpenFailsAsPromised DEF Promise!Next
<1>3. CASE WtkWriteInitProfileString
  BY <1>3, ChangesAsPromised
<1>4. CASE WtkQueryInitProfile
  BY <1>4, AnswersAsPromised DEF Promise!Next
<1>5. CASE \/ \E b \in BOOLEAN : CloseOnly(b)
           \/ \E b, n \in BOOLEAN : BackupOnly(b, n)
  BY <1>5, LeavesAsPromised DEF Promise!Next
<1>6. CASE UpdateBegin \/ \E b, n \in BOOLEAN : BackupBegin(b, n)
  BY <1>6, BeginsAsPromised DEF Promise!Next
<1>7. CASE CopyFails \/ CreateFails \/ \E b, n \in BOOLEAN : BackupRefused(b, n)
  BY <1>7, StaysAsPromised DEF Promise!Next
<1>8. CASE Flush \/ CopyPart \/ CopyEnd \/ CreateFile
  BY <1>8, StoresAsPromised DEF Promise!Next
<1>9. CASE UpdateEnd
  BY <1>9, UpdatesAsPromised DEF Promise!Next
<1>10. CASE BackupEnd
  BY <1>10, BackupsAsPromised DEF Promise!Next
<1>11. CASE Exit \/ Crash
  BY <1>11, EndsAsPromised DEF Promise!Next
<1>12. CASE UNCHANGED vars
  <2>1. UNCHANGED <<psectionFirst, stored, ulOpenMode, fModified, pc, ret, lost>>
    BY <1>12 DEF vars, diskVars, fileVars, initVars, streamVars
  <2>2. Values(psectionFirst)' = Values(psectionFirst)
    BY <2>1, TablesAre
  <2>3. Did' = Did
    BY <2>1 DEF Did
  <2> QED BY <2>1, <2>2, <2>3 DEF Promise!vars
<1> QED BY <1>1, <1>2, <1>3, <1>4, <1>5, <1>6, <1>7, <1>8, <1>9, <1>10, <1>11, <1>12 DEF Next

\* The profile keeps its promise (see ProfilePromise): for the application it is a table
\* of values, taken from the file when it is opened, changed entry by entry, and put
\* into the file by WtkCloseInitProfile, if it was changed and may be written.
THEOREM PromiseAlwaysKept == Spec => KeepsPromise
<1>1. Init => Promise!Init
  BY StartsAsPromised
<1>2. ProfileInv /\ [Next]_vars => [Promise!Next]_(Promise!vars)
  BY StepsAsPromised
<1>3. Spec => []ProfileInv
  BY ProfileAlways
<1> QED BY <1>1, <1>2, <1>3, PTL DEF Spec, KeepsPromise, Promise!Spec

-----------------------------------------------------------------------------
(* The old contents are kept. *)

\* Where the old contents are, by what the call is doing.  The file has them
\* only as long as no stream is left that has lines for it, and the copy is
\* complete before the file is emptied.  The handle has no stream any more, so
\* that no other call can write the file.
BackupInv ==
  atClose # Absent =>
    /\ (file = atClose /\ leaked = <<>>) \/ backup = atClose
    /\ pc \in {"copy", "createOriginal"} => file = atClose /\ leaked = <<>>
    /\ pc \in {"createOriginal", "updateOriginal"} => backup = atClose
    /\ pc \notin {"update", "createBackup", "updateBackup"}
    /\ ~pfile

\* No call that is made for the open profile, and no failed one, writes the file
\* or its backup (WtkWriteInitProfileString, WtkQueryInitProfileString and
\* WtkQueryInitProfileSize).
LEMMA CallsLeaveDisk ==
  ASSUME BackupInv, WtkWriteInitProfileString \/ WtkQueryInitProfile
  PROVE  BackupInv'
<1>1. UNCHANGED <<diskVars, pc, pfile, streamVars, history>>
  <2>1. ASSUME NEW t, NEW rc, NEW changed, LeaveTree(t, rc, changed)
        PROVE  UNCHANGED <<diskVars, pc, pfile, streamVars, history>>
    BY <2>1 DEF LeaveTree
  <2>2. ASSUME Asked PROVE UNCHANGED <<diskVars, pc, pfile, streamVars, history>>
    BY <2>2 DEF Asked, initVars
  <2>3. CASE WtkWriteInitProfileString
    <3>1. ASSUME NEW s, NEW k, NEW v, WriteValue(s, k, v) \/ CreateKey(s, k, v)
          PROVE  UNCHANGED <<diskVars, pc, pfile, streamVars, history>>
      BY <2>1, <3>1 DEF WriteValue, CreateKey, ReturnTree, LoseEntry
    <3>2. ASSUME NEW s, NEW k, DeleteKey(s, k) \/ DeleteSection(s)
          PROVE  UNCHANGED <<diskVars, pc, pfile, streamVars, history>>
      BY <2>1, <3>2 DEF DeleteKey, DeleteSection, ReturnTree
    <3> QED BY <2>3, <3>1, <3>2 DEF WtkWriteInitProfileString
  <2>4. CASE WtkQueryInitProfile
    BY <2>2, <2>4 DEF WtkQueryInitProfile, QueryString, QuerySize, QueryNames
  <2> QED BY <2>3, <2>4
<1> QED BY <1>1 DEF BackupInv, diskVars, fileVars, streamVars, history

\* A profile that is opened, with success or not, leaves the old contents where
\* they are (WtkOpenInitProfile): a file that exists is only read.
LEMMA OpenKeepsOld ==
  ASSUME BackupInv, NEW m \in OpenMode, OpenInMemory \/ OpenFile(m) \/ OpenFails(m)
  PROVE  BackupInv'
<1>1. CASE OpenInMemory \/ OpenFile(m)
  BY <1>1 DEF OpenInMemory, OpenFile, OpenHandle, BackupInv
<1>2. CASE OpenFails(m)
  <2>1. file # Absent => file' = file
    BY <1>2 DEF OpenFails, FileBecomes, Opened, fileVars
  <2>2. UNCHANGED <<backup, pc, pfile, leaked, atClose>>
    BY <1>2 DEF OpenFails, initVars, streamVars, history
  <2> QED BY <2>1, <2>2 DEF BackupInv
<1> QED BY <1>1, <1>2

\* WtkCloseInitProfile writes the file only by the stream of its handle, and that
\* is gone once WtkCloseInitProfileBackup has begun to write.
LEMMA CloseKeepsOld ==
  ASSUME BackupInv,
         (\E fUpdate \in BOOLEAN : CloseOnly(fUpdate)) \/ UpdateBegin \/ Flush \/ UpdateEnd
  PROVE  BackupInv'
<1>1. CASE \E fUpdate \in BOOLEAN : CloseOnly(fUpdate)
  BY <1>1 DEF CloseOnly, Free, BackupInv, diskVars, fileVars, streamVars
<1>2. CASE UpdateBegin
  BY <1>2 DEF UpdateBegin, history, BackupInv
<1>3. CASE Flush
  BY <1>3 DEF Flush, FileBecomes, initVars, history, diskVars, fileVars, BackupInv
<1>4. CASE UpdateEnd
  BY <1>4 DEF UpdateEnd, BackupInv
<1> QED BY <1>1, <1>2, <1>3, <1>4

\* The steps of WtkCloseInitProfileBackup, in their order: the copy is made, and
\* only if that was reported to be done is the file written.
LEMMA BackupKeepsOld ==
  ASSUME BackupInv,
         \/ \E fUpdateOriginal, named \in BOOLEAN :
              \/ BackupRefused(fUpdateOriginal, named)
              \/ BackupOnly(fUpdateOriginal, named)
              \/ BackupBegin(fUpdateOriginal, named)
         \/ CopyPart \/ CopyEnd \/ CopyFails \/ CreateFile \/ CreateFails \/ BackupEnd
  PROVE  BackupInv'
<1>1. ASSUME NEW fUpdateOriginal \in BOOLEAN, NEW named \in BOOLEAN
      PROVE  /\ BackupRefused(fUpdateOriginal, named) => BackupInv'
             /\ BackupOnly(fUpdateOriginal, named) => BackupInv'
             /\ BackupBegin(fUpdateOriginal, named) => BackupInv'
  <2>1. ASSUME BackupRefused(fUpdateOriginal, named) PROVE BackupInv'
    BY <2>1 DEF BackupRefused, StayOpen, diskVars, fileVars, streamVars, history, BackupInv
  <2>2. ASSUME BackupOnly(fUpdateOriginal, named) PROVE BackupInv'
    BY <2>2 DEF BackupOnly, BackupInv
  <2>3. ASSUME BackupBegin(fUpdateOriginal, named) PROVE BackupInv'
    BY <2>3 DEF BackupBegin, StayOpen, diskVars, fileVars, streamVars, history, BackupInv
  <2> QED BY <2>1, <2>2, <2>3
<1>2. CASE CopyPart
  BY <1>2 DEF CopyPart, fileVars, initVars, streamVars, history, BackupInv
<1>3. CASE CopyEnd
  BY <1>3 DEF CopyEnd, fileVars, initVars, streamVars, history, BackupInv
<1>4. CASE CopyFails \/ CreateFails
  BY <1>4 DEF CopyFails, CreateFails, StayOpen, diskVars, fileVars, streamVars, history, BackupInv
<1>5. CASE CreateFile
  BY <1>5 DEF CreateFile, initVars, history, BackupInv
<1>6. CASE BackupEnd
  BY <1>6 DEF BackupEnd, Free, diskVars, fileVars, BackupInv
<1> QED BY <1>1, <1>2, <1>3, <1>4, <1>5, <1>6

\* When the process ends, in good order or not, the lines of a stream that was
\* not closed can only reach a file of which there is a backup.
LEMMA EndKeepsOld ==
  ASSUME BackupInv, Exit \/ Crash
  PROVE  BackupInv'
<1>1. CASE Exit
  BY <1>1 DEF Exit, Gone, Free, FileBecomes, BackupInv
<1>2. CASE Crash
  BY <1>2 DEF Crash, Gone, Free, fileVars, BackupInv
<1> QED BY <1>1, <1>2

\* From the time WtkCloseInitProfileBackup begins to update the original file, and
\* until the profile is opened again, the old contents are in the file or, in
\* full, in the backup: whatever DosCopy, fopen and the writes do, and wherever
\* the process ends.
THEOREM OldContentsKept == Spec => []OriginalOrBackup
<1>1. Init => BackupInv
  BY DEF Init, BackupInv
<1>2. BackupInv /\ [Next]_vars => BackupInv'
  <2> SUFFICES ASSUME BackupInv, [Next]_vars PROVE BackupInv'
    OBVIOUS
  <2>1. CASE Next
    BY <2>1, CallsLeaveDisk, OpenKeepsOld, CloseKeepsOld, BackupKeepsOld, EndKeepsOld
       DEF Next, OpenMode
  <2>2. CASE UNCHANGED vars
    BY <2>2 DEF vars, diskVars, fileVars, initVars, streamVars, history, BackupInv
  <2> QED BY <2>1, <2>2
<1>3. BackupInv => OriginalOrBackup
  BY DEF BackupInv, OriginalOrBackup
<1> QED BY <1>1, <1>2, <1>3, PTL DEF Spec
=============================================================================
