--------------------------- MODULE RegularPromise ---------------------------
(***************************************************************************)
(* What a regular expression means, said without programs or backtracking. *)
(* An expression is a sequence of branches, a branch a sequence of pieces, *)
(* a piece an atom and an operator ("" for none).  An expression is        *)
(* written down by Write, and found at the places Ends says.  A replace    *)
(* pattern is a sequence of insertions: of what was found, of the part a   *)
(* group has found, or of a character.                                     *)
(***************************************************************************)
EXTENDS Integers, Sequences, FiniteSets, SequencesExt

Atom(kind, chars, expr) == [kind |-> kind, chars |-> chars, expr |-> expr]
Letter(ch)    == Atom("oneof", {ch}, <<>>)
AnyLetter     == Atom("any", {}, <<>>)
OneOf(chars)  == Atom("oneof", chars, <<>>)
NoneOf(chars) == Atom("noneof", chars, <<>>)
AtBegin       == Atom("begin", {}, <<>>)
AtEnd         == Atom("end", {}, <<>>)
Group(expr)   == Atom("group", {}, expr)

Piece(atom, op) == [atom |-> atom, op |-> op]

(* The expression as the characters it is written with.                    *)
RECURSIVE Write(_)
WriteAtom(a) ==
  CASE a.kind = "any"    -> <<".">>
    [] a.kind = "oneof" /\ Cardinality(a.chars) > 1 -> <<"[">> \o SetToSeq(a.chars) \o <<"]">>
    [] a.kind = "oneof" /\ Cardinality(a.chars) = 1 ->
         LET ch == CHOOSE c \in a.chars : TRUE
         IN  IF ch \in {"a", "b", "c"} THEN <<ch>> ELSE <<"\\", ch>>
    [] a.kind = "noneof" -> <<"[", "^">> \o SetToSeq(a.chars) \o <<"]">>
    [] a.kind = "begin"  -> <<"^">>
    [] a.kind = "end"    -> <<"$">>
    [] a.kind = "group"  -> <<"(">> \o Write(a.expr) \o <<")">>
WriteBranch(branch) ==
  FlattenSeq([n \in DOMAIN branch |->
    WriteAtom(branch[n].atom) \o (IF branch[n].op = "" THEN <<>> ELSE <<branch[n].op>>)])
Write(expr) ==
  WriteBranch(Head(expr)) \o
  FlattenSeq([n \in 1 .. Len(expr) - 1 |-> <<"|">> \o WriteBranch(expr[n + 1])])

(* The expression can match nothing at all.                                *)
RECURSIVE MayBeEmpty(_)
PieceMayBeEmpty(pc) ==
  \/ pc.op \in {"*", "?"}
  \/ pc.atom.kind \in {"begin", "end"}
  \/ pc.atom.kind = "group" /\ MayBeEmpty(pc.atom.expr)
MayBeEmpty(expr) ==
  \E n \in DOMAIN expr : \A k \in DOMAIN expr[n] : PieceMayBeEmpty(expr[n][k])

(* Only what takes a character may be repeated, at every depth.            *)
RECURSIVE WellFormed(_)
WellFormed(expr) ==
  \A n \in DOMAIN expr : \A k \in DOMAIN expr[n] :
    LET pc == expr[n][k]
    IN  /\ pc.op \in {"*", "+"} => ~PieceMayBeEmpty([pc EXCEPT !.op = ""])
        /\ pc.atom.kind = "group" => WellFormed(pc.atom.expr)

(* The places of the text where a match that starts at i may end.          *)
RECURSIVE Ends(_, _, _), Closure(_, _, _)
AtomEnds(a, t, i) ==
  LET has == i \in DOMAIN t
  IN  CASE a.kind = "any"    -> IF has THEN {i + 1} ELSE {}
        [] a.kind = "oneof"  -> IF has /\ t[i] \in a.chars THEN {i + 1} ELSE {}
        [] a.kind = "noneof" -> IF has /\ t[i] \notin a.chars THEN {i + 1} ELSE {}
        [] a.kind = "begin"  -> IF i = 1 THEN {i} ELSE {}
        [] a.kind = "end"    -> IF i = Len(t) + 1 THEN {i} ELSE {}
        [] a.kind = "group"  -> Ends(a.expr, t, i)
Closure(a, t, from) ==
  LET more == from \union UNION {AtomEnds(a, t, i) : i \in from}
  IN  IF more = from THEN from ELSE Closure(a, t, more)
PieceEnds(pc, t, i) ==
  CASE pc.op = ""  -> AtomEnds(pc.atom, t, i)
    [] pc.op = "?" -> {i} \union AtomEnds(pc.atom, t, i)
    [] pc.op = "*" -> Closure(pc.atom, t, {i})
    [] pc.op = "+" -> Closure(pc.atom, t, AtomEnds(pc.atom, t, i))
BranchEnds(branch, t, i) ==
  FoldLeft(LAMBDA at, pc : UNION {PieceEnds(pc, t, k) : k \in at}, {i}, branch)
Ends(expr, t, i) == UNION {BranchEnds(expr[n], t, i) : n \in DOMAIN expr}

(* The groups of the expression in the order of their opening brackets.    *)
RECURSIVE Groups(_)
Groups(expr) ==
  FlattenSeq([n \in DOMAIN expr |-> FlattenSeq([k \in DOMAIN expr[n] |->
    IF expr[n][k].atom.kind = "group"
    THEN <<expr[n][k].atom.expr>> \o Groups(expr[n][k].atom.expr) ELSE <<>>])])

Whole == [kind |-> "whole", char |-> ""]
PartOne == [kind |-> "part", char |-> ""]
Char(ch) == [kind |-> "char", char |-> ch]

(* The replace pattern as it is written, and the text it stands for.       *)
WriteReplace(inserts) ==
  FlattenSeq([n \in DOMAIN inserts |->
    CASE inserts[n].kind = "whole" -> <<"&">>
      [] inserts[n].kind = "part"  -> <<"\\", "1">>
      [] inserts[n].kind = "char"  -> IF inserts[n].char \in {"&", "\\"} THEN <<"\\", inserts[n].char>>
                                      ELSE <<inserts[n].char>>])
Replaced(inserts, whole, part) ==
  FlattenSeq([n \in DOMAIN inserts |->
    CASE inserts[n].kind = "whole" -> whole
      [] inserts[n].kind = "part"  -> part
      [] inserts[n].kind = "char"  -> <<inserts[n].char>>])
=============================================================================
