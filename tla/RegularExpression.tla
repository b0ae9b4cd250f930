------------------------- MODULE RegularExpression -------------------------
(***************************************************************************)
(* The regular expressions of wtkurgx.c: an expression, a sequence of      *)
(* characters, is compiled into a program of nodes, and the program is     *)
(* walked along a text with backtracking.  A node takes one cell of the    *)
(* program here, its operand string is the field arg of the cell, and the  *)
(* offset to the next node is counted in cells (0 stands for NULL).        *)
(***************************************************************************)
EXTENDS Integers, Sequences, FiniteSets, SequencesExt

NUL == "NUL"
NSUBEXP == 10

(* The characters the model knows, in the order of their codes. *)
Codes == <<"$", "&", "(", ")", "*", "+", "-", ".", "0", "1", "?", "[", "\\",
           "]", "^", "a", "b", "c", "|">>
CodeOf(ch) == CHOOSE i \in DOMAIN Codes : Codes[i] = ch
META == {"^", "$", ".", "[", "(", ")", "|", "?", "+", "*", "\\"}
ISREPN(ch) == ch \in {"*", "+", "?"}

CharAt(s, i) == IF i \in DOMAIN s THEN s[i] ELSE NUL

----------------------------------------------------------------------------
(* The program.  c is the state of the compiler: the place in the          *)
(* expression, the program so far and the number of the next bracket.      *)

Node(op, arg) == [op |-> op, arg |-> arg, next |-> 0]
Emit(c, op, arg) == [c EXCEPT !.code = Append(@, Node(op, arg))]
Here(c) == Len(c.code) + 1

Skip(c, n) == [c EXCEPT !.at = @ + n]

RegNext(code, p) == IF code[p].next = 0 THEN 0 ELSE p + code[p].next

RECURSIVE LastOf(_, _)
LastOf(code, p) == IF code[p].next = 0 THEN p ELSE LastOf(code, RegNext(code, p))

RegTail(c, p, val) ==
  LET last == LastOf(c.code, p) IN [c EXCEPT !.code[last].next = val - last]

RegOpTail(c, p, val) ==
  IF c.code[p].op = "BRANCH" THEN RegTail(c, p + 1, val) ELSE c

RegInsert(c, op, p) == [c EXCEPT !.code = InsertAt(@, p, Node(op, {}))]

(* Every branch on the way from node p on is hooked to the closing node. *)
RECURSIVE HookBranches(_, _, _)
HookBranches(c, p, ender) ==
  IF p = 0 THEN c
  ELSE LET hooked == RegOpTail(c, p, ender)
       IN  HookBranches(hooked, RegNext(hooked.code, p), ender)

Failed == [ok |-> FALSE]
Parsed(c, node, flags) == [ok |-> TRUE, c |-> c, node |-> node, flags |-> flags]

(* The characters of a class up to the closing bracket. *)
RECURSIVE ClassFrom(_, _, _)
ClassFrom(e, at, chars) ==
  LET ch == CharAt(e, at)
      second == CharAt(e, at + 1)
      from == CodeOf(e[at - 1])
  IN  CASE ch = NUL -> [ok |-> FALSE, at |-> at, chars |-> chars]
        [] ch = "]" -> [ok |-> TRUE, at |-> at + 1, chars |-> chars]
        [] ch \notin {NUL, "]", "-"} -> ClassFrom(e, at + 1, chars \union {ch})
        [] ch = "-" /\ second \in {"]", NUL} -> ClassFrom(e, at + 1, chars \union {"-"})
        [] ch = "-" /\ second \notin {"]", NUL} ->
             IF from > CodeOf(second) THEN [ok |-> FALSE, at |-> at, chars |-> chars]
             ELSE ClassFrom(e, at + 2,
                            chars \union {Codes[i] : i \in (from + 1) .. CodeOf(second)})

Class(e, c) ==
  LET but == CharAt(e, c.at + 1) = "^"
      start == c.at + (IF but THEN 2 ELSE 1)
      literal == CharAt(e, start) \in {"]", "-"}
      Parse(class) ==
        IF ~class.ok THEN Failed
        ELSE Parsed([Emit(c, IF but THEN "ANYBUT" ELSE "ANYOF", class.chars) EXCEPT !.at = class.at],
                    Here(c), {"HASWIDTH", "SIMPLE"})
  IN  Parse(IF literal THEN ClassFrom(e, start + 1, {e[start]}) ELSE ClassFrom(e, start, {}))

(* A run of ordinary characters, without the last one if an operator for   *)
(* that one follows.                                                       *)
Literal(e, c) ==
  LET run == CHOOSE n \in 1 .. Len(e) :
               /\ \A i \in 0 .. n - 1 : CharAt(e, c.at + i) \notin META \union {NUL}
               /\ CharAt(e, c.at + n) \in META \union {NUL}
      len == IF run > 1 /\ ISREPN(CharAt(e, c.at + run)) THEN run - 1 ELSE run
  IN  Parsed(Skip(Emit(c, "EXACTLY", SubSeq(e, c.at, c.at + len - 1)), len), Here(c),
             {"HASWIDTH"} \union (IF len = 1 THEN {"SIMPLE"} ELSE {}))

RECURSIVE Reg(_, _, _)

RegAtom(e, c) ==
  LET ch == CharAt(e, c.at)
      One(op, flags) == Parsed(Skip(Emit(c, op, {}), 1), Here(c), flags)
  IN  CASE ch = "^" -> One("BOL", {})
        [] ch = "$" -> One("EOL", {})
        [] ch = "." -> One("ANY", {"HASWIDTH", "SIMPLE"})
        [] ch = "[" -> Class(e, c)
        [] ch = "(" -> LET r == Reg(e, Skip(c, 1), TRUE)
                       IN  IF r.ok THEN [r EXCEPT !.flags = @ \ {"SIMPLE"}] ELSE r
        [] ch \in {"?", "+", "*"} -> Failed
        [] ch = "\\" ->
             IF CharAt(e, c.at + 1) = NUL THEN Failed
             ELSE Parsed(Skip(Emit(c, "EXACTLY", <<e[c.at + 1]>>), 2), Here(c),
                         {"HASWIDTH", "SIMPLE"})
        [] OTHER -> Literal(e, c)

(* The loops and choices an operator behind a complex operand stands for. *)
StarComplex(c, p) ==
  LET either == RegInsert(c, "BRANCH", p)
      looped == RegOpTail(Emit(either, "BACK", {}), p, Here(either))
      back   == RegOpTail(looped, p, p)
      orr    == RegTail(Emit(back, "BRANCH", {}), p, Here(back))
  IN  RegTail(Emit(orr, "NOTHING", {}), p, Here(orr))

PlusComplex(c, p) ==
  LET next   == Here(c)
      either == RegTail(Emit(c, "BRANCH", {}), p, next)
      loop   == RegTail(Emit(either, "BACK", {}), Here(either), p)
      orr    == RegTail(Emit(loop, "BRANCH", {}), next, Here(loop))
  IN  RegTail(Emit(orr, "NOTHING", {}), p, Here(orr))

Optional(c, p) ==
  LET either == RegInsert(c, "BRANCH", p)
      orr    == RegTail(Emit(either, "BRANCH", {}), p, Here(either))
      null   == RegTail(Emit(orr, "NOTHING", {}), p, Here(orr))
  IN  RegOpTail(null, p, Here(orr))

Repeated(op, atom) ==
  LET simple == "SIMPLE" \in atom.flags
  IN  CASE op = "*" /\ simple  -> RegInsert(atom.c, "STAR", atom.node)
        [] op = "*" /\ ~simple -> StarComplex(atom.c, atom.node)
        [] op = "+" /\ simple  -> RegInsert(atom.c, "PLUS", atom.node)
        [] op = "+" /\ ~simple -> PlusComplex(atom.c, atom.node)
        [] op = "?"            -> Optional(atom.c, atom.node)

(* An atom and the operator that may follow it. *)
WithOperator(e, atom) ==
  LET op == CharAt(e, atom.c.at)
      flags == CASE op = "*" -> {"SPSTART"}
                 [] op = "+" -> {"SPSTART", "HASWIDTH"}
                 [] op = "?" -> {}
  IN  IF ~atom.ok THEN atom
      ELSE IF ~ISREPN(op) THEN atom
      ELSE IF \/ "HASWIDTH" \notin atom.flags /\ op # "?"
              \/ ISREPN(CharAt(e, atom.c.at + 1))
      THEN Failed
      ELSE Parsed(Skip(Repeated(op, atom), 1), atom.node, flags)

RegPiece(e, c) == WithOperator(e, RegAtom(e, c))

(* The pieces of a branch, each hooked to the one before it. *)
RECURSIVE Pieces(_, _, _, _)
Pieces(e, c, chain, flags) ==
  LET Behind(piece) ==
        IF ~piece.ok THEN Failed
        ELSE Pieces(e,
                    IF chain = 0 THEN piece.c ELSE RegTail(piece.c, chain, piece.node),
                    piece.node,
                    flags \union (piece.flags \intersect {"HASWIDTH"})
                          \union (IF chain = 0 THEN piece.flags \intersect {"SPSTART"} ELSE {}))
  IN  IF CharAt(e, c.at) \in {NUL, "|", ")"}
      THEN Parsed(IF chain = 0 THEN Emit(c, "NOTHING", {}) ELSE c, 0, flags)
      ELSE Behind(RegPiece(e, c))

RegBranch(e, c) ==
  LET At(pieces) == IF pieces.ok THEN [pieces EXCEPT !.node = Here(c)] ELSE Failed
  IN  At(Pieces(e, Emit(c, "BRANCH", {}), 0, {}))

(* The branches behind the first one, node r, of an expression. *)
RECURSIVE Branches(_, _, _, _)
Branches(e, c, r, flags) ==
  LET Behind(br) ==
        IF ~br.ok THEN Failed
        ELSE Branches(e, RegTail(br.c, r, br.node), r,
                      (flags \ ({"HASWIDTH"} \ br.flags))
                      \union (br.flags \intersect {"SPSTART"}))
  IN  IF CharAt(e, c.at) # "|" THEN Parsed(c, r, flags)
      ELSE Behind(RegBranch(e, Skip(c, 1)))

(* The node that closes an expression of the branches all, from node r on. *)
Closed(e, all, r, paren, parno) ==
  LET ender  == Here(all.c)
      closed == RegTail(Emit(all.c, IF paren THEN "CLOSE" ELSE "END", parno), r, ender)
      hooked == HookBranches(closed, r, ender)
      ends   == CharAt(e, all.c.at) = (IF paren THEN ")" ELSE NUL)
  IN  IF ~all.ok THEN Failed
      ELSE IF ~ends THEN Failed
      ELSE Parsed(IF paren THEN Skip(hooked, 1) ELSE hooked, r, all.flags)

Reg(e, c, paren) ==
  LET r      == Here(c)
      opened == IF paren THEN Emit([c EXCEPT !.npar = @ + 1], "OPEN", c.npar) ELSE c
      From(br) ==
        IF ~br.ok THEN Failed
        ELSE Closed(e, Branches(e, IF paren THEN RegTail(br.c, r, br.node) ELSE br.c, r,
                                br.flags \intersect {"HASWIDTH", "SPSTART"}),
                    r, paren, c.npar)
  IN  IF paren /\ c.npar >= NSUBEXP THEN Failed ELSE From(RegBranch(e, opened))

(* The longest string on the way from node p on, the last one of that      *)
(* length.                                                                 *)
RECURSIVE Longest(_, _, _)
Longest(code, p, best) ==
  IF p = 0 THEN best
  ELSE Longest(code, RegNext(code, p),
               IF code[p].op = "EXACTLY" /\ Len(code[p].arg) >= Len(best)
               THEN code[p].arg ELSE best)

(* What regcomp finds out to make the search faster. *)
RegStart(code) ==
  IF code[RegNext(code, 1)].op = "END" /\ code[2].op = "EXACTLY"
  THEN code[2].arg[1] ELSE NUL
RegAnch(code) == code[RegNext(code, 1)].op = "END" /\ code[2].op = "BOL"
RegMust(code, flags) ==
  IF code[RegNext(code, 1)].op = "END" /\ "SPSTART" \in flags
  THEN Longest(code, 2, <<>>) ELSE <<>>

Program(r) ==
  IF ~r.ok THEN [valid |-> FALSE]
  ELSE [valid |-> TRUE, code |-> r.c.code, regstart |-> RegStart(r.c.code),
        reganch |-> RegAnch(r.c.code), regmust |-> RegMust(r.c.code, r.flags)]

RegComp(e) == Program(Reg(e, [at |-> 1, code |-> <<>>, npar |-> 1], FALSE))

----------------------------------------------------------------------------
(* Walking the program along the text t from position i on. *)

NoMatch == [ok |-> FALSE]
Success(i) == [ok |-> TRUE, end |-> i, startp |-> [n \in 1 .. NSUBEXP - 1 |-> 0],
               endp |-> [n \in 1 .. NSUBEXP - 1 |-> 0]]

(* How many characters from i on fit the operand of a STAR or PLUS. *)
Fits(node, ch) ==
  CASE node.op = "ANY"     -> ch # NUL
    [] node.op = "EXACTLY" -> ch = node.arg[1]
    [] node.op = "ANYOF"   -> ch \in node.arg
    [] node.op = "ANYBUT"  -> ch \notin node.arg \union {NUL}
RegRepeat(t, node, i) ==
  CHOOSE n \in 0 .. Len(t) : /\ \A k \in 0 .. n - 1 : Fits(node, CharAt(t, i + k))
                             /\ ~Fits(node, CharAt(t, i + n))

RECURSIVE RegMatch(_, _, _, _), AnyBranch(_, _, _, _), AnyCount(_, _, _, _, _, _)

RegMatch(code, t, p, i) ==
  LET node == code[p]
      next == RegNext(code, p)
      ch == CharAt(t, i)
      On(n) == RegMatch(code, t, next, i + n)
      mark == On(0)
  IN  CASE p = 0 -> NoMatch
        [] node.op = "END" -> Success(i)
        [] node.op = "BOL" -> IF i = 1 THEN On(0) ELSE NoMatch
        [] node.op = "EOL" -> IF ch = NUL THEN On(0) ELSE NoMatch
        [] node.op \in {"ANY", "ANYOF", "ANYBUT"} -> IF Fits(node, ch) THEN On(1) ELSE NoMatch
        [] node.op = "EXACTLY" ->
             IF IsPrefix(node.arg, SubSeq(t, i, Len(t))) THEN On(Len(node.arg)) ELSE NoMatch
        [] node.op \in {"NOTHING", "BACK"} -> On(0)
        [] node.op = "OPEN" ->
             IF mark.ok /\ mark.startp[node.arg] = 0
             THEN [mark EXCEPT !.startp[node.arg] = i] ELSE mark
        [] node.op = "CLOSE" ->
             IF mark.ok /\ mark.endp[node.arg] = 0
             THEN [mark EXCEPT !.endp[node.arg] = i] ELSE mark
        [] node.op = "BRANCH" ->
             IF code[next].op # "BRANCH" THEN RegMatch(code, t, p + 1, i)
             ELSE AnyBranch(code, t, p, i)
        [] node.op \in {"STAR", "PLUS"} ->
             AnyCount(code, t, next, i, RegRepeat(t, code[p + 1], i),
                      IF node.op = "STAR" THEN 0 ELSE 1)

AnyBranch(code, t, p, i) ==
  IF code[p].op # "BRANCH" THEN NoMatch
  ELSE LET m == RegMatch(code, t, p + 1, i)
       IN  IF m.ok THEN m ELSE AnyBranch(code, t, RegNext(code, p), i)

(* The most characters are tried first; a count is left out if the string  *)
(* that must follow does not start there.                                  *)
AnyCount(code, t, next, i, no, min) ==
  IF no < min THEN NoMatch
  ELSE LET nextch == IF code[next].op = "EXACTLY" THEN code[next].arg[1] ELSE NUL
           m == IF nextch = NUL \/ CharAt(t, i + no) = nextch
                THEN RegMatch(code, t, next, i + no) ELSE NoMatch
       IN  IF m.ok THEN m ELSE AnyCount(code, t, next, i, no - 1, min)

(* What the search for the first character goes through: the text, but if  *)
(* that is empty, its terminator is stepped over to what lies behind it.   *)
Searched(t, behind) == IF t = <<>> THEN <<NUL>> \o behind ELSE t

(* Mutant of the places below: the end of the text is not tried.           *)
PlacesInside(prog, t, behind) ==
  IF prog.reganch THEN {1}
  ELSE IF prog.regstart # NUL
       THEN {1} \union {i \in DOMAIN Searched(t, behind) : Searched(t, behind)[i] = prog.regstart}
  ELSE {1} \union DOMAIN t

(* The places where regexec tries a match. *)
Places(prog, t, behind) ==
  IF prog.reganch THEN {1}
  ELSE IF prog.regstart # NUL
       THEN {1} \union {i \in DOMAIN Searched(t, behind) : Searched(t, behind)[i] = prog.regstart}
  ELSE 1 .. Len(t) + 1

Occurs(t, s) == \E i \in 1 .. Len(t) + 1 : IsPrefix(s, SubSeq(t, i, Len(t)))

RegTry(prog, t, i) ==
  LET m == RegMatch(prog.code, t, 1, i)
  IN  IF m.ok THEN [ok |-> TRUE, start |-> i, end |-> m.end, startp |-> m.startp, endp |-> m.endp]
      ELSE NoMatch

RegExec(prog, t, behind) ==
  LET memory == Searched(t, behind)
      found == {i \in Places(prog, t, behind) : RegTry(prog, memory, i).ok}
      first == CHOOSE i \in found : \A k \in found : i <= k
  IN  IF ~Occurs(t, prog.regmust) \/ found = {} THEN NoMatch ELSE RegTry(prog, memory, first)

----------------------------------------------------------------------------
(* Inserting what was found into a replace pattern: what is written to the *)
(* buffer of maxlen characters, and the return code.  A part is copied     *)
(* before the room for it is checked.                                      *)

Part(m, t, no) ==
  IF no = 0 THEN SubSeq(t, m.start, m.end - 1)
  ELSE IF m.startp[no] # 0 /\ m.endp[no] # 0 THEN SubSeq(t, m.startp[no], m.endp[no] - 1)
  ELSE <<>>

Digits == [d \in {"0", "1"} |-> IF d = "0" THEN 0 ELSE 1]

RECURSIVE RegSub(_, _, _, _, _, _)
RegSub(m, t, src, at, dst, maxlen) ==
  LET ch == CharAt(src, at)
      second == CharAt(src, at + 1)
      place == ch = "\\" /\ second \in DOMAIN Digits
      part == Part(m, t, IF ch = "&" THEN 0 ELSE Digits[second])
      literal == ch = "\\" /\ second \in {"\\", "&"}
  IN  IF ch = NUL THEN [rc |-> "NO_ERROR", written |-> Append(dst, NUL)]
      ELSE IF Len(dst) >= maxlen - 1 THEN [rc |-> "ERROR_BUFFER_OVERFLOW", written |-> dst]
      ELSE IF ch = "&" \/ place
           THEN IF part # <<>> /\ Len(dst \o part) >= maxlen - 1
                THEN [rc |-> "ERROR_BUFFER_OVERFLOW", written |-> dst \o part]
                ELSE RegSub(m, t, src, at + (IF place THEN 2 ELSE 1), dst \o part, maxlen)
      ELSE RegSub(m, t, src, at + (IF literal THEN 2 ELSE 1),
                  Append(dst, IF literal THEN second ELSE ch), maxlen)

(* WtkSubstRegularExpressionMatch, which the other two functions call with *)
(* the pattern "&" or without a text; behind is what lies behind the text  *)
(* in memory.                                                              *)
Subst(e, t, behind, src, maxlen) ==
  LET Insert(m) == IF ~m.ok THEN [rc |-> "ERROR_FILE_NOT_FOUND"]
                   ELSE [match |-> m] @@ RegSub(m, Searched(t, behind), src, 1, <<>>, maxlen)
      Search(prog) == IF ~prog.valid THEN [rc |-> "ERROR_INVALID_PARAMETER"]
                      ELSE Insert(RegExec(prog, t, behind))
  IN  Search(RegComp(e))
=============================================================================
