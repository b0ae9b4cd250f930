------------------------------ MODULE InitText ------------------------------
(***************************************************************************)
(* The text of an initialization file and the tree of sections and keys    *)
(* that source/lib/wtkfinit.c keeps of it: reading the lines, writing the  *)
(* tree as lines, and what WtkWriteInitProfileString does with the tree.   *)
(*                                                                         *)
(* A file is a sequence of lines.  A value is a sequence of tokens, of     *)
(* which all but the first are a comment that begins with // ; Open and    *)
(* Quoted are values in double quotes, which end on a later line and on    *)
(* their own.  Indents, delimiter characters and the width of the fields   *)
(* are not modelled.                                                       *)
(***************************************************************************)
EXTENDS Naturals, SequencesExt

CONSTANTS
  Name,       \* names of sections and keys
  NoName,     \* of a line that has none
  Fold,       \* the name in lower case, as stricmp sees it
  Token,      \* tokens of values and the texts of comments
  Open, Quoted

ASSUME NameAssumption ==
  /\ Fold \in [Name -> Name] /\ NoName \notin Name
  /\ \A n \in Name : Fold[Fold[n]] = Fold[n]
  /\ Open \in Token /\ Quoted \in Token /\ Open # Quoted

\* The kinds of lines: a section, a section without ']', a key, comments and
\* empty lines, and a line without a delimiter, which may end a value.
Kind == {"section", "unclosed", "key", "comment", "blank", "text"}

Line == [kind : Kind, name : Name \cup {NoName}, value : Seq(Token)]

SectionLine(n) == [kind |-> "section", name |-> n, value |-> <<>>]
KeyLine(n, v)  == [kind |-> "key", name |-> n, value |-> v]
Comment(n, v)  == [kind |-> "comment", name |-> n, value |-> v]
Blank          == [kind |-> "blank", name |-> NoName, value |-> <<>>]

CommentLine == {l \in Line : l.kind \in {"comment", "blank"}}

\* KEY and SECTION.  note is pszValueComment; comment and tail are lines.
Key == [name : Name, value : Seq(Token), note : Seq(Token), comment : Seq(Line), tail : Seq(Line)]
Section == [name : Name, comment : Seq(Line), tail : Seq(Line), keys : Seq(Key)]

NewKey(n, v)  == [name |-> n, value |-> v, note |-> <<>>, comment |-> <<>>, tail |-> <<>>]
NewSection(n) == [name |-> n, comment |-> <<Blank>>, tail |-> <<>>, keys |-> <<>>]

-----------------------------------------------------------------------------
(* Searching.  Names are compared by stricmp, the first match counts. *)

Find(entries, n) == SelectInSeq(entries, LAMBDA e : Fold[e.name] = Fold[n])

Has(entries, n) == Find(entries, n) # 0

\* The value of key k in section s; none is <<>>.
ValueOf(sections, s, k) ==
  LET i == Find(sections, s)
      j == Find(sections[i].keys, k)
  IN  IF i = 0 THEN <<>> ELSE IF j = 0 THEN <<>> ELSE sections[i].keys[j].value

\* No two entries have names that stricmp takes for the same.
Distinct(entries) ==
  \A i, j \in DOMAIN entries : Fold[entries[i].name] = Fold[entries[j].name] => i = j

Unique(sections) ==
  /\ Distinct(sections)
  /\ \A i \in DOMAIN sections : Distinct(sections[i].keys)

\* A value that is read as it is written: a quote that it begins with is closed at
\* its end, and it has no comment that is taken for one of the file.
PlainValue(v, slash) ==
  /\ v # <<>> /\ (slash => Len(v) = 1)
  /\ Head(v) \in {Open, Quoted} => Last(v) = Quoted

PlainKey(slash) ==
  [name : Name, value : {v \in Seq(Token) : PlainValue(v, slash)},
   note : {n \in Seq(Token) : slash \/ n = <<>>},
   comment : Seq(CommentLine), tail : Seq(CommentLine)]

PlainSection(slash) ==
  [name : Name, comment : Seq(CommentLine), tail : Seq(CommentLine), keys : Seq(PlainKey(slash))]

\* The trees that can be written to a file and read again.
PlainTree(slash) == {t \in Seq(PlainSection(slash)) : Unique(t)}

-----------------------------------------------------------------------------
(* Reading.  The state of the loop over the lines: the return code, the   *)
(* sections so far, the comment lines that wait for a section or key, and  *)
(* whether the value of the last key goes on in the next line.             *)

Start == [rc |-> "NO_ERROR", sections |-> <<>>, comment |-> <<>>, quoting |-> FALSE]

\* A comment that begins with // is cut off the value, if the comment
\* characters of the file include the slash.
NewKeyOf(line, comment, slash) ==
  LET cut == slash /\ Len(line.value) > 1
  IN  [NewKey(line.name, IF cut THEN <<line.value[1]>> ELSE line.value) EXCEPT
         !.note = IF cut THEN Tail(line.value) ELSE <<>>, !.comment = comment]

ReadKey(st, line, slash) ==
  LET n == Len(st.sections)
      key == NewKeyOf(line, st.comment, slash)
  IN  [st EXCEPT !.sections[n].keys = Append(@, key),
                 !.comment = <<>>,
                 !.quoting = Head(key.value) \in {Open, Quoted} /\ Last(key.value) # Quoted]

\* A line that is read as a part of a quoted value ends it with its last quote.
ReadQuoted(st, line) ==
  LET n == Len(st.sections)
      m == Len(st.sections[n].keys)
  IN  IF line.value # <<>> /\ Last(line.value) = Quoted
      THEN [st EXCEPT !.sections[n].keys[m].value = <<Quoted>>, !.quoting = FALSE]
      ELSE st

ReadLine(st, line, slash) ==
  CASE st.rc # "NO_ERROR" -> st
    [] st.rc = "NO_ERROR" /\ st.quoting -> ReadQuoted(st, line)
    [] st.rc = "NO_ERROR" /\ ~st.quoting ->
         CASE line.kind \in {"comment", "blank"} ->
                [st EXCEPT !.comment = Append(@, line)]
           [] line.kind = "section" ->
                [st EXCEPT !.sections = Append(@, [NewSection(line.name) EXCEPT !.comment = st.comment]),
                           !.comment = <<>>]
           [] line.kind = "key" /\ st.sections # <<>> -> ReadKey(st, line, slash)
           [] OTHER -> [st EXCEPT !.rc = "ERROR_INVALID_DATA"]

\* What is read from a file.  Comments behind the last key are dropped.
Parse(lines, slash) == FoldLeft(LAMBDA st, line : ReadLine(st, line, slash), Start, lines)

\* A file of which the tree is plain, or that cannot be read.
PlainFile(lines, slash) ==
  LET st == Parse(lines, slash)
  IN  st.rc = "NO_ERROR" => ~st.quoting /\ st.sections \in PlainTree(slash)

-----------------------------------------------------------------------------
(* Writing *)

\* Mutant of KeyLines: the value comment is not written.
KeyLinesNoNote(key, discard) ==
  (IF discard THEN <<>> ELSE key.comment) \o <<KeyLine(key.name, key.value)>> \o key.tail

KeyLines(key, discard) ==
  (IF discard THEN <<>> ELSE key.comment) \o <<KeyLine(key.name, key.value \o key.note)>> \o key.tail

SectionLines(section, discard) ==
  (IF discard THEN <<>> ELSE section.comment) \o <<SectionLine(section.name)>> \o section.tail
  \o FoldLeft(LAMBDA lines, key : lines \o KeyLines(key, discard), <<>>, section.keys)

\* The file that is written for the sections, which ends with an empty line.
Written(sections, discard) ==
  Append(FoldLeft(LAMBDA lines, s : lines \o SectionLines(s, discard), <<>>, sections), Blank)

-----------------------------------------------------------------------------
(* Changes of the tree *)

SetValue(sections, i, j, v) == [sections EXCEPT ![i].keys[j].value = v]

AddKey(sections, i, k, v) == [sections EXCEPT ![i].keys = Append(@, NewKey(k, v))]

AddSection(sections, s) == Append(sections, NewSection(s))

\* A key that is deleted softly becomes a comment, with the comment in front of
\* it, at the end of the tail of the key before, or of the section.  What its
\* own tail and value comment held is gone.
Remains(key) == Append(key.comment, Comment(key.name, key.value))

RemoveKey(sections, i, j, soft) ==
  LET removed == [sections EXCEPT ![i].keys = RemoveAt(@, j)]
      remains == Remains(sections[i].keys[j])
  IN  IF ~soft THEN removed
      ELSE IF j = 1 THEN [removed EXCEPT ![i].tail = @ \o remains]
      ELSE [removed EXCEPT ![i].keys[j - 1].tail = @ \o remains]

\* Mutant of RemoveSection: the list ends where the section was.
RemoveSectionAndRest(sections, i) == SubSeq(sections, 1, i - 1)

RemoveSection(sections, i) == RemoveAt(sections, i)

-----------------------------------------------------------------------------
(* Lists of names.  A name of NameLen characters takes NameLen + 1 bytes. *)

NameLen == 1

\* How many of n names are stored in a buffer, and the size that is reported:
\* it includes the name that did not fit, as the loop ends only then.
Stored(n, buflen) ==
  LET room == IF buflen = 0 THEN 0 ELSE (buflen - 1) \div (NameLen + 1)
  IN  IF room < n THEN room ELSE n

ListSize(n) == n * (NameLen + 1)

ListResult(n, buflen) == ListSize(IF Stored(n, buflen) < n THEN Stored(n, buflen) + 1 ELSE n)
=============================================================================
