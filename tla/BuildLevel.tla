----------------------------- MODULE BuildLevel -----------------------------
(***************************************************************************)
(* The build level of an executable (wtkfbldl.c): the text                 *)
(* @#vendor:revision#@description, kept under the ordinal zero in the      *)
(* table of non-resident names of an LX executable.  Setting it rewrites   *)
(* the table and moves what lies behind it in the file.                    *)
(*                                                                         *)
(* Texts are sequences of bytes, and the table is the bytes of the file: a *)
(* length, a name and an ordinal of two bytes for each entry, and a zero.  *)
(***************************************************************************)
EXTENDS Integers, Sequences, SequencesExt, TLC

AT == 64
HASH == 35
COLON == 58
BLANK == 32

NO_ERROR == 0
ERROR_INVALID_DATA == 13
ERROR_NO_MORE_FILES == 18
ERROR_INVALID_PARAMETER == 87
ERROR_BUFFER_OVERFLOW == 111

BLDLEVEL_ORDINAL == <<0, 0>>

(* The tables are long enough for the walks that leave them: what is       *)
(* behind the end of one counts as zero.                                   *)
ByteAt(bytes, i) == IF i \in DOMAIN bytes THEN bytes[i] ELSE 0
Bytes(bytes, from, len) == [i \in 1..len |-> ByteAt(bytes, from + i - 1)]

Entry(name, ordinal) == <<Len(name) % 256>> \o name \o ordinal

-----------------------------------------------------------------------------
(* The position of a text in another one from a place on, 0 if it is not   *)
(* there.                                                                  *)
FoundAt(text, what, from) ==
    LET places == {i \in from..(Len(text) - Len(what) + 1) : Bytes(text, i, Len(what)) = what}
    IN  IF places = {} THEN 0 ELSE CHOOSE i \in places : \A j \in places : i <= j

From(text, i) == SubSeq(text, i, Len(text))

(* The reader takes the ordinal for one byte and an entry for a byte less  *)
(* than it is long.                                                        *)
RECURSIVE SignatureEntry(_, _)
SignatureEntry(table, p) ==
    CASE ByteAt(table, p) = 0 -> 0
      [] ByteAt(table, p) # 0 /\ ByteAt(table, p + ByteAt(table, p) + 1) = 0 -> p
      [] OTHER -> SignatureEntry(table, p + ByteAt(table, p) + 2)

(* Extended information before the description is skipped, and so are      *)
(* leading blanks.                                                         *)
ExtendedMark == <<HASH, HASH, 49, HASH, HASH>>
WithoutExtended(text) ==
    LET ends == FoundAt(text, <<AT, AT>>, 1)
    IN  IF IsPrefix(ExtendedMark, text) /\ ends # 0 THEN From(text, ends + 2) ELSE text
WithoutBlanks(text) ==
    LET first == SelectInSeq(text, LAMBDA c : c > BLANK)
    IN  IF first = 0 THEN <<>> ELSE From(text, first)

NoSignature(code) == [rc |-> code, vendor |-> <<>>, revision |-> <<>>, description |-> <<>>]

Scanned(text) ==
    LET colon == FoundAt(text, <<COLON>>, 3)
        Parts(mark) ==
          IF ~IsPrefix(<<AT, HASH>>, text) \/ colon = 0 \/ mark = 0
          THEN NoSignature(ERROR_NO_MORE_FILES)
          ELSE [rc |-> NO_ERROR,
                vendor |-> SubSeq(text, 3, colon - 1),
                revision |-> SubSeq(text, colon + 1, mark - 1),
                description |-> WithoutBlanks(WithoutExtended(From(text, mark + 2)))]
    IN  Parts(FoundAt(text, <<HASH, AT>>, colon + 1))

TextLen(signature) ==
    Len(signature.vendor) + 1 + Len(signature.revision) + 1 + Len(signature.description)

(* An executable has a table at an offset, of zero length if there is      *)
(* none, and data behind it, to which an offset in the header leads.       *)
WtkGetBlSignature(exe, buflen) ==
    LET Fitting(signature) ==
          IF signature.rc = NO_ERROR /\ TextLen(signature) > buflen
          THEN NoSignature(ERROR_BUFFER_OVERFLOW) ELSE signature
        Entered(at) ==
          IF at = 0 THEN NoSignature(ERROR_NO_MORE_FILES)
          ELSE Fitting(Scanned(Bytes(exe.table, at + 1, ByteAt(exe.table, at))))
    IN  CASE buflen = 0 -> NoSignature(ERROR_INVALID_PARAMETER)
          [] buflen # 0 /\ ~exe.isLX -> NoSignature(ERROR_INVALID_DATA)
          [] buflen # 0 /\ exe.isLX /\ exe.table = <<>> -> NoSignature(ERROR_NO_MORE_FILES)
          [] OTHER -> Entered(SignatureEntry(exe.table, 1))

-----------------------------------------------------------------------------
(* Revisions are compared number by number, up to seven of them; what is   *)
(* not there counts as zero.                                               *)
IsDigit(c) == c \in 48..57
Numbers(text) ==
    FoldLeft(LAMBDA found, c :
                 CASE ~IsDigit(c) -> [found EXCEPT !.inside = FALSE]
                   [] IsDigit(c) /\ found.inside ->
                          [found EXCEPT !.all[Len(found.all)] = @ * 10 + c - 48]
                   [] OTHER -> [inside |-> TRUE, all |-> Append(found.all, c - 48)],
             [inside |-> FALSE, all |-> <<>>], text).all

MAX_NUMBERS == 7
makeRevArray(text) ==
    [i \in 1..MAX_NUMBERS |-> IF i \in DOMAIN Numbers(text) THEN Numbers(text)[i] ELSE 0]

revComp(rev1, rev2, checks) ==
    LET first == SelectInSeq([i \in 1..MAX_NUMBERS |-> i],
                             LAMBDA i : makeRevArray(rev1)[i] # makeRevArray(rev2)[i])
    IN  CASE first = 0 -> "equal" \in checks
          [] first # 0 /\ makeRevArray(rev1)[first] > makeRevArray(rev2)[first] ->
                 "greater" \in checks
          [] OTHER -> "lesser" \in checks

(* A part that is not asked for is the empty set, one that is the set of   *)
(* its text.  The buffer is a path's length, less the fixed fields.        *)
CHECK_BUFLEN == 260 - 16
WtkCheckBlSignature(exe, vendor, revision, checks, description) ==
    LET found == WtkGetBlSignature(exe, CHECK_BUFLEN)
    IN  CASE vendor = {} /\ revision = {} /\ description = {} -> ERROR_INVALID_PARAMETER
          [] revision # {} /\ checks = {} -> ERROR_INVALID_PARAMETER
          [] found.rc # NO_ERROR -> found.rc
          [] OTHER ->
                 IF /\ vendor # {} => found.vendor \in vendor
                    /\ \A text \in revision : revComp(found.revision, text, checks)
                    /\ description # {} => found.description \in description
                 THEN NO_ERROR ELSE ERROR_INVALID_DATA

-----------------------------------------------------------------------------
(* The entries of a table as the writer walks it.                          *)
RECURSIVE Walked(_, _)
Walked(table, p) ==
    LET len == ByteAt(table, p)
    IN  IF len = 0 THEN <<>>
        ELSE <<[name |-> Bytes(table, p + 1, len), ordinal |-> Bytes(table, p + len + 1, 2)]>>
             \o Walked(table, p + len + 3)

Info(signature) ==
    <<AT, HASH>> \o signature.vendor \o <<COLON>> \o signature.revision
        \o <<HASH, AT>> \o signature.description

(* Mutant: the new entry is always appended.                               *)
NewTableLonger(table, text) ==
    LET old == Walked(table, 1)
    IN  FlattenSeq([i \in DOMAIN old |-> Entry(old[i].name, old[i].ordinal)])
            \o Entry(text, BLDLEVEL_ORDINAL) \o <<0>>

(* The entry of the ordinal takes the new text, or a new one is appended.  *)
NewTable(table, text) ==
    LET old == Walked(table, 1)
        new == [i \in DOMAIN old |->
                   IF old[i].ordinal = BLDLEVEL_ORDINAL
                   THEN Entry(text, BLDLEVEL_ORDINAL) ELSE Entry(old[i].name, old[i].ordinal)]
        added == \E i \in DOMAIN old : old[i].ordinal = BLDLEVEL_ORDINAL
    IN  FlattenSeq(new) \o (IF added THEN <<>> ELSE Entry(text, BLDLEVEL_ORDINAL)) \o <<0>>

(* Only the parts of the options are replaced.                             *)
Updated(current, signature, options) ==
    [vendor |-> IF "vendor" \in options THEN signature.vendor ELSE current.vendor,
     revision |-> IF "revision" \in options THEN signature.revision ELSE current.revision,
     description |-> IF "description" \in options THEN signature.description
                     ELSE current.description]

(* What lies behind the table is moved by what the table has grown, and an *)
(* offset in the header that lies behind the table with it.                *)
WtkSetBlSignature(exe, signature, options) ==
    LET ofs == IF exe.table = <<>> THEN exe.length ELSE exe.tableOfs
        moves == exe.table # <<>> /\ exe.length # exe.tableOfs + Len(exe.table)
        With(table) ==
          LET grown == Len(table) - Len(exe.table)
          IN  [exe EXCEPT !.table = table, !.tableOfs = ofs, !.length = @ + grown,
                          !.headerOfs = IF moves /\ @ > ofs THEN @ + grown ELSE @,
                          !.dataOfs = IF moves /\ @ >= ofs + Len(exe.table) THEN @ + grown ELSE @]
        current == WtkGetBlSignature(exe, 1024)
    IN  IF ~exe.isLX \/ options = {} THEN exe
        ELSE With(NewTable(exe.table, Info(Updated(current, signature, options))))

-----------------------------------------------------------------------------
(* The build level that was set is read again and found by the check, with *)
(* the parts that were not set as they were, if its text fits in an entry, *)
(* the separators do not occur in its parts and the entry comes first in   *)
(* the table, where alone the reader finds it.                             *)
Separable(signature) ==
    /\ ~Contains(signature.vendor, COLON)
    /\ FoundAt(signature.revision \o <<HASH>>, <<HASH, AT>>, 1) = 0
    /\ Last(<<0>> \o signature.revision) # HASH
    /\ WithoutBlanks(WithoutExtended(signature.description)) = signature.description

BuildLevelComesBack(exe, signature, options) ==
    LET ComesFirst(walked) == walked = <<>> \/ walked[1].ordinal = BLDLEVEL_ORDINAL
        IsRead(changed, wanted) ==
          /\ WtkGetBlSignature(changed, 1024) = [rc |-> NO_ERROR] @@ wanted
          /\ WtkCheckBlSignature(changed, {wanted.vendor}, {wanted.revision}, {"equal"},
                                 {wanted.description})
                 = IF TextLen(wanted) > CHECK_BUFLEN THEN ERROR_BUFFER_OVERFLOW ELSE NO_ERROR
        ComesBack(wanted) ==
          /\ exe.isLX /\ options # {} /\ Len(Info(wanted)) <= 255 /\ Separable(wanted)
          /\ ComesFirst(Walked(exe.table, 1))
          => IsRead(WtkSetBlSignature(exe, signature, options), wanted)
    IN  ComesBack(Updated(WtkGetBlSignature(exe, 1024), signature, options))

(* Setting a build level leaves the other names of the table as they are,  *)
(* and the header still leads to the data behind it.                       *)
Others(table) == SelectSeq(Walked(table, 1), LAMBDA e : e.ordinal # BLDLEVEL_ORDINAL)

ExecutableStaysWhole(exe, signature, options) ==
    LET Whole(new) ==
          /\ Others(new.table) = Others(exe.table)
          /\ new.headerOfs = new.dataOfs
          /\ exe.isLX => new.dataOfs \notin new.tableOfs..(new.tableOfs + Len(new.table) - 1)
    IN  Len(Info(Updated(WtkGetBlSignature(exe, 1024), signature, options))) <= 255 =>
            Whole(WtkSetBlSignature(exe, signature, options))

(* A revision is equal to, greater or lesser than another as its numbers   *)
(* are, whatever separates them.                                           *)
RevisionsCompare(numbers1, numbers2, text1, text2) ==
    LET n == IF Len(numbers1) > Len(numbers2) THEN Len(numbers1) ELSE Len(numbers2)
        at(numbers, i) == IF i \in DOMAIN numbers THEN numbers[i] ELSE 0
        greater == \E i \in 1..n : /\ at(numbers1, i) > at(numbers2, i)
                                   /\ \A j \in 1..(i - 1) : at(numbers1, j) = at(numbers2, j)
        equal == \A i \in 1..n : at(numbers1, i) = at(numbers2, i)
    IN  n <= MAX_NUMBERS =>
            /\ revComp(text1, text2, {"greater"}) = greater
            /\ revComp(text1, text2, {"equal"}) = equal
            /\ revComp(text1, text2, {"lesser", "equal"}) = ~greater
=============================================================================
