------------------------------ MODULE SysLevel ------------------------------
(***************************************************************************)
(* The SYSLEVEL files (wtkfslvl.c): a handle holds the table of the file,  *)
(* which is read when it is first needed, changed in memory, and written   *)
(* when the handle is closed for update.                                   *)
(*                                                                         *)
(* The table holds the version in half bytes and two CSD levels, each a    *)
(* prefix of two characters, a language, a number of four characters and   *)
(* an underscore.  Other fields are of one value.                          *)
(***************************************************************************)
EXTENDS Integers, Sequences, SequencesExt

MAXLEN_PREFIX == 2
MAXLEN_CSDNUM == 4
NUL == "0"              \* stands for the byte zero
UNDERSCORE == "_"

NO_ERROR == 0
ERROR_INVALID_DATA == 13
ERROR_INVALID_PARAMETER == 87

(* The fields of a SYSLEVELINFO and their update flags, two of which stand *)
(* for two fields each.                                                    *)
Fields == {"sysid", "compid", "name", "version", "prefix", "language",
           "current", "previous", "date", "type"}
Plain == {"sysid", "compid", "name", "date", "type"}

Flag(field) ==
    CASE field = "sysid" -> 1
      [] field = "compid" -> 2
      [] field = "name" -> 4
      [] field = "version" -> 8
      [] field \in {"prefix", "date"} -> 16
      [] field \in {"language", "type"} -> 32
      [] field = "current" -> 64
      [] field = "previous" -> 128

UpdateFlags(asked) == {Flag(field) : field \in asked}

-----------------------------------------------------------------------------
(* A text in a field of fixed length is filled up with zero bytes, and     *)
(* ends at the first one.                                                  *)
Filled(text, len) == [i \in 1..len |-> IF i \in DOMAIN text THEN text[i] ELSE NUL]
UpToNul(bytes) ==
    LET end == SelectInSeq(bytes, LAMBDA c : c = NUL)
    IN  IF end = 0 THEN bytes ELSE SubSeq(bytes, 1, end - 1)

(* Leading characters are cut off, trailing ones only if more is left than *)
(* was cut off.                                                            *)
strip(text, ch) ==
    LET first == SelectInSeq(text, LAMBDA c : c # ch)
        last == SelectLastInSeq(text, LAMBDA c : c # ch)
        cut == IF first = 0 THEN Len(text) ELSE first - 1
    IN  CASE first = 0 -> <<>>
          [] first # 0 /\ Len(text) - cut > cut -> SubSeq(text, first, last)
          [] OTHER -> SubSeq(text, first, Len(text))

CsdPart(csd, from, len) == SubSeq(csd, from, from + len - 1)
CsdNumber(csd) == strip(UpToNul(CsdPart(csd, MAXLEN_PREFIX + 2, MAXLEN_CSDNUM)), UNDERSCORE)
WithPart(csd, from, bytes) ==
    [i \in DOMAIN csd |-> IF i - from + 1 \in DOMAIN bytes THEN bytes[i - from + 1] ELSE csd[i]]
WithNumber(csd, number) ==
    WithPart(csd, MAXLEN_PREFIX + 2, Filled(number, MAXLEN_CSDNUM) \o <<UNDERSCORE>>)

-----------------------------------------------------------------------------
(* The information a table stands for.                                     *)
InfoOf(table) ==
    [field \in Fields |->
        CASE field = "version" -> [major |-> table.version \div 16,
                                   minor |-> ((table.version % 16) * 16 + table.modify) % 256,
                                   refresh |-> table.refresh]
          [] field = "prefix" -> UpToNul(CsdPart(table.csd, 1, MAXLEN_PREFIX))
          [] field = "language" -> table.csd[MAXLEN_PREFIX + 1]
          [] field = "current" -> CsdNumber(table.csd)
          [] field = "previous" -> CsdNumber(table.csdPrev)
          [] OTHER -> table[field]]

(* One update after the other, each of the flags that are set.             *)
SetPlain(table, flags, info) ==
    [field \in DOMAIN table |->
        IF field \in Plain /\ Flag(field) \in flags THEN info[field] ELSE table[field]]

SetVersion(table, flags, info) ==
    IF Flag("version") \notin flags THEN table
    ELSE [table EXCEPT !.version = ((info["version"].major * 16) % 256)
                                         + (info["version"].minor \div 16),
                       !.modify = info["version"].minor % 16,
                       !.refresh = info["version"].refresh]

SetCsd(table, flags, info) ==
    LET prefixed == IF Flag("prefix") \in flags
                    THEN WithPart(table.csd, 1, Filled(info["prefix"], MAXLEN_PREFIX))
                    ELSE table.csd
        spoken(csd) == IF Flag("language") \in flags
                       THEN WithPart(csd, MAXLEN_PREFIX + 1, <<info["language"]>>) ELSE csd
        numbered(csd, field) == IF Flag(field) \in flags THEN WithNumber(csd, info[field]) ELSE csd
    IN  [table EXCEPT !.csd = numbered(spoken(prefixed), "current"),
                      !.csdPrev = numbered(spoken(table.csdPrev), "previous")]

-----------------------------------------------------------------------------
(* The file is [valid, table]; the handle has read its table or not.       *)
WtkOpenSyslevel(file) ==
    [file |-> file, fDataRead |-> FALSE, fDataModified |-> FALSE, table |-> file.table]

WtkQuerySyslevelInfo(hsl) ==
    IF ~hsl.fDataRead /\ ~hsl.file.valid THEN [rc |-> ERROR_INVALID_DATA, hsl |-> hsl]
    ELSE [rc |-> NO_ERROR, hsl |-> [hsl EXCEPT !.fDataRead = TRUE], info |-> InfoOf(hsl.table)]

(* If the data was not read yet, it is read into the information of the    *)
(* caller, which is then what the table is updated with.                   *)
WtkSetSyslevelInfo(hsl, flags, info) ==
    LET read == WtkQuerySyslevelInfo(hsl)
        used == IF hsl.fDataRead THEN info ELSE read.info
        table == SetCsd(SetVersion(SetPlain(hsl.table, flags, used), flags, used), flags, used)
    IN  CASE flags = {} -> [rc |-> ERROR_INVALID_PARAMETER, hsl |-> hsl]
          [] flags # {} /\ Flag("version") \in flags /\ info["version"].major > 15 ->
                 [rc |-> ERROR_INVALID_DATA, hsl |-> hsl]
          [] OTHER -> IF read.rc # NO_ERROR THEN read
                      ELSE [rc |-> NO_ERROR,
                            hsl |-> [read.hsl EXCEPT !.fDataModified = TRUE, !.table = table]]

(* The file after the handle was closed.                                   *)
WtkCloseSyslevel(hsl, update) ==
    IF hsl.fDataRead /\ hsl.fDataModified /\ update
    THEN [hsl.file EXCEPT !.table = hsl.table] ELSE hsl.file

-----------------------------------------------------------------------------
(* A program that has asked for the information, changes fields one after  *)
(* the other and closes the file finds, when it opens the file again, the  *)
(* fields as it set them last, and all others as they were.  A field whose *)
(* flag is also that of another field, for which it was asked, is left     *)
(* open until it is asked for itself: the code changes it as well, where   *)
(* the description (wtkfslvl.c 440-458) has a flag for each.               *)
Changed(hsl, changes) ==
    FoldLeft(LAMBDA h, change : WtkSetSyslevelInfo(h, UpdateFlags(change.fields), change.info).hsl,
             hsl, changes)

Expected(info, changes) ==
    FoldLeft(LAMBDA i, change : [field \in Fields |->
                 IF field \in change.fields THEN change.info[field] ELSE i[field]],
             info, changes)

LeftOpen(changes) ==
    {field \in Fields : \E k \in DOMAIN changes :
        /\ field \notin changes[k].fields /\ Flag(field) \in UpdateFlags(changes[k].fields)
        /\ \A later \in (k + 1)..Len(changes) : field \notin changes[later].fields}

SyslevelKeepsChanges(file, changes, update) ==
    LET asked == WtkQuerySyslevelInfo(WtkOpenSyslevel(file))
        after == WtkCloseSyslevel(Changed(asked.hsl, changes), update)
        stored == IF update THEN changes ELSE <<>>
    IN  file.valid => \A field \in Fields \ LeftOpen(stored) :
                          WtkQuerySyslevelInfo(WtkOpenSyslevel(after)).info[field]
                              = Expected(asked.info, stored)[field]
=============================================================================
