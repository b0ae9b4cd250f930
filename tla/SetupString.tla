----------------------------- MODULE SetupString -----------------------------
(***************************************************************************)
(* The setup strings of Workplace Shell objects (wtkset1.c): settings like *)
(* NAME=value, separated by semicolons, in which a value may hold a        *)
(* separator behind an escape character.  The functions work on a copy of  *)
(* the string and change it in place, while the offset they find there is  *)
(* used for the string of the caller.                                      *)
(*                                                                         *)
(* A string is a sequence of characters.  Names are compared without       *)
(* regard to case and are upper case here already.                         *)
(***************************************************************************)
EXTENDS Integers, Sequences, SequencesExt

CHAR_DELIMITER == ";"
CHAR_ESCAPE == "^"
CHAR_EQUAL == "="

NO_ERROR == 0
ERROR_FILE_NOT_FOUND == 2
ERROR_INVALID_PARAMETER == 87
ERROR_BUFFER_OVERFLOW == 111

(* What stands in a string that was copied from a wild pointer.            *)
Wild == <<"wild">>

-----------------------------------------------------------------------------
(* The scan of one setting: what was read of it, the escape characters     *)
(* taken out of its value, and the number of characters passed.            *)
AtName == [name |-> <<>>, value |-> <<>>, inValue |-> FALSE, escaped |-> FALSE,
           ended |-> FALSE, removed |-> 0, passed |-> 0]

(* A character of the name or, unescaped, of the value.  An equal sign in  *)
(* a value starts the value again.                                         *)
ReadPlain(scan, c) ==
    CASE c = CHAR_DELIMITER -> [scan EXCEPT !.ended = TRUE]
      [] c = CHAR_EQUAL -> [scan EXCEPT !.inValue = TRUE, !.value = <<>>]
      [] c = CHAR_ESCAPE /\ scan.inValue ->
             [scan EXCEPT !.escaped = TRUE, !.removed = @ + 1]
      [] scan.inValue -> [scan EXCEPT !.value = Append(@, c)]
      [] OTHER -> [scan EXCEPT !.name = Append(@, c)]

(* Mutant: the character behind an escape character is read like others.   *)
ReadCharPlain(scan, c) ==
    IF scan.ended THEN scan
    ELSE [ReadPlain([scan EXCEPT !.escaped = FALSE], c) EXCEPT !.passed = @ + 1]

(* The escape character is overwritten by the one behind it, which is      *)
(* taken as it is.                                                         *)
ReadChar(scan, c) ==
    IF scan.ended THEN scan
    ELSE LET read == IF scan.escaped
                     THEN [scan EXCEPT !.escaped = FALSE, !.value = Append(@, c)]
                     ELSE ReadPlain(scan, c)
         IN  [read EXCEPT !.passed = @ + 1]

(* The first setting of a string: its name and value, and where in the     *)
(* copy the next one begins, if there is one.                              *)
splitSetupString(text) ==
    LET Found(scan) ==
          LET more == scan.ended /\ scan.passed < Len(text)
          IN  [name |-> scan.name,
               value |-> scan.value,
               more |-> more,
               rest |-> IF more THEN SubSeq(text, scan.passed + 1, Len(text)) ELSE <<>>,
               passed |-> scan.passed - scan.removed]
    IN  Found(FoldLeft(ReadChar, AtName, text))

(* All settings of the string, with the offsets in the copy at which they  *)
(* begin and at which the next one does.                                   *)
RECURSIVE SettingsFrom(_, _)
SettingsFrom(text, offset) ==
    LET From(one) ==
          <<[setting |-> one, begins |-> offset, next |-> offset + one.passed]>>
              \o IF one.more THEN SettingsFrom(one.rest, offset + one.passed) ELSE <<>>
    IN  From(splitSetupString(text))

-----------------------------------------------------------------------------
(* The setting is cut out of the string of the caller at the offsets found *)
(* in the copy; behind the last setting there is no offset.                *)
Deleted(text, found) ==
    IF found.setting.more
    THEN SubSeq(text, 1, found.begins) \o SubSeq(text, found.next + 1, Len(text))
    ELSE SubSeq(text, 1, found.begins) \o Wild

maintainSetupString(text, name, buflen, delete) ==
    LET Answer(rc, value, setup) == [rc |-> rc, value |-> value, setup |-> setup]
        Rest(found) == IF delete THEN Deleted(text, found) ELSE text
        Of(found) == IF Len(found.setting.value) + 1 <= buflen
                     THEN Answer(NO_ERROR, found.setting.value, Rest(found))
                     ELSE Answer(ERROR_BUFFER_OVERFLOW, <<>>, Rest(found))
        First(named) == IF named = <<>> THEN Answer(ERROR_FILE_NOT_FOUND, <<>>, text)
                        ELSE Of(Head(named))
    IN  IF text = <<>> \/ name = <<>> \/ buflen = 0
        THEN Answer(ERROR_INVALID_PARAMETER, <<>>, text)
        ELSE First(SelectSeq(SettingsFrom(text, 0), LAMBDA one : one.setting.name = name))

WtkScanSetupString(text, name, buflen) == maintainSetupString(text, name, buflen, FALSE)

WtkExtractSetupString(text, name, buflen) == maintainSetupString(text, name, buflen, TRUE)

(* The caller's pointer is moved on by the offset found in the copy.       *)
WtkSplitSetupString(text, namelen, valuelen) ==
    LET Taken(one) ==
          IF Len(one.name) + 1 <= namelen /\ Len(one.value) + 1 <= valuelen
          THEN [rc |-> NO_ERROR, name |-> one.name, value |-> one.value,
                setup |-> IF one.more THEN SubSeq(text, one.passed + 1, Len(text)) ELSE <<>>]
          ELSE [rc |-> ERROR_BUFFER_OVERFLOW, name |-> <<>>, value |-> <<>>, setup |-> text]
    IN  Taken(splitSetupString(text))

(* The settings a caller gets that splits the string until nothing is left *)
RECURSIVE SplitAll(_, _)
SplitAll(text, buflen) ==
    LET From(one) == IF one.rc # NO_ERROR THEN <<>>
                     ELSE <<[name |-> one.name, value |-> one.value]>> \o SplitAll(one.setup, buflen)
    IN  IF text = <<>> THEN <<>> ELSE From(WtkSplitSetupString(text, buflen, buflen))
-----------------------------------------------------------------------------
(***************************************************************************)
(* What a setup string stands for: settings, written one behind the other, *)
(* with an escape character in front of each special character of a value. *)
(***************************************************************************)
Special == {CHAR_DELIMITER, CHAR_ESCAPE, CHAR_EQUAL}

Escaped(value) ==
    FlattenSeq([i \in DOMAIN value |->
        IF value[i] \in Special THEN <<CHAR_ESCAPE, value[i]>> ELSE <<value[i]>>])

WriteSetup(settings) ==
    FlattenSeq([i \in DOMAIN settings |->
        settings[i].name \o <<CHAR_EQUAL>> \o Escaped(settings[i].value) \o <<CHAR_DELIMITER>>])

NeedsEscape(settings) ==
    \E i \in DOMAIN settings : \E j \in DOMAIN settings[i].value : settings[i].value[j] \in Special

FirstNamed(settings, name) == SelectInSeq(settings, LAMBDA one : one.name = name)

-----------------------------------------------------------------------------
(* WtkScanSetupString returns the value of the first setting of the name   *)
(* as it was before it was written, whatever characters it or the settings *)
(* before it hold, or says that there is no such setting or that the       *)
(* buffer is too small.                                                    *)
ScanFinds(settings, name, buflen) ==
    LET first == FirstNamed(settings, name)
        Right(answer) ==
            CASE first = 0 -> answer.rc = ERROR_FILE_NOT_FOUND
              [] first # 0 /\ Len(settings[first].value) < buflen ->
                     answer.rc = NO_ERROR /\ answer.value = settings[first].value
              [] OTHER -> answer.rc = ERROR_BUFFER_OVERFLOW
    IN  settings # <<>> => Right(WtkScanSetupString(WriteSetup(settings), name, buflen))

(* WtkExtractSetupString leaves the other settings, unless the setting is  *)
(* the last one or the escape characters shift the offsets.                *)
ExtractLeavesOthers(settings, name, buflen) ==
    LET first == FirstNamed(settings, name)
    IN  first # 0 /\ first < Len(settings) /\ ~NeedsEscape(settings) =>
            WtkExtractSetupString(WriteSetup(settings), name, buflen).setup
                = WriteSetup(RemoveAt(settings, first))

(* A caller that splits the string again and again gets every setting,     *)
(* unless the escape characters shift the offsets.                         *)
SplitGivesAll(settings, buflen) ==
    (\A i \in DOMAIN settings : Len(settings[i].value) < buflen /\ Len(settings[i].name) < buflen)
    /\ ~NeedsEscape(settings)
        => SplitAll(WriteSetup(settings), buflen) = settings
==============================================================================
