----------------------------- MODULE TextMessage -----------------------------
(***************************************************************************)
(* Text message files (source/lib/wtktmf.c).  WtkGetTextMessage compiles a *)
(* table of the messages of a file, saves it with the time stamp of the    *)
(* file as extended attributes, looks up a message by its id, reads it     *)
(* from the file and expands the placeholders in it.  Meanwhile the file   *)
(* may be edited, and the process may end.                                 *)
(*                                                                         *)
(* A text is a sequence of tokens: the end of a line, what starts and ends *)
(* a message id, and characters.  Positions count tokens, and lengths of   *)
(* the table count bytes.                                                  *)
(***************************************************************************)
EXTENDS Integers, SequencesExt

CONSTANTS
  Letter, Upper,   \* characters of ids; Upper[c] is c in upper case
  Texts,           \* what the editor saves: sequences of tokens
  Id,              \* ids that are asked for: sequences of characters
  Parms,           \* tables of values for placeholders: sequences of sequences
  cbBuffers,       \* lengths of the caller's buffer
  Modes            \* the circumstances of a behaviour, see Mode

Mode ==
  [text  : Texts,       \* the file at first
   edits : Nat,         \* bound: how often the file is edited
   ids   : SUBSET Id, parms : SUBSET Parms,
   cut   : BOOLEAN,     \* realloc may fail
   crash : BOOLEAN,     \* the process may end within a call
   calls : Nat]         \* bound: how many calls are made

Nl == "\r\n"
Opens == "<--"
Closes == "-->:"
Number(c) == CASE c = "1" -> 1 [] c = "2" -> 2 [] OTHER -> 0     \* atol of one character

ASSUME TextAssumption ==
  /\ Upper \in [Letter -> Letter]
  /\ Letter \cap {Nl, Opens, Closes, "%", ";"} = {}
  /\ cbBuffers \subseteq Nat

VARIABLES
  mode,
  text, stamp,         \* the file, and its time of the last write
  eaStamp, eaTable,    \* the extended attributes
  pc,                  \* what the call does next
  call,                \* its parameters
  pbTableData, used, room,      \* the table of the call, its length and its memory
  pbFileData, pszName,          \* the file in memory, and where the next id starts
  szStamp, size,       \* the time stamp and the length of the file it has seen
  entry,               \* the entry of the message
  message,             \* pszResult and ulSkipValue of __expandParms
  ret,                 \* what the last call returned
  edited,              \* history: the file was edited during the call
  edits, calls         \* counters for the bounds

file == <<text, stamp, edits>>
eas  == <<eaStamp, eaTable>>
table == <<pbTableData, used, room, pbFileData, pszName>>
vars == <<mode, file, eas, pc, call, table, szStamp, size, entry, message, ret, edited, calls>>

-----------------------------------------------------------------------------
(* Sequences *)

Bytes(s) ==
  LET len(c) == CASE c = Nl -> 2 [] c = Opens -> 3 [] c = Closes -> 4 [] OTHER -> 1
  IN  FoldLeft(LAMBDA n, c : n + len(c), 0, s)

\* strstr from position i on; 0 if there is nothing.
Find(s, what, i) ==
  LET at == {k \in i .. Len(s) - Len(what) + 1 : SubSeq(s, k, k + Len(what) - 1) = what}
  IN  IF at = {} THEN 0 ELSE CHOOSE k \in at : \A j \in at : k <= j

-----------------------------------------------------------------------------
(* __compileMsgTable *)

\* Where the first id starts; 0 if there is none that is complete.
FirstName(s) ==
  LET i == IF s # <<>> /\ s[1] = Opens THEN 2
           ELSE IF Find(s, <<Nl, Opens>>, 1) = 0 THEN 0 ELSE Find(s, <<Nl, Opens>>, 1) + 2
  IN  IF i = 0 \/ Find(s, <<Closes>>, i) = 0 THEN 0 ELSE i

\* A message ends where the next id starts, the last one before the end of its line.
MessageEnd(s, i) ==
  CASE Find(s, <<Nl, Opens>>, i) # 0 -> Find(s, <<Nl, Opens>>, i)
    [] Find(s, <<Nl, Opens>>, i) = 0 /\ s[Len(s)] = Nl -> Len(s)
    [] OTHER -> Len(s) + 1

\* The entry of the message whose id starts at i.
EntryAt(s, i) ==
  LET closes == Find(s, <<Closes>>, i)
  IN  [name |-> SubSeq(s, i, closes - 1), pos |-> closes + 1,
       len |-> MessageEnd(s, closes) - closes - 1,
       bytes |-> Bytes(SubSeq(s, closes + 1, MessageEnd(s, closes) - 1))]

\* Where the next id starts after the one at i; 0 if there is none that is complete.
NextName(s, i) ==
  LET at == Find(s, <<Nl, Opens>>, Find(s, <<Closes>>, i))
  IN  IF at = 0 \/ Find(s, <<Closes>>, at + 2) = 0 THEN 0 ELSE at + 2

\* "name pos len\n" with positions below 100.
EntryBytes(s, e) ==
  LET digits(n) == IF n < 10 THEN 1 ELSE 2
  IN  Bytes(e.name) + 3 + digits(Bytes(SubSeq(s, 1, e.pos - 1)))
                        + digits(e.bytes)

Grows(needed, has) == needed > has

MapCase(name) == [i \in DOMAIN name |-> IF name[i] \in Letter THEN Upper[name[i]] ELSE name[i]]

-----------------------------------------------------------------------------
(* __expandParms *)

\* A placeholder at i that has a value.
Replaced(s, i, parms) == i < Len(s) /\ Number(s[i + 1]) \in 1 .. Len(parms)

\* Mutant of Skip: a percent sign that is not replaced is found again.
SkipNot(i, skip) == skip

Skip(i, skip) == i + 1

\* One round of the loop: the text, and where the next percent sign is searched.
\* A value is searched for placeholders too.
Round(s, i, skip, parms) ==
  IF Replaced(s, i, parms)
  THEN [s |-> SubSeq(s, 1, i - 1) \o parms[Number(s[i + 1])] \o SubSeq(s, i + 2, Len(s)), skip |-> skip]
  ELSE [s |-> s, skip |-> Skip(i, skip)]

\* The message ends where a comment line starts.
WithoutComment(s) == LET i == Find(s, <<Nl, ";">>, 1) IN IF i = 0 THEN s ELSE SubSeq(s, 1, i - 1)

-----------------------------------------------------------------------------
(* WtkGetTextMessage *)

Init ==
  /\ mode \in Modes
  /\ text = mode.text /\ stamp = 0 /\ edits = 0
  /\ eaStamp = -1 /\ eaTable = <<>>
  /\ pc = "idle" /\ call = [id |-> <<>>, parms |-> <<>>, cb |-> 0]
  /\ pbTableData = <<>> /\ used = 0 /\ room = 0 /\ pbFileData = <<>> /\ pszName = 0 /\ szStamp = 0 /\ size = 0 /\ entry = <<>> /\ message = [s |-> <<>>, skip |-> 1]
  /\ ret = [rc |-> "none"] /\ edited = FALSE /\ calls = 0

\* The editor saves a text, later by two seconds or not.
Edit(s) ==
  /\ edits < mode.edits /\ edits' = edits + 1
  /\ text' = s /\ stamp' \in {stamp, stamp + 1}
  /\ edited' = TRUE
  /\ UNCHANGED <<mode, eas, pc, call, table, szStamp, size, entry, message, ret, calls>>

Keep == UNCHANGED <<mode, file, call, calls, edited>>

Return(r) == pc' = "idle" /\ ret' = r

WtkGetTextMessage(id, parms, cb) ==
  /\ pc = "idle" /\ calls < mode.calls /\ calls' = calls + 1
  /\ edited' = FALSE
  /\ call' = [id |-> id, parms |-> parms, cb |-> cb]
  /\ IF cb < 2 THEN Return([rc |-> "ERROR_BUFFER_OVERFLOW"]) ELSE pc' = "stamp" /\ UNCHANGED ret
  /\ UNCHANGED <<mode, file, eas, table, szStamp, size, entry, message>>

\* The length of the stamp in the attribute, which is saved without its zero byte.
SavedLength == 14

\* It is compared with the length of the stamp and its zero byte, so that no stamp
\* is ever current.
StampIsCurrent == eaStamp = stamp /\ SavedLength = 14 + 1

\* If it were, the table would not be read, as WtkQueryEaSize does not return the
\* error that is waited for, but no table would count as one.
QueryStamp ==
  /\ pc = "stamp"
  /\ szStamp' = stamp /\ size' = Bytes(text)
  /\ pc' = IF StampIsCurrent THEN "null" ELSE "read"
  /\ UNCHANGED <<eas, table, entry, ret, message>> /\ Keep

\* The file is read, and its first id searched.
ReadFile ==
  /\ pc = "read"
  /\ pbFileData' = text /\ pszName' = FirstName(text)
  /\ pbTableData' = <<>> /\ used' = 0 /\ room' = size \div 2
  /\ IF FirstName(text) = 0 THEN Return([rc |-> "ERROR_INVALID_DATA"])
                            ELSE pc' = "scan" /\ UNCHANGED ret
  /\ UNCHANGED <<eas, szStamp, size, entry, message>> /\ Keep

\* A round of the loop: an entry is added to the table, whose memory grows by half
\* of the file, but once.  If realloc fails, the table is taken as it is.
AddEntry ==
  /\ pc = "scan" /\ pszName # 0
  /\ \E e \in {EntryAt(pbFileData, pszName)} :
     \E needed \in {used + EntryBytes(pbFileData, e) + 1} :
     \E larger \in {room + IF Grows(needed, room) THEN size \div 2 ELSE 0} :
         \/ /\ mode.cut /\ Grows(needed, room)
            /\ pc' = "writeStamp"
            /\ UNCHANGED <<pbTableData, used, room, pszName>>
         \/ /\ needed > larger
            /\ pc' = "trap"
            /\ UNCHANGED <<pbTableData, used, room, pszName>>
         \/ /\ needed <= larger
            /\ pbTableData' = Append(pbTableData, e)
            /\ used' = needed - 1 /\ room' = larger
            /\ pszName' = NextName(pbFileData, pszName)
            /\ UNCHANGED pc
  /\ UNCHANGED <<eas, pbFileData, szStamp, size, entry, message, ret>> /\ Keep

TableIsComplete ==
  /\ pc = "scan" /\ pszName = 0
  /\ pc' = "writeStamp"
  /\ UNCHANGED <<eas, table, szStamp, size, entry, message, ret>> /\ Keep

WriteStamp ==
  /\ pc = "writeStamp"
  /\ \/ eaStamp' = szStamp /\ pc' = "writeTable" /\ UNCHANGED ret
     \/ Return([rc |-> "ERROR_SHARING_VIOLATION"]) /\ UNCHANGED eaStamp
  /\ UNCHANGED <<eaTable, table, szStamp, size, entry, message>> /\ Keep

\* The table is saved as it is, and looked at in upper case.
WriteTable ==
  /\ pc = "writeTable"
  /\ \/ /\ eaTable' = pbTableData /\ pc' = "look" /\ UNCHANGED ret
        /\ pbTableData' = [k \in DOMAIN pbTableData |-> [pbTableData[k] EXCEPT !.name = MapCase(@)]]
     \/ Return([rc |-> "ERROR_SHARING_VIOLATION"]) /\ UNCHANGED <<eaTable, pbTableData>>
  /\ UNCHANGED <<eaStamp, used, room, pbFileData, pszName, szStamp, size, entry, message>> /\ Keep

\* Mutant of IsName: any name that starts so.
IsNamePrefix(name) == IsPrefix(call.id, name)

\* An entry starts with the id and a blank.
IsName(name) == name = call.id

LookUp ==
  /\ pc = "look"
  /\ \E at \in {{k \in DOMAIN pbTableData : IsName(pbTableData[k].name)}} :
     \/ at = {} /\ Return([rc |-> "ERROR_MR_MID_NOT_FOUND"]) /\ UNCHANGED entry
     \/ /\ at # {}
        /\ entry' = pbTableData[CHOOSE k \in at : \A j \in at : k <= j]
        /\ IF entry'.bytes >= call.cb
           THEN Return([rc |-> "ERROR_BUFFER_OVERFLOW"])
           ELSE pc' = "part" /\ UNCHANGED ret
  /\ UNCHANGED <<eas, table, szStamp, size, message>> /\ Keep

\* WtkReadFilePart: what is beyond the end of the file is not read, and no error.
Part(s, pos, len) == [i \in 1 .. len |-> IF pos + i - 1 \in DOMAIN s THEN s[pos + i - 1] ELSE "left"]

\* The message is read at its position in the file.
ReadMessage ==
  /\ pc = "part"
  /\ message' = [s |-> Part(text, entry.pos, entry.len), skip |-> 1]
  /\ pc' = "expand"
  /\ UNCHANGED <<eas, table, szStamp, size, entry, ret>> /\ Keep

\* A round of __expandParms, or the end of the call.
Expand ==
  /\ pc = "expand"
  /\ \E i \in {Find(message.s, <<"%">>, message.skip)} :
     IF i # 0 /\ call.parms # <<>>
     THEN message' = Round(message.s, i, message.skip, call.parms) /\ UNCHANGED <<pc, ret>>
     ELSE /\ Return(IF Bytes(message.s) + 1 > call.cb THEN [rc |-> "ERROR_BUFFER_OVERFLOW"]
                    ELSE [rc |-> "NO_ERROR", text |-> WithoutComment(message.s)])
          /\ UNCHANGED message
  /\ UNCHANGED <<eas, table, szStamp, size, entry>> /\ Keep

\* The process ends; its memory is gone, the attributes are not.
Crash ==
  /\ mode.crash /\ pc # "idle"
  /\ pc' = "idle" /\ ret' = [rc |-> "none"]
  /\ pbTableData' = <<>> /\ used' = 0 /\ room' = 0 /\ pbFileData' = <<>> /\ pszName' = 0
  /\ UNCHANGED <<eas, szStamp, size, entry, message>> /\ Keep

Steps == QueryStamp \/ ReadFile \/ AddEntry \/ TableIsComplete \/ WriteStamp \/ WriteTable \/ LookUp \/ ReadMessage \/ Expand

Next ==
  \/ \E s \in Texts : Edit(s)
  \/ \E id \in mode.ids, parms \in mode.parms, cb \in cbBuffers : WtkGetTextMessage(id, parms, cb)
  \/ Steps \/ Crash

Spec == Init /\ [][Next]_vars /\ WF_vars(Steps)
-----------------------------------------------------------------------------
(* Properties *)

TypeOK ==
  /\ mode \in Modes /\ text \in Texts
  /\ message.skip \in 1 .. Len(message.s) + 1
  /\ eaStamp \in -1 .. stamp /\ szStamp \in 0 .. stamp
  /\ pc \in {"idle", "stamp", "read", "scan", "writeStamp", "writeTable", "look", "part", "expand", "trap", "null"}
  /\ pc \in {"look", "part", "expand"} => eaStamp # -1
  /\ edits \in 0 .. mode.edits /\ calls \in 0 .. mode.calls

\* The format of a text message file: an id starts a line and is complete.
IdAt(s, i) == s[i] = Opens /\ (i = 1 \/ s[i - 1] = Nl)
IdEnd(s, i) == CHOOSE j \in i .. Len(s) : s[j] = Closes /\ \A k \in i .. j - 1 : s[k] # Closes
WellFormed(s) ==
  \A i \in DOMAIN s : IdAt(s, i) =>
    \E j \in i + 1 .. Len(s) : s[j] = Closes /\ \A k \in i + 1 .. j - 1 : s[k] \in Letter

\* Where the message of an id starts, by the format: 0 if there is none.
IdsOf(s, id) == {i \in DOMAIN s : IdAt(s, i) /\ MapCase(SubSeq(s, i + 1, IdEnd(s, i) - 1)) = id}

\* The message lasts up to the next id, without the end of its last line.
Body(s, i) ==
  LET ends == {j \in IdEnd(s, i) + 1 .. Len(s) : s[j] = Nl /\ (j = Len(s) \/ IdAt(s, j + 1))}
  IN  SubSeq(s, IdEnd(s, i) + 1, IF ends = {} THEN Len(s) ELSE (CHOOSE j \in ends : \A k \in ends : j <= k) - 1)

\* Each placeholder that has a value is replaced by it, all at the same time.
Substituted(s, parms) ==
  LET from[i \in 1 .. Len(s) + 2] ==
        IF i > Len(s) THEN <<>>
        ELSE IF s[i] = "%" /\ i < Len(s) /\ Number(s[i + 1]) \in DOMAIN parms
        THEN parms[Number(s[i + 1])] \o from[i + 2]
        ELSE <<s[i]>> \o from[i + 1]
  IN  from[1]

Plain(parms) == \A k \in DOMAIN parms : "%" \notin ToSet(parms[k])

Answers == pc = "idle" /\ ~edited /\ WellFormed(text) /\ Plain(call.parms)

\* A message that is returned is the first one with its id, with its placeholders
\* replaced and up to the first comment; and if no memory fails, an id that is
\* not found is not there in upper case.
MessageIsThatOfTheId ==
  Answers =>
    \A ids \in {IdsOf(text, call.id)} :
      /\ ret.rc = "NO_ERROR" =>
           \E i \in ids : /\ \A j \in ids : i <= j
                          /\ \E body \in {Body(text, i)} : ret.text = WithoutComment(Substituted(body, call.parms))
      /\ ret.rc = "ERROR_MR_MID_NOT_FOUND" /\ ~mode.cut => ids = {}

\* The table stays in its memory, if no entry takes more bytes than half of the
\* file; and the process never goes on without a table.
TableFits ==
  /\ pc = "trap" => EntryBytes(pbFileData, EntryAt(pbFileData, pszName)) > size \div 2
  /\ pc # "null"

\* The table stays whole, and the message found in it is the one asked for.
MessageIsRight ==
  /\ TypeOK
  /\ MessageIsThatOfTheId
  /\ TableFits

\* Every call returns, if the table stays in its memory and no value holds a
\* placeholder.
CallsReturn ==
  (\A parms \in mode.parms : Plain(parms)) => []<>(pc \in {"idle", "trap"})
=============================================================================
