----------------------------- MODULE InitProfile -----------------------------
(***************************************************************************)
(* A text initialization file opened by WtkOpenInitProfile                 *)
(* (source/lib/wtkfinit.c): the tree in memory, the calls that query and   *)
(* change it, and the two ways to close it, which write the file line by   *)
(* line.  A step of writing is a line that reaches the disk, so that the   *)
(* process can end, or a write fail, between any two of them.              *)
(*                                                                         *)
(* WtkCloseInitProfileBackup does not close the stream by which it updates *)
(* the original file: the lines that are still in its buffer reach the     *)
(* disk when the process ends.                                             *)
(***************************************************************************)
EXTENDS InitText

CONSTANTS
  Absent,        \* a file that does not exist
  Garbled,       \* a file to which two streams have written
  AppSection, AppKey, AppValue,   \* what the application writes
  BufferLength,  \* lengths of the buffers it passes for lists of names
  Modes          \* see Mode

OpenMode    == {"READONLY", "READWRITE", "INMEMORY"}
SystemCalls == {"open", "copy", "write", "malloc", "strdup"}

Mode ==
  [discard  : BOOLEAN,              \* WTK_INIT_UPDATE_DISCARDCOMMENTS
   soft     : BOOLEAN,              \* WTK_INIT_UPDATE_SOFTDELETEKEYS
   slash    : BOOLEAN,              \* the comment characters include '/'
   open     : SUBSET OpenMode,      \* ulOpenMode of the calls
   asks     : BOOLEAN,              \* the application queries the profile
   image    : {Absent} \cup Seq(Line),   \* the file before the first call
   failures : SUBSET SystemCalls,   \* the calls that may fail
   opens    : Nat,                  \* bound: how often the profile is opened
   changes  : Nat]                  \* bound: how many calls change the tree

\* The application and whoever has made the file use no names twice, and values
\* that begin with a quote end with one.
ASSUME ProfileAssumption ==
  /\ AppSection \cup AppKey \subseteq Name
  /\ Absent # Garbled /\ {Absent, Garbled} \cap Seq(Line) = {}
  /\ Modes \subseteq Mode
  /\ \A m \in Modes :
       /\ m.image # Absent => PlainFile(m.image, m.slash)
       /\ AppValue \subseteq Seq(Token) /\ \A v \in AppValue : PlainValue(v, m.slash)

VARIABLES
  mode,             \* the same throughout a behaviour
  file, backup,     \* the lines of the file and of its backup on the disk
  stored,           \* history: the values that are read from the file as it is
  pc,               \* "none", "open", or what WtkCloseInitProfile* is doing
  ulOpenMode, pfile, fModified, psectionFirst,   \* of the INIT structure
  buffered,         \* lines that the call has written to its stream, and that
                    \* are not on the disk yet
  leaked,           \* such lines of a stream for the file that was not closed
  overtaken,        \* the file has been written again while there were some
  ret,              \* the last call that returned, and what it returned
  opens, changes,   \* counters for the bounds
  opened,           \* history: the tree as it was read
  atClose,          \* history: the file as WtkCloseInitProfileBackup finds it, if
                    \* it is to update it and no other stream has lines for it
  lost              \* history: a line was not written

initVars   == <<ulOpenMode, pfile, fModified, psectionFirst>>
fileVars   == <<file, stored>>
diskVars   == <<fileVars, backup>>
streamVars == <<buffered, leaked, overtaken, lost>>
history    == <<opened, atClose>>
vars == <<mode, diskVars, pc, initVars, streamVars, ret, opens, changes, history>>

Closing == {"update", "copy", "createOriginal", "createBackup", "updateOriginal", "updateBackup"}

\* Types that TLC can test: sequences over a set are functions into it.
Lines(s)    == \A i \in DOMAIN s : s[i].kind \in Kind /\ s[i].name \in Name \cup {NoName}
Sections(t) == \A i \in DOMAIN t : /\ t[i].name \in Name /\ Lines(t[i].comment) /\ Lines(t[i].tail)
                                   /\ \A j \in DOMAIN t[i].keys :
                                        /\ t[i].keys[j].name \in Name /\ t[i].keys[j].value # <<>>

TypeOK ==
  /\ mode \in Modes
  /\ file \in {Absent, Garbled} \/ Lines(file)
  /\ backup = Absent \/ Lines(backup)
  /\ pc \in {"none", "open"} \cup Closing
  /\ ulOpenMode \in OpenMode /\ pfile \in BOOLEAN /\ fModified \in BOOLEAN
  /\ Sections(psectionFirst)
  /\ Lines(buffered) /\ Lines(leaked)
  /\ overtaken \in BOOLEAN /\ lost \in BOOLEAN
  /\ opens \in 0 .. mode.opens /\ changes \in 0 .. mode.changes

Values(sections) == [x \in Name \X Name |-> ValueOf(sections, x[1], x[2])]

Readable(f) == f \notin {Absent, Garbled}

InFile(f) == Values(IF Readable(f) THEN Parse(f, mode.slash).sections ELSE <<>>)

FileBecomes(f) == file' = f /\ stored' = InFile(f)

MayFail(call) == call \in mode.failures

Return(call, rc) == ret' = [call |-> call, rc |-> rc]

Init ==
  /\ mode \in Modes
  /\ file = mode.image /\ stored = InFile(mode.image) /\ backup = Absent
  /\ pc = "none"
  /\ ulOpenMode = "INMEMORY" /\ pfile = FALSE /\ fModified = FALSE /\ psectionFirst = <<>>
  /\ buffered = <<>> /\ leaked = <<>> /\ overtaken = FALSE /\ lost = FALSE
  /\ ret = [call |-> "none", rc |-> "NO_ERROR"]
  /\ opens = 0 /\ changes = 0
  /\ opened = <<>> /\ atClose = Absent

\* _freeINIT: the handle and its tree are gone.
Free ==
  /\ pc' = "none"
  /\ ulOpenMode' = "INMEMORY" /\ pfile' = FALSE /\ fModified' = FALSE /\ psectionFirst' = <<>>
  /\ opened' = <<>>

-----------------------------------------------------------------------------
(* WtkOpenInitProfile *)

OpenBegins(m) ==
  /\ pc = "none" /\ opens < mode.opens /\ opens' = opens + 1
  /\ m \in mode.open /\ file # Garbled

\* fopen creates a file that is to be written, in its second try.
Opened(m) == IF m = "READWRITE" /\ file = Absent THEN <<>> ELSE file

OpenHandle(m, sections) ==
  /\ pc' = "open" /\ ulOpenMode' = m /\ pfile' = (m # "INMEMORY") /\ fModified' = FALSE
  /\ psectionFirst' = sections /\ opened' = sections
  /\ atClose' = Absent /\ lost' = FALSE
  /\ Return("open", "NO_ERROR")
  /\ UNCHANGED <<mode, backup, buffered, leaked, overtaken, changes>>

OpenInMemory ==
  /\ OpenBegins("INMEMORY") /\ OpenHandle("INMEMORY", <<>>)
  /\ UNCHANGED fileVars

OpenFile(m) ==
  /\ OpenBegins(m) /\ m # "INMEMORY"
  /\ Opened(m) # Absent /\ FileBecomes(Opened(m))
  /\ LET st == Parse(Opened(m), mode.slash)
     IN  st.rc = "NO_ERROR" /\ OpenHandle(m, st.sections)

\* No handle is returned: the file is not there or cannot be read, or there is
\* no memory; a new file may have been created.
OpenFails(m) ==
  /\ OpenBegins(m)
  /\ \/ /\ m # "INMEMORY" /\ FileBecomes(Opened(m)) /\ Opened(m) # Absent
        /\ LET rc == Parse(Opened(m), mode.slash).rc
           IN  rc # "NO_ERROR" /\ Return("open", rc)
     \/ /\ m # "INMEMORY" /\ (Opened(m) = Absent \/ MayFail("open"))
        /\ Return("open", "ERROR_OPEN_FAILED") /\ UNCHANGED fileVars
     \/ /\ MayFail("malloc") /\ Return("open", "ERROR_NOT_ENOUGH_MEMORY")
        /\ \E f \in {file, Opened(m)} : FileBecomes(f)
  /\ UNCHANGED <<mode, backup, pc, initVars, streamVars, changes, history>>

-----------------------------------------------------------------------------
(* WtkWriteInitProfileString, by what is given and what is found *)

SectionAt(s) == Find(psectionFirst, s)
KeyAt(s, k)  == IF SectionAt(s) = 0 THEN 0 ELSE Find(psectionFirst[SectionAt(s)].keys, k)

\* The call leaves the tree as t.  If there is no error and the value was
\* another one, it sets fModified.
LeaveTree(t, rc, changed) ==
  /\ pc = "open" /\ changes < mode.changes /\ changes' = changes + 1
  /\ psectionFirst' = t
  /\ fModified' = (fModified \/ (rc = "NO_ERROR" /\ changed))
  /\ UNCHANGED <<mode, diskVars, pc, ulOpenMode, pfile, streamVars, opens, history>>

ReturnTree(t, rc, changed) == LeaveTree(t, rc, changed) /\ Return("write", rc)

WriteValue(s, k, v) ==
  LET i == SectionAt(s)
      j == KeyAt(s, k)
      same == psectionFirst[i].keys[j].value = v
  IN  /\ j # 0
      /\ \/ ReturnTree(SetValue(psectionFirst, i, j, v), "NO_ERROR", ~same)
         \/ /\ ~same /\ MayFail("strdup")
            /\ ReturnTree(psectionFirst, "ERROR_NOT_ENOUGH_MEMORY", FALSE)

\* If a name cannot be copied, _createSECTION and _createKEY take the entry out
\* of the tree and free it, but return its address: the call goes on with it
\* and reports NO_ERROR.  (What it writes there is assumed to hit nothing.)
LoseEntry(t) == LeaveTree(t, "NO_ERROR", TRUE) /\ Return("writeLost", "NO_ERROR")

CreateKey(s, k, v) ==
  LET i == SectionAt(s)
      t == IF i = 0 THEN AddSection(psectionFirst, s) ELSE psectionFirst
      n == IF i = 0 THEN Len(t) ELSE i
  IN  /\ KeyAt(s, k) = 0
      /\ \/ ReturnTree(AddKey(t, n, k, v), "NO_ERROR", TRUE)
         \/ MayFail("malloc") /\ i = 0 /\ ReturnTree(psectionFirst, "ERROR_NOT_ENOUGH_MEMORY", FALSE)
         \/ MayFail("malloc") /\ ReturnTree(t, "ERROR_NOT_ENOUGH_MEMORY", FALSE)
         \/ MayFail("strdup") /\ i = 0 /\ LoseEntry(psectionFirst)
         \/ MayFail("strdup") /\ LoseEntry(t)

DeleteKey(s, k) ==
  \/ /\ KeyAt(s, k) # 0
     /\ \/ ReturnTree(RemoveKey(psectionFirst, SectionAt(s), KeyAt(s, k), mode.soft), "NO_ERROR", TRUE)
        \/ mode.soft /\ MayFail("malloc") /\ ReturnTree(psectionFirst, "ERROR_FILE_NOT_FOUND", FALSE)
  \/ KeyAt(s, k) = 0 /\ ReturnTree(psectionFirst, "ERROR_FILE_NOT_FOUND", FALSE)

DeleteSection(s) ==
  IF SectionAt(s) # 0
  THEN ReturnTree(RemoveSection(psectionFirst, SectionAt(s)), "NO_ERROR", TRUE)
  ELSE ReturnTree(psectionFirst, "ERROR_FILE_NOT_FOUND", FALSE)

WtkWriteInitProfileString ==
  \E s \in AppSection :
    \/ \E k \in AppKey :
         \/ \E v \in AppValue : WriteValue(s, k, v) \/ CreateKey(s, k, v)
         \/ DeleteKey(s, k)
    \/ DeleteSection(s)

-----------------------------------------------------------------------------
(* WtkQueryInitProfileString and WtkQueryInitProfileSize *)

Asked == UNCHANGED <<mode, diskVars, pc, initVars, streamVars, opens, changes, history>>

\* The default is never copied: the call ends before, with an empty buffer.
QueryString(s, k) ==
  /\ pc = "open" /\ mode.asks
  /\ ret' = [call |-> "query", rc |-> "NO_ERROR", section |-> s, key |-> k,
             value |-> ValueOf(psectionFirst, s, k)]
  /\ Asked

ListThere(s) == s # NoName => SectionAt(s) # 0

\* How many names a list has: of the keys of s, or of all sections.
Listed(s) ==
  CASE s = NoName -> Len(psectionFirst)
    [] s # NoName /\ SectionAt(s) # 0 -> Len(psectionFirst[SectionAt(s)].keys)
    [] s # NoName /\ SectionAt(s) = 0 -> 0

QueryNames(s, buflen) ==
  /\ pc = "open" /\ mode.asks
  /\ ret' = [call |-> "names", rc |-> "NO_ERROR", buflen |-> buflen, of |-> Listed(s),
             stored |-> Stored(Listed(s), buflen), size |-> ListResult(Listed(s), buflen)]
  /\ Asked

QuerySize(s) ==
  /\ pc = "open" /\ mode.asks
  /\ IF ListThere(s)
     THEN ret' = [call |-> "size", rc |-> "NO_ERROR", size |-> ListSize(Listed(s))]
     ELSE Return("size", "ERROR_INVALID_DATA")
  /\ Asked

WtkQueryInitProfile ==
  \/ \E s \in AppSection, k \in AppKey : QueryString(s, k)
  \/ \E s \in AppSection \cup {NoName} : QuerySize(s) \/ \E n \in BufferLength : QueryNames(s, n)

-----------------------------------------------------------------------------
(* WtkCloseInitProfile *)

NeedsNoUpdate == ~fModified \/ ulOpenMode # "READWRITE"

\* The file is emptied, and what will be written is handed to its stream.
Rewrite ==
  /\ FileBecomes(<<>>) /\ buffered' = Written(psectionFirst, mode.discard)
  /\ overtaken' = (overtaken \/ leaked # <<>>)

CloseOnly(fUpdate) ==
  /\ pc = "open"
  /\ NeedsNoUpdate \/ ~fUpdate \/ ~pfile
  /\ Free /\ Return("close", "NO_ERROR")
  /\ UNCHANGED <<mode, diskVars, streamVars, opens, changes, atClose>>

UpdateBegin ==
  /\ pc = "open" /\ ~NeedsNoUpdate /\ pfile
  /\ pc' = "update" /\ Rewrite /\ Return("none", "NO_ERROR")
  /\ UNCHANGED <<mode, backup, initVars, leaked, lost, opens, changes, history>>

\* A line reaches the disk; or the disk is full, and this line and the others
\* are not written: nobody looks at the result.
Flush ==
  /\ pc \in {"update", "updateOriginal", "updateBackup"} /\ buffered # <<>>
  /\ \/ /\ buffered' = Tail(buffered) /\ UNCHANGED lost
        /\ IF pc = "updateBackup"
           THEN backup' = Append(backup, Head(buffered)) /\ UNCHANGED fileVars
           ELSE FileBecomes(Append(file, Head(buffered))) /\ UNCHANGED backup
     \/ /\ MayFail("write") /\ buffered' = <<>> /\ lost' = TRUE
        /\ UNCHANGED diskVars
  /\ UNCHANGED <<mode, pc, initVars, leaked, overtaken, ret, opens, changes, history>>

UpdateEnd ==
  /\ pc = "update" /\ buffered = <<>>
  /\ Free /\ Return("update", "NO_ERROR")
  /\ UNCHANGED <<mode, diskVars, streamVars, opens, changes, atClose>>

-----------------------------------------------------------------------------
(* WtkCloseInitProfileBackup *)

\* The call fails; the handle is still there.
StayOpen(rc) ==
  /\ pc' = "open" /\ Return("backup", rc)
  /\ UNCHANGED <<mode, diskVars, ulOpenMode, fModified, psectionFirst, streamVars,
                 opens, changes, history>>

BackupRefused(fUpdateOriginal, named) ==
  /\ pc = "open" /\ UNCHANGED pfile
  /\ \/ ~pfile /\ StayOpen("ERROR_INVALID_FUNCTION")
     \/ pfile /\ ~fUpdateOriginal /\ ~named /\ StayOpen("ERROR_INVALID_PARAMETER")

BackupOnly(fUpdateOriginal, named) ==
  /\ pc = "open" /\ pfile /\ (fUpdateOriginal \/ named) /\ NeedsNoUpdate
  /\ Free /\ Return("close", "NO_ERROR")
  /\ UNCHANGED <<mode, diskVars, streamVars, opens, changes, atClose>>

\* The file is closed in any case.  DosCopy is called without a name, too.
BackupBegin(fUpdateOriginal, named) ==
  /\ pc = "open" /\ pfile /\ (fUpdateOriginal \/ named) /\ ~NeedsNoUpdate
  /\ pfile' = FALSE
  /\ \/ fUpdateOriginal /\ ~named /\ StayOpen("ERROR_COPY")
     \/ /\ named /\ pc' = (IF fUpdateOriginal THEN "copy" ELSE "createBackup")
        /\ atClose' = IF fUpdateOriginal /\ leaked = <<>> THEN file ELSE Absent
        /\ Return("none", "NO_ERROR")
        /\ UNCHANGED <<mode, diskVars, ulOpenMode, fModified, psectionFirst, streamVars,
                       opens, changes, opened>>

\* DosCopy: a part of the copy is there before all of it is.
CopyPart ==
  /\ pc = "copy"
  /\ \E n \in 0 .. Len(file) : backup' = SubSeq(file, 1, n)
  /\ UNCHANGED <<mode, fileVars, pc, initVars, streamVars, ret, opens, changes, history>>

CopyEnd ==
  /\ pc = "copy" /\ pc' = "createOriginal" /\ backup' = file
  /\ UNCHANGED <<mode, fileVars, initVars, streamVars, ret, opens, changes, history>>

\* Mutant of CopyFails: the return code of DosCopy is ignored.
CopyFailsIgnored ==
  /\ pc = "copy" /\ MayFail("copy") /\ pc' = "createOriginal"
  /\ UNCHANGED <<mode, diskVars, initVars, streamVars, ret, opens, changes, history>>

CopyFails ==
  /\ pc = "copy" /\ MayFail("copy") /\ StayOpen("ERROR_COPY") /\ UNCHANGED pfile

CreateFile ==
  /\ \/ pc = "createOriginal" /\ pc' = "updateOriginal" /\ Rewrite /\ UNCHANGED backup
     \/ /\ pc = "createBackup" /\ pc' = "updateBackup"
        /\ backup' = <<>> /\ buffered' = Written(psectionFirst, mode.discard)
        /\ UNCHANGED <<fileVars, overtaken>>
  /\ UNCHANGED <<mode, initVars, leaked, lost, ret, opens, changes, history>>

CreateFails ==
  /\ pc \in {"createOriginal", "createBackup"} /\ MayFail("open")
  /\ StayOpen("ERROR_OPEN_FAILED") /\ UNCHANGED pfile

\* Only the stream of the backup file is closed, that of the original is not.
BackupEnd ==
  /\ \/ pc = "updateBackup" /\ buffered = <<>> /\ Return("updateBackup", "NO_ERROR")
        /\ UNCHANGED <<buffered, leaked>>
     \/ pc = "updateOriginal" /\ Return("updateOriginal", "NO_ERROR")
        /\ buffered' = <<>> /\ leaked' = buffered
  /\ Free
  /\ UNCHANGED <<mode, diskVars, overtaken, lost, opens, changes, atClose>>

-----------------------------------------------------------------------------
(* The process ends.  The next one opens the profile again. *)

Gone ==
  /\ Free /\ buffered' = <<>> /\ leaked' = <<>> /\ overtaken' = FALSE
  /\ Return("none", "NO_ERROR")
  /\ UNCHANGED <<mode, backup, lost, opens, changes, atClose>>

\* In good order: open streams are written.
Exit ==
  /\ pc \in {"none", "open"} /\ Gone
  /\ FileBecomes(IF leaked = <<>> THEN file ELSE IF overtaken THEN Garbled ELSE file \o leaked)

Crash == Gone /\ UNCHANGED fileVars

-----------------------------------------------------------------------------
Next ==
  \/ OpenInMemory
  \/ \E m \in OpenMode : OpenFile(m) \/ OpenFails(m)
  \/ WtkWriteInitProfileString
  \/ WtkQueryInitProfile
  \/ \E fUpdate \in BOOLEAN : CloseOnly(fUpdate)
  \/ UpdateBegin \/ Flush \/ UpdateEnd
  \/ \E fUpdateOriginal, named \in BOOLEAN :
       \/ BackupRefused(fUpdateOriginal, named)
       \/ BackupOnly(fUpdateOriginal, named)
       \/ BackupBegin(fUpdateOriginal, named)
  \/ CopyPart \/ CopyEnd \/ CopyFails \/ CreateFile \/ CreateFails \/ BackupEnd
  \/ Exit \/ Crash

Spec == Init /\ [][Next]_vars

-----------------------------------------------------------------------------
(* Properties *)

\* No two sections, and no two keys of a section, have names that stricmp takes
\* for the same, so that no entry hides another: the file has none, and a new
\* entry is only made if none was found.
NamesUnique == Unique(psectionFirst)

\* As long as fModified is not set, the tree has the values that were read: a
\* close that does not write loses nothing.
ModifiedIsFlagged == pc = "open" /\ ~fModified => Values(psectionFirst) = Values(opened)

\* An entry as it is read again: behind what was left of keys that were deleted
\* softly, which stands in its file between the entry and the one before.
Again(entry, before) ==
  [entry EXCEPT !.comment = before \o (IF mode.discard THEN <<>> ELSE @), !.tail = <<>>]

KeysAgain(section) ==
  LET keys == section.keys
  IN  [j \in DOMAIN keys |-> Again(keys[j], IF j = 1 THEN section.tail ELSE keys[j - 1].tail)]

LastTail(section) == IF section.keys = <<>> THEN section.tail ELSE Last(section.keys).tail

TreeAgain(t) ==
  [i \in DOMAIN t |-> [Again(t[i], IF i = 1 THEN <<>> ELSE LastTail(t[i - 1]))
                         EXCEPT !.keys = KeysAgain(t[i])]]

\* What the code writes for the tree, it reads again: every section and key with
\* its value and its value comment, each with the comments that stood in front
\* of it (unless they are to be discarded).
RoundTrip ==
  pc = "open" =>
    LET st == Parse(Written(psectionFirst, mode.discard), mode.slash)
    IN  st.rc = "NO_ERROR" /\ ~st.quoting /\ st.sections = TreeAgain(psectionFirst)

\* The tree in memory is well formed, and the file can be made from it again.
TreeIsKept ==
  /\ TypeOK
  /\ NamesUnique
  /\ ModifiedIsFlagged
  /\ RoundTrip

\* From the time WtkCloseInitProfileBackup begins to update the original file,
\* and until the profile is opened again, the old contents are either still in
\* the file or all in the backup, whatever fails and wherever the process ends.
OriginalOrBackup == atClose # Absent => atClose \in {file, backup}

\* The profile is a table of values, see ProfilePromise: taken from the file, changed
\* entry by entry, and stored.  Names that stricmp takes for the same may be one
\* entry, as in the code, or two, as its descriptions say.
Did == IF ret.call = "update" /\ lost THEN [ret EXCEPT !.call = "updateInPart"] ELSE ret

Promise == INSTANCE ProfilePromise WITH
  None <- <<>>,
  values <- Values(psectionFirst),
  writable <- ulOpenMode = "READWRITE", touched <- fModified,
  closing <- pc \in Closing, did <- Did

KeepsPromise == Promise!Spec
=============================================================================
