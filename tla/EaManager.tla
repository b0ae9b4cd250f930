------------------------------ MODULE EaManager ------------------------------
(***************************************************************************)
(* The extended attribute manager (source/lib/wtkeas.c): an attribute of a *)
(* file is read into memory behind a handle, searched for the values of a  *)
(* type, extended by further values, and saved; and the calls that do all  *)
(* of it at once.  Threads have handles of their own, but share the file   *)
(* and the heap: the memory of a closed handle is used again.              *)
(*                                                                         *)
(* An attribute is a single value (SVST), or a list of values that have    *)
(* types of their own (MVMT) or one type (MVST).                           *)
(***************************************************************************)
EXTENDS Integers, SequencesExt

CONSTANTS
  Thread,
  Block,        \* addresses of EAINDEX structures
  Ea,           \* names of attributes
  Type, Text,   \* types of a value; EAT_ASCII
  AnyType,      \* WTK_EAT_ANY
  Value,        \* values; a value is known by its length
  Buflen,       \* lengths of the buffers of the caller
  Modes         \* the circumstances of a behaviour, see Mode

Entry == [type : Type, value : Value]

Content == [kind : {"none", "odd", "SVST", "MVMT", "MVST"},   \* usHeaderType; odd: any other
            entries : Seq(Entry),
            slack : Nat]      \* bytes of cbValue beyond the data

Mode ==
  [start  : [Ea -> Content],   \* the attributes of the file
   empty  : BOOLEAN,           \* cbList of a file without attributes is zero
   multi  : SUBSET {"SVST", "MVMT", "MVST"},   \* what is appended
   calls  : SUBSET {"handle", "getNext", "put", "writeString", "readString"},
   fails  : BOOLEAN,           \* malloc may fail
  serial : BOOLEAN,           \* the application lets no two calls overlap
   changes : Nat]              \* bound: how many calls the application makes

Null == "null"     \* no handle
End  == -1         \* NO_MORE_EAVALUES
Empty == [kind |-> "none", entries |-> <<>>, slack |-> 0]

IsMulti(kind) == kind \in {"MVMT", "MVST"}

\* A single value is one, the values of an MVST have one type, and a list is
\* followed by nothing.  The rest is not known to have values.
IsContent(c) ==
  /\ c \in Content
  /\ c.kind = "none" => c = Empty
  /\ c.kind = "odd"  => c.entries = <<>>
  /\ c.kind = "SVST" => Len(c.entries) = 1
  /\ c.kind = "MVST" => Cardinality({e.type : e \in ToSet(c.entries)}) = 1
  /\ IsMulti(c.kind) => c.slack = 0

\* WtkReadStringEa closes its handle twice, so that the application lets nothing
\* overlap with it.
ASSUME EaAssumption ==
  /\ Text \in Type /\ AnyType \notin Type /\ Null \notin Block
  /\ Value \subseteq Nat /\ Buflen \subseteq Nat
  /\ Modes \subseteq Mode
  /\ \A m \in Modes : /\ \A e \in Ea : IsContent(m.start[e])
                      /\ m.serial \/ "readString" \notin m.calls

VARIABLES
  mode,
  disk,       \* the attributes of the file
  eaindex,    \* EAINDEX of each block
  pc,         \* what the call of a thread does next
  task,       \* the call and its parameters
  hea,        \* the handle of a thread
  ret,        \* what a call of the thread returned
  versions,   \* history: what has been on the disk
  changes     \* counter for the bound

vars == <<mode, disk, eaindex, pc, task, hea, ret, versions, changes>>

Free == [used |-> FALSE]

Init ==
  /\ mode \in Modes
  /\ disk = mode.start
  /\ eaindex = [b \in Block |-> Free]
  /\ pc = [t \in Thread |-> "idle"]
  /\ task = [t \in Thread |-> [call |-> "none"]]
  /\ hea = [t \in Thread |-> Null]
  /\ ret = [t \in Thread |-> [rc |-> "none"]]
  /\ versions = {mode.start[e] : e \in Ea} \cup {Empty}
  /\ changes = 0

-----------------------------------------------------------------------------
(* Lengths *)

Sum(s, header) == FoldLeft(LAMBDA n, e : n + header + e.value, 0, s)

\* __getEaDataLen
DataLen(c) ==
  CASE c.kind = "SVST" -> Sum(c.entries, 4)
    [] c.kind = "MVMT" -> 6 + Sum(c.entries, 4)
    [] c.kind = "MVST" -> 8 + Sum(c.entries, 2)
    [] OTHER           -> 0

cbValue(c) == DataLen(c) + c.slack

ValueBufferLen(c, multi, value) ==
  DataLen(c) + value +
  IF DataLen(c) = 0
  THEN CASE multi = "MVMT" -> 10 [] multi = "MVST" -> 10 [] OTHER -> 4
  ELSE CASE multi = "MVMT" -> 4  [] multi = "MVST" -> 2  [] OTHER -> 2

-----------------------------------------------------------------------------
(* Reading *)

\* A step of the call of t: what it does next, and what it would return.
Goes(t, next, r) ==
  /\ pc' = [pc EXCEPT ![t] = next]
  /\ ret' = [ret EXCEPT ![t] = r]

\* The file has no attributes at all.
NoEas == mode.empty /\ \A e \in Ea : disk[e] = Empty

\* The EAINDEX of an attribute; cbList is without the fixed part of a list of
\* one attribute, to which the memory of a new list adds a few bytes.
Index(t, ea, content, cbList) ==
  [used |-> TRUE, ea |-> ea, content |-> content, cbList |-> cbList,
   type |-> AnyType, index |-> 0, started |-> FALSE,
   owner |-> t,          \* history: who has opened it
   seen |-> <<>>,        \* history: the values that the search has returned
   clean |-> TRUE]       \* history: no value was skipped, none appended meanwhile,
                         \* and no new search refused

\* WtkReadEa and WtkCreateEa: what follows is the step next, or failed.
Read(t, ea, create, next, failed) ==
  \/ /\ ~create /\ NoEas
     /\ Goes(t, failed, [rc |-> "ERROR_NO_MORE_FILES"])
     /\ UNCHANGED <<eaindex, hea>>
  \/ /\ create \/ ~NoEas
     /\ mode.fails
     /\ Goes(t, failed, [rc |-> "ERROR_NOT_ENOUGH_MEMORY"])
     /\ UNCHANGED <<eaindex, hea>>
  \/ /\ create \/ ~NoEas
     /\ \E b \in Block :
          /\ ~eaindex[b].used
          /\ eaindex' = [eaindex EXCEPT ![b] = IF create THEN Index(t, ea, Empty, 6)
                                               ELSE Index(t, ea, disk[ea], cbValue(disk[ea]))]
          /\ hea' = [hea EXCEPT ![t] = b]
     /\ Goes(t, next, [rc |-> "NO_ERROR"])

\* WtkCloseEa: a handle that is closed already is refused, unless its memory has
\* been used again.
Close(b) == eaindex' = [eaindex EXCEPT ![b] = Free]

Begin(t, c) ==
  /\ pc[t] = "idle" /\ c \in mode.calls
  /\ mode.serial => \A u \in Thread : pc[u] = "idle"
  /\ changes < mode.changes /\ changes' = changes + 1

WtkReadEa(t, ea, create) ==
  /\ Begin(t, "handle") /\ hea[t] = Null
  /\ Read(t, ea, create, "idle", "idle")
  /\ UNCHANGED <<mode, disk, task, versions>>

WtkCloseEa(t) ==
  /\ pc[t] = "idle" /\ hea[t] # Null
  /\ Close(hea[t])
  /\ hea' = [hea EXCEPT ![t] = Null]
  /\ UNCHANGED <<mode, disk, pc, task, ret, versions, changes>>

-----------------------------------------------------------------------------
(* Searching *)

OfType(entries, type) ==
  FoldLeft(LAMBDA found, e : IF type \in {AnyType, e.type} THEN Append(found, e) ELSE found, <<>>, entries)

Selected(x) == OfType(x.content.entries, x.type)

\* A single value has another type: the pointer to the data is not set.
Mismatch(x) == x.content.kind = "SVST" /\ x.index = 0 /\ Selected(x) = <<>>

Found(x) ==
  /\ x.content.kind \in {"SVST", "MVMT", "MVST"}
  /\ x.index < Len(Selected(x))

\* __getEaValueFromList, if there is a value.
ValueFound(x) == Selected(x)[x.index + 1]

\* The buffer is found too small only if it has no length.  Then the next value
\* is skipped, and this one is copied nevertheless.
TooSmall(len, value) == len = 0 /\ value > len

\* WtkFindNextEaValue with the index x; next follows if there is a value, over
\* if there is none.
FindNext(t, x, len, next, over) ==
  LET store(y) == eaindex' = [eaindex EXCEPT ![hea[t]] = y]
      none     == Goes(t, over, [rc |-> "ERROR_NO_MORE_FILES"])
  IN
  \/ /\ x.index # End /\ Found(x)
     /\ LET e     == ValueFound(x)
            small == TooSmall(len, e.value)
        IN  /\ store([x EXCEPT !.index = @ + IF small THEN 2 ELSE 1, !.seen = Append(@, e),
                               !.clean = @ /\ ~small])
            /\ Goes(t, next, [rc |-> IF small THEN "ERROR_BUFFER_OVERFLOW" ELSE "NO_ERROR",
                              entry |-> e, past |-> e.value > len])
  \/ /\ x.index # End /\ ~Found(x) /\ ~Mismatch(x)
     /\ store([x EXCEPT !.index = End]) /\ none
  \/ /\ x.index # End /\ Mismatch(x)      \* the pointer is zero by chance, or not
     /\ store([x EXCEPT !.index = 1, !.clean = FALSE])
     /\ none \/ Goes(t, "trap", [rc |-> "unset"])
  \/ /\ x.index = End
     /\ store(x) /\ none

\* A handle whose search has come to the end is not searched again.
WtkFindFirstEaValue(t, type, len) ==
  /\ Begin(t, "handle") /\ hea[t] # Null
  /\ LET x == eaindex[hea[t]] IN
     \/ /\ x.index = End
        /\ Goes(t, "idle", [rc |-> "ERROR_NO_MORE_FILES"])
        /\ eaindex' = [eaindex EXCEPT ![hea[t]] = [x EXCEPT !.clean = FALSE]]
     \/ /\ x.index # End
        /\ FindNext(t, [x EXCEPT !.type = type, !.index = 0, !.started = TRUE,
                                 !.seen = <<>>, !.clean = TRUE], len, "idle", "idle")
  /\ UNCHANGED <<mode, disk, task, hea, versions>>

WtkFindNextEaValue(t, len) ==
  /\ Begin(t, "handle") /\ hea[t] # Null
  /\ eaindex[hea[t]].started
  /\ FindNext(t, eaindex[hea[t]], len, "idle", "idle")
  /\ UNCHANGED <<mode, disk, task, hea, versions>>

-----------------------------------------------------------------------------
(* Appending and saving *)

\* Mutant of MayAppend: a list of either kind is extended.
MayAppendAny(c, multi) == IsMulti(c.kind) => IsMulti(multi)

\* An attribute with a list is extended by a value for a list of its kind only;
\* whether a single value or an unknown kind is extended is not looked at.
MayAppend(c, multi) == IsMulti(c.kind) => multi = c.kind

\* The header of a list is written over a single value or an unknown kind.
Garbles(c, multi) == c.kind = "odd" \/ (c.kind = "SVST" /\ IsMulti(multi))

\* The whole old list is copied to the new memory.
Overruns(x, multi, value) == x.cbList > 4 + ValueBufferLen(x.content, multi, value)

\* The type of an MVST is that of all its values, a single value is replaced.
Entries(c, multi, e) ==
  CASE multi = "MVMT" -> Append(c.entries, e)
    [] multi = "MVST" -> Append([i \in DOMAIN c.entries |-> [c.entries[i] EXCEPT !.type = e.type]], e)
    [] OTHER          -> <<e>>

Extended(c, multi, e) ==
  LET new == [kind |-> multi, entries |-> Entries(c, multi, e), slack |-> 0]
  IN  [new EXCEPT !.slack = ValueBufferLen(c, multi, e.value) - DataLen(new)]

\* WtkAppendEaValue: next follows, or failed.
AppendValue(t, multi, e, next, failed) ==
  LET x == eaindex[hea[t]] IN
  \/ /\ ~MayAppend(x.content, multi)
     /\ Goes(t, failed, [rc |-> "ERROR_INVALID_DATA"])
     /\ UNCHANGED eaindex
  \/ /\ MayAppend(x.content, multi) /\ mode.fails
     /\ Goes(t, failed, [rc |-> "ERROR_NOT_ENOUGH_MEMORY"])
     /\ UNCHANGED eaindex
  \/ /\ MayAppend(x.content, multi)
     /\ IF Overruns(x, multi, e.value) \/ Garbles(x.content, multi)
        THEN /\ Goes(t, "trap", [rc |-> IF Overruns(x, multi, e.value) THEN "overrun" ELSE "garbled"])
             /\ UNCHANGED eaindex
        ELSE /\ Goes(t, next, [rc |-> "NO_ERROR"])
             /\ eaindex' = [eaindex EXCEPT ![hea[t]] =
                    [x EXCEPT !.content = Extended(x.content, multi, e),
                              !.cbList = 4 + ValueBufferLen(x.content, multi, e.value),
                              !.clean = ~x.started]]

\* WtkSaveEa: the file system takes cbValue bytes.
Save(x) ==
  /\ disk' = [disk EXCEPT ![x.ea] = x.content]
  /\ versions' = versions \cup {x.content}

WtkAppendEaValue(t, multi, e) ==
  /\ Begin(t, "handle") /\ hea[t] # Null /\ multi \in mode.multi
  /\ AppendValue(t, multi, e, "idle", "idle")
  /\ UNCHANGED <<mode, disk, task, hea, versions>>

WtkSaveEa(t) ==
  /\ Begin(t, "handle") /\ hea[t] # Null
  /\ Save(eaindex[hea[t]])
  /\ Goes(t, "idle", [rc |-> "NO_ERROR"])
  /\ UNCHANGED <<mode, eaindex, task, hea>>

-----------------------------------------------------------------------------
(* The calls that do all at once *)

\* WtkPutEaValue reads the attribute, WtkWriteStringEa creates a new one.
WtkPutEaValue(t, ea, multi, e) ==
  /\ Begin(t, "put") /\ hea[t] = Null /\ multi \in mode.multi
  /\ task' = [task EXCEPT ![t] = [call |-> "put", multi |-> multi, entry |-> e]]
  /\ Read(t, ea, FALSE, "append", "idle")
  /\ UNCHANGED <<mode, disk, versions>>

WtkWriteStringEa(t, ea, value) ==
  /\ Begin(t, "writeString") /\ hea[t] = Null
  /\ task' = [task EXCEPT ![t] = [call |-> "put", multi |-> "SVST", entry |-> [type |-> Text, value |-> value]]]
  /\ Read(t, ea, TRUE, "append", "idle")
  /\ UNCHANGED <<mode, disk, versions>>

PutAppends(t) ==
  /\ pc[t] = "append"
  /\ AppendValue(t, task[t].multi, task[t].entry, "save", "close")
  /\ UNCHANGED <<mode, disk, task, hea, versions, changes>>

PutSaves(t) ==
  /\ pc[t] = "save"
  /\ Save(eaindex[hea[t]])
  /\ Goes(t, "close", [rc |-> "NO_ERROR"])
  /\ UNCHANGED <<mode, eaindex, task, hea, changes>>

\* WtkGetNextEaValue and WtkReadStringEa, which calls it.  If nothing can be
\* read, WtkReadStringEa closes the handle HEA_CREATE.
WtkGetNextEaValue(t, ea, type, len) ==
  /\ Begin(t, "getNext") /\ hea[t] = Null
  /\ task' = [task EXCEPT ![t] = [call |-> "getNext", type |-> type, len |-> len]]
  /\ Read(t, ea, FALSE, "first", "idle")
  /\ UNCHANGED <<mode, disk, versions>>

WtkGetNextEaValueAgain(t, len) ==
  /\ Begin(t, "getNext") /\ hea[t] # Null /\ task[t].call = "getNext"
  /\ FindNext(t, eaindex[hea[t]], len, "idle", "ended")
  /\ UNCHANGED <<mode, disk, task, hea, versions>>

WtkReadStringEa(t, ea, len) ==
  /\ Begin(t, "readString") /\ hea[t] = Null
  /\ task' = [task EXCEPT ![t] = [call |-> "readString", type |-> Text, len |-> len]]
  /\ Read(t, ea, FALSE, "first", "trap")
  /\ UNCHANGED <<mode, disk, versions>>

FindsFirst(t) ==
  /\ pc[t] = "first"
  /\ FindNext(t, [eaindex[hea[t]] EXCEPT !.type = task[t].type, !.started = TRUE], task[t].len,
              IF task[t].call = "getNext" THEN "idle" ELSE "close", "ended")
  /\ UNCHANGED <<mode, disk, task, hea, versions, changes>>

\* The list is at its end, and the handle is closed; its variable is left alone.
ImplicitClose(t) ==
  /\ pc[t] = "ended"
  /\ Close(hea[t])
  /\ pc' = [pc EXCEPT ![t] = "close"]
  /\ UNCHANGED <<mode, disk, task, hea, ret, versions, changes>>

\* Mutant of ClosesAgain: every call does.
ClosesAlways(t) == TRUE

\* WtkReadStringEa closes the handle that WtkGetNextEaValue has closed.
ClosesAgain(t) == task[t].call # "getNext"

CallEnds(t) ==
  /\ pc[t] = "close"
  /\ IF ClosesAgain(t) THEN Close(hea[t]) ELSE UNCHANGED eaindex
  /\ hea' = [hea EXCEPT ![t] = Null]
  /\ pc' = [pc EXCEPT ![t] = "idle"]
  /\ UNCHANGED <<mode, disk, task, ret, versions, changes>>

-----------------------------------------------------------------------------

Next == \E t \in Thread :
  \/ \E ea \in Ea, create \in BOOLEAN : WtkReadEa(t, ea, create)
  \/ \E type \in Type \cup {AnyType}, len \in Buflen : WtkFindFirstEaValue(t, type, len)
  \/ \E len \in Buflen : WtkFindNextEaValue(t, len) \/ WtkGetNextEaValueAgain(t, len)
  \/ \E multi \in mode.multi, e \in Entry : WtkAppendEaValue(t, multi, e)
  \/ WtkSaveEa(t) \/ WtkCloseEa(t)
  \/ \E ea \in Ea, multi \in mode.multi, e \in Entry : WtkPutEaValue(t, ea, multi, e)
  \/ \E ea \in Ea, value \in Value : WtkWriteStringEa(t, ea, value)
  \/ \E ea \in Ea, type \in Type \cup {AnyType}, len \in Buflen : WtkGetNextEaValue(t, ea, type, len)
  \/ \E ea \in Ea, len \in Buflen : WtkReadStringEa(t, ea, len)
  \/ PutAppends(t) \/ PutSaves(t) \/ FindsFirst(t) \/ ImplicitClose(t) \/ CallEnds(t)

Spec == Init /\ [][Next]_vars
-----------------------------------------------------------------------------
(* Properties *)

TypeOK ==
  /\ \A e \in Ea : IsContent(disk[e])
  /\ mode \in Modes
  /\ \A b \in Block : eaindex[b].used => /\ eaindex[b].ea \in Ea /\ eaindex[b].owner \in Thread
                                         /\ eaindex[b].index \in {End} \cup Nat
                                         /\ IsContent(eaindex[b].content)
  /\ pc \in [Thread -> {"idle", "append", "save", "close", "first", "ended", "trap"}]
  /\ hea \in [Thread -> Block \cup {Null}]
  /\ \A t \in Thread : pc[t] \notin {"idle", "trap"} => hea[t] # Null
  /\ changes \in 0 .. mode.changes

\* A handle stays that of the thread that opened it until the thread closes it:
\* although WtkReadStringEa closes the handle again that WtkGetNextEaValue has
\* closed, it closes no other, if no call comes in between.  And no memory is left
\* over, whatever fails.
HandleIsMine ==
  /\ \A t \in Thread : hea[t] # Null /\ pc[t] # "close" =>
       eaindex[hea[t]].used /\ eaindex[hea[t]].owner = t
  /\ \A b \in Block : eaindex[b].used => \E t \in Thread : hea[t] = b

\* The memory for an attribute that is extended holds the old list and the new
\* value, unless it is a single value or of an unknown kind.
ListsFit ==
  \A t \in Thread : hea[t] # Null /\ eaindex[hea[t]].used /\ eaindex[hea[t]].owner = t /\ ret[t].rc = "overrun" =>
    eaindex[hea[t]].content.kind \in {"SVST", "odd"}

\* A search returns each value of the type once and in order before it reports
\* that there are no more; unless a value did not fit, or one was appended.  A new
\* search on a handle whose search has come to its end is left open: the code
\* reports that there are no more values (wtkeas.c:857), the description of
\* WtkFindFirstEaValue that the search starts at the first value again (825).
SearchIsComplete ==
  \A b \in Block : eaindex[b].used =>
    LET x == eaindex[b] IN
    x.started /\ x.clean => /\ IsPrefix(x.seen, Selected(x))
                            /\ x.index = End => x.seen = Selected(x)

\* A handle stands for memory of its thread that holds what was read and added,
\* and a search through it is complete.
AttributesAreRight ==
  /\ TypeOK
  /\ HandleIsMine
  /\ ListsFit
  /\ SearchIsComplete

Values(c) == [i \in DOMAIN c.entries |-> c.entries[i].value]

\* A value in a list stays there whatever is put into the list, if the calls do
\* not overlap.
NothingLost ==
  [][mode.serial /\ mode.calls \cap {"handle", "writeString"} = {} =>
       \A e \in Ea : IsMulti(disk[e].kind) =>
         /\ disk'[e].kind = disk[e].kind
         /\ IsPrefix(Values(disk[e]), Values(disk'[e]))]_vars
-----------------------------------------------------------------------------
(* The inductive invariant behind these properties. *)

EaIndex == [used : {TRUE}, ea : Ea, content : Content, cbList : Nat, type : Type \cup {AnyType},
            index : Nat \cup {End}, started : BOOLEAN, owner : Thread, seen : Seq(Entry), clean : BOOLEAN]

Task == {[call |-> "none"]}
        \cup [call : {"put"}, multi : {"SVST", "MVMT", "MVST"}, entry : Entry]
        \cup [call : {"getNext", "readString"}, type : Type \cup {AnyType}, len : Buflen]

\* A list fits into the memory that was allocated for it, and a search has come
\* to the value that the index says.
Fits(x) ==
  /\ IsContent(x.content)
  /\ IsMulti(x.content.kind) => x.cbList <= 4 + DataLen(x.content)
  /\ x.content.kind = "none" => x.cbList <= 6
  /\ x.started /\ x.clean =>
       IF x.index = End THEN x.seen = Selected(x)
       ELSE x.index \in 0 .. Len(Selected(x)) /\ x.seen = SubSeq(Selected(x), 1, x.index)

Typed ==
  /\ mode \in Modes /\ changes \in 0 .. mode.changes
  /\ disk \in [Ea -> Content] /\ \A e \in Ea : IsContent(disk[e])
  /\ eaindex \in [Block -> {Free} \cup EaIndex] /\ \A b \in Block : eaindex[b].used => Fits(eaindex[b])
  /\ pc \in [Thread -> {"idle", "append", "save", "close", "first", "ended", "trap"}]
  /\ task \in [Thread -> Task]
  /\ hea \in [Thread -> Block \cup {Null}]
  /\ ret = [t \in Thread |-> ret[t]]

Mine(t) == eaindex[hea[t]].used /\ eaindex[hea[t]].owner = t

\* Where a thread is in its call, and whether its handle is still open: of those
\* that are about to end, WtkPutEaValue has it open, WtkGetNextEaValue has closed
\* it, and WtkReadStringEa has at least not got it from another thread.
AtWork(t) ==
  /\ pc[t] \notin {"idle", "trap"} => hea[t] # Null
  /\ hea[t] # Null /\ pc[t] # "close" => Mine(t)
  /\ pc[t] \in {"append", "save"} => task[t].call = "put"
  /\ pc[t] \in {"first", "ended"} => task[t].call \in {"getNext", "readString"}
  /\ pc[t] = "first" => eaindex[hea[t]].index = 0 /\ eaindex[hea[t]].seen = <<>>
  /\ pc[t] = "close" =>
       \/ task[t].call = "put" /\ Mine(t)
       \/ task[t].call = "getNext" /\ ~Mine(t)
       \/ task[t].call = "readString" /\ (eaindex[hea[t]].used => Mine(t))
  /\ task[t].call = "readString" => mode.serial
  /\ ret[t].rc = "overrun" =>
       pc[t] = "trap" /\ (hea[t] # Null /\ Mine(t) => eaindex[hea[t]].content.kind \in {"SVST", "odd"})

Holds ==
  /\ \A t \in Thread : AtWork(t)
  /\ \A b \in Block : eaindex[b].used => hea[eaindex[b].owner] = b
  /\ mode.serial => \A t, u \in Thread : pc[t] # "idle" /\ pc[u] # "idle" => t = u

\* What WtkPutEaValue is about to save, if no other call comes in between: the
\* attribute as it was read, or extended.
Keeps(old, new) ==
  IsMulti(old.kind) => new.kind = old.kind /\ IsPrefix(Values(old), Values(new))

Puts(t) ==
  LET x == eaindex[hea[t]]
  IN  /\ pc[t] = "append" => x.content = disk[x.ea]
      /\ pc[t] = "save" => Keeps(disk[x.ea], x.content)

PutsMore == mode.serial /\ mode.calls \cap {"handle", "writeString"} = {} => \A t \in Thread : Puts(t)

EaInv == Typed /\ Holds /\ PutsMore
=============================================================================
