------------------------------- MODULE Settings -------------------------------
(***************************************************************************)
(* The settings and details manager (source/lib/wtkset.c): a WPS class     *)
(* defines its settings in a table, each object has a table of pointers to *)
(* its values, and the manager carries values between setup strings, the   *)
(* controls of settings notebooks, the instance data and the INI files.    *)
(*                                                                         *)
(* All values are texts here, sequences of the parts between commas: a     *)
(* setup string is split at commas, so that is what a text can lose.       *)
(* Types say how a value is written (Written) and checked (Valid).         *)
(***************************************************************************)
EXTENDS Integers, SequencesExt

CONSTANTS
  Object,        \* instances of the class
  Size,          \* length of each part of a text
  Number,        \* parts that are numbers
  Known,         \* texts that the class translates to an index
  Modes          \* the circumstances of a behaviour, see Mode

Part == DOMAIN Size
Text == Seq(Part)
Type == {"STRING", "LONG", "BOOL", "INDEX", "INDEXITEM", "DATE"}

Definition ==
  [name : STRING,            \* empty for a detail
   id : Nat,
   types : Seq(Type),        \* paulValueType; none: the string has no equal sign
   defaults : Seq(Text),
   room : Seq(Nat),          \* ulBufMax of a string, ulDispStringMaxlen of an index
   queries : Nat,            \* ulQueryCount, zero for a detail
   page : Nat,               \* usDialogid, zero if there is no control
   titled : BOOLEAN]         \* shown in details views

(* A setting of a setup string: a key and the parts of what follows it,     *)
(* which may be empty.                                                      *)
Key == STRING \ {""}
Piece == Part \cup {""}
Item == [name : Key, parts : Seq(Piece)]

Mode ==
  [class : Seq(Definition),  \* what the class adds to its table
   objects : SUBSET Object,  \* the objects that are awake
   fails : BOOLEAN,          \* there may be no memory, the class may not answer
   calls : SUBSET {"setup", "notebook", "state", "text", "details"},
   setups : SUBSET Seq(Item), \* the setup strings of the WPS and its users
   typed : SUBSET Text,      \* what users enter into entry fields
   rejects : SUBSET Text,    \* texts that the class validates itself, and rejects
   accepts : SUBSET Text,   \* or accepts
   passes : SUBSET Text,    \* texts it rejects, with which a notebook closes: it ignores the
                            \* error that is reported to it, or the control is disabled
   alone : BOOLEAN]          \* while an object has its notebook open, no other one is set up or opened

(* Each value of a setting has a type, a default and a length, and each      *)
(* string has room for its end.                                             *)
ASSUME ClassAssumption ==
  /\ Modes \subseteq Mode
  /\ \A m \in Modes : \A d \in Range(m.class) :
       /\ Len(d.defaults) = Len(d.types) /\ Len(d.room) = Len(d.types)
       /\ \A i \in DOMAIN d.types : d.types[i] = "STRING" => d.room[i] > 0

ASSUME PartAssumption ==
  /\ \A p \in Part : Size[p] \in Nat
  /\ {"0", "TRUE", "FALSE"} \cup Number \subseteq Part /\ "0" \in Number
  /\ {"", "?"} \cap Part = {}
  /\ Known \subseteq Text /\ Known # {}

Null == "null"
ASSUME ObjectAssumption == Null \notin Object
Unknown == <<"?">>           \* the index -1

VARIABLES
  mode, added,
  overrun,     \* memory has been written behind a buffer: nothing is known after it
  psdr,        \* SETTINGSDATAROOT: the table of the class
  hwnd,        \* pahwndControl: whose control the table has for each value
  values,      \* the values of the objects that have a value table
  screen,      \* texts in the controls of the open pages
  edited,      \* history: controls changed by the user since they were filled
  closing,     \* objects whose notebook is being destroyed
  told,        \* settings of which STM_CALLBACK_REPORTCHANGED told the class
  state,       \* object states in OS2.INI, and (history) the values they are of
  text,        \* setup strings in INI files, and (history) the values they are of
  details      \* pszObjectDetailsItems: bytes allocated and bytes used

vars == <<mode, added, overrun, psdr, hwnd, values, screen, edited, closing, told, state, text, details>>

----------------------------------------------------------------------------
(* The class settings table.                                                *)

Settings == DOMAIN psdr.settings
Setting(k) == psdr.settings[k]
ValuesOf(k) == {<<k, i>> : i \in DOMAIN Setting(k).types}
Controls == UNION {ValuesOf(k) : k \in Settings}

(* SETTINGSID: the id under which value i of query q is saved.              *)
SettingsId(d, i, q) == d.id + i * q - 1

(* The check of the id: only a range that is just this id counts as used.   *)
IdUsed(d) ==
  /\ d.id # 0
  /\ \E k \in Settings : /\ Setting(k).id >= d.id
                         /\ SettingsId(Setting(k), Len(Setting(k).types), Setting(k).queries) <= d.id

(* __getSettingsData: by name, or by id.                                    *)
Same(d, e) == (d.name # "" /\ d.name = e.name) \/ (d.id # 0 /\ d.id = e.id)

WellFormed(d) == d.types # <<>> /\ (d.name = "" => d.id # 0)
MayAdd(d) == WellFormed(d) /\ ~IdUsed(d) /\ \A k \in Settings : ~Same(d, Setting(k))

Init ==
  /\ mode \in Modes /\ added = 0 /\ overrun = FALSE
  /\ psdr = [settings |-> <<>>, complete |-> FALSE, columns |-> 0]
  /\ hwnd = <<>>
  /\ values = [o \in Object |-> <<>>]
  /\ screen = [o \in Object |-> <<>>] /\ edited = [o \in Object |-> {}] /\ closing = {}
  /\ told = {}
  /\ state = [o \in Object |-> [ids |-> <<>>, of |-> <<>>]]
  /\ text = [o \in Object |-> [settings |-> <<>>, of |-> <<>>]]
  /\ details = [allocated |-> 0, used |-> 0, columns |-> 0]

(* wpclsInitData of the class adds one of its settings, or one of its       *)
(* details (WtkAddClassDetail).  A string that is no setting is left out    *)
(* with success, an id or a name that is known with an error.               *)
WtkAddClassSetting ==
  /\ ~psdr.complete /\ added < Len(mode.class)
  /\ added' = added + 1
  /\ LET d == mode.class[added + 1] IN
     \/ /\ MayAdd(d)
        /\ psdr' = [psdr EXCEPT !.settings = Append(@, d)]
        /\ hwnd' = [c \in DOMAIN hwnd \cup {<<Len(psdr'.settings), i>> : i \in DOMAIN d.types} |->
                      IF c \in DOMAIN hwnd THEN hwnd[c] ELSE Null]
     \/ /\ ~MayAdd(d) \/ mode.fails
        /\ UNCHANGED <<psdr, hwnd>>
  /\ UNCHANGED <<mode, overrun, values, screen, edited, closing, told, state, text, details>>

WtkCloseClassSettingsTable ==
  /\ ~psdr.complete /\ added = Len(mode.class)
  /\ psdr' = [psdr EXCEPT !.complete = TRUE]
  /\ UNCHANGED <<mode, added, overrun, hwnd, values, screen, edited, closing, told, state, text, details>>

----------------------------------------------------------------------------
(* Values.                                                                  *)

(* strlen + 1; a comma takes a byte, as the zero at the end.                *)
Length(t) == IF t = <<>> THEN 1 ELSE FoldLeft(LAMBDA n, p : n + Size[p] + 1, 0, t)

True == {<<"TRUE">>, <<"YES">>, <<"ON">>, <<"1">>}
False == {<<"FALSE">>, <<"NO">>, <<"OFF">>}

InitialValue(type) ==
  CASE type \in {"STRING", "DATE"} -> <<>>
    [] type = "LONG" -> <<"0">>
    [] type = "BOOL" -> <<"FALSE">>
    [] OTHER -> CHOOSE t \in Known : TRUE

(* atol: the number a text begins with, or zero.                            *)
AsNumber(t) == IF t # <<>> /\ t[1] \in Number THEN <<t[1]>> ELSE <<"0">>

(* The class does not reject what its objects start with, nor YES in the    *)
(* form it is kept, nor what becomes of a number it accepts.                *)
ASSUME AnswersAssumption ==
  \A m \in Modes :
    /\ m.rejects \cap ({InitialValue(type) : type \in Type} \cup {<<"TRUE">>}) = {}
    /\ \A t \in m.accepts : t \notin m.rejects /\ AsNumber(t) \notin m.rejects

(* __validateSettingsValue: the class, or the check for the type.  The text *)
(* of an index is not looked at, nor that of a check box; nor the length of *)
(* a string that the class accepts.                                         *)
Valid(d, i, t, given) ==
  /\ t \notin mode.rejects
  /\ \/ t \in mode.accepts
     \/ d.types[i] = "STRING" /\ Length(t) <= d.room[i]
     \/ d.types[i] = "LONG" /\ Len(t) = 1 /\ t[1] \in Number
     \/ d.types[i] = "BOOL" /\ (given => t \in True \cup False)
     \/ d.types[i] \in {"INDEX", "INDEXITEM"}

(* __writeValue: what the variable of a value holds after it.  The control  *)
(* of a number has one; an item of a list box is only taken from a control. *)
Written(d, i, t, old, given) ==
  CASE d.types[i] = "STRING" -> t
    [] d.types[i] = "LONG" -> IF given THEN AsNumber(t) ELSE t
    [] d.types[i] = "BOOL" -> IF t \in True THEN <<"TRUE">> ELSE <<"FALSE">>
    [] d.types[i] = "INDEX" -> IF t \in Known THEN t ELSE Unknown
    [] d.types[i] = "INDEXITEM" -> IF given THEN old ELSE t
    [] OTHER -> old

(* __updateGuiControl for a set of values: they appear in the controls the  *)
(* table of the class has the handles of.                                   *)
FilledFirst(scr, cs, vals) ==
  [o \in Object |-> [c \in DOMAIN scr[o] |->
     IF c \in cs /\ c[2] = 1 /\ hwnd[c] = o THEN vals[c[1]][c[2]] ELSE scr[o][c]]]
Filled(scr, cs, vals) ==
  [o \in Object |-> [c \in DOMAIN scr[o] |->
     IF c \in cs /\ hwnd[c] = o THEN vals[c[1]][c[2]] ELSE scr[o][c]]]

StillEdited(cs) == [o \in Object |-> {c \in edited[o] : ~(c \in cs /\ hwnd[c] = o)}]

OnPage(p) == {c \in DOMAIN hwnd : Setting(c[1]).page = p}
Pages == {Setting(k).page : k \in Settings} \ {0}
Idle == closing = {} /\ ~overrun
Undisturbed(o) == mode.alone => \A x \in Object \ {o} : screen[x] = <<>>

WtkCreateObjectValueTable(o) ==
  /\ Idle /\ psdr.complete /\ psdr.settings # <<>> /\ values[o] = <<>>
  /\ values' = [values EXCEPT ![o] =
                  [k \in Settings |-> [i \in DOMAIN Setting(k).types |-> InitialValue(Setting(k).types[i])]]]
  /\ UNCHANGED <<mode, added, overrun, psdr, hwnd, screen, edited, closing, told, state, text, details>>

WtkDestroyObjectValueTable(o) ==
  /\ Idle /\ values[o] # <<>> /\ screen[o] = <<>>
  /\ values' = [values EXCEPT ![o] = <<>>]
  /\ details' = [allocated |-> 0, used |-> 0, columns |-> 0]
  /\ UNCHANGED <<mode, added, overrun, psdr, hwnd, screen, edited, closing, told, state, text>>

----------------------------------------------------------------------------
(* Setup strings.                                                           *)

(* The value a setting of a setup string gives: its own or the default.     *)
GivenLess(d, s, i) == IF i < Len(s.parts) /\ s.parts[i] # "" THEN <<s.parts[i]>> ELSE d.defaults[i]
Given(d, s, i) == IF i <= Len(s.parts) /\ s.parts[i] # "" THEN <<s.parts[i]>> ELSE d.defaults[i]

Accepts(d, s) == \A i \in DOMAIN d.types : Valid(d, i, Given(d, s, i), TRUE)

(* One setting of a setup string: nothing happens unless the class has it   *)
(* and all its values are valid.                                            *)
EvaluateSettingLast(now, s) ==
  IF \E k \in Settings : Setting(k).name = s.name /\ Accepts(Setting(k), s)
    THEN LET k == CHOOSE k \in Settings : Setting(k).name = s.name
             d == Setting(k)
             n == Len(d.types)
             new == [i \in DOMAIN d.types |-> Written(d, i, Given(d, s, i), now.values[k][i], TRUE)]
         IN [values |-> [now.values EXCEPT ![k] = new],
             set    |-> now.set \cup {k},
             told   |-> IF new[n] # now.values[k][n] THEN now.told \cup {k} ELSE now.told]
    ELSE now
EvaluateSetting(now, s) ==
  IF \E k \in Settings : Setting(k).name = s.name /\ Accepts(Setting(k), s)
    THEN LET k == CHOOSE k \in Settings : Setting(k).name = s.name
             d == Setting(k)
             new == [i \in DOMAIN d.types |-> Written(d, i, Given(d, s, i), now.values[k][i], TRUE)]
         IN [values |-> [now.values EXCEPT ![k] = new],
             set    |-> now.set \cup {k},
             told   |-> IF new # now.values[k] THEN now.told \cup {k} ELSE now.told]
    ELSE now

Evaluated(o, setup) ==
  FoldLeft(EvaluateSetting, [values |-> values[o], set |-> {}, told |-> {}], setup)

(* A string of a setting that is evaluated does not fit into its buffer:    *)
(* the class has accepted it.                                               *)
Overruns(s) ==
  \E k \in Settings :
    /\ Setting(k).name = s.name /\ Accepts(Setting(k), s)
    /\ \E i \in DOMAIN Setting(k).types :
         Setting(k).types[i] = "STRING" /\ Length(Given(Setting(k), s, i)) > Setting(k).room[i]

Evaluate(o, setup) ==
  \/ /\ \A j \in DOMAIN setup : ~Overruns(setup[j])
     /\ \E now \in {Evaluated(o, setup)} :
          LET cs == UNION {ValuesOf(k) : k \in now.set} IN
          /\ values' = [values EXCEPT ![o] = now.values]
          /\ screen' = Filled(screen, cs, now.values)
          /\ edited' = StillEdited(cs)
          /\ told' = now.told
     /\ UNCHANGED <<mode, added, overrun, psdr, hwnd, closing, state, text, details>>
  \/ /\ \E j \in DOMAIN setup : Overruns(setup[j])
     /\ overrun' = TRUE
     /\ UNCHANGED <<mode, added, psdr, hwnd, values, screen, edited, closing, told, state, text, details>>

WtkEvaluateObjectSettings(o) ==
  /\ Idle /\ "setup" \in mode.calls /\ values[o] # <<>> /\ Undisturbed(o)
  /\ \E setup \in mode.setups : Evaluate(o, setup)

(* The setup string of an object has the settings none of whose strings is  *)
(* empty, and none with a date; parts of a text become values of their own. *)
HasValue(d, v) ==
  \A i \in DOMAIN d.types : d.types[i] # "DATE" /\ (d.types[i] = "STRING" => v[i] # <<>>)
Listed(d, v) == d.name # "" /\ d.queries > 0 /\ HasValue(d, v)
Parts(t) == IF t \in {<<>>, Unknown} THEN <<"">> ELSE t

AsText(d, v) == [name |-> d.name, parts |-> FoldLeft(LAMBDA ps, t : ps \o Parts(t), <<>>, v)]

WtkQueryObjectSettings(o) ==
  FoldLeft(LAMBDA list, k : IF Listed(Setting(k), values[o][k])
                            THEN Append(list, AsText(Setting(k), values[o][k])) ELSE list,
           <<>>, [k \in Settings |-> k])

WtkSaveObjectSettings(o) ==
  /\ Idle /\ "text" \in mode.calls /\ values[o] # <<>>
  /\ text' = [text EXCEPT ![o] = [settings |-> WtkQueryObjectSettings(o), of |-> values[o]]]
  /\ UNCHANGED <<mode, added, overrun, psdr, hwnd, values, screen, edited, closing, told, state, details>>

WtkRestoreObjectSettings(o) ==
  /\ Idle /\ "text" \in mode.calls /\ values[o] # <<>> /\ text[o].of # <<>> /\ Undisturbed(o)
  /\ Evaluate(o, text[o].settings)

----------------------------------------------------------------------------
(* The object state: the values saved under the ids of the settings.        *)

Kind(d) == IF d.types[1] = "STRING" THEN "string" ELSE "long"
Saved(d) == d.id # 0
Ids(d) == IF Saved(d) THEN {SettingsId(d, i, q) : i \in DOMAIN d.types, q \in 1 .. d.queries} ELSE {}

(* The first value of the last setting that has the id.                     *)
StateOf(o, id) ==
  LET k == CHOOSE k \in Settings : /\ id \in Ids(Setting(k))
                                   /\ \A l \in Settings : id \in Ids(Setting(l)) => l <= k
  IN [kind |-> Kind(Setting(k)), text |-> values[o][k][1]]

WtkSaveObjectState(o) ==
  /\ Idle /\ "state" \in mode.calls /\ values[o] # <<>>
  /\ LET ids == UNION {Ids(Setting(k)) : k \in Settings} IN
     state' = [state EXCEPT ![o] = [ids |-> [id \in ids |-> StateOf(o, id)], of |-> values[o]]]
  /\ UNCHANGED <<mode, added, overrun, psdr, hwnd, values, screen, edited, closing, told, text, details>>

(* All ids of a setting are read to its first value, in turn.               *)
Found(o, d) ==
  {f \in (1 .. d.queries) \X (DOMAIN d.types) :
     LET id == SettingsId(d, f[2], f[1]) IN
     /\ Saved(d) /\ id \in DOMAIN state[o].ids
     /\ state[o].ids[id].kind = Kind(d)
     /\ Kind(d) = "string" => Length(state[o].ids[id].text) <= d.room[1]}

Restored(o, d, old) ==
  IF Found(o, d) = {} THEN old
  ELSE LET last == CHOOSE f \in Found(o, d) :
                     \A g \in Found(o, d) : g[1] < f[1] \/ (g[1] = f[1] /\ g[2] <= f[2])
       IN state[o].ids[SettingsId(d, last[2], last[1])].text

WtkRestoreObjectState(o) ==
  /\ Idle /\ "state" \in mode.calls /\ values[o] # <<>> /\ screen[o] = <<>>
  /\ values' = [values EXCEPT ![o] = [k \in Settings |-> [values[o][k] EXCEPT ![1] = Restored(o, Setting(k), @)]]]
  /\ UNCHANGED <<mode, added, overrun, psdr, hwnd, screen, edited, closing, told, state, text, details>>

----------------------------------------------------------------------------
(* Settings notebooks.                                                      *)

(* WtkReadObjectValueTable fills the controls of a page with the values.    *)
Read(o, p) ==
  /\ screen' = Filled(screen, OnPage(p), values[o])
  /\ edited' = StillEdited(OnPage(p))

(* WM_INITDLG: the page is registered and filled.                           *)
WtkRegisterSettingsDialog(o, p) ==
  /\ Idle /\ "notebook" \in mode.calls /\ values[o] # <<>>
  /\ OnPage(p) \cap DOMAIN screen[o] = {}
  /\ Undisturbed(o)
  /\ hwnd' = [c \in DOMAIN hwnd |-> IF c \in OnPage(p) THEN o ELSE hwnd[c]]
  /\ screen' = [screen EXCEPT ![o] = [c \in DOMAIN @ \cup OnPage(p) |->
                  IF c \in OnPage(p) THEN values[o][c[1]][c[2]] ELSE @[c]]]
  /\ UNCHANGED <<mode, added, overrun, psdr, values, edited, closing, told, state, text, details>>

(* What a control lets the user enter: an entry field no more than fits,    *)
(* a list box one of its items, no text for a number.                       *)
MayEnter(d, i) ==
  CASE d.types[i] = "STRING" -> {t \in mode.typed : Length(t) <= d.room[i]}
    [] d.types[i] = "BOOL" -> {<<"TRUE">>, <<"FALSE">>}
    [] d.types[i] = "LONG" -> {<<n>> : n \in Number}
    [] d.types[i] \in {"INDEX", "INDEXITEM"} -> Known
    [] OTHER -> {}

UserEnters(o) ==
  /\ Idle
  /\ \E c \in DOMAIN screen[o] : \E t \in MayEnter(Setting(c[1]), c[2]) :
       /\ screen' = [screen EXCEPT ![o][c] = t]
       /\ edited' = [edited EXCEPT ![o] = @ \cup {c}]
  /\ UNCHANGED <<mode, added, overrun, psdr, hwnd, values, closing, told, state, text, details>>

(* The undo button of a page.                                               *)
WtkReadObjectValueTable(o, p) ==
  /\ Idle /\ OnPage(p) # {} /\ OnPage(p) \subseteq DOMAIN screen[o]
  /\ Read(o, p)
  /\ UNCHANGED <<mode, added, overrun, psdr, hwnd, values, closing, told, state, text, details>>

(* SC_CLOSE of a registered notebook: it stays open while a control of the  *)
(* table has a text that is not valid, unless the control is disabled or    *)
(* the class returns TRUE when the error is reported to it.                 *)
WtkValidateObjectValueTable ==
  \A c \in DOMAIN hwnd : hwnd[c] # Null =>
    \/ Valid(Setting(c[1]), c[2], screen[hwnd[c]][c], FALSE)
    \/ screen[hwnd[c]][c] \in mode.passes

CloseNotebook(o) ==
  /\ Idle /\ screen[o] # <<>>
  /\ WtkValidateObjectValueTable
  /\ closing' = {o}
  /\ UNCHANGED <<mode, added, overrun, psdr, hwnd, values, screen, edited, told, state, text, details>>

(* WM_DESTROY of a page: WtkWriteObjectValueTable writes the texts of the   *)
(* controls the table has to the values of the object, and                  *)
(* WtkDeregisterSettingsDialog removes their handles from the table.        *)
WriteValue(o, c) ==
  IF hwnd[c] = Null THEN values[o][c[1]][c[2]]
  ELSE Written(Setting(c[1]), c[2], screen[hwnd[c]][c], values[o][c[1]][c[2]], FALSE)

WtkWriteObjectValueTable(o, p) ==
  values' = [values EXCEPT ![o] = [k \in Settings |-> [i \in DOMAIN @[k] |->
               IF <<k, i>> \in OnPage(p) THEN WriteValue(o, <<k, i>>) ELSE @[k][i]]]]

WtkDeregisterSettingsDialog(p) ==
  hwnd' = [c \in DOMAIN hwnd |-> IF c \in OnPage(p) THEN Null ELSE hwnd[c]]

DestroyPage(o, p) ==
  /\ o \in closing /\ OnPage(p) # {} /\ OnPage(p) \subseteq DOMAIN screen[o]
  /\ WtkWriteObjectValueTable(o, p)
  /\ told' = {k \in Settings : values'[o][k] # values[o][k]}
  /\ WtkDeregisterSettingsDialog(p)
  /\ screen' = [screen EXCEPT ![o] = [c \in DOMAIN @ \ OnPage(p) |-> @[c]]]
  /\ edited' = [edited EXCEPT ![o] = @ \ OnPage(p)]
  /\ closing' = IF screen'[o] = <<>> THEN {} ELSE closing
  /\ UNCHANGED <<mode, added, overrun, psdr, state, text, details>>

----------------------------------------------------------------------------
(* Details views.                                                           *)

Shown == {c \in DOMAIN hwnd : Setting(c[1]).titled}
Sum(f) == FoldFunctionOnSet(LAMBDA a, b : a + b, 0, f, DOMAIN f)

(* The memory for the items, and what copying them takes.                   *)
ItemSize(c) ==
  IF Setting(c[1]).types[c[2]] \in {"LONG", "DATE"} THEN 4 ELSE Setting(c[1]).room[c[2]]

(* The text of an index takes its length and a zero, or the room there is;  *)
(* but without room, its length is compared to the largest number.  Without *)
(* a text, all bytes of the room but one are filled with question marks,    *)
(* and left more bytes come before the next zero; without room, all of the  *)
(* memory is filled.                                                        *)
ItemUsed(o, c, answer, left) ==
  LET type == Setting(c[1]).types[c[2]]
      room == Setting(c[1]).room[c[2]]
  IN CASE type \in {"LONG", "DATE"} -> 4
       [] type = "STRING" -> Length(values[o][c[1]][c[2]])
       [] OTHER -> IF answer = 0 THEN room + left + (IF room = 0 THEN 1 ELSE 0)
                   ELSE IF room = 0 \/ answer < room THEN answer + 1 ELSE room

(* The class reports its columns: what takes ulDetailsSize bytes.           *)
WtkQueryClassDetailsInfo ==
  /\ Idle /\ "details" \in mode.calls /\ psdr.complete
  /\ psdr' = [psdr EXCEPT !.columns = Cardinality(Shown)]
  /\ UNCHANGED <<mode, added, overrun, hwnd, values, screen, edited, closing, told, state, text, details>>

(* answer: the length of the texts STM_CALLBACK_QUERYDETAILSTRING returns,  *)
(* or zero; left: what the memory happens to hold.                          *)
WtkQueryObjectDetailsData(o) ==
  /\ Idle /\ "details" \in mode.calls /\ values[o] # <<>> /\ psdr.columns > 0
  /\ \E answer \in 0 .. 3, left \in 0 .. 1 :
       /\ answer = 0 => mode.fails
       /\ details' = [allocated |-> Sum([c \in Shown |-> ItemSize(c)]),
                      used      |-> Sum([c \in Shown |-> ItemUsed(o, c, answer, left)]),
                      columns   |-> Cardinality(Shown)]
  /\ overrun' = (details'.used > details'.allocated)
  /\ UNCHANGED <<mode, added, psdr, hwnd, values, screen, edited, closing, told, state, text>>

----------------------------------------------------------------------------
NextOf(o) ==
  \/ WtkCreateObjectValueTable(o) \/ WtkDestroyObjectValueTable(o)
  \/ WtkEvaluateObjectSettings(o)
  \/ WtkSaveObjectSettings(o) \/ WtkRestoreObjectSettings(o)
  \/ WtkSaveObjectState(o) \/ WtkRestoreObjectState(o)
  \/ UserEnters(o) \/ CloseNotebook(o)
  \/ WtkQueryObjectDetailsData(o)
  \/ \E p \in Pages : WtkRegisterSettingsDialog(o, p) \/ WtkReadObjectValueTable(o, p) \/ DestroyPage(o, p)

Next == WtkAddClassSetting \/ WtkCloseClassSettingsTable \/ WtkQueryClassDetailsInfo \/ \E o \in mode.objects : NextOf(o)

Spec == Init /\ [][Next]_vars

----------------------------------------------------------------------------
(* Properties.                                                              *)

(* Type correctness: tables of handles and values follow that of the class, *)
(* and controls have handles only while their page is open.                 *)
TypeOK ==
  /\ mode \in Modes /\ added \in 0 .. Len(mode.class) /\ psdr.complete \in BOOLEAN
  /\ \A k \in Settings : Setting(k) \in Range(mode.class)
  /\ DOMAIN hwnd = Controls /\ Range(hwnd) \subseteq Object \cup {Null}
  /\ \A o \in Object : values[o] # <<>> =>
       /\ DOMAIN values[o] = Settings
       /\ \A k \in Settings : /\ DOMAIN values[o][k] = DOMAIN Setting(k).types
                              /\ Range(values[o][k]) \subseteq Text \cup {Unknown}
  /\ \A c \in DOMAIN hwnd : hwnd[c] # Null => c \in DOMAIN screen[hwnd[c]]
  /\ \A o \in Object : DOMAIN screen[o] \subseteq Controls /\ edited[o] \subseteq DOMAIN screen[o]
  /\ closing \subseteq Object /\ told \subseteq Settings

(* The class accepts a string that is longer than its buffer, or shows an   *)
(* index in details views for which it reserves no room or has no text.     *)
ClassIsCareless ==
  \/ \E c \in DOMAIN hwnd, t \in mode.accepts :
       Setting(c[1]).types[c[2]] = "STRING" /\ Length(t) > Setting(c[1]).room[c[2]]
  \/ \E c \in Shown : /\ Setting(c[1]).types[c[2]] \notin {"LONG", "DATE", "STRING"}
                      /\ Setting(c[1]).room[c[2]] = 0 \/ mode.fails

(* The strings in the instance data of an object fit into their buffers,    *)
(* and the details data of the object into the memory allocated for it and  *)
(* the columns the class reported, whichever of setup string, notebook or   *)
(* INI file the strings come from; it takes a careless class for a call to  *)
(* write behind a buffer.                                                   *)
StringsFit ==
  /\ \A o \in Object : values[o] # <<>> =>
       \A c \in DOMAIN hwnd :
         Setting(c[1]).types[c[2]] = "STRING" => Length(values[o][c[1]][c[2]]) <= Setting(c[1]).room[c[2]]
  /\ details.columns <= psdr.columns
  /\ details.used <= details.allocated \/ overrun
  /\ overrun => ClassIsCareless

(* A text that the class rejects when asked to validate it never gets into  *)
(* the values of an object, neither by a setup string nor by a notebook,    *)
(* also when several objects have theirs open; except for those with which  *)
(* the notebook closes all the same.                                        *)
OnlyAccepted ==
  \A o \in Object : values[o] # <<>> =>
    \A c \in DOMAIN hwnd : values[o][c[1]][c[2]] \notin mode.rejects \ mode.passes

(* As long as no other object of the class is used while an object has its  *)
(* notebook open, its controls show the values of the object, except where  *)
(* the user has entered something since.                                    *)
ControlsShowValues ==
  mode.alone => \A o \in Object : \A c \in DOMAIN screen[o] \ edited[o] :
    screen[o][c] = values[o][c[1]][c[2]]

(* The values of the objects are as their settings demand, and what is seen *)
(* of them is what they are.                                                *)
ValuesAreRight ==
  /\ TypeOK
  /\ StringsFit
  /\ OnlyAccepted
  /\ ControlsShowValues

(* Two settings may have ids in common, as the check of ids lets many pass: *)
(* then the object state gives each of them the value of the other one.     *)
SharesIds(k) == \E l \in Settings \ {k} : Ids(Setting(l)) \cap Ids(Setting(k)) # {}

(* When the notebook of an object is destroyed, what its controls show      *)
(* becomes the values of the object, and no others; unless the setting has  *)
(* ids in common with another one, and so a value that is not of its type.  *)
TakesInput(o, p) ==
  DestroyPage(o, p) => \A c \in DOMAIN hwnd :
    /\ c \notin OnPage(p) => values'[o][c[1]][c[2]] = values[o][c[1]][c[2]]
    /\ c \in OnPage(p) /\ ~SharesIds(c[1]) => values'[o][c[1]][c[2]] = screen[o][c]

ClosingTakesInput == [][mode.alone => \A o \in Object, p \in Pages : TakesInput(o, p)]_vars

(* A setting comes back from an INI file with all the values it had when    *)
(* the settings were saved, if its strings are neither empty nor have a     *)
(* comma, its indices are known, it has no value from a list box and the    *)
(* class rejects none; and no value of another setting with ids in common.  *)
Plain(d, v) ==
  /\ d.name # "" /\ d.queries > 0
  /\ \A i \in DOMAIN d.types : /\ d.types[i] # "INDEXITEM"
                               /\ Len(v[i]) = 1 /\ v[i] # Unknown /\ v[i] \notin mode.rejects

PlainSettingsComeBack ==
  [][\A o \in Object : WtkRestoreObjectSettings(o) /\ ~overrun' =>
       \A k \in Settings :
         ~SharesIds(k) /\ Plain(Setting(k), text[o].of[k]) => values'[o][k] = text[o].of[k]]_vars

(* The first value of a setting comes back from the object state, if the    *)
(* setting shares none of its ids.  Of the other values nothing is said:    *)
(* the descriptions of the calls have all of them saved and restored        *)
(* (wtkset.c:4777, 4797, 4961), the code saves the first one under each id  *)
(* (4868-4892).                                                             *)
FirstValuesComeBack ==
  [][\A o \in Object : WtkRestoreObjectState(o) /\ state[o].of # <<>> =>
       \A k \in Settings : Ids(Setting(k)) # {} /\ ~SharesIds(k) =>
         values'[o][k][1] = state[o].of[k][1]]_vars

(* What is saved of an object, in either way, is restored.                  *)
SettingsComeBack == PlainSettingsComeBack /\ FirstValuesComeBack

(* Settings change as a whole: a call of the manager that changes a value   *)
(* of a setting tells the class of the setting, and a setup string changes  *)
(* none of its values if one of them is not valid.                          *)
ChangesAreTold ==
  [][\A o \in Object : values[o] # <<>> /\ values'[o] # <<>> /\ ~WtkRestoreObjectState(o) =>
       \A k \in Settings : values'[o][k] # values[o][k] => k \in told']_vars

(* What the user or a setup string changes reaches the object and the class. *)
ChangesAreTaken == ChangesAreTold /\ ClosingTakesInput

============================================================================
