-------------------------- MODULE Settings_proofs --------------------------
(***************************************************************************)
(* The settings manager (Settings), whatever the class adds and whatever   *)
(* setup strings, users and the WPS do with its objects: values are valid  *)
(* and fit, and the controls of notebooks show them; what is changed       *)
(* reaches the object and the class; what is saved comes back.             *)
(*                                                                         *)
(* All rest on one invariant, SettingsInv, with a lemma for each call.     *)
(***************************************************************************)
EXTENDS Settings, FoldLemmas, FiniteSetTheorems, TLAPS

(* The table is a sequence of definitions, one for each setting that was    *)
(* not refused, and never gets out of step with the class.                  *)
TableFits ==
  /\ mode \in Modes
  /\ added \in Nat
  /\ psdr = [settings |-> psdr.settings, complete |-> psdr.complete, columns |-> psdr.columns]
  /\ psdr.settings \in Seq(Definition)

(* A name or an id is that of one setting.                                  *)
NamesAndIdsDiffer ==
  \A k \in Settings : \A l \in Settings \ {k} : ~Same(Setting(k), Setting(l))

ClassInv == TableFits /\ NamesAndIdsDiffer

(* The empty table of a new class has no two settings.                      *)
LEMMA InitTable == Init => ClassInv
<1> SUFFICES ASSUME Init PROVE ClassInv
  OBVIOUS
<1>1. psdr = [settings |-> <<>>, complete |-> FALSE, columns |-> 0]
  BY DEF Init
<1>2. TableFits
  BY <1>1 DEF Init, TableFits
<1>3. Settings = {}
  BY <1>1 DEF Settings
<1> QED
  BY <1>2, <1>3 DEF ClassInv, NamesAndIdsDiffer

(* Two definitions are the same in whatever order they are compared.        *)
LEMMA SameIsSymmetric == ASSUME NEW d, NEW e, Same(d, e) PROVE Same(e, d)
BY DEF Same

(* Adding a setting keeps the table a sequence, and the names and ids in it *)
(* apart: what is in the table already was compared with the new one.       *)
LEMMA AddKeepsTable ==
  ASSUME ClassInv, WtkAddClassSetting PROVE ClassInv'
<1> DEFINE d == mode.class[added + 1]
<1>1. d \in Definition
  <2>1. mode.class \in Seq(Definition)
    BY ClassAssumption DEF ClassInv, TableFits, Mode
  <2>2. added \in Nat /\ added < Len(mode.class)
    BY DEF ClassInv, TableFits, WtkAddClassSetting
  <2> QED
    BY <2>1, <2>2
<1>2. mode' = mode /\ added' = added + 1 /\ added' \in Nat
  BY DEF WtkAddClassSetting, ClassInv, TableFits
<1>3. CASE psdr' = psdr
  <2>1. TableFits'
    BY <1>2, <1>3 DEF ClassInv, TableFits
  <2>2. NamesAndIdsDiffer'
    BY <1>3 DEF ClassInv, NamesAndIdsDiffer, Settings, Setting
  <2> QED
    BY <2>1, <2>2 DEF ClassInv
<1>4. CASE MayAdd(d) /\ psdr' = [psdr EXCEPT !.settings = Append(@, d)]
  <2> DEFINE n == Len(psdr.settings)
  <2>1. psdr.settings \in Seq(Definition)
    BY DEF ClassInv, TableFits
  <2>2. /\ psdr'.settings = Append(psdr.settings, d)
        /\ psdr' = [settings |-> psdr'.settings, complete |-> psdr'.complete, columns |-> psdr'.columns]
    BY <1>4 DEF ClassInv, TableFits
  <2>3. TableFits'
    BY <1>1, <1>2, <2>1, <2>2 DEF ClassInv, TableFits
  <2>4. Settings = 1 .. n /\ Settings' = 1 .. (n + 1) /\ n \in Nat
    BY <1>1, <2>1, <2>2 DEF Settings
  <2>5. /\ psdr'.settings[n + 1] = d
        /\ \A k \in 1 .. n : psdr'.settings[k] = Setting(k)
    BY <1>1, <2>1, <2>2 DEF Setting
  <2>6. \A k \in 1 .. n : ~Same(d, Setting(k)) /\ ~Same(Setting(k), d)
    BY <1>4, <2>4, SameIsSymmetric DEF MayAdd
  <2>7. NamesAndIdsDiffer'
    <3> SUFFICES ASSUME NEW k \in 1 .. (n + 1), NEW l \in 1 .. (n + 1), k # l
                 PROVE ~Same(psdr'.settings[k], psdr'.settings[l])
      BY <2>4 DEF NamesAndIdsDiffer, Setting, Same
    <3> HIDE DEF d, n
    <3>1. CASE k \in 1 .. n /\ l \in 1 .. n
      <4>1. ~Same(Setting(k), Setting(l))
        BY <2>4, <3>1 DEF ClassInv, NamesAndIdsDiffer
      <4> QED
        BY <2>5, <3>1, <4>1
    <3>2. CASE k = n + 1 /\ l \in 1 .. n
      BY <2>5, <2>6, <3>2
    <3>3. CASE k \in 1 .. n /\ l = n + 1
      BY <2>5, <2>6, <3>3
    <3> QED
      BY <2>4, <3>1, <3>2, <3>3
  <2> QED
    BY <2>3, <2>7 DEF ClassInv
<1> QED
  BY <1>3, <1>4 DEF WtkAddClassSetting

(* Closing the table and asking for its columns leave the settings alone.   *)
LEMMA ClassCallsKeepTable ==
  ASSUME ClassInv, WtkCloseClassSettingsTable \/ WtkQueryClassDetailsInfo
  PROVE ClassInv'
<1>1. mode' = mode /\ added' = added
  BY DEF WtkCloseClassSettingsTable, WtkQueryClassDetailsInfo
<1>2. /\ psdr'.settings = psdr.settings
      /\ psdr' = [settings |-> psdr'.settings, complete |-> psdr'.complete, columns |-> psdr'.columns]
  BY DEF ClassInv, TableFits, WtkCloseClassSettingsTable, WtkQueryClassDetailsInfo
<1>3. TableFits'
  BY <1>1, <1>2 DEF ClassInv, TableFits
<1>4. NamesAndIdsDiffer'
  BY <1>2 DEF ClassInv, NamesAndIdsDiffer, Settings, Setting
<1> QED
  BY <1>3, <1>4 DEF ClassInv

(* No call for an object touches the table of its class.                    *)
LEMMA ObjectsKeepTable ==
  ASSUME NEW o \in mode.objects, NextOf(o)
  PROVE UNCHANGED <<mode, added, psdr>>
<1>1. CASE WtkCreateObjectValueTable(o) \/ WtkDestroyObjectValueTable(o)
  BY <1>1 DEF WtkCreateObjectValueTable, WtkDestroyObjectValueTable
<1>2. CASE WtkEvaluateObjectSettings(o) \/ WtkRestoreObjectSettings(o)
  BY <1>2 DEF WtkEvaluateObjectSettings, WtkRestoreObjectSettings, Evaluate
<1>3. CASE WtkSaveObjectSettings(o) \/ WtkSaveObjectState(o) \/ WtkRestoreObjectState(o)
  BY <1>3 DEF WtkSaveObjectSettings, WtkSaveObjectState, WtkRestoreObjectState
<1>4. CASE UserEnters(o) \/ CloseNotebook(o) \/ WtkQueryObjectDetailsData(o)
  BY <1>4 DEF UserEnters, CloseNotebook, WtkQueryObjectDetailsData
<1>5. CASE \E p \in Pages : WtkRegisterSettingsDialog(o, p) \/ WtkReadObjectValueTable(o, p) \/ DestroyPage(o, p)
  BY <1>5 DEF WtkRegisterSettingsDialog, WtkReadObjectValueTable, DestroyPage
<1> QED
  BY <1>1, <1>2, <1>3, <1>4, <1>5 DEF NextOf

(* A step that leaves the table alone keeps what is known of it.            *)
LEMMA SameTable ==
  ASSUME ClassInv, UNCHANGED <<mode, added, psdr>> PROVE ClassInv'
BY DEF ClassInv, TableFits, NamesAndIdsDiffer, Settings, Setting

-----------------------------------------------------------------------------
(* What is true of a table, its objects and their notebooks at any time.    *)

Shares(ss, k) == \E l \in DOMAIN ss \ {k} : Ids(ss[l]) \cap Ids(ss[k]) # {}

(* What a value of a type may be, if no other setting is saved under its    *)
(* ids.                                                                     *)
IsOf(type, t) ==
  /\ type = "LONG" => \E n \in Number : t = <<n>>
  /\ type = "BOOL" => t \in {<<"TRUE">>, <<"FALSE">>}
  /\ type = "INDEX" => t \in Known \cup {Unknown}
  /\ type = "INDEXITEM" => t \in Known
  /\ type = "DATE" => t = <<>>

Fits(ss, k, i, t) ==
  /\ t \in Text \cup {Unknown}
  /\ ss[k].types[i] = "STRING" => t \in Text /\ Length(t) <= ss[k].room[i]
  /\ ~Shares(ss, k) => IsOf(ss[k].types[i], t)

(* The texts a class keeps out of the values.                               *)
Barred(m) == m.rejects \ m.passes

(* A table of values is one of its class, and has no text that it keeps out. *)
IsTable(ss, barred, v) ==
  /\ v \in [DOMAIN ss -> Seq(Text \cup {Unknown})]
  /\ \A k \in DOMAIN ss :
       /\ DOMAIN v[k] = DOMAIN ss[k].types
       /\ \A i \in DOMAIN ss[k].types : Fits(ss, k, i, v[k][i]) /\ v[k][i] \notin barred

(* A saved setup string has each setting that is listed, and no other.      *)
IsText(ss, v, list) ==
  /\ list \in Seq(Item)
  /\ \A k \in DOMAIN ss : Listed(ss[k], v[k]) => \E j \in DOMAIN list : list[j] = AsText(ss[k], v[k])
  /\ \A j \in DOMAIN list : \E k \in DOMAIN ss : Listed(ss[k], v[k]) /\ list[j] = AsText(ss[k], v[k])

TableInv ==
  /\ ClassInv
  /\ added <= Len(mode.class) /\ psdr.complete \in BOOLEAN
  /\ \A k \in Settings : Setting(k) \in Range(mode.class) /\ Setting(k).types # <<>>

HandlesInv == hwnd \in [Controls -> Object \cup {Null}] /\ IsFiniteSet(Controls)

ValuesInv ==
  /\ DOMAIN values = Object
  /\ \A o \in Object : values[o] # <<>> =>
       psdr.complete /\ psdr.settings # <<>> /\ IsTable(psdr.settings, Barred(mode), values[o])

ScreensInv ==
  /\ DOMAIN screen = Object /\ DOMAIN edited = Object
  /\ \A o \in Object :
       /\ DOMAIN screen[o] \subseteq Controls /\ edited[o] \subseteq DOMAIN screen[o]
       /\ DOMAIN screen[o] # {} => values[o] # <<>>
       /\ \A c \in DOMAIN screen[o] : Fits(psdr.settings, c[1], c[2], screen[o][c])
       /\ \A c \in edited[o] : Setting(c[1]).types[c[2]] # "DATE"
  /\ \A c \in Controls : hwnd[c] # Null => c \in DOMAIN screen[hwnd[c]]

(* Once a notebook may close, no control of the table has a text that is    *)
(* rejected, until its last page is gone.                                   *)
ClosingInv ==
  /\ closing \subseteq Object /\ told \subseteq Settings
  /\ closing # {} => \A c \in Controls : hwnd[c] # Null => screen[hwnd[c]][c] \notin Barred(mode)

ShownInv ==
  mode.alone => \A o \in Object : \A c \in DOMAIN screen[o] :
    hwnd[c] = o /\ (c \notin edited[o] => screen[o][c] = values[o][c[1]][c[2]])

StatesInv ==
  /\ DOMAIN state = Object
  /\ \A o \in Object :
       /\ state[o].of = <<>> => DOMAIN state[o].ids = {}
       /\ state[o].of # <<>> =>
            /\ psdr.complete /\ IsTable(psdr.settings, Barred(mode), state[o].of)
            /\ DOMAIN state[o].ids = UNION {Ids(Setting(k)) : k \in Settings}
       /\ \A id \in DOMAIN state[o].ids : \E k \in Settings :
            /\ id \in Ids(Setting(k))
            /\ state[o].ids[id] = [kind |-> Kind(Setting(k)), text |-> state[o].of[k][1]]

TextsInv ==
  /\ DOMAIN text = Object
  /\ \A o \in Object : text[o].of # <<>> =>
       /\ psdr.complete /\ IsTable(psdr.settings, Barred(mode), text[o].of)
       /\ IsText(psdr.settings, text[o].of, text[o].settings)

DetailsInv ==
  /\ details.used <= details.allocated \/ overrun
  /\ overrun => psdr.complete /\ ClassIsCareless
  /\ details.columns \in Nat /\ psdr.columns \in Nat /\ details.columns <= psdr.columns
  /\ psdr.columns # 0 => psdr.complete /\ psdr.columns = Cardinality(Shown)

SettingsInv ==
  /\ TableInv /\ HandlesInv /\ ValuesInv /\ ScreensInv /\ ClosingInv /\ ShownInv
  /\ StatesInv /\ TextsInv /\ DetailsInv

-----------------------------------------------------------------------------
(* Texts.                                                                  *)

(* The length of a text is a number.                                       *)
LEMMA LengthType ==
  ASSUME NEW t \in Text PROVE Length(t) \in Nat
<1> DEFINE f == [x \in Nat \X Part |-> x[1] + Size[x[2]] + 1]
           n == Len(t)
           Step(g, S) == IF S = {} THEN 0 ELSE g[S \ {Max(S)}] + Size[t[Max(S)]] + 1
           iter == CHOOSE g : g = [S \in SUBSET (1 .. n) |-> Step(g, S)]
<1>0. \A p \in Part : Size[p] \in Nat
  BY PartAssumption
<1>1. f \in [Nat \X Part -> Nat] /\ \A a \in Nat, p \in Part : f[<<a, p>>] = a + Size[p] + 1
  BY <1>0
<1>2. n \in Nat /\ t \in [1 .. n -> Part] /\ DOMAIN t = 1 .. n
  BY DEF Text
<1> HIDE DEF f, n
<1>3. PICK g \in [SUBSET (1 .. n) -> Nat] : IsFold(f, 0, n, t, g)
  <2>1. 0 \in Nat
    OBVIOUS
  <2> HIDE DEF Step, iter
  <2> QED BY ONLY <1>1, <1>2, <2>1, FoldExists
<1>4. ASSUME NEW S \in SUBSET (1 .. n) PROVE g[S] = Step(g, S)
  <2>1. CASE S = {}
    BY <2>1, <1>3 DEF FoldStep, IsFold
  <2>2. CASE S # {}
    <3>1. Max(S) \in 1 .. n
      BY <2>2, <1>2, MaxIsLargest
    <3>2. g[S \ {Max(S)}] \in Nat /\ t[Max(S)] \in Part
      BY <3>1, <1>2, <1>3
    <3> QED BY <2>2, <3>2, <1>1, <1>3 DEF FoldStep, IsFold
  <2> QED BY <2>1, <2>2
<1>5. iter = [S \in SUBSET (1 .. n) |-> Step(iter, S)]
  <2>1. g = [S \in SUBSET (1 .. n) |-> Step(g, S)]
    BY <1>3, <1>4
  <2> HIDE DEF Step
  <2> QED BY <2>1
<1>6. Length(t) = IF t = <<>> THEN 1 ELSE iter[1 .. n]
  BY <1>2 DEF Length, FoldLeft, MapThenFoldSet
<1> HIDE DEF iter
<1>7. iter[1 .. 0] = 0
  BY <1>2, <1>5
<1>8. ASSUME NEW k \in 1 .. n, iter[1 .. (k - 1)] \in Nat
      PROVE  iter[1 .. k] = f[<<iter[1 .. (k - 1)], t[k]>>]
  <2>0. k \in Nat /\ k # 0 /\ 1 .. k \in SUBSET (1 .. n)
    BY <1>2
  <2>1. 1 .. k # {} /\ Max(1 .. k) = k /\ (1 .. k) \ {Max(1 .. k)} = 1 .. (k - 1)
    BY <2>0, MaxOfPrefix
  <2>2. iter[1 .. k] = iter[1 .. (k - 1)] + Size[t[k]] + 1
    BY <1>5, <2>0, <2>1
  <2>3. t[k] \in Part
    BY <1>2
  <2> QED BY <1>1, <1>8, <2>2, <2>3
<1>9. iter[1 .. n] \in Nat
  <2>1. 0 \in Nat /\ n \in 0 .. n
    BY <1>2
  <2> HIDE DEF Step
  <2>2. f \in [Nat \X Part -> Nat] /\ t \in [1 .. n -> Part]
    BY <1>1, <1>2
  <2>3. Follows(f, 0, n, t, Nat, iter)
    BY <1>7, <1>8 DEF Follows
  <2>4. StaysIn(f, n, t, Nat, iter)
    BY ONLY <1>2, <2>1, <2>2, <2>3, FoldChain
  <2> QED BY <2>1, <2>4 DEF StaysIn
<1> QED BY <1>6, <1>9

(* A sequence over a set is one over a larger set.                         *)
LEMMA SeqInLarger ==
  ASSUME NEW S, NEW T, S \subseteq T, NEW s \in Seq(S) PROVE s \in Seq(T)
OBVIOUS

(* A text is not that of an index that is not known.                       *)
LEMMA UnknownIsNoText == Unknown \notin Text
<1>1. "?" \notin Part
  BY PartAssumption
<1>2. ASSUME NEW S, NEW e, e \notin S PROVE <<e>> \notin Seq(S)
  <2> SUFFICES ASSUME <<e>> \in Seq(S) PROVE FALSE
    OBVIOUS
  <2>1. Len(<<e>>) = 1 /\ <<e>>[1] = e /\ \A s \in Seq(S) : \A i \in 1 .. Len(s) : s[i] \in S
    OBVIOUS
  <2> QED BY <1>2, <2>1
<1> QED BY <1>1, <1>2 DEF Unknown, Text

(* What the text of a value becomes in a setup string.                     *)
LEMMA PartsType ==
  ASSUME NEW t \in Text \cup {Unknown} PROVE Parts(t) \in Seq(Piece)
<1>1. Part \subseteq Piece /\ "" \in Piece
  BY DEF Piece
<1>2. CASE t \in {<<>>, Unknown}
  <2>1. Parts(t) = <<"">>
    BY <1>2 DEF Parts
  <2>2. \A S : \A e \in S : <<e>> \in Seq(S)
    OBVIOUS
  <2> QED BY <1>1, <2>1, <2>2
<1>3. CASE t \notin {<<>>, Unknown}
  <2>1. Parts(t) = t /\ t \in Seq(Part)
    BY <1>3 DEF Parts, Text
  <2> QED BY <1>1, <2>1, SeqInLarger
<1> QED BY <1>2, <1>3

(* The parts of a setting, value by value.                                 *)
LEMMA PartsFold ==
  ASSUME NEW d, NEW v \in Seq(Text \cup {Unknown})
  PROVE  \E after \in [0 .. Len(v) -> Seq(Piece)] :
           /\ after[0] = <<>>
           /\ \A k \in 1 .. Len(v) : after[k] = after[k - 1] \o Parts(v[k])
           /\ AsText(d, v) = [name |-> d.name, parts |-> after[Len(v)]]
<1> DEFINE A == Seq(Piece)
           B == Text \cup {Unknown}
           f == [x \in A \X B |-> x[1] \o Parts(x[2])]
           n == Len(v)
           Step(g, S) == IF S = {} THEN <<>> ELSE g[S \ {Max(S)}] \o Parts(v[Max(S)])
           iter == CHOOSE g : g = [S \in SUBSET (1 .. n) |-> Step(g, S)]
<1>0. /\ \A t \in B : Parts(t) \in A
      /\ \A a, b \in A : a \o b \in A
      /\ <<>> \in A
  BY PartsType
<1>1. f \in [A \X B -> A] /\ (\A a \in A, t \in B : f[<<a, t>>] = a \o Parts(t))
  <2> HIDE DEF A, B
  <2> QED BY <1>0
<1>2. n \in Nat /\ v \in [1 .. n -> B] /\ DOMAIN v = 1 .. n
  OBVIOUS
<1> HIDE DEF f, n, A, B
<1>3. PICK g \in [SUBSET (1 .. n) -> A] : IsFold(f, <<>>, n, v, g)
  <2> HIDE DEF Step, iter
  <2> QED BY ONLY <1>0, <1>1, <1>2, FoldExists
<1>4. ASSUME NEW S \in SUBSET (1 .. n) PROVE g[S] = Step(g, S)
  <2>1. CASE S = {}
    BY <2>1, <1>3 DEF FoldStep, IsFold
  <2>2. CASE S # {}
    <3>1. Max(S) \in 1 .. n
      BY <2>2, <1>2, MaxIsLargest
    <3>2. g[S \ {Max(S)}] \in A /\ v[Max(S)] \in B
      BY <3>1, <1>2, <1>3
    <3> QED BY <2>2, <3>2, <1>1, <1>3 DEF FoldStep, IsFold
  <2> QED BY <2>1, <2>2
<1>5. iter = [S \in SUBSET (1 .. n) |-> Step(iter, S)]
  <2>1. g = [S \in SUBSET (1 .. n) |-> Step(g, S)]
    BY <1>3, <1>4
  <2> HIDE DEF Step
  <2> QED BY <2>1
<1>6. AsText(d, v) = [name |-> d.name, parts |-> iter[1 .. n]]
  BY <1>2 DEF AsText, FoldLeft, MapThenFoldSet
<1> HIDE DEF iter
<1>7. ASSUME NEW k \in 1 .. n, iter[1 .. (k - 1)] \in A
      PROVE  iter[1 .. k] = f[<<iter[1 .. (k - 1)], v[k]>>]
  <2>0. k \in Nat /\ k # 0 /\ 1 .. k \in SUBSET (1 .. n)
    BY <1>2
  <2>1. 1 .. k # {} /\ Max(1 .. k) = k /\ (1 .. k) \ {Max(1 .. k)} = 1 .. (k - 1)
    BY <2>0, MaxOfPrefix
  <2>2. iter[1 .. k] = iter[1 .. (k - 1)] \o Parts(v[k])
    BY <1>5, <2>0, <2>1
  <2>3. v[k] \in B
    BY <1>2
  <2> QED BY <1>1, <1>7, <2>2, <2>3
<1>8. Follows(f, <<>>, n, v, A, iter)
  <2>1. iter[1 .. 0] = <<>>
    BY <1>2, <1>5
  <2> QED BY <1>7, <2>1 DEF Follows
<1> HIDE DEF Step
<1>9. StaysIn(f, n, v, A, iter)
  BY ONLY <1>0, <1>1, <1>2, <1>8, FoldChain
<1> DEFINE after == [k \in 0 .. n |-> iter[1 .. k]]
<1>10. after \in [0 .. n -> A] /\ after[0] = <<>> /\ n \in 0 .. n
  BY <1>2, <1>8, <1>9 DEF Follows, StaysIn
<1>11. ASSUME NEW k \in 1 .. n PROVE after[k] = after[k - 1] \o Parts(v[k])
  <2>1. k \in 0 .. n /\ k - 1 \in 0 .. n /\ v[k] \in B
    BY <1>2
  <2> QED BY <1>1, <1>9, <2>1 DEF StaysIn
<1>12. AsText(d, v) = [name |-> d.name, parts |-> after[n]]
  BY <1>6, <1>10
<1> HIDE DEF after
<1> QED BY <1>10, <1>11, <1>12 DEF n, A

(* A sequence with another one of one element behind it.                   *)
LEMMA OneMore ==
  ASSUME NEW S, NEW a \in Seq(S), NEW e \in S
  PROVE  /\ Len(a) \in Nat /\ Len(a \o <<e>>) = Len(a) + 1
         /\ \A i \in 1 .. Len(a) : (a \o <<e>>)[i] = a[i]
         /\ (a \o <<e>>)[Len(a) + 1] = e
OBVIOUS

(* A text of one part is neither empty nor that of an unknown index.       *)
LEMMA OnePartIsText ==
  ASSUME NEW p \in Part PROVE <<p>> \in Text /\ Parts(<<p>>) = <<p>>
<1>1. <<p>> \in Text /\ <<p>> # <<>>
  BY DEF Text
<1>2. <<p>> # Unknown
  BY <1>1, UnknownIsNoText
<1> QED BY <1>1, <1>2 DEF Parts

(* A setting is saved as one a setup string may have.                      *)
LEMMA AsTextType ==
  ASSUME NEW d, d.name \in Key, NEW v \in Seq(Text \cup {Unknown})
  PROVE  AsText(d, v) \in Item /\ AsText(d, v).name = d.name
<1>1. Len(v) \in 0 .. Len(v)
  OBVIOUS
<1>2. PICK after \in [0 .. Len(v) -> Seq(Piece)] :
        AsText(d, v) = [name |-> d.name, parts |-> after[Len(v)]]
  BY PartsFold
<1>3. after[Len(v)] \in Seq(Piece)
  BY <1>1
<1> QED BY <1>2, <1>3 DEF Item

(* A value of one part stays one.                                          *)
LEMMA AsTextSingle ==
  ASSUME NEW d, NEW v \in Seq(Text \cup {Unknown}),
         NEW e \in [1 .. Len(v) -> Part], \A i \in 1 .. Len(v) : v[i] = <<e[i]>>
  PROVE  Len(AsText(d, v).parts) = Len(v) /\ \A i \in 1 .. Len(v) : AsText(d, v).parts[i] = e[i]
<1> DEFINE n == Len(v)
<1>1. PICK after \in [0 .. n -> Seq(Piece)] :
        /\ after[0] = <<>>
        /\ \A k \in 1 .. n : after[k] = after[k - 1] \o Parts(v[k])
        /\ AsText(d, v) = [name |-> d.name, parts |-> after[n]]
  BY PartsFold
<1>2. n \in Nat /\ \A k \in 1 .. n : e[k] \in Piece /\ Parts(v[k]) = <<e[k]>>
  <2>1. Part \subseteq Piece
    BY DEF Piece
  <2>2. n \in Nat
    OBVIOUS
  <2>3. \A k \in 1 .. n : e[k] \in Part /\ v[k] = <<e[k]>>
    OBVIOUS
  <2> HIDE DEF n
  <2> QED BY ONLY <2>1, <2>2, <2>3, OnePartIsText
<1> DEFINE T == {k \in Nat : k <= n => Len(after[k]) = k /\ \A i \in 1 .. k : after[k][i] = e[i]}
<1> HIDE DEF n
<1>4. 0 \in T
  BY <1>1
<1>5. ASSUME NEW k \in Nat, k \in T PROVE k + 1 \in T
  <2> SUFFICES ASSUME k + 1 <= n
               PROVE  Len(after[k + 1]) = k + 1 /\ \A i \in 1 .. (k + 1) : after[k + 1][i] = e[i]
    OBVIOUS
  <2>1. k + 1 \in 1 .. n /\ (k + 1) - 1 = k /\ k \in 0 .. n
    BY <1>2
  <2>2. after[k + 1] = after[k] \o <<e[k + 1]>> /\ after[k] \in Seq(Piece) /\ e[k + 1] \in Piece
    BY <1>1, <1>2, <2>1
  <2>3. Len(after[k]) = k /\ \A i \in 1 .. k : after[k][i] = e[i]
    BY <1>5, <2>1
  <2>4. \A i \in 1 .. (k + 1) : i \in 1 .. k \/ i = k + 1
    OBVIOUS
  <2> HIDE DEF T
  <2> QED BY <2>2, <2>3, <2>4, OneMore
<1>6. n \in T
  <2> HIDE DEF T
  <2> QED BY <1>2, <1>4, <1>5, NatSetInduction
<1> QED BY <1>1, <1>2, <1>6 DEF n

(* What is listed has a name.                                              *)
LEMMA ListedName ==
  ASSUME NEW d \in Definition, NEW v, Listed(d, v) PROVE d.name \in Key
BY DEF Definition, Listed, Key

(* The setup string of an object is one of its values.                     *)
LEMMA QueryIsText ==
  ASSUME psdr.settings \in Seq(Definition), NEW o,
         values[o] \in [Settings -> Seq(Text \cup {Unknown})]
  PROVE  IsText(psdr.settings, values[o], WtkQueryObjectSettings(o))
<1> DEFINE ss == psdr.settings
           v == values[o]
           n == Len(ss)
           L(k) == Listed(ss[k], v[k])
           X(k) == AsText(ss[k], v[k])
           A == Seq(Item)
           f == [x \in A \X (1 .. n) |-> IF L(x[2]) THEN Append(x[1], X(x[2])) ELSE x[1]]
           id == [k \in Settings |-> k]
           Step(g, S) == IF S = {} THEN <<>>
                         ELSE IF L(id[Max(S)]) THEN Append(g[S \ {Max(S)}], X(id[Max(S)])) ELSE g[S \ {Max(S)}]
           iter == CHOOSE g : g = [S \in SUBSET (1 .. n) |-> Step(g, S)]
<1>0. /\ n \in Nat /\ Settings = 1 .. n /\ id \in [1 .. n -> 1 .. n] /\ DOMAIN id = 1 .. n
      /\ \A k \in 1 .. n : id[k] = k
  BY DEF Settings
<1>1. \A k \in 1 .. n : L(k) => X(k) \in Item
  <2> SUFFICES ASSUME NEW k \in 1 .. n, Listed(ss[k], v[k]) PROVE AsText(ss[k], v[k]) \in Item
    OBVIOUS
  <2>1. ss[k] \in Definition /\ v[k] \in Seq(Text \cup {Unknown})
    BY <1>0
  <2> HIDE DEF ss, v
  <2> QED BY <2>1, ListedName, AsTextType
<1>2. WtkQueryObjectSettings(o) = iter[1 .. n]
  BY <1>0 DEF WtkQueryObjectSettings, FoldLeft, MapThenFoldSet, Setting
<1> HIDE DEF L, X, id, n
<1>3. <<>> \in A /\ \A a \in A, i \in Item : Append(a, i) \in A
  OBVIOUS
<1> HIDE DEF A
<1>4. /\ f \in [A \X (1 .. n) -> A]
      /\ \A a \in A, k \in 1 .. n : f[<<a, k>>] = IF L(k) THEN Append(a, X(k)) ELSE a
  BY <1>1, <1>3
<1> HIDE DEF f
<1>5. PICK g \in [SUBSET (1 .. n) -> A] : IsFold(f, <<>>, n, id, g)
  <2> HIDE DEF Step, iter
  <2> QED BY ONLY <1>0, <1>3, <1>4, FoldExists
<1>6. ASSUME NEW S \in SUBSET (1 .. n) PROVE g[S] = Step(g, S)
  <2>1. CASE S = {}
    BY <2>1, <1>5 DEF FoldStep, IsFold
  <2>2. CASE S # {}
    <3>1. Max(S) \in 1 .. n
      BY <2>2, <1>0, MaxIsLargest
    <3>2. g[S \ {Max(S)}] \in A /\ id[Max(S)] \in 1 .. n
      BY <3>1, <1>0, <1>5
    <3> QED BY <2>2, <3>2, <1>4, <1>5 DEF FoldStep, IsFold
  <2> QED BY <2>1, <2>2
<1>7. iter = [S \in SUBSET (1 .. n) |-> Step(iter, S)]
  <2>1. g = [S \in SUBSET (1 .. n) |-> Step(g, S)]
    BY <1>5, <1>6
  <2> HIDE DEF Step
  <2> QED BY <2>1
<1> HIDE DEF iter
<1>8. ASSUME NEW k \in 1 .. n, iter[1 .. (k - 1)] \in A
      PROVE  iter[1 .. k] = f[<<iter[1 .. (k - 1)], id[k]>>]
  <2>0. k \in Nat /\ k # 0 /\ 1 .. k \in SUBSET (1 .. n)
    BY <1>0
  <2>1. 1 .. k # {} /\ Max(1 .. k) = k /\ (1 .. k) \ {Max(1 .. k)} = 1 .. (k - 1)
    BY <2>0, MaxOfPrefix
  <2>2. iter[1 .. k] = IF L(k) THEN Append(iter[1 .. (k - 1)], X(k)) ELSE iter[1 .. (k - 1)]
    <3>1. iter[1 .. k] = Step(iter, 1 .. k)
      <4> HIDE DEF Step
      <4> QED BY <1>7, <2>0
    <3>2. id[Max(1 .. k)] = k
      BY <1>0, <2>1
    <3> QED BY <2>1, <3>1, <3>2
  <2> QED BY <1>0, <1>4, <1>8, <2>2
<1>9. Follows(f, <<>>, n, id, A, iter)
  <2>1. iter[1 .. 0] = <<>>
    BY <1>0, <1>7
  <2> QED BY <1>8, <2>1 DEF Follows
<1> HIDE DEF Step
<1>10. StaysIn(f, n, id, A, iter)
  BY ONLY <1>0, <1>3, <1>4, <1>9, FoldChain
<1> DEFINE after(k) == iter[1 .. k]
           Has(k) == /\ \A l \in 1 .. k : L(l) => \E j \in DOMAIN after(k) : after(k)[j] = X(l)
                     /\ \A j \in DOMAIN after(k) : \E l \in 1 .. k : L(l) /\ after(k)[j] = X(l)
           T == {k \in Nat : k <= n => Has(k)}
<1>11. after(0) = <<>>
  BY <1>9 DEF Follows
<1>12. 0 \in T
  BY <1>11
<1>13. ASSUME NEW k \in Nat, k \in T PROVE k + 1 \in T
  <2> HIDE DEF Has
  <2> SUFFICES ASSUME k + 1 <= n PROVE Has(k + 1)
    OBVIOUS
  <2>1. k + 1 \in 1 .. n /\ (k + 1) - 1 = k /\ k \in 0 .. n
    BY <1>0
  <2>2. Has(k)
    BY <1>13, <2>1
  <2>3. after(k) \in Seq(Item)
    BY <1>10, <2>1 DEF StaysIn, A
  <2>4. after(k + 1) = IF L(k + 1) THEN Append(after(k), X(k + 1)) ELSE after(k)
    <3>1. after(k + 1) = f[<<after(k), k + 1>>]
      BY <1>0, <1>10, <2>1 DEF StaysIn
    <3>2. after(k) \in A
      BY <2>3 DEF A
    <3> QED BY <1>4, <2>1, <3>1, <3>2
  <2> HIDE DEF after
  <2>5. \A l \in 1 .. (k + 1) : l \in 1 .. k \/ l = k + 1
    OBVIOUS
  <2>6. CASE ~L(k + 1)
    BY <2>2, <2>4, <2>5, <2>6 DEF Has
  <2>7. CASE L(k + 1)
    <3> DEFINE a == after(k)
               b == after(k + 1)
               x == X(k + 1)
    <3>1. b = Append(a, x) /\ x \in Item /\ a \in Seq(Item)
      BY <1>1, <2>1, <2>3, <2>4, <2>7
    <3>2. /\ DOMAIN a = 1 .. Len(a) /\ Len(a) \in Nat
          /\ DOMAIN b = 1 .. (Len(a) + 1) /\ b[Len(a) + 1] = x
          /\ \A j \in 1 .. Len(a) : b[j] = a[j]
      <4> HIDE DEF x, a, b
      <4> QED BY <3>1
    <3>3. \A l \in 1 .. (k + 1) : L(l) => \E j \in DOMAIN b : b[j] = X(l)
      <4> SUFFICES ASSUME NEW l \in 1 .. (k + 1), L(l) PROVE \E j \in DOMAIN b : b[j] = X(l)
        OBVIOUS
      <4>1. CASE l = k + 1
        <5>1. Len(a) + 1 \in DOMAIN b
          BY <3>2
        <5> QED BY <3>2, <4>1, <5>1
      <4>2. CASE l \in 1 .. k
        <5>1. PICK j \in DOMAIN a : a[j] = X(l)
          BY <2>2, <4>2 DEF Has
        <5>2. j \in DOMAIN b /\ b[j] = a[j]
          BY <3>2
        <5> QED BY <5>1, <5>2
      <4> QED BY <2>5, <4>1, <4>2
    <3>4. \A j \in DOMAIN b : \E l \in 1 .. (k + 1) : L(l) /\ b[j] = X(l)
      <4> SUFFICES ASSUME NEW j \in DOMAIN b PROVE \E l \in 1 .. (k + 1) : L(l) /\ b[j] = X(l)
        OBVIOUS
      <4>1. CASE j = Len(a) + 1
        <5>1. k + 1 \in 1 .. (k + 1)
          OBVIOUS
        <5> QED BY <2>7, <3>2, <4>1, <5>1
      <4>2. CASE j \in DOMAIN a
        <5>1. PICK l \in 1 .. k : L(l) /\ a[j] = X(l)
          BY <2>2, <4>2 DEF Has
        <5>2. l \in 1 .. (k + 1) /\ b[j] = a[j]
          BY <3>2, <4>2
        <5> QED BY <5>1, <5>2
      <4>3. j = Len(a) + 1 \/ j \in DOMAIN a
        BY <3>2
      <4> QED BY <4>1, <4>2, <4>3
    <3> QED BY <3>3, <3>4 DEF Has
  <2> QED BY <2>6, <2>7
<1>14. Has(n)
  <2> HIDE DEF Has
  <2>1. Nat \subseteq T
    <3> HIDE DEF T
    <3> QED BY <1>12, <1>13, NatSetInduction
  <2> QED BY <1>0, <2>1
<1>15. iter[1 .. n] \in Seq(Item)
  BY <1>0, <1>10 DEF StaysIn, A
<1>16. DOMAIN ss = 1 .. n
  BY DEF n
<1> QED BY <1>2, <1>14, <1>15, <1>16 DEF IsText, L, X

-----------------------------------------------------------------------------
(* Values.                                                                 *)

(* What a class has in its table.                                          *)
LEMMA TableFacts ==
  ASSUME TableInv
  PROVE  /\ psdr.settings \in Seq(Definition) /\ Settings = 1 .. Len(psdr.settings)
         /\ mode \in Modes /\ mode \in Mode /\ Barred(mode) \subseteq Text
         /\ mode.rejects \subseteq Text /\ mode.accepts \subseteq Text
         /\ mode.setups \subseteq Seq(Item) /\ mode.typed \subseteq Text /\ mode.objects \subseteq Object
<1>1. mode \in Modes /\ psdr.settings \in Seq(Definition)
  BY DEF TableInv, ClassInv, TableFits
<1>2. mode \in Mode
  BY <1>1, ClassAssumption
<1> QED BY <1>1, <1>2 DEF Mode, Settings, Barred

(* Each value of a setting has a type, a default and a length.             *)
LEMMA SettingFacts ==
  ASSUME TableInv, NEW k \in Settings
  PROVE  /\ Setting(k) \in Definition
         /\ 1 \in DOMAIN Setting(k).types /\ Setting(k).types \in Seq(Type)
         /\ \A i \in DOMAIN Setting(k).types :
              /\ Setting(k).types[i] \in Type
              /\ Setting(k).defaults[i] \in Text
              /\ Setting(k).room[i] \in Nat
              /\ Setting(k).types[i] = "STRING" => Setting(k).room[i] > 0
<1> DEFINE d == Setting(k)
<1>1. d \in Definition
  BY TableFacts DEF Setting
<1>2. d \in Range(mode.class) /\ d.types # <<>>
  BY DEF TableInv
<1>3. /\ Len(d.defaults) = Len(d.types) /\ Len(d.room) = Len(d.types)
      /\ \A i \in DOMAIN d.types : d.types[i] = "STRING" => d.room[i] > 0
  <2> HIDE DEF d
  <2> QED BY <1>2, TableFacts, ClassAssumption
<1>4. d.types \in Seq(Type) /\ d.defaults \in Seq(Text) /\ d.room \in Seq(Nat)
  BY <1>1 DEF Definition
<1> HIDE DEF d
<1>5. /\ DOMAIN d.types = 1 .. Len(d.types) /\ 1 \in DOMAIN d.types
      /\ \A i \in DOMAIN d.types : d.types[i] \in Type
  BY <1>2, <1>4
<1>6. \A i \in DOMAIN d.types : d.defaults[i] \in Text /\ d.room[i] \in Nat
  BY <1>3, <1>4, <1>5
<1> QED BY <1>1, <1>3, <1>4, <1>5, <1>6 DEF d

(* A text of one part is that part.                                        *)
LEMMA OnePart == ASSUME NEW t \in Text, Len(t) = 1 PROVE t[1] \in Part /\ t = <<t[1]>>
<1>1. ASSUME NEW s \in Seq(Part) PROVE Len(s) = 1 => s[1] \in Part /\ s = <<s[1]>>
  OBVIOUS
<1> QED BY <1>1 DEF Text

(* The texts of a check box are texts the class does not reject, as is that *)
(* of an index that is not known.                                          *)
LEMMA NeverRejected ==
  ASSUME TableInv
  PROVE  /\ {<<"TRUE">>, <<"FALSE">>} \subseteq Text
         /\ {<<"TRUE">>, <<"FALSE">>, Unknown} \cap Barred(mode) = {}
<1>1. \A p \in Part : <<p>> \in Text
  BY OnePartIsText
<1>2. {"TRUE", "FALSE"} \subseteq Part
  BY PartAssumption
<1>3. InitialValue("BOOL") = <<"FALSE">> /\ "BOOL" \in Type
  BY DEF InitialValue, Type
<1>4. mode.rejects \cap ({InitialValue(type) : type \in Type} \cup {<<"TRUE">>}) = {}
  BY TableFacts, AnswersAssumption
<1>5. <<"TRUE">> \notin mode.rejects /\ InitialValue("BOOL") \notin mode.rejects
  BY <1>3, <1>4
<1>6. Unknown \notin mode.rejects
  BY TableFacts, UnknownIsNoText
<1>7. Barred(mode) \subseteq mode.rejects
  BY DEF Barred
<1> QED BY <1>1, <1>2, <1>3, <1>5, <1>6, <1>7

(* The number that a text begins with is one, and not rejected if the text *)
(* is a number or the class accepts it.                                    *)
LEMMA AsNumberIs ==
  ASSUME TableInv, NEW t \in Text
  PROVE  /\ AsNumber(t) \in Text /\ \E n \in Number : AsNumber(t) = <<n>>
         /\ Len(t) = 1 /\ t[1] \in Number => AsNumber(t) = t
         /\ t \in mode.accepts => AsNumber(t) \notin mode.rejects
<1>1. "0" \in Number /\ Number \subseteq Part
  BY PartAssumption
<1>2. PICK n \in Number : AsNumber(t) = <<n>>
  BY <1>1 DEF AsNumber
<1>3. AsNumber(t) \in Text
  BY <1>1, <1>2, OnePartIsText
<1>4. ASSUME Len(t) = 1, t[1] \in Number PROVE AsNumber(t) = t
  <2>1. t = <<t[1]>>
    BY <1>4, OnePart
  <2>2. <<t[1]>> # <<>>
    OBVIOUS
  <2>3. AsNumber(t) = <<t[1]>>
    BY ONLY <1>4, <2>1, <2>2 DEF AsNumber
  <2> QED BY <2>1, <2>3
<1>5. t \in mode.accepts => AsNumber(t) \notin mode.rejects
  BY TableFacts, AnswersAssumption
<1> QED BY <1>2, <1>3, <1>4, <1>5

(* A valid text from a setup string becomes a value that fits, if a string  *)
(* is no longer than its buffer.                                           *)
LEMMA GivenFits ==
  ASSUME TableInv, NEW k \in Settings, NEW i \in DOMAIN Setting(k).types,
         NEW t \in Text, Valid(Setting(k), i, t, TRUE),
         Setting(k).types[i] = "STRING" => Length(t) <= Setting(k).room[i],
         NEW old, Fits(psdr.settings, k, i, old), old \notin Barred(mode)
  PROVE  LET w == Written(Setting(k), i, t, old, TRUE) IN
         Fits(psdr.settings, k, i, w) /\ w \notin Barred(mode)
<1> DEFINE d == Setting(k)
           w == Written(d, i, t, old, TRUE)
<1>0. psdr.settings[k] = d /\ t \notin mode.rejects /\ Barred(mode) \subseteq mode.rejects
  BY DEF Setting, Valid, Barred
<1>1. CASE d.types[i] = "STRING"
  <2>1. w = t /\ Length(t) <= d.room[i]
    BY <1>1 DEF Written
  <2> QED BY <1>0, <1>1, <2>1 DEF Fits, IsOf
<1>2. CASE d.types[i] = "LONG"
  <2>1. w = AsNumber(t)
    BY <1>2 DEF Written
  <2>2. t \in mode.accepts \/ (Len(t) = 1 /\ t[1] \in Number)
    BY <1>2 DEF Valid
  <2>3. w \in Text /\ w \notin Barred(mode) /\ \E n \in Number : w = <<n>>
    <3>1. AsNumber(t) \in Text /\ \E n \in Number : AsNumber(t) = <<n>>
      BY AsNumberIs
    <3>2. AsNumber(t) \notin mode.rejects
      BY <1>0, <2>2, AsNumberIs
    <3> HIDE DEF w
    <3> QED BY <1>0, <2>1, <3>1, <3>2
  <2>4. Fits(psdr.settings, k, i, w)
    <3> HIDE DEF w
    <3> QED BY <1>0, <1>2, <2>3 DEF Fits, IsOf
  <2> QED BY <2>3, <2>4
<1>3. CASE d.types[i] = "BOOL"
  <2>1. w \in {<<"TRUE">>, <<"FALSE">>}
    BY <1>3 DEF Written
  <2> QED BY <1>0, <1>3, <2>1, NeverRejected DEF Fits, IsOf
<1>4. CASE d.types[i] = "INDEX"
  <2>1. w = IF t \in Known THEN t ELSE Unknown
    BY <1>4 DEF Written
  <2> QED BY <1>0, <1>4, <2>1, NeverRejected DEF Fits, IsOf
<1>5. CASE d.types[i] \in {"INDEXITEM", "DATE"}
  <2>1. w = old
    BY <1>5 DEF Written
  <2> QED BY <2>1
<1> QED BY <1>1, <1>2, <1>3, <1>4, <1>5, SettingFacts DEF Type

(* What a control has becomes a value that fits.                           *)
LEMMA EnteredFits ==
  ASSUME TableInv, NEW k \in Settings, NEW i \in DOMAIN Setting(k).types,
         NEW t, Fits(psdr.settings, k, i, t), t \notin Barred(mode),
         NEW old, Fits(psdr.settings, k, i, old), old \notin Barred(mode)
  PROVE  LET w == Written(Setting(k), i, t, old, FALSE) IN
         Fits(psdr.settings, k, i, w) /\ w \notin Barred(mode)
<1> DEFINE d == Setting(k)
           w == Written(d, i, t, old, FALSE)
<1>0. psdr.settings[k] = d
  BY DEF Setting
<1>1. CASE d.types[i] \in {"STRING", "LONG", "INDEXITEM"}
  <2>1. w = t
    BY <1>1 DEF Written
  <2> QED BY <2>1
<1>2. CASE d.types[i] = "BOOL"
  <2>1. w \in {<<"TRUE">>, <<"FALSE">>}
    BY <1>2 DEF Written
  <2> QED BY <1>0, <1>2, <2>1, NeverRejected DEF Fits, IsOf
<1>3. CASE d.types[i] = "INDEX"
  <2>1. w = IF t \in Known THEN t ELSE Unknown
    BY <1>3 DEF Written
  <2>2. Known \subseteq Text
    BY PartAssumption
  <2> QED BY <1>0, <1>3, <2>1, <2>2, NeverRejected DEF Fits, IsOf
<1>4. CASE d.types[i] = "DATE"
  <2>1. w = old
    BY <1>4 DEF Written
  <2> QED BY <2>1
<1> QED BY <1>1, <1>2, <1>3, <1>4, SettingFacts DEF Type

-----------------------------------------------------------------------------
(* Setup strings.                                                          *)

(* A name is that of one setting.                                          *)
LEMMA NamedOnce ==
  ASSUME TableInv, NEW k \in Settings, NEW l \in Settings,
         Setting(k).name = Setting(l).name, Setting(k).name \in Key
  PROVE  k = l
BY DEF TableInv, ClassInv, NamesAndIdsDiffer, Same, Key

(* What a setting of a setup string gives, or its default, is a text.      *)
LEMMA GivenType ==
  ASSUME TableInv, NEW k \in Settings, NEW i \in DOMAIN Setting(k).types, NEW s \in Item
  PROVE  Given(Setting(k), s, i) \in Text
<1>1. Setting(k).defaults[i] \in Text
  BY SettingFacts
<1>2. i <= Len(s.parts) => s.parts[i] \in Piece
  <2>1. s.parts \in Seq(Piece)
    BY DEF Item
  <2>2. i \in Nat /\ i >= 1
    BY SettingFacts
  <2> QED BY <2>1, <2>2
<1>3. i <= Len(s.parts) /\ s.parts[i] # "" => s.parts[i] \in Part
  BY <1>2 DEF Piece
<1>4. i <= Len(s.parts) /\ s.parts[i] # "" => <<s.parts[i]>> \in Text
  BY <1>3, OnePartIsText
<1> QED BY <1>1, <1>4 DEF Given

(* The values a setting has after one of a setup string.                   *)
NewValues(k, s, old) ==
  [i \in DOMAIN Setting(k).types |-> Written(Setting(k), i, Given(Setting(k), s, i), old[i], TRUE)]

(* A setting of a setup string changes the setting of its name, or nothing. *)
LEMMA EvaluateSettingIs ==
  ASSUME TableInv, NEW now, NEW s \in Item
  PROVE  \/ /\ EvaluateSetting(now, s) = now
            /\ \A k \in Settings : ~(Setting(k).name = s.name /\ Accepts(Setting(k), s))
         \/ \E k \in Settings :
              /\ Setting(k).name = s.name /\ Accepts(Setting(k), s)
              /\ EvaluateSetting(now, s) =
                   [values |-> [now.values EXCEPT ![k] = NewValues(k, s, now.values[k])],
                    set    |-> now.set \cup {k},
                    told   |-> IF NewValues(k, s, now.values[k]) # now.values[k] THEN now.told \cup {k} ELSE now.told]
<1>1. CASE \A k \in Settings : ~(Setting(k).name = s.name /\ Accepts(Setting(k), s))
  BY <1>1 DEF EvaluateSetting
<1>2. ASSUME NEW l \in Settings, Setting(l).name = s.name, Accepts(Setting(l), s)
      PROVE  \E k \in Settings :
               /\ Setting(k).name = s.name /\ Accepts(Setting(k), s)
               /\ EvaluateSetting(now, s) =
                    [values |-> [now.values EXCEPT ![k] = NewValues(k, s, now.values[k])],
                     set    |-> now.set \cup {k},
                     told   |-> IF NewValues(k, s, now.values[k]) # now.values[k] THEN now.told \cup {k} ELSE now.told]
  <2> DEFINE k == CHOOSE k \in Settings : Setting(k).name = s.name
  <2>1. k \in Settings /\ Setting(k).name = s.name
    BY <1>2
  <2>2. EvaluateSetting(now, s) =
          [values |-> [now.values EXCEPT ![k] = NewValues(k, s, now.values[k])],
           set    |-> now.set \cup {k},
           told   |-> IF NewValues(k, s, now.values[k]) # now.values[k] THEN now.told \cup {k} ELSE now.told]
    BY <1>2 DEF EvaluateSetting, NewValues
  <2> HIDE DEF k
  <2>3. s.name \in Key
    BY DEF Item
  <2>4. k = l
    BY <1>2, <2>1, <2>3, NamedOnce
  <2> QED BY <1>2, <2>1, <2>2, <2>4
<1> QED BY <1>1, <1>2

(* What is true while a setup string is evaluated: the values are those of  *)
(* the object, except in the settings that were set, and the class is told  *)
(* of every change.                                                        *)
Good(o) ==
  {now \in [values : [Settings -> Seq(Text \cup {Unknown})], set : SUBSET Settings, told : SUBSET Settings] :
     /\ IsTable(psdr.settings, Barred(mode), now.values)
     /\ \A k \in Settings : /\ k \notin now.set => now.values[k] = values[o][k]
                            /\ now.values[k] # values[o][k] => k \in now.told}

(* The new values of a setting fit, as all of them are valid.              *)
LEMMA NewValuesFit ==
  ASSUME TableInv, NEW k \in Settings, NEW s \in Item, Setting(k).name = s.name, Accepts(Setting(k), s), ~Overruns(s),
         NEW v, IsTable(psdr.settings, Barred(mode), v)
  PROVE  /\ NewValues(k, s, v[k]) \in Seq(Text \cup {Unknown})
         /\ DOMAIN NewValues(k, s, v[k]) = DOMAIN Setting(k).types
         /\ \A i \in DOMAIN Setting(k).types :
              /\ Fits(psdr.settings, k, i, NewValues(k, s, v[k])[i])
              /\ NewValues(k, s, v[k])[i] \notin Barred(mode)
<1> DEFINE d == Setting(k)
           new == NewValues(k, s, v[k])
<1>1. ASSUME NEW i \in DOMAIN d.types
      PROVE  Fits(psdr.settings, k, i, new[i]) /\ new[i] \notin Barred(mode)
  <2>1. Given(d, s, i) \in Text /\ Valid(d, i, Given(d, s, i), TRUE)
    BY GivenType DEF Accepts
  <2>2. Fits(psdr.settings, k, i, v[k][i]) /\ v[k][i] \notin Barred(mode)
    BY TableFacts DEF IsTable, Setting, Settings
  <2>3. new[i] = Written(d, i, Given(d, s, i), v[k][i], TRUE)
    BY DEF NewValues
  <2>4. d.types[i] = "STRING" => Length(Given(d, s, i)) <= d.room[i]
    <3>1. ~(d.types[i] = "STRING" /\ Length(Given(d, s, i)) > d.room[i])
      BY DEF Overruns
    <3>2. Length(Given(d, s, i)) \in Nat /\ d.room[i] \in Nat
      BY <2>1, LengthType, SettingFacts
    <3> HIDE DEF d
    <3> QED BY <3>1, <3>2
  <2> QED BY <2>1, <2>2, <2>3, <2>4, GivenFits
<1>2. DOMAIN new = DOMAIN d.types
  BY DEF NewValues
<1>3. new \in Seq(Text \cup {Unknown})
  <2>1. d.types \in Seq(Type)
    BY SettingFacts
  <2>2. DOMAIN new = 1 .. Len(d.types) /\ Len(d.types) \in Nat
    BY <1>2, <2>1
  <2>3. \A i \in 1 .. Len(d.types) : new[i] \in Text \cup {Unknown}
    BY <1>1, <1>2, <2>2 DEF Fits
  <2>4. new = [i \in 1 .. Len(d.types) |-> new[i]]
    BY <1>2, <2>2 DEF NewValues
  <2>5. \A S : \A n \in Nat : \A f \in [1 .. n -> S] : f \in Seq(S)
    OBVIOUS
  <2> HIDE DEF new, d
  <2>6. new \in [1 .. Len(d.types) -> Text \cup {Unknown}]
    BY <2>3, <2>4
  <2> QED BY <2>2, <2>5, <2>6
<1> QED BY <1>1, <1>2, <1>3

(* Each setting of a setup string keeps that.                              *)
LEMMA EvaluateSettingGood ==
  ASSUME TableInv, NEW o, NEW now \in Good(o), NEW s \in Item, ~Overruns(s)
  PROVE  EvaluateSetting(now, s) \in Good(o)
<1>1. CASE EvaluateSetting(now, s) = now
  BY <1>1
<1>2. ASSUME NEW k \in Settings, Setting(k).name = s.name, Accepts(Setting(k), s),
             EvaluateSetting(now, s) =
               [values |-> [now.values EXCEPT ![k] = NewValues(k, s, now.values[k])],
                set    |-> now.set \cup {k},
                told   |-> IF NewValues(k, s, now.values[k]) # now.values[k] THEN now.told \cup {k} ELSE now.told]
      PROVE  EvaluateSetting(now, s) \in Good(o)
  <2> DEFINE new == NewValues(k, s, now.values[k])
             next == EvaluateSetting(now, s)
             ss == psdr.settings
  <2>1. /\ now.values \in [Settings -> Seq(Text \cup {Unknown})]
        /\ now.set \subseteq Settings /\ now.told \subseteq Settings
        /\ IsTable(ss, Barred(mode), now.values)
        /\ \A l \in Settings : /\ l \notin now.set => now.values[l] = values[o][l]
                               /\ now.values[l] # values[o][l] => l \in now.told
    BY DEF Good
  <2>2. /\ new \in Seq(Text \cup {Unknown})
        /\ DOMAIN new = DOMAIN Setting(k).types
        /\ \A i \in DOMAIN Setting(k).types : Fits(ss, k, i, new[i]) /\ new[i] \notin Barred(mode)
    BY <1>2, <2>1, NewValuesFit
  <2>3. /\ next.values = [now.values EXCEPT ![k] = new]
        /\ next.set = now.set \cup {k}
        /\ next.told = IF new # now.values[k] THEN now.told \cup {k} ELSE now.told
        /\ next = [values |-> next.values, set |-> next.set, told |-> next.told]
    BY <1>2
  <2> HIDE DEF new, next
  <2>4. /\ next.values \in [Settings -> Seq(Text \cup {Unknown})]
        /\ next.values[k] = new /\ \A l \in Settings : l # k => next.values[l] = now.values[l]
    BY <2>1, <2>2, <2>3
  <2>5. IsTable(ss, Barred(mode), next.values)
    <3>1. Settings = DOMAIN ss /\ \A l \in Settings : Setting(l) = ss[l]
      BY DEF Settings, Setting
    <3> HIDE DEF ss
    <3>2. ASSUME NEW l \in DOMAIN ss
          PROVE  /\ DOMAIN next.values[l] = DOMAIN ss[l].types
                 /\ \A i \in DOMAIN ss[l].types :
                      Fits(ss, l, i, next.values[l][i]) /\ next.values[l][i] \notin Barred(mode)
      <4>1. CASE l = k
        BY <2>2, <2>4, <3>1, <4>1
      <4>2. CASE l # k
        BY <2>1, <2>4, <3>1, <4>2 DEF IsTable
      <4> QED BY <4>1, <4>2
    <3> QED BY <2>4, <3>1, <3>2 DEF IsTable
  <2>6. \A l \in Settings : /\ l \notin next.set => next.values[l] = values[o][l]
                            /\ next.values[l] # values[o][l] => l \in next.told
    BY <2>1, <2>3, <2>4
  <2>7. next.set \subseteq Settings /\ next.told \subseteq Settings
    BY <2>1, <2>3
  <2>8. next \in [values : [Settings -> Seq(Text \cup {Unknown})], set : SUBSET Settings, told : SUBSET Settings]
    BY <2>3, <2>4, <2>7
  <2> QED BY <2>5, <2>6, <2>8 DEF Good, next
<1> QED BY <1>1, <1>2, EvaluateSettingIs

(* Evaluating a setup string, setting by setting.                          *)
LEMMA EvaluatedFold ==
  ASSUME TableInv, NEW o, NEW setup \in Seq(Item), IsTable(psdr.settings, Barred(mode), values[o]),
         \A j \in DOMAIN setup : ~Overruns(setup[j])
  PROVE  \E after \in [0 .. Len(setup) -> Good(o)] :
           /\ after[0] = [values |-> values[o], set |-> {}, told |-> {}]
           /\ \A k \in 1 .. Len(setup) : after[k] = EvaluateSetting(after[k - 1], setup[k])
           /\ Evaluated(o, setup) = after[Len(setup)]
<1> DEFINE A == Good(o)
           B == {s \in Item : ~Overruns(s)}
           base == [values |-> values[o], set |-> {}, told |-> {}]
           f == [x \in A \X B |-> EvaluateSetting(x[1], x[2])]
           n == Len(setup)
           Step(g, S) == IF S = {} THEN base ELSE EvaluateSetting(g[S \ {Max(S)}], setup[Max(S)])
           iter == CHOOSE g : g = [S \in SUBSET (1 .. n) |-> Step(g, S)]
<1>0. base \in A
  <2>1. values[o] \in [Settings -> Seq(Text \cup {Unknown})]
    BY DEF IsTable, Settings
  <2> QED BY <2>1 DEF Good
<1>1. f \in [A \X B -> A] /\ \A a \in A, s \in B : f[<<a, s>>] = EvaluateSetting(a, s)
  <2>1. \A a \in A, s \in B : EvaluateSetting(a, s) \in A
    BY EvaluateSettingGood
  <2> HIDE DEF A, B
  <2> QED BY <2>1
<1>2. n \in Nat /\ setup \in [1 .. n -> B] /\ DOMAIN setup = 1 .. n
  OBVIOUS
<1>3. Evaluated(o, setup) = iter[1 .. n]
  BY <1>2 DEF Evaluated, FoldLeft, MapThenFoldSet
<1> HIDE DEF f, n, A, B, base
<1>4. PICK g \in [SUBSET (1 .. n) -> A] : IsFold(f, base, n, setup, g)
  <2> HIDE DEF Step, iter
  <2> QED BY ONLY <1>0, <1>1, <1>2, FoldExists
<1>5. ASSUME NEW S \in SUBSET (1 .. n) PROVE g[S] = Step(g, S)
  <2>1. CASE S = {}
    BY <2>1, <1>4 DEF FoldStep, IsFold
  <2>2. CASE S # {}
    <3>1. Max(S) \in 1 .. n
      BY <2>2, <1>2, MaxIsLargest
    <3>2. g[S \ {Max(S)}] \in A /\ setup[Max(S)] \in B
      BY <3>1, <1>2, <1>4
    <3> QED BY <2>2, <3>2, <1>1, <1>4 DEF FoldStep, IsFold
  <2> QED BY <2>1, <2>2
<1>6. iter = [S \in SUBSET (1 .. n) |-> Step(iter, S)]
  <2>1. g = [S \in SUBSET (1 .. n) |-> Step(g, S)]
    BY <1>4, <1>5
  <2> HIDE DEF Step
  <2> QED BY <2>1
<1> HIDE DEF iter
<1>7. ASSUME NEW k \in 1 .. n, iter[1 .. (k - 1)] \in A
      PROVE  iter[1 .. k] = f[<<iter[1 .. (k - 1)], setup[k]>>]
  <2>0. k \in Nat /\ k # 0 /\ 1 .. k \in SUBSET (1 .. n)
    BY <1>2
  <2>1. 1 .. k # {} /\ Max(1 .. k) = k /\ (1 .. k) \ {Max(1 .. k)} = 1 .. (k - 1)
    BY <2>0, MaxOfPrefix
  <2>2. iter[1 .. k] = EvaluateSetting(iter[1 .. (k - 1)], setup[k])
    <3>1. iter[1 .. k] = Step(iter, 1 .. k)
      <4> HIDE DEF Step
      <4> QED BY <1>6, <2>0
    <3> QED BY <2>1, <3>1
  <2>3. setup[k] \in B
    BY <1>2
  <2> QED BY <1>1, <1>7, <2>2, <2>3
<1>8. Follows(f, base, n, setup, A, iter)
  <2>1. iter[1 .. 0] = base
    BY <1>2, <1>6
  <2> QED BY <1>7, <2>1 DEF Follows
<1> HIDE DEF Step
<1>9. StaysIn(f, n, setup, A, iter)
  BY ONLY <1>0, <1>1, <1>2, <1>8, FoldChain
<1> DEFINE after == [k \in 0 .. n |-> iter[1 .. k]]
<1>10. after \in [0 .. n -> A] /\ after[0] = base /\ n \in 0 .. n
  BY <1>2, <1>8, <1>9 DEF Follows, StaysIn
<1>11. ASSUME NEW k \in 1 .. n PROVE after[k] = EvaluateSetting(after[k - 1], setup[k])
  <2>1. k \in 0 .. n /\ k - 1 \in 0 .. n /\ setup[k] \in B
    BY <1>2
  <2>2. after[k] = iter[1 .. k] /\ after[k - 1] = iter[1 .. (k - 1)] /\ after[k - 1] \in A
    BY <1>10, <2>1
  <2> HIDE DEF after
  <2> QED BY <1>1, <1>9, <2>1, <2>2 DEF StaysIn
<1>12. Evaluated(o, setup) = after[n]
  BY <1>3, <1>10
<1> HIDE DEF after
<1> QED BY <1>10, <1>11, <1>12 DEF n, A, base

(* A setup string leaves values that fit.                                  *)
LEMMA EvaluatedGood ==
  ASSUME TableInv, NEW o, NEW setup \in Seq(Item), IsTable(psdr.settings, Barred(mode), values[o]),
         \A j \in DOMAIN setup : ~Overruns(setup[j])
  PROVE  Evaluated(o, setup) \in Good(o)
<1>1. PICK after \in [0 .. Len(setup) -> Good(o)] : Evaluated(o, setup) = after[Len(setup)]
  BY EvaluatedFold
<1>2. Len(setup) \in 0 .. Len(setup)
  OBVIOUS
<1> QED BY <1>1, <1>2

-----------------------------------------------------------------------------
(* What a step leaves alone.                                               *)

(* A control is that of a value of a setting.                              *)
LEMMA ControlFacts ==
  /\ \A c \in Controls : c[1] \in Settings /\ c[2] \in DOMAIN Setting(c[1]).types /\ c = <<c[1], c[2]>>
  /\ \A k \in Settings : \A i \in DOMAIN Setting(k).types : <<k, i>> \in Controls
BY DEF Controls, ValuesOf

(* The class stays what it is.                                             *)
LEMMA SameControls ==
  ASSUME psdr'.settings = psdr.settings PROVE Settings' = Settings /\ Controls' = Controls
BY DEF Controls, ValuesOf, Settings, Setting

(* So does how careful it is.                                              *)
LEMMA SameCare ==
  ASSUME UNCHANGED mode, psdr'.settings = psdr.settings, DOMAIN hwnd' = DOMAIN hwnd
  PROVE  Shown' = Shown /\ ClassIsCareless' = ClassIsCareless
<1>1. Shown' = Shown
  BY DEF Shown, Setting
<1> QED BY <1>1 DEF ClassIsCareless, Setting

(* So does what is known of it.                                            *)
LEMMA SameClass ==
  ASSUME TableInv, UNCHANGED <<mode, added, psdr>>
  PROVE  TableInv' /\ Settings' = Settings /\ Controls' = Controls
<1>1. ClassInv'
  BY SameTable DEF TableInv
<1>2. Settings' = Settings
  BY SameControls
<1>3. Controls' = Controls
  BY SameControls
<1>4. \A k \in Settings' : Setting(k)' \in Range(mode.class)' /\ Setting(k)'.types # <<>>
  BY <1>2 DEF TableInv, Setting, Range
<1> QED BY <1>1, <1>2, <1>3, <1>4 DEF TableInv

(* What depends on nothing that changes stays true.                        *)
LEMMA Kept ==
  ASSUME SettingsInv, UNCHANGED mode,
         psdr'.settings = psdr.settings, psdr.complete => psdr'.complete
  PROVE  /\ UNCHANGED hwnd => HandlesInv'
         /\ UNCHANGED values => ValuesInv'
         /\ UNCHANGED <<hwnd, values, screen, edited>> => ScreensInv' /\ ShownInv'
         /\ UNCHANGED <<hwnd, screen, closing, told>> => ClosingInv'
         /\ UNCHANGED state => StatesInv'
         /\ UNCHANGED text => TextsInv'
         /\ DOMAIN hwnd' = DOMAIN hwnd /\ UNCHANGED <<overrun, psdr, details>> => DetailsInv'
<1>1. Settings' = Settings /\ Controls' = Controls
  BY SameControls
<1>2. ASSUME UNCHANGED hwnd PROVE HandlesInv'
  BY <1>1, <1>2 DEF SettingsInv, HandlesInv
<1>3. ASSUME UNCHANGED values PROVE ValuesInv'
  BY <1>3 DEF SettingsInv, ValuesInv
<1>4. ASSUME UNCHANGED <<hwnd, values, screen, edited>> PROVE ScreensInv' /\ ShownInv'
  <2>1. ScreensInv'
    BY <1>1, <1>4 DEF SettingsInv, ScreensInv, Setting
  <2>2. ShownInv'
    BY <1>4 DEF SettingsInv, ShownInv
  <2> QED BY <2>1, <2>2
<1>5. ASSUME UNCHANGED <<hwnd, screen, closing, told>> PROVE ClosingInv'
  BY <1>1, <1>5 DEF SettingsInv, ClosingInv
<1>6. ASSUME UNCHANGED state PROVE StatesInv'
  <2>1. StatesInv
    BY DEF SettingsInv
  <2>2. UNION {Ids(Setting(k)) : k \in Settings}' = UNION {Ids(Setting(k)) : k \in Settings}
    BY <1>1 DEF Setting
  <2> QED BY <1>1, <1>6, <2>1, <2>2 DEF StatesInv, Setting
<1>7. ASSUME UNCHANGED text PROVE TextsInv'
  BY <1>7 DEF SettingsInv, TextsInv
<1>8. ASSUME DOMAIN hwnd' = DOMAIN hwnd, UNCHANGED <<overrun, psdr, details>> PROVE DetailsInv'
  <2>1. Shown' = Shown /\ ClassIsCareless' = ClassIsCareless
    BY <1>8, SameCare
  <2> QED BY <1>8, <2>1 DEF SettingsInv, DetailsInv
<1> QED BY <1>1, <1>2, <1>3, <1>4, <1>5, <1>6, <1>7, <1>8

(* A new class, no objects.                                                *)
LEMMA InitSettings == Init => SettingsInv
<1> SUFFICES ASSUME Init PROVE SettingsInv
  OBVIOUS
<1>1. /\ mode \in Modes /\ added = 0
      /\ psdr.settings = <<>> /\ psdr.complete = FALSE /\ psdr.columns = 0 /\ hwnd = <<>>
  BY DEF Init
<1>2. Settings = {} /\ Controls = {} /\ DOMAIN hwnd = {}
  BY <1>1 DEF Settings, Controls
<1>3. TableInv
  <2>1. Len(mode.class) \in Nat
    BY <1>1, ClassAssumption DEF Mode
  <2>2. ClassInv
    BY InitTable
  <2>3. added <= Len(mode.class)
    BY ONLY <1>1, <2>1
  <2>4. psdr.complete \in BOOLEAN
    BY <1>1
  <2> QED BY <1>2, <2>2, <2>3, <2>4 DEF TableInv
<1>4. HandlesInv
  <2>1. <<>> \in [{} -> Object \cup {Null}]
    OBVIOUS
  <2> QED BY <1>1, <1>2, <2>1, FS_EmptySet DEF HandlesInv
<1>5. ValuesInv /\ StatesInv /\ TextsInv
  BY DEF Init, ValuesInv, StatesInv, TextsInv
<1>6. ScreensInv /\ ClosingInv /\ ShownInv
  BY <1>2 DEF Init, ScreensInv, ClosingInv, ShownInv
<1>7. DetailsInv
  BY <1>1 DEF Init, DetailsInv
<1> QED BY <1>3, <1>4, <1>5, <1>6, <1>7 DEF SettingsInv

-----------------------------------------------------------------------------
(* The class.                                                              *)

(* As long as the table is not complete, there is nothing else.            *)
LEMMA NothingYet ==
  ASSUME SettingsInv, ~psdr.complete
  PROVE  /\ \A o \in Object : /\ values[o] = <<>> /\ DOMAIN screen[o] = {} /\ edited[o] = {}
                             /\ state[o].of = <<>> /\ DOMAIN state[o].ids = {} /\ text[o].of = <<>>
         /\ \A c \in Controls : hwnd[c] = Null
         /\ psdr.columns = 0 /\ ~overrun
<1>1. \A o \in Object : values[o] = <<>> /\ state[o].of = <<>> /\ DOMAIN state[o].ids = {} /\ text[o].of = <<>>
  BY DEF SettingsInv, ValuesInv, StatesInv, TextsInv
<1>2. \A o \in Object : DOMAIN screen[o] = {} /\ edited[o] = {}
  BY <1>1 DEF SettingsInv, ScreensInv
<1>3. \A c \in Controls : hwnd[c] = Null
  BY <1>2 DEF SettingsInv, ScreensInv, HandlesInv
<1>4. psdr.columns = 0 /\ ~overrun
  BY DEF SettingsInv, DetailsInv
<1> QED BY <1>1, <1>2, <1>3, <1>4

(* A setting that is added has a handle for each of its values.            *)
LEMMA AddedHandles ==
  ASSUME SettingsInv, NEW d \in Definition, psdr.settings \in Seq(Definition),
         psdr'.settings = Append(psdr.settings, d),
         hwnd' = [c \in DOMAIN hwnd \cup {<<Len(psdr'.settings), i>> : i \in DOMAIN d.types} |->
                    IF c \in DOMAIN hwnd THEN hwnd[c] ELSE Null],
         \A c \in Controls : hwnd[c] = Null
  PROVE  HandlesInv' /\ \A c \in Controls' : hwnd'[c] = Null
<1> DEFINE n == Len(psdr.settings)
           V == {<<n + 1, i>> : i \in DOMAIN d.types}
<1>1. /\ n \in Nat /\ Len(psdr'.settings) = n + 1
      /\ DOMAIN psdr.settings = 1 .. n /\ DOMAIN psdr'.settings = 1 .. (n + 1)
      /\ psdr'.settings[n + 1] = d /\ \A k \in 1 .. n : psdr'.settings[k] = psdr.settings[k]
  BY DEF Definition
<1>2. DOMAIN hwnd = Controls /\ IsFiniteSet(Controls)
  BY DEF SettingsInv, HandlesInv
<1> HIDE DEF n
<1>3. Controls' = Controls \cup V
  <2>1. Controls = UNION {{<<k, i>> : i \in DOMAIN psdr.settings[k].types} : k \in 1 .. n}
    BY <1>1 DEF Controls, ValuesOf, Settings, Setting
  <2>2. Controls' = UNION {{<<k, i>> : i \in DOMAIN psdr'.settings[k].types} : k \in 1 .. (n + 1)}
    BY <1>1 DEF Controls, ValuesOf, Settings, Setting
  <2>3. 1 .. (n + 1) = (1 .. n) \cup {n + 1}
    BY <1>1
  <2> QED BY <1>1, <2>1, <2>2, <2>3
<1>4. IsFiniteSet(V)
  <2> DEFINE f == [i \in DOMAIN d.types |-> <<n + 1, i>>]
  <2>1. f \in Surjection(DOMAIN d.types, V)
    BY DEF Surjection
  <2>2. d.types \in Seq(Type)
    BY DEF Definition
  <2>3. DOMAIN d.types = 1 .. Len(d.types) /\ Len(d.types) \in Int /\ 1 \in Int
    BY <2>2
  <2>4. IsFiniteSet(DOMAIN d.types)
    BY <2>3, FS_Interval
  <2> HIDE DEF f, V
  <2> QED BY <2>1, <2>4, FS_Surjection
<1>5. IsFiniteSet(Controls')
  BY <1>2, <1>3, <1>4, FS_Union
<1>6. hwnd' = [c \in Controls' |-> Null]
  BY <1>1, <1>2, <1>3
<1> HIDE DEF V
<1>7. hwnd' \in [Controls' -> Object \cup {Null}] /\ \A c \in Controls' : hwnd'[c] = Null
  BY <1>6
<1> QED BY <1>5, <1>7 DEF HandlesInv

(* Adding a setting to the table of the class keeps what is true of it.    *)
LEMMA AddKeepsSettings ==
  ASSUME SettingsInv, WtkAddClassSetting PROVE SettingsInv'
<1> DEFINE d == mode.class[added + 1]
<1>0. /\ UNCHANGED <<mode, overrun, values, screen, edited, closing, told, state, text, details>>
      /\ ~psdr.complete /\ added < Len(mode.class) /\ added' = added + 1
  BY DEF WtkAddClassSetting
<1>1. TableInv /\ ClassInv /\ ClassInv' /\ added \in Nat
  BY AddKeepsTable DEF SettingsInv, TableInv, ClassInv, TableFits
<1>2. mode.class \in Seq(Definition) /\ Len(mode.class) \in Nat
  BY <1>1, TableFacts DEF Mode
<1>3. added' <= Len(mode'.class)
  BY <1>0, <1>1, <1>2
<1>4. CASE UNCHANGED <<psdr, hwnd>>
  <2>1. TableInv'
    <3>1. \A k \in Settings' : Setting(k)' \in Range(mode.class)' /\ Setting(k)'.types # <<>>
      BY <1>0, <1>1, <1>4, SameControls DEF TableInv, Setting, Range
    <3>2. psdr'.complete \in BOOLEAN
      BY <1>1, <1>4 DEF TableInv
    <3> QED BY <1>1, <1>3, <3>1, <3>2 DEF TableInv
  <2> QED BY <1>0, <1>4, <2>1, Kept DEF SettingsInv
<1>5. CASE /\ MayAdd(d)
           /\ psdr' = [psdr EXCEPT !.settings = Append(@, d)]
           /\ hwnd' = [c \in DOMAIN hwnd \cup {<<Len(psdr'.settings), i>> : i \in DOMAIN d.types} |->
                         IF c \in DOMAIN hwnd THEN hwnd[c] ELSE Null]
  <2>1. d \in Definition /\ d \in Range(mode.class)
    BY <1>0, <1>1, <1>2 DEF Range
  <2>2. psdr = [settings |-> psdr.settings, complete |-> psdr.complete, columns |-> psdr.columns]
        /\ psdr.settings \in Seq(Definition)
    BY <1>1 DEF ClassInv, TableFits
  <2>3. psdr'.settings = Append(psdr.settings, d) /\ psdr'.complete = psdr.complete /\ psdr'.columns = psdr.columns
    BY <1>5, <2>2
  <2>4. d.types # <<>>
    BY <1>5 DEF MayAdd, WellFormed
  <2> HIDE DEF d
  <2>5. TableInv'
    <3>1. \A k \in Settings' : Setting(k)' \in Range(mode.class) /\ Setting(k)'.types # <<>>
      <4> SUFFICES ASSUME NEW k \in Settings' PROVE psdr'.settings[k] \in Range(mode.class) /\ psdr'.settings[k].types # <<>>
        BY DEF Setting
      <4>1. k \in Settings \/ psdr'.settings[k] = d
        BY <2>1, <2>2, <2>3 DEF Settings
      <4>2. CASE k \in Settings
        <5>1. psdr'.settings[k] = Setting(k)
          BY <2>1, <2>2, <2>3, <4>2 DEF Settings, Setting
        <5> QED BY <1>1, <4>2, <5>1 DEF TableInv
      <4> QED BY <2>1, <2>4, <4>1, <4>2
    <3>2. psdr'.complete \in BOOLEAN
      BY <1>1, <2>3 DEF TableInv
    <3> QED BY <1>0, <1>1, <1>3, <3>1, <3>2 DEF TableInv, Range
  <2>6. HandlesInv' /\ \A c \in Controls' : hwnd'[c] = Null
    BY <1>0, <1>5, <2>1, <2>2, <2>3, NothingYet, AddedHandles DEF d
  <2>7. ValuesInv' /\ StatesInv' /\ TextsInv'
    <3>1. \A o \in Object : values'[o] = <<>> /\ state'[o].of = <<>> /\ DOMAIN state'[o].ids = {} /\ text'[o].of = <<>>
      BY <1>0, NothingYet
    <3>2. DOMAIN values' = Object /\ DOMAIN state' = Object /\ DOMAIN text' = Object
      BY <1>0 DEF SettingsInv, ValuesInv, StatesInv, TextsInv
    <3> QED BY <3>1, <3>2 DEF ValuesInv, StatesInv, TextsInv
  <2>8. ScreensInv' /\ ShownInv'
    <3>1. \A o \in Object : DOMAIN screen'[o] = {} /\ edited'[o] = {}
      BY <1>0, NothingYet
    <3>2. DOMAIN screen' = Object /\ DOMAIN edited' = Object
      BY <1>0 DEF SettingsInv, ScreensInv
    <3> QED BY <2>6, <3>1, <3>2 DEF ScreensInv, ShownInv
  <2>9. ClosingInv'
    <3>1. closing' \subseteq Object /\ told' \subseteq Settings
      BY <1>0 DEF SettingsInv, ClosingInv
    <3>2. Settings \subseteq Settings'
      BY <2>1, <2>2, <2>3 DEF Settings
    <3> QED BY <2>6, <3>1, <3>2 DEF ClosingInv
  <2>10. DetailsInv'
    BY <1>0, <2>3, NothingYet DEF SettingsInv, DetailsInv
  <2> QED BY <2>5, <2>6, <2>7, <2>8, <2>9, <2>10 DEF SettingsInv
<1> QED BY <1>4, <1>5 DEF WtkAddClassSetting

(* So do closing the table and asking for its columns.                     *)
LEMMA ClassCallsKeepSettings ==
  ASSUME SettingsInv, WtkCloseClassSettingsTable \/ WtkQueryClassDetailsInfo PROVE SettingsInv'
<1>0. /\ UNCHANGED <<mode, added, overrun, hwnd, values, screen, edited, closing, told, state, text, details>>
      /\ psdr'.settings = psdr.settings
      /\ psdr.complete => psdr'.complete
  <2>1. psdr = [settings |-> psdr.settings, complete |-> psdr.complete, columns |-> psdr.columns]
    BY DEF SettingsInv, TableInv, ClassInv, TableFits
  <2> QED BY <2>1 DEF WtkCloseClassSettingsTable, WtkQueryClassDetailsInfo
<1>1. TableInv'
  <2>1. ClassInv'
    BY ClassCallsKeepTable DEF SettingsInv, TableInv
  <2>2. Settings' = Settings
    BY <1>0, SameControls
  <2>3. psdr'.complete \in BOOLEAN
    <3>1. psdr = [settings |-> psdr.settings, complete |-> psdr.complete, columns |-> psdr.columns]
          /\ psdr.complete \in BOOLEAN
      BY DEF SettingsInv, TableInv, ClassInv, TableFits
    <3>2. psdr'.complete = TRUE \/ psdr'.complete = psdr.complete
      BY <3>1 DEF WtkCloseClassSettingsTable, WtkQueryClassDetailsInfo
    <3> QED BY <3>1, <3>2
  <2> QED BY <1>0, <2>1, <2>2, <2>3 DEF SettingsInv, TableInv, Setting, Range
<1>2. HandlesInv' /\ ValuesInv' /\ ScreensInv' /\ ShownInv' /\ ClosingInv' /\ StatesInv' /\ TextsInv'
  BY <1>0, Kept
<1>3. DetailsInv'
  <2>1. Shown' = Shown /\ ClassIsCareless' = ClassIsCareless
    BY <1>0, SameCare
  <2>2. CASE WtkCloseClassSettingsTable
    <3>1. psdr'.columns = psdr.columns
      BY <2>2 DEF WtkCloseClassSettingsTable
    <3> QED BY <1>0, <2>1, <3>1 DEF SettingsInv, DetailsInv
  <2>3. CASE WtkQueryClassDetailsInfo
    <3>1. psdr.complete /\ psdr'.complete /\ psdr'.columns = Cardinality(Shown)
      <4>1. psdr = [settings |-> psdr.settings, complete |-> psdr.complete, columns |-> psdr.columns]
        BY DEF SettingsInv, TableInv, ClassInv, TableFits
      <4> QED BY <2>3, <4>1 DEF WtkQueryClassDetailsInfo
    <3>2. Cardinality(Shown) \in Nat
      <4>1. Shown \subseteq Controls /\ IsFiniteSet(Controls)
        BY DEF SettingsInv, HandlesInv, Shown
      <4> QED BY <4>1, FS_Subset, FS_CardinalityType
    <3>3. details.columns <= Cardinality(Shown)
      BY <3>2 DEF SettingsInv, DetailsInv
    <3> QED BY <1>0, <2>1, <3>1, <3>2, <3>3 DEF SettingsInv, DetailsInv
  <2> QED BY <2>2, <2>3
<1> QED BY <1>1, <1>2, <1>3 DEF SettingsInv

-----------------------------------------------------------------------------
(* Tables of values.                                                       *)

(* An object of the behaviour is an object.                                *)
LEMMA ObjectOf == ASSUME SettingsInv, NEW o \in mode.objects PROVE o \in Object
BY TableFacts DEF SettingsInv

(* An object that has a table has all of it, and the class is complete.    *)
LEMMA HasTable ==
  ASSUME SettingsInv, NEW o \in Object, values[o] # <<>>
  PROVE  /\ psdr.complete /\ psdr.settings # <<>> /\ IsTable(psdr.settings, Barred(mode), values[o])
         /\ values[o] \in [Settings -> Seq(Text \cup {Unknown})]
         /\ \A k \in Settings :
              /\ DOMAIN values[o][k] = DOMAIN Setting(k).types
              /\ \A i \in DOMAIN Setting(k).types :
                   Fits(psdr.settings, k, i, values[o][k][i]) /\ values[o][k][i] \notin Barred(mode)
<1>1. psdr.complete /\ psdr.settings # <<>> /\ IsTable(psdr.settings, Barred(mode), values[o])
  BY DEF SettingsInv, ValuesInv
<1> QED BY <1>1 DEF IsTable, Settings, Setting

(* A table is not empty.                                                   *)
LEMMA TableIsNotEmpty ==
  ASSUME SettingsInv, psdr.settings # <<>>, NEW v, DOMAIN v = Settings PROVE v # <<>>
<1>1. psdr.settings \in Seq(Definition)
  BY TableFacts DEF SettingsInv
<1>2. 1 \in Settings
  BY <1>1 DEF Settings
<1>3. DOMAIN <<>> = {}
  OBVIOUS
<1> QED BY <1>2, <1>3

(* One object gets another table, or none.                                 *)
LEMMA NewTable ==
  ASSUME SettingsInv, UNCHANGED <<mode, psdr>>, NEW o \in Object, NEW v,
         values' = [values EXCEPT ![o] = v],
         v # <<>> => psdr.complete /\ psdr.settings # <<>> /\ IsTable(psdr.settings, Barred(mode), v)
  PROVE  ValuesInv' /\ values'[o] = v /\ \A x \in Object \ {o} : values'[x] = values[x]
<1>1. DOMAIN values = Object
  BY DEF SettingsInv, ValuesInv
<1>2. DOMAIN values' = Object /\ values'[o] = v /\ \A x \in Object \ {o} : values'[x] = values[x]
  BY <1>1
<1> QED BY <1>2 DEF SettingsInv, ValuesInv

(* What a value is first fits, and the class does not reject it.           *)
LEMMA InitialFits ==
  ASSUME TableInv, NEW k \in Settings, NEW i \in DOMAIN Setting(k).types
  PROVE  LET t == InitialValue(Setting(k).types[i]) IN
         Fits(psdr.settings, k, i, t) /\ t \notin Barred(mode)
<1> DEFINE type == Setting(k).types[i]
           t == InitialValue(type)
<1>0. psdr.settings[k] = Setting(k) /\ type \in Type
  BY SettingFacts DEF Setting
<1>1. t \notin Barred(mode)
  <2>1. mode.rejects \cap ({InitialValue(u) : u \in Type} \cup {<<"TRUE">>}) = {}
    BY TableFacts, AnswersAssumption
  <2>2. Barred(mode) \subseteq mode.rejects
    BY DEF Barred
  <2> HIDE DEF type
  <2> QED BY <1>0, <2>1, <2>2
<1>2. CASE type = "STRING"
  <2>1. t = <<>>
    BY <1>2 DEF InitialValue
  <2>2. <<>> \in Text
    BY DEF Text
  <2>3. Length(<<>>) = 1
    BY DEF Length
  <2>4. Setting(k).room[i] \in Nat /\ Setting(k).room[i] > 0
    BY <1>2, SettingFacts
  <2>5. Length(t) <= Setting(k).room[i]
    <3> HIDE DEF t
    <3> QED BY ONLY <2>1, <2>3, <2>4
  <2> QED BY <1>0, <1>1, <1>2, <2>1, <2>2, <2>5 DEF Fits, IsOf
<1>3. CASE type = "DATE"
  <2>1. t = <<>>
    BY <1>3 DEF InitialValue
  <2>2. <<>> \in Text
    BY DEF Text
  <2> QED BY <1>0, <1>1, <1>3, <2>1, <2>2 DEF Fits, IsOf
<1>4. CASE type = "LONG"
  <2>1. t = <<"0">>
    BY <1>4 DEF InitialValue
  <2>2. "0" \in Number /\ "0" \in Part
    BY PartAssumption
  <2>3. <<"0">> \in Text
    BY <2>2, OnePartIsText
  <2> QED BY <1>0, <1>1, <1>4, <2>1, <2>2, <2>3 DEF Fits, IsOf
<1>5. CASE type = "BOOL"
  <2>1. t = <<"FALSE">>
    BY <1>5 DEF InitialValue
  <2> QED BY <1>0, <1>1, <1>5, <2>1, NeverRejected DEF Fits, IsOf
<1>6. CASE type \in {"INDEX", "INDEXITEM"}
  <2>1. t = CHOOSE u \in Known : TRUE
    BY <1>6 DEF InitialValue
  <2>2. t \in Known /\ t \in Text
    BY <2>1, PartAssumption
  <2> QED BY <1>0, <1>1, <1>6, <2>2 DEF Fits, IsOf
<1> QED BY <1>0, <1>2, <1>3, <1>4, <1>5, <1>6 DEF Type

(* So does the table that an object gets first.                            *)
LEMMA InitialIsTable ==
  ASSUME TableInv
  PROVE  IsTable(psdr.settings, Barred(mode),
                 [k \in Settings |-> [i \in DOMAIN Setting(k).types |-> InitialValue(Setting(k).types[i])]])
<1> DEFINE v == [k \in Settings |-> [i \in DOMAIN Setting(k).types |-> InitialValue(Setting(k).types[i])]]
<1>0. Settings = DOMAIN psdr.settings /\ \A k \in Settings : psdr.settings[k] = Setting(k)
  BY DEF Settings, Setting
<1>1. \A k \in Settings : v[k] = [i \in DOMAIN Setting(k).types |-> InitialValue(Setting(k).types[i])]
  OBVIOUS
<1>2. \A k \in Settings : \A i \in DOMAIN Setting(k).types : v[k][i] = InitialValue(Setting(k).types[i])
  OBVIOUS
<1>3. \A k \in Settings : DOMAIN v[k] = DOMAIN Setting(k).types
  OBVIOUS
<1>4. \A k \in Settings : \A i \in DOMAIN Setting(k).types :
        Fits(psdr.settings, k, i, v[k][i]) /\ v[k][i] \notin Barred(mode)
  BY <1>2, InitialFits
<1>5. DOMAIN v = Settings
  OBVIOUS
<1>6. v = [k \in Settings |-> v[k]]
  OBVIOUS
<1>7. \A k \in Settings : v[k] \in Seq(Text \cup {Unknown})
  <2> SUFFICES ASSUME NEW k \in Settings PROVE v[k] \in Seq(Text \cup {Unknown})
    OBVIOUS
  <2>1. Setting(k).types \in Seq(Type)
    BY SettingFacts
  <2>2. DOMAIN v[k] = 1 .. Len(Setting(k).types) /\ Len(Setting(k).types) \in Nat
    BY <1>3, <2>1
  <2>3. v[k] \in [1 .. Len(Setting(k).types) -> Text \cup {Unknown}]
    <3>1. \A i \in DOMAIN v[k] : v[k][i] \in Text \cup {Unknown}
      BY <1>3, <1>4 DEF Fits
    <3>2. v[k] = [i \in DOMAIN v[k] |-> v[k][i]]
      BY <1>1
    <3> HIDE DEF v
    <3> QED BY <2>2, <3>1, <3>2
  <2>4. \A S : \A n \in Nat : \A f \in [1 .. n -> S] : f \in Seq(S)
    OBVIOUS
  <2> HIDE DEF v
  <2> QED BY <2>2, <2>3, <2>4
<1> HIDE DEF v
<1>8. v \in [Settings -> Seq(Text \cup {Unknown})]
  BY <1>5, <1>6, <1>7
<1>9. IsTable(psdr.settings, Barred(mode), v)
  BY <1>0, <1>3, <1>4, <1>8 DEF IsTable
<1> QED BY <1>9 DEF v

(* An object gets its table, or loses it.                                  *)
LEMMA TablesComeAndGo ==
  ASSUME SettingsInv, NEW o \in Object, WtkCreateObjectValueTable(o) \/ WtkDestroyObjectValueTable(o)
  PROVE  SettingsInv'
<1>0. UNCHANGED <<mode, added, overrun, psdr, hwnd, screen, edited, closing, told, state, text>> /\ DOMAIN screen[o] = {}
  <2>1. WtkCreateObjectValueTable(o) => DOMAIN screen[o] = {}
    BY DEF SettingsInv, ScreensInv, WtkCreateObjectValueTable
  <2> QED BY <2>1 DEF WtkCreateObjectValueTable, WtkDestroyObjectValueTable
<1>1. TableInv
  BY DEF SettingsInv
<1>2. ValuesInv' /\ \A x \in Object \ {o} : values'[x] = values[x]
  <2>1. CASE WtkCreateObjectValueTable(o)
    BY <1>0, <1>1, <2>1, InitialIsTable, NewTable DEF WtkCreateObjectValueTable
  <2>2. CASE WtkDestroyObjectValueTable(o)
    BY <1>0, <2>2, NewTable DEF WtkDestroyObjectValueTable
  <2> QED BY <2>1, <2>2
<1>3. ScreensInv'
  <2>1. \A x \in Object : DOMAIN screen'[x] # {} => values'[x] # <<>>
    BY <1>0, <1>2 DEF SettingsInv, ScreensInv
  <2> QED BY <1>0, <2>1, SameControls DEF SettingsInv, ScreensInv, Setting
<1>4. ShownInv'
  BY <1>0, <1>2 DEF SettingsInv, ShownInv
<1>5. DetailsInv'
  <2>1. CASE UNCHANGED details
    BY <1>0, <2>1, Kept
  <2>2. CASE details' = [allocated |-> 0, used |-> 0, columns |-> 0]
    <3>1. details'.used = 0 /\ details'.allocated = 0 /\ details'.columns = 0
      BY <2>2
    <3>2. Shown' = Shown /\ ClassIsCareless' = ClassIsCareless
      BY <1>0, SameCare
    <3> QED BY <1>0, <3>1, <3>2 DEF SettingsInv, DetailsInv
  <2> QED BY <2>1, <2>2 DEF WtkCreateObjectValueTable, WtkDestroyObjectValueTable
<1> QED BY <1>0, <1>1, <1>2, <1>3, <1>4, <1>5, Kept, SameClass DEF SettingsInv

-----------------------------------------------------------------------------
(* Setup strings and the screen.                                           *)

(* What filling controls leaves in them, and which stay edited.            *)
LEMMA FilledIs ==
  ASSUME NEW cs, NEW v
  PROVE  /\ DOMAIN Filled(screen, cs, v) = Object /\ DOMAIN StillEdited(cs) = Object
         /\ \A x \in Object :
              /\ DOMAIN Filled(screen, cs, v)[x] = DOMAIN screen[x]
              /\ StillEdited(cs)[x] = {c \in edited[x] : ~(c \in cs /\ hwnd[c] = x)}
              /\ \A c \in DOMAIN screen[x] :
                   Filled(screen, cs, v)[x][c] = IF c \in cs /\ hwnd[c] = x THEN v[c[1]][c[2]] ELSE screen[x][c]
BY DEF Filled, StillEdited

(* Controls that are filled with the values of an object show them, if no   *)
(* other object has them.                                                  *)
LEMMA FillingKeepsScreens ==
  ASSUME SettingsInv, UNCHANGED <<mode, psdr, hwnd>>, ValuesInv',
         NEW o \in Object, NEW v, values'[o] = v, v # <<>>, IsTable(psdr.settings, Barred(mode), v),
         \A x \in Object \ {o} : values'[x] = values[x],
         NEW cs, \A c \in Controls \ cs : v[c[1]][c[2]] = values[o][c[1]][c[2]],
         mode.alone => \A x \in Object \ {o} : DOMAIN screen[x] \cap cs = {},
         screen' = Filled(screen, cs, v), edited' = StillEdited(cs)
  PROVE  ScreensInv' /\ ShownInv'
<1>0. Settings' = Settings /\ Controls' = Controls /\ \A k \in Settings : Setting(k)' = Setting(k)
  BY SameControls DEF Setting
<1>1. /\ DOMAIN screen' = Object /\ DOMAIN edited' = Object
      /\ \A x \in Object :
           /\ DOMAIN screen'[x] = DOMAIN screen[x] /\ edited'[x] = {c \in edited[x] : ~(c \in cs /\ hwnd[c] = x)}
           /\ \A c \in DOMAIN screen[x] :
                screen'[x][c] = IF c \in cs /\ hwnd[c] = x THEN v[c[1]][c[2]] ELSE screen[x][c]
  BY FilledIs
<1>2. ScreensInv /\ ShownInv
  BY DEF SettingsInv
<1>3. ASSUME NEW c \in Controls PROVE Fits(psdr.settings, c[1], c[2], v[c[1]][c[2]])
  BY ControlFacts DEF IsTable, Settings, Setting
<1>4. ScreensInv'
  <2>1. ASSUME NEW x \in Object
        PROVE  /\ DOMAIN screen'[x] \subseteq Controls /\ edited'[x] \subseteq DOMAIN screen'[x]
               /\ DOMAIN screen'[x] # {} => values'[x] # <<>>
               /\ \A c \in edited'[x] : Setting(c[1]).types[c[2]] # "DATE"
    <3>1. DOMAIN screen[x] \subseteq Controls /\ edited[x] \subseteq DOMAIN screen[x]
      BY <1>2 DEF ScreensInv
    <3>2. DOMAIN screen'[x] # {} => values'[x] # <<>>
      BY <1>1, <1>2 DEF ScreensInv
    <3>3. edited'[x] \subseteq edited[x] /\ DOMAIN screen'[x] = DOMAIN screen[x]
      BY <1>1
    <3> QED BY <1>2, <3>1, <3>2, <3>3 DEF ScreensInv
  <2>2. ASSUME NEW x \in Object, NEW c \in DOMAIN screen'[x] PROVE Fits(psdr.settings, c[1], c[2], screen'[x][c])
    <3>1. c \in DOMAIN screen[x] /\ c \in Controls
      BY <1>1, <1>2 DEF ScreensInv
    <3>2. screen'[x][c] = v[c[1]][c[2]] \/ screen'[x][c] = screen[x][c]
      BY <1>1, <3>1
    <3> QED BY <1>2, <1>3, <3>1, <3>2 DEF ScreensInv
  <2>3. \A c \in Controls : hwnd[c] # Null => c \in DOMAIN screen'[hwnd[c]]
    <3>1. \A c \in Controls : hwnd[c] # Null => hwnd[c] \in Object
      BY DEF SettingsInv, HandlesInv
    <3> QED BY <1>1, <1>2, <3>1 DEF ScreensInv
  <2>4. \A x \in Object : \A c \in edited'[x] : Setting(c[1])' = Setting(c[1])
    BY DEF Setting
  <2> QED BY <1>0, <1>1, <2>1, <2>2, <2>3, <2>4 DEF ScreensInv
<1>5. ShownInv'
  <2> SUFFICES ASSUME mode.alone, NEW x \in Object, NEW c \in DOMAIN screen'[x]
               PROVE  hwnd[c] = x /\ (c \notin edited'[x] => screen'[x][c] = values'[x][c[1]][c[2]])
    BY DEF ShownInv
  <2>1. c \in DOMAIN screen[x] /\ c \in Controls
    BY <1>1, <1>2 DEF ScreensInv
  <2>2. hwnd[c] = x /\ (c \notin edited[x] => screen[x][c] = values[x][c[1]][c[2]])
    BY <1>2, <2>1 DEF ShownInv
  <2>3. CASE x = o /\ c \in cs
    BY <1>1, <2>1, <2>2, <2>3
  <2>4. CASE c \notin cs
    <3>1. screen'[x][c] = screen[x][c] /\ (c \notin edited'[x] => c \notin edited[x])
      BY <1>1, <2>1, <2>4
    <3>2. values'[x][c[1]][c[2]] = values[x][c[1]][c[2]]
      BY <2>1, <2>4
    <3> QED BY <2>2, <3>1, <3>2
  <2>5. x # o => c \notin cs
    BY <2>1
  <2> QED BY <2>3, <2>4, <2>5
<1> QED BY <1>4, <1>5

(* Only a careless class lets a string of a setup string overrun its buffer. *)
LEMMA OverrunIsCareless ==
  ASSUME TableInv, DOMAIN hwnd = Controls, NEW s \in Item, Overruns(s) PROVE ClassIsCareless
<1>1. PICK k \in Settings :
        /\ Accepts(Setting(k), s)
        /\ \E i \in DOMAIN Setting(k).types :
             Setting(k).types[i] = "STRING" /\ Length(Given(Setting(k), s, i)) > Setting(k).room[i]
  BY DEF Overruns
<1>2. PICK i \in DOMAIN Setting(k).types :
        Setting(k).types[i] = "STRING" /\ Length(Given(Setting(k), s, i)) > Setting(k).room[i]
  BY <1>1
<1> DEFINE t == Given(Setting(k), s, i)
           c == <<k, i>>
<1>3. t \in Text /\ Length(t) \in Nat /\ Setting(k).room[i] \in Nat
  BY GivenType, LengthType, SettingFacts
<1>4. Valid(Setting(k), i, t, TRUE)
  BY <1>1 DEF Accepts
<1> HIDE DEF t
<1>5. Length(t) > Setting(k).room[i] /\ ~(Length(t) <= Setting(k).room[i])
  BY <1>2, <1>3 DEF t
<1>6. t \in mode.accepts
  BY <1>2, <1>4, <1>5 DEF Valid
<1>7. c \in DOMAIN hwnd /\ c[1] = k /\ c[2] = i
  BY ControlFacts
<1> HIDE DEF c
<1> QED BY <1>2, <1>5, <1>6, <1>7 DEF ClassIsCareless

(* What a setup string makes of the values, if it fits.                    *)
LEMMA SetupFits ==
  ASSUME SettingsInv, NEW o \in Object, values[o] # <<>>, NEW setup \in Seq(Item),
         Evaluate(o, setup), ~overrun, ~overrun'
  PROVE  /\ \A j \in DOMAIN setup : ~Overruns(setup[j])
         /\ UNCHANGED <<mode, added, overrun, psdr, hwnd, closing, state, text, details>>
         /\ values' = [values EXCEPT ![o] = Evaluated(o, setup).values]
         /\ screen' = Filled(screen, UNION {ValuesOf(k) : k \in Evaluated(o, setup).set}, Evaluated(o, setup).values)
         /\ edited' = StillEdited(UNION {ValuesOf(k) : k \in Evaluated(o, setup).set})
         /\ told' = Evaluated(o, setup).told
BY DEF Evaluate

(* A setup string changes values, screen and what the class is told.       *)
LEMMA FittingKeepsSettings ==
  ASSUME SettingsInv, NEW o \in Object, values[o] # <<>>, Undisturbed(o), Idle,
         NEW setup \in Seq(Item), Evaluate(o, setup), ~overrun'
  PROVE  SettingsInv'
<1> DEFINE now == Evaluated(o, setup)
           cs == UNION {ValuesOf(k) : k \in now.set}
<1>0. /\ UNCHANGED <<mode, added, overrun, psdr, hwnd, closing, state, text, details>>
      /\ values' = [values EXCEPT ![o] = now.values]
      /\ screen' = Filled(screen, cs, now.values) /\ edited' = StillEdited(cs) /\ told' = now.told
  BY SetupFits DEF Idle
<1>1. TableInv
  BY DEF SettingsInv
<1>2. psdr.complete /\ psdr.settings # <<>> /\ IsTable(psdr.settings, Barred(mode), values[o])
  BY HasTable
<1>3. now \in Good(o)
  <2>1. \A j \in DOMAIN setup : ~Overruns(setup[j])
    BY SetupFits DEF Idle
  <2> QED BY <1>1, <1>2, <2>1, EvaluatedGood
<1> HIDE DEF now
<1>4. /\ DOMAIN now.values = Settings /\ now.told \subseteq Settings
      /\ IsTable(psdr.settings, Barred(mode), now.values)
      /\ \A k \in Settings : k \notin now.set => now.values[k] = values[o][k]
  BY <1>3 DEF Good
<1>5. now.values # <<>>
  BY <1>2, <1>4, TableIsNotEmpty
<1>6. ValuesInv' /\ values'[o] = now.values /\ \A x \in Object \ {o} : values'[x] = values[x]
  BY <1>0, <1>2, <1>4, NewTable
<1>7. ScreensInv' /\ ShownInv'
  <2>1. \A c \in Controls \ cs : c[1] \notin now.set
    BY ControlFacts DEF ValuesOf
  <2>2. \A c \in Controls \ cs : now.values[c[1]][c[2]] = values[o][c[1]][c[2]]
    BY <1>4, <2>1, ControlFacts
  <2>3. mode.alone => \A x \in Object \ {o} : DOMAIN screen[x] \cap cs = {}
    <3>1. DOMAIN <<>> = {}
      OBVIOUS
    <3> QED BY <3>1 DEF Undisturbed
  <2> HIDE DEF cs
  <2> QED BY <1>0, <1>4, <1>5, <1>6, <2>2, <2>3, FillingKeepsScreens
<1>8. ClosingInv'
  BY <1>0, <1>4, SameControls DEF SettingsInv, ClosingInv, Idle
<1>9. HandlesInv' /\ StatesInv' /\ TextsInv' /\ DetailsInv'
  BY <1>0, Kept
<1> QED BY <1>0, <1>1, <1>6, <1>7, <1>8, <1>9, SameClass DEF SettingsInv

(* If it does not fit, nothing is known of the memory any more.            *)
LEMMA EvaluateKeepsSettings ==
  ASSUME SettingsInv, NEW o \in Object, values[o] # <<>>, Undisturbed(o), Idle,
         NEW setup \in Seq(Item), Evaluate(o, setup)
  PROVE  SettingsInv'
<1>1. CASE ~overrun'
  BY <1>1, FittingKeepsSettings
<1>2. CASE overrun'
  <2>1. PICK j \in DOMAIN setup : Overruns(setup[j])
    BY <1>2 DEF Evaluate, Idle
  <2>2. UNCHANGED <<mode, added, psdr, hwnd, values, screen, edited, closing, told, state, text, details>>
    BY <1>2 DEF Evaluate, Idle
  <2>3. TableInv /\ DOMAIN hwnd = Controls
    BY DEF SettingsInv, HandlesInv
  <2>4. setup[j] \in Item
    BY <2>1
  <2>5. ClassIsCareless
    BY <2>1, <2>3, <2>4, OverrunIsCareless
  <2>6. Shown' = Shown /\ ClassIsCareless' = ClassIsCareless
    BY <2>2, SameCare
  <2>7. psdr.complete
    BY HasTable
  <2>8. DetailsInv'
    BY <1>2, <2>2, <2>5, <2>6, <2>7 DEF SettingsInv, DetailsInv
  <2>9. HandlesInv' /\ ValuesInv' /\ ScreensInv' /\ ShownInv' /\ ClosingInv' /\ StatesInv' /\ TextsInv'
    BY <2>2, Kept
  <2> QED BY <2>2, <2>3, <2>8, <2>9, SameClass DEF SettingsInv
<1> QED BY <1>1, <1>2

(* A setup string is one of the WPS and its users, or from an INI file.    *)
LEMMA SetupOf ==
  ASSUME SettingsInv, NEW o \in Object, WtkEvaluateObjectSettings(o) \/ WtkRestoreObjectSettings(o)
  PROVE  \E setup \in Seq(Item) : Evaluate(o, setup)
<1>1. CASE WtkEvaluateObjectSettings(o)
  <2>1. mode.setups \subseteq Seq(Item)
    BY TableFacts DEF SettingsInv
  <2> QED BY <1>1, <2>1 DEF WtkEvaluateObjectSettings
<1>2. CASE WtkRestoreObjectSettings(o)
  <2>1. text[o].settings \in Seq(Item)
    BY <1>2 DEF WtkRestoreObjectSettings, SettingsInv, TextsInv, IsText
  <2> QED BY <1>2, <2>1 DEF WtkRestoreObjectSettings
<1> QED BY <1>1, <1>2

(* Either one keeps the invariant.                                         *)
LEMMA SetupsKeepSettings ==
  ASSUME SettingsInv, NEW o \in Object, WtkEvaluateObjectSettings(o) \/ WtkRestoreObjectSettings(o)
  PROVE  SettingsInv'
<1>1. Idle /\ values[o] # <<>> /\ Undisturbed(o)
  BY DEF WtkEvaluateObjectSettings, WtkRestoreObjectSettings
<1>2. \E setup \in Seq(Item) : Evaluate(o, setup)
  BY SetupOf
<1> QED BY <1>1, <1>2, EvaluateKeepsSettings

(* The setup string of an object goes to an INI file.                      *)
LEMMA SaveKeepsSettings ==
  ASSUME SettingsInv, NEW o \in Object, WtkSaveObjectSettings(o) PROVE SettingsInv'
<1>0. /\ UNCHANGED <<mode, added, overrun, psdr, hwnd, values, screen, edited, closing, told, state, details>>
      /\ text' = [text EXCEPT ![o] = [settings |-> WtkQueryObjectSettings(o), of |-> values[o]]]
      /\ values[o] # <<>>
  BY DEF WtkSaveObjectSettings
<1>1. TableInv
  BY DEF SettingsInv
<1>2. /\ psdr.complete /\ IsTable(psdr.settings, Barred(mode), values[o])
      /\ values[o] \in [Settings -> Seq(Text \cup {Unknown})]
  BY <1>0, HasTable
<1>3. IsText(psdr.settings, values[o], WtkQueryObjectSettings(o))
  BY <1>1, <1>2, TableFacts, QueryIsText
<1>4. TextsInv'
  <2>1. DOMAIN text = Object
    BY DEF SettingsInv, TextsInv
  <2>2. /\ DOMAIN text' = Object
        /\ text'[o].settings = WtkQueryObjectSettings(o) /\ text'[o].of = values[o]
        /\ \A x \in Object \ {o} : text'[x] = text[x]
    BY <1>0, <2>1
  <2>3. ASSUME NEW x \in Object, text'[x].of # <<>>
        PROVE  /\ psdr.complete /\ IsTable(psdr.settings, Barred(mode), text'[x].of)
               /\ IsText(psdr.settings, text'[x].of, text'[x].settings)
    <3>1. CASE x = o
      BY <1>2, <1>3, <2>2, <3>1
    <3>2. CASE x # o
      BY <2>2, <2>3, <3>2 DEF SettingsInv, TextsInv
    <3> QED BY <3>1, <3>2
  <2> QED BY <1>0, <2>2, <2>3 DEF TextsInv
<1> QED BY <1>0, <1>1, <1>4, Kept, SameClass DEF SettingsInv

-----------------------------------------------------------------------------
(* The object state.                                                       *)

(* What is saved under an id is the first value of a setting that has it.  *)
LEMMA StateOfIs ==
  ASSUME TableInv, NEW o, NEW id, \E k \in Settings : id \in Ids(Setting(k))
  PROVE  \E k \in Settings :
           id \in Ids(Setting(k)) /\ StateOf(o, id) = [kind |-> Kind(Setting(k)), text |-> values[o][k][1]]
<1> DEFINE Has == {k \in Settings : id \in Ids(Setting(k))}
           k == CHOOSE k \in Settings : /\ id \in Ids(Setting(k))
                                        /\ \A l \in Settings : id \in Ids(Setting(l)) => l <= k
<1>1. Settings = 1 .. Len(psdr.settings) /\ Len(psdr.settings) \in Nat
  BY TableFacts
<1>2. Has \in SUBSET (1 .. Len(psdr.settings)) /\ Has # {}
  BY <1>1
<1>3. Max(Has) \in Has /\ \A l \in Has : l <= Max(Has)
  <2> HIDE DEF Has
  <2> QED BY <1>1, <1>2, MaxIsLargest
<1>4. k \in Settings /\ id \in Ids(Setting(k))
  BY <1>3
<1>5. StateOf(o, id) = [kind |-> Kind(Setting(k)), text |-> values[o][k][1]]
  BY DEF StateOf
<1> HIDE DEF k
<1> QED BY <1>4, <1>5

(* The object state has the first values, in the order of the settings.    *)
LEMMA SaveKeepsStates ==
  ASSUME SettingsInv, NEW o \in Object, WtkSaveObjectState(o) PROVE SettingsInv'
<1> DEFINE ids == UNION {Ids(Setting(k)) : k \in Settings}
           s == [ids |-> [id \in ids |-> StateOf(o, id)], of |-> values[o]]
<1>0. /\ UNCHANGED <<mode, added, overrun, psdr, hwnd, values, screen, edited, closing, told, text, details>>
      /\ state' = [state EXCEPT ![o] = s]
      /\ values[o] # <<>>
  BY DEF WtkSaveObjectState
<1>1. TableInv
  BY DEF SettingsInv
<1>2. psdr.complete /\ IsTable(psdr.settings, Barred(mode), values[o])
  BY <1>0, HasTable
<1>3. s.of = values[o] /\ DOMAIN s.ids = ids /\ \A id \in ids : s.ids[id] = StateOf(o, id)
  OBVIOUS
<1>4. \A id \in ids : \E k \in Settings :
        id \in Ids(Setting(k)) /\ s.ids[id] = [kind |-> Kind(Setting(k)), text |-> s.of[k][1]]
  <2> SUFFICES ASSUME NEW id \in ids
               PROVE  \E k \in Settings : /\ id \in Ids(Setting(k))
                                          /\ s.ids[id] = [kind |-> Kind(Setting(k)), text |-> s.of[k][1]]
    OBVIOUS
  <2>1. \E k \in Settings : id \in Ids(Setting(k))
    OBVIOUS
  <2>2. \E k \in Settings :
          id \in Ids(Setting(k)) /\ StateOf(o, id) = [kind |-> Kind(Setting(k)), text |-> values[o][k][1]]
    BY <1>1, <2>1, StateOfIs
  <2> HIDE DEF s, ids
  <2> QED BY <1>3, <2>2
<1>5. StatesInv'
  <2> HIDE DEF s
  <2>1. DOMAIN state = Object /\ StatesInv
    BY DEF SettingsInv, StatesInv
  <2>2. DOMAIN state' = Object /\ state'[o] = s /\ \A x \in Object \ {o} : state'[x] = state[x]
    BY <1>0, <2>1
  <2>3. /\ Settings' = Settings /\ (UNION {Ids(Setting(k)) : k \in Settings})' = ids
        /\ \A k \in Settings : Setting(k)' = Setting(k)
    BY <1>0, SameControls DEF Setting
  <2> HIDE DEF ids
  <2>4. ASSUME NEW x \in Object
        PROVE  /\ state'[x].of = <<>> => DOMAIN state'[x].ids = {}
               /\ state'[x].of # <<>> =>
                    /\ psdr.complete /\ IsTable(psdr.settings, Barred(mode), state'[x].of)
                    /\ DOMAIN state'[x].ids = ids
               /\ \A id \in DOMAIN state'[x].ids : \E k \in Settings :
                    /\ id \in Ids(Setting(k))
                    /\ state'[x].ids[id] = [kind |-> Kind(Setting(k)), text |-> state'[x].of[k][1]]
    <3>1. CASE x = o
      BY <1>0, <1>2, <1>3, <1>4, <2>2, <3>1
    <3>2. CASE x # o
      BY <2>1, <2>2, <3>2 DEF StatesInv, ids
    <3> QED BY <3>1, <3>2
  <2>5. \A k \in Settings : Ids(Setting(k))' = Ids(Setting(k)) /\ Kind(Setting(k))' = Kind(Setting(k))
    BY <1>0 DEF Setting
  <2>6. \A x \in Object : \A id \in DOMAIN state'[x].ids : \E k \in Settings' :
          /\ id \in Ids(Setting(k))'
          /\ state'[x].ids[id] = [kind |-> Kind(Setting(k))', text |-> state'[x].of[k][1]]
    <3> SUFFICES ASSUME NEW x \in Object, NEW id \in DOMAIN state'[x].ids
                 PROVE  \E k \in Settings :
                          /\ id \in Ids(Setting(k))'
                          /\ state'[x].ids[id] = [kind |-> Kind(Setting(k))', text |-> state'[x].of[k][1]]
      BY <2>3
    <3>1. PICK k \in Settings :
            /\ id \in Ids(Setting(k))
            /\ state'[x].ids[id] = [kind |-> Kind(Setting(k)), text |-> state'[x].of[k][1]]
      BY <2>4
    <3>2. Ids(Setting(k))' = Ids(Setting(k)) /\ Kind(Setting(k))' = Kind(Setting(k))
      BY <2>5
    <3> QED BY <3>1, <3>2
  <2>7. psdr' = psdr /\ mode' = mode
    BY <1>0
  <2>8. \A x \in Object :
          /\ state'[x].of = <<>> => DOMAIN state'[x].ids = {}
          /\ state'[x].of # <<>> =>
               /\ psdr'.complete /\ IsTable(psdr'.settings, Barred(mode'), state'[x].of)
               /\ DOMAIN state'[x].ids = (UNION {Ids(Setting(k)) : k \in Settings})'
    BY <2>3, <2>4, <2>7
  <2> QED BY <2>2, <2>6, <2>8 DEF StatesInv
<1> QED BY <1>0, <1>1, <1>5, Kept, SameClass DEF SettingsInv

(* The value that a setting gets from the object state is that of the last  *)
(* id that is found.                                                       *)
LEMMA RestoredIs ==
  ASSUME TableInv, NEW o, NEW k \in Settings, NEW old, Found(o, Setting(k)) # {}
  PROVE  \E f \in Found(o, Setting(k)) :
           /\ Restored(o, Setting(k), old) = state[o].ids[SettingsId(Setting(k), f[2], f[1])].text
           /\ \A g \in Found(o, Setting(k)) : g[1] < f[1] \/ (g[1] = f[1] /\ g[2] <= f[2])
<1> DEFINE d == Setting(k)
           F == Found(o, d)
           q == d.queries
           n == Len(d.types)
           IsLast(f) == \A g \in F : g[1] < f[1] \/ (g[1] = f[1] /\ g[2] <= f[2])
           last == CHOOSE f \in F : IsLast(f)
<1>1. q \in Nat /\ n \in Nat /\ DOMAIN d.types = 1 .. n
  <2>1. d \in Definition /\ d.types \in Seq(Type)
    BY SettingFacts
  <2> HIDE DEF d
  <2> QED BY <2>1 DEF Definition
<1>2. F \subseteq (1 .. q) \X (1 .. n)
  BY <1>1 DEF Found
<1>3. Restored(o, d, old) = state[o].ids[SettingsId(d, last[2], last[1])].text
  BY DEF Restored
<1> HIDE DEF F, q, n
<1> DEFINE Q == {f[1] : f \in F}
<1>4. Q \in SUBSET (1 .. q) /\ Q # {}
  BY <1>2 DEF F
<1>5. Max(Q) \in Q /\ \A a \in Q : a <= Max(Q)
  <2> HIDE DEF Q
  <2> QED BY <1>1, <1>4, MaxIsLargest
<1> DEFINE N == {f[2] : f \in {g \in F : g[1] = Max(Q)}}
<1>6. N \in SUBSET (1 .. n) /\ N # {}
  <2>1. \E f \in F : f[1] = Max(Q)
    BY <1>5
  <2> HIDE DEF Q
  <2> QED BY <1>2, <2>1
<1>7. Max(N) \in N /\ \A b \in N : b <= Max(N)
  <2> HIDE DEF N
  <2> QED BY <1>1, <1>6, MaxIsLargest
<1>8. PICK f \in F : f[1] = Max(Q) /\ f[2] = Max(N)
  <2> HIDE DEF Q
  <2> QED BY <1>7
<1>9. IsLast(f)
  <2> SUFFICES ASSUME NEW g \in F PROVE g[1] < f[1] \/ (g[1] = f[1] /\ g[2] <= f[2])
    OBVIOUS
  <2>1. g[1] \in 1 .. q /\ f[1] \in 1 .. q /\ g[1] <= f[1]
    BY <1>2, <1>5, <1>8
  <2>2. g[1] = f[1] => g[2] <= f[2]
    <3> HIDE DEF Q
    <3> QED BY <1>7, <1>8
  <2> QED BY <1>1, <2>1, <2>2
<1>10. last \in F /\ IsLast(last)
  <2> HIDE DEF IsLast
  <2> QED BY <1>8, <1>9
<1> HIDE DEF last
<1> QED BY <1>3, <1>10 DEF F

(* That value fits, whichever setting it was saved for.                    *)
LEMMA RestoredFits ==
  ASSUME SettingsInv, NEW o \in Object, NEW k \in Settings, NEW old,
         Fits(psdr.settings, k, 1, old), old \notin Barred(mode)
  PROVE  LET t == Restored(o, Setting(k), old) IN
         Fits(psdr.settings, k, 1, t) /\ t \notin Barred(mode)
<1> DEFINE d == Setting(k)
           t == Restored(o, d, old)
<1>0. TableInv /\ psdr.settings[k] = d /\ Settings = DOMAIN psdr.settings
  BY DEF SettingsInv, Setting, Settings
<1>1. CASE Found(o, d) = {}
  BY <1>1 DEF Restored
<1>2. CASE Found(o, d) # {}
  <2>1. PICK f \in Found(o, d) : t = state[o].ids[SettingsId(d, f[2], f[1])].text
    BY <1>0, <1>2, RestoredIs
  <2> DEFINE id == SettingsId(d, f[2], f[1])
  <2>2. /\ id \in DOMAIN state[o].ids /\ state[o].ids[id].kind = Kind(d)
        /\ Kind(d) = "string" => Length(t) <= d.room[1]
        /\ id \in Ids(d)
    BY <2>1 DEF Found, Ids
  <2> HIDE DEF id
  <2>3. PICK l \in Settings :
          id \in Ids(Setting(l)) /\ state[o].ids[id] = [kind |-> Kind(Setting(l)), text |-> state[o].of[l][1]]
    BY <2>2 DEF SettingsInv, StatesInv
  <2>4. t = state[o].of[l][1] /\ Kind(d) = Kind(Setting(l))
    BY <2>1, <2>2, <2>3 DEF id
  <2>5. IsTable(psdr.settings, Barred(mode), state[o].of)
    <3>1. state[o].of # <<>>
      BY <2>2 DEF SettingsInv, StatesInv
    <3> QED BY <3>1 DEF SettingsInv, StatesInv
  <2>6. Fits(psdr.settings, l, 1, t) /\ t \notin Barred(mode)
    <3>1. 1 \in DOMAIN psdr.settings[l].types
      BY <1>0, SettingFacts DEF Setting
    <3> QED BY <1>0, <2>4, <2>5, <3>1 DEF IsTable
  <2>7. psdr.settings[k].types[1] = "STRING" => t \in Text /\ Length(t) <= psdr.settings[k].room[1]
    <3> SUFFICES ASSUME d.types[1] = "STRING" PROVE t \in Text /\ Length(t) <= d.room[1]
      BY <1>0
    <3>1. Kind(d) = "string" /\ Kind(Setting(l)) = "string"
      BY <2>4 DEF Kind
    <3>2. psdr.settings[l].types[1] = "STRING"
      BY <3>1 DEF Kind, Setting
    <3> HIDE DEF d, t
    <3> QED BY <2>2, <2>6, <3>1, <3>2 DEF Fits
  <2>8. ~Shares(psdr.settings, k) => l = k
    BY <1>0, <2>2, <2>3 DEF Shares, Setting
  <2>9. ~Shares(psdr.settings, k) => IsOf(psdr.settings[k].types[1], t)
    BY <2>6, <2>8 DEF Fits
  <2>10. t \in Text \cup {Unknown}
    BY <2>6 DEF Fits
  <2> QED BY <2>6, <2>7, <2>9, <2>10 DEF Fits
<1> QED BY <1>1, <1>2

(* Restoring the state of an object that has no page open.                 *)
LEMMA RestoreKeepsSettings ==
  ASSUME SettingsInv, NEW o \in Object, WtkRestoreObjectState(o) PROVE SettingsInv'
<1> DEFINE v == [k \in Settings |-> [values[o][k] EXCEPT ![1] = Restored(o, Setting(k), values[o][k][1])]]
<1>0. /\ UNCHANGED <<mode, added, overrun, psdr, hwnd, screen, edited, closing, told, state, text, details>>
      /\ values' = [values EXCEPT ![o] = v]
      /\ values[o] # <<>> /\ DOMAIN screen[o] = {} /\ Idle
  BY DEF WtkRestoreObjectState
<1>1. TableInv /\ Settings = DOMAIN psdr.settings /\ \A k \in Settings : psdr.settings[k] = Setting(k)
  BY DEF SettingsInv, Settings, Setting
<1>2. /\ psdr.complete /\ psdr.settings # <<>>
      /\ values[o] \in [Settings -> Seq(Text \cup {Unknown})]
      /\ \A k \in Settings :
           /\ DOMAIN values[o][k] = DOMAIN Setting(k).types
           /\ \A i \in DOMAIN Setting(k).types :
                Fits(psdr.settings, k, i, values[o][k][i]) /\ values[o][k][i] \notin Barred(mode)
  BY <1>0, HasTable
<1>3. ASSUME NEW k \in Settings
      PROVE  /\ v[k] \in Seq(Text \cup {Unknown}) /\ DOMAIN v[k] = DOMAIN Setting(k).types
             /\ \A i \in DOMAIN Setting(k).types : Fits(psdr.settings, k, i, v[k][i]) /\ v[k][i] \notin Barred(mode)
  <2> DEFINE r == Restored(o, Setting(k), values[o][k][1])
             w == values[o][k]
  <2>1. 1 \in DOMAIN Setting(k).types
    BY <1>1, SettingFacts
  <2>2. Fits(psdr.settings, k, 1, r) /\ r \notin Barred(mode)
    BY <1>2, <2>1, RestoredFits
  <2>3. v[k] = [w EXCEPT ![1] = r] /\ w \in Seq(Text \cup {Unknown}) /\ DOMAIN w = DOMAIN Setting(k).types
    BY <1>2
  <2>4. r \in Text \cup {Unknown}
    BY <2>2 DEF Fits
  <2>5. \A S : \A n \in Nat : \A f \in [1 .. n -> S] : f \in Seq(S)
    OBVIOUS
  <2>6. \A i \in DOMAIN Setting(k).types : Fits(psdr.settings, k, i, w[i]) /\ w[i] \notin Barred(mode)
    BY <1>2
  <2> HIDE DEF r, w, v
  <2>7. v[k] \in Seq(Text \cup {Unknown}) /\ DOMAIN v[k] = DOMAIN Setting(k).types
    <3>1. Len(w) \in Nat /\ w \in [1 .. Len(w) -> Text \cup {Unknown}]
      BY <2>3
    <3>2. v[k] \in [1 .. Len(w) -> Text \cup {Unknown}]
      BY <2>3, <2>4, <3>1
    <3> QED BY <2>3, <2>5, <3>1, <3>2
  <2>8. \A i \in DOMAIN Setting(k).types : v[k][i] = IF i = 1 THEN r ELSE w[i]
    BY <2>3
  <2> QED BY <2>2, <2>6, <2>7, <2>8
<1> HIDE DEF v
<1>4. DOMAIN v = Settings /\ v = [k \in Settings |-> v[k]]
  BY DEF v
<1>5. IsTable(psdr.settings, Barred(mode), v)
  <2>1. v \in [Settings -> Seq(Text \cup {Unknown})]
    BY <1>3, <1>4
  <2> QED BY <1>1, <1>3, <2>1 DEF IsTable
<1>6. ValuesInv' /\ values'[o] = v /\ v # <<>> /\ \A x \in Object \ {o} : values'[x] = values[x]
  BY <1>0, <1>2, <1>4, <1>5, NewTable, TableIsNotEmpty
<1>7. ScreensInv'
  <2>1. \A x \in Object : DOMAIN screen'[x] # {} => values'[x] # <<>>
    BY <1>0, <1>6 DEF SettingsInv, ScreensInv
  <2> QED BY <1>0, <2>1, SameControls DEF SettingsInv, ScreensInv, Setting
<1>8. ShownInv'
  BY <1>0, <1>6 DEF SettingsInv, ShownInv
<1> QED BY <1>0, <1>1, <1>6, <1>7, <1>8, Kept, SameClass DEF SettingsInv

-----------------------------------------------------------------------------
(* Settings notebooks.                                                     *)

(* What a control lets the user enter fits, and there is none for a date.  *)
LEMMA MayEnterFits ==
  ASSUME TableInv, NEW k \in Settings, NEW i \in DOMAIN Setting(k).types, NEW t \in MayEnter(Setting(k), i)
  PROVE  Fits(psdr.settings, k, i, t) /\ Setting(k).types[i] # "DATE"
<1> DEFINE d == Setting(k)
<1>0. psdr.settings[k] = d /\ d.types[i] \in Type /\ Known \subseteq Text /\ mode.typed \subseteq Text
  BY SettingFacts, TableFacts, PartAssumption DEF Setting
<1>1. CASE d.types[i] = "STRING"
  <2>1. t \in mode.typed /\ Length(t) <= d.room[i]
    BY <1>1 DEF MayEnter
  <2> QED BY <1>0, <1>1, <2>1 DEF Fits, IsOf
<1>2. CASE d.types[i] = "LONG"
  <2>1. PICK n \in Number : t = <<n>>
    BY <1>2 DEF MayEnter
  <2>2. n \in Part
    BY PartAssumption
  <2>3. t \in Text
    BY <2>1, <2>2, OnePartIsText
  <2> QED BY <1>0, <1>2, <2>1, <2>3 DEF Fits, IsOf
<1>3. CASE d.types[i] = "BOOL"
  <2>1. t \in {<<"TRUE">>, <<"FALSE">>}
    BY <1>3 DEF MayEnter
  <2> QED BY <1>0, <1>3, <2>1, NeverRejected DEF Fits, IsOf
<1>4. CASE d.types[i] \in {"INDEX", "INDEXITEM"}
  <2>1. t \in Known
    BY <1>4 DEF MayEnter
  <2> QED BY <1>0, <1>4, <2>1 DEF Fits, IsOf
<1>5. d.types[i] # "DATE"
  <2> SUFFICES ASSUME d.types[i] = "DATE" PROVE FALSE
    OBVIOUS
  <2>1. MayEnter(d, i) = {}
    BY DEF MayEnter
  <2> QED BY <2>1
<1> QED BY <1>0, <1>1, <1>2, <1>3, <1>4, <1>5 DEF Type

(* The user enters a text.                                                 *)
LEMMA EnteringKeepsSettings ==
  ASSUME SettingsInv, NEW o \in Object, UserEnters(o) PROVE SettingsInv'
<1>0. UNCHANGED <<mode, added, overrun, psdr, hwnd, values, closing, told, state, text, details>> /\ closing = {}
  BY DEF UserEnters, Idle
<1>1. PICK c \in DOMAIN screen[o] : \E t \in MayEnter(Setting(c[1]), c[2]) :
        /\ screen' = [screen EXCEPT ![o][c] = t]
        /\ edited' = [edited EXCEPT ![o] = @ \cup {c}]
  BY DEF UserEnters
<1>2. PICK t \in MayEnter(Setting(c[1]), c[2]) :
        /\ screen' = [screen EXCEPT ![o][c] = t]
        /\ edited' = [edited EXCEPT ![o] = @ \cup {c}]
  BY <1>1
<1>3. TableInv /\ ScreensInv /\ ShownInv
  BY DEF SettingsInv
<1>4. c \in Controls /\ c[1] \in Settings /\ c[2] \in DOMAIN Setting(c[1]).types
  BY <1>3, ControlFacts DEF ScreensInv
<1>5. Fits(psdr.settings, c[1], c[2], t) /\ Setting(c[1]).types[c[2]] # "DATE"
  BY <1>3, <1>4, MayEnterFits
<1>6. /\ DOMAIN screen' = Object /\ DOMAIN edited' = Object
      /\ \A x \in Object : /\ DOMAIN screen'[x] = DOMAIN screen[x]
                           /\ edited'[x] = IF x = o THEN edited[x] \cup {c} ELSE edited[x]
                           /\ \A b \in DOMAIN screen[x] : screen'[x][b] = IF x = o /\ b = c THEN t ELSE screen[x][b]
  BY <1>2, <1>3 DEF ScreensInv
<1>7. \A k : Setting(k)' = Setting(k)
  BY <1>0 DEF Setting
<1>8. ScreensInv'
  <2>1. \A x \in Object : /\ DOMAIN screen'[x] \subseteq Controls /\ edited'[x] \subseteq DOMAIN screen'[x]
                          /\ DOMAIN screen'[x] # {} => values'[x] # <<>>
    BY <1>0, <1>3, <1>6 DEF ScreensInv
  <2>2. \A x \in Object : \A b \in DOMAIN screen'[x] : Fits(psdr.settings, b[1], b[2], screen'[x][b])
    BY <1>3, <1>5, <1>6 DEF ScreensInv
  <2>3. \A x \in Object : \A b \in edited'[x] : Setting(b[1]).types[b[2]] # "DATE"
    BY <1>3, <1>5, <1>6 DEF ScreensInv
  <2>4. \A b \in Controls : hwnd[b] # Null => b \in DOMAIN screen'[hwnd[b]]
    <3>1. \A b \in Controls : hwnd[b] # Null => hwnd[b] \in Object
      BY DEF SettingsInv, HandlesInv
    <3> QED BY <1>3, <1>6, <3>1 DEF ScreensInv
  <2> QED BY <1>0, <1>6, <1>7, <2>1, <2>2, <2>3, <2>4, SameControls DEF ScreensInv
<1>9. ShownInv'
  BY <1>0, <1>3, <1>6 DEF ShownInv
<1>10. ClosingInv'
  BY <1>0, SameControls DEF SettingsInv, ClosingInv
<1> QED BY <1>0, <1>3, <1>8, <1>9, <1>10, Kept, SameClass DEF SettingsInv

(* A notebook that may close has no text the class rejects.                *)
LEMMA ClosingKeepsSettings ==
  ASSUME SettingsInv, NEW o \in Object, CloseNotebook(o) PROVE SettingsInv'
<1>0. UNCHANGED <<mode, added, overrun, psdr, hwnd, values, screen, edited, told, state, text, details>> /\ closing' = {o}
  BY DEF CloseNotebook
<1>1. \A c \in Controls : hwnd[c] # Null => screen[hwnd[c]][c] \notin Barred(mode)
  <2>1. DOMAIN hwnd = Controls
    BY DEF SettingsInv, HandlesInv
  <2>2. \A t : t \notin mode.rejects \/ t \in mode.passes => t \notin Barred(mode)
    BY DEF Barred
  <2> QED BY <2>1, <2>2 DEF CloseNotebook, WtkValidateObjectValueTable, Valid
<1>2. ClosingInv'
  BY <1>0, <1>1, SameControls DEF SettingsInv, ClosingInv
<1> QED BY <1>0, <1>2, Kept, SameClass DEF SettingsInv

(* A page is registered and filled.                                        *)
LEMMA RegisterKeepsSettings ==
  ASSUME SettingsInv, NEW o \in Object, NEW p, WtkRegisterSettingsDialog(o, p) PROVE SettingsInv'
<1>0. /\ UNCHANGED <<mode, added, overrun, psdr, values, edited, closing, told, state, text, details>>
      /\ closing = {} /\ values[o] # <<>> /\ OnPage(p) \cap DOMAIN screen[o] = {} /\ Undisturbed(o)
  BY DEF WtkRegisterSettingsDialog, Idle
<1>1. TableInv /\ ScreensInv /\ ShownInv /\ hwnd \in [Controls -> Object \cup {Null}] /\ OnPage(p) \subseteq Controls
  BY DEF SettingsInv, HandlesInv, OnPage
<1>2. /\ DOMAIN screen' = Object /\ \A x \in Object \ {o} : screen'[x] = screen[x]
      /\ screen'[o] = [c \in DOMAIN screen[o] \cup OnPage(p) |->
                         IF c \in OnPage(p) THEN values[o][c[1]][c[2]] ELSE screen[o][c]]
  BY <1>1 DEF WtkRegisterSettingsDialog, ScreensInv
<1>3. /\ DOMAIN screen'[o] = DOMAIN screen[o] \cup OnPage(p)
      /\ \A c \in OnPage(p) : screen'[o][c] = values[o][c[1]][c[2]]
      /\ \A c \in DOMAIN screen[o] : screen'[o][c] = screen[o][c]
  BY <1>0, <1>2
<1>4. /\ hwnd' \in [Controls -> Object \cup {Null}]
      /\ \A c \in Controls : hwnd'[c] = IF c \in OnPage(p) THEN o ELSE hwnd[c]
  BY <1>1 DEF WtkRegisterSettingsDialog
<1>5. Controls' = Controls /\ \A k : Setting(k)' = Setting(k)
  BY <1>0, SameControls DEF Setting
<1>6. HandlesInv'
  BY <1>4, <1>5 DEF SettingsInv, HandlesInv
<1>7. \A c \in OnPage(p) : Fits(psdr.settings, c[1], c[2], values[o][c[1]][c[2]])
  BY <1>0, <1>1, HasTable, ControlFacts
<1>8. ScreensInv'
  <2>1. \A x \in Object : /\ DOMAIN screen'[x] \subseteq Controls /\ edited'[x] \subseteq DOMAIN screen'[x]
                          /\ DOMAIN screen'[x] # {} => values'[x] # <<>>
    BY <1>0, <1>1, <1>2, <1>3 DEF ScreensInv
  <2>2. \A x \in Object : \A c \in DOMAIN screen'[x] : Fits(psdr.settings, c[1], c[2], screen'[x][c])
    <3> SUFFICES ASSUME NEW x \in Object, NEW c \in DOMAIN screen'[x]
                 PROVE  Fits(psdr.settings, c[1], c[2], screen'[x][c])
      OBVIOUS
    <3>1. CASE x = o /\ c \in OnPage(p)
      BY <1>3, <1>7, <3>1
    <3>2. CASE ~(x = o /\ c \in OnPage(p))
      <4>1. c \in DOMAIN screen[x] /\ screen'[x][c] = screen[x][c]
        BY <1>2, <1>3, <3>2
      <4> QED BY <1>1, <4>1 DEF ScreensInv
    <3> QED BY <3>1, <3>2
  <2>3. \A x \in Object : \A c \in edited'[x] : Setting(c[1]).types[c[2]] # "DATE"
    BY <1>0, <1>1 DEF ScreensInv
  <2>4. \A c \in Controls : hwnd'[c] # Null => c \in DOMAIN screen'[hwnd'[c]]
    <3> SUFFICES ASSUME NEW c \in Controls, hwnd'[c] # Null PROVE c \in DOMAIN screen'[hwnd'[c]]
      OBVIOUS
    <3>1. CASE c \in OnPage(p)
      BY <1>3, <1>4, <3>1
    <3>2. CASE c \notin OnPage(p)
      <4>1. hwnd'[c] = hwnd[c] /\ hwnd[c] \in Object /\ c \in DOMAIN screen[hwnd[c]]
        BY <1>1, <1>4, <3>2 DEF ScreensInv
      <4> QED BY <1>2, <1>3, <4>1
    <3> QED BY <3>1, <3>2
  <2>5. DOMAIN edited' = Object
    BY <1>0, <1>1 DEF ScreensInv
  <2> QED BY <1>0, <1>2, <1>5, <2>1, <2>2, <2>3, <2>4, <2>5 DEF ScreensInv
<1>9. ShownInv'
  <2> SUFFICES ASSUME mode.alone, NEW x \in Object, NEW c \in DOMAIN screen'[x]
               PROVE  hwnd'[c] = x /\ (c \notin edited[x] => screen'[x][c] = values[x][c[1]][c[2]])
    BY <1>0 DEF ShownInv
  <2>1. x = o
    <3>1. DOMAIN <<>> = {}
      OBVIOUS
    <3>2. x # o => DOMAIN screen'[x] = {}
      BY <1>0, <1>2, <3>1 DEF Undisturbed
    <3> QED BY <3>2
  <2>2. CASE c \in OnPage(p)
    BY <1>1, <1>3, <1>4, <2>1, <2>2
  <2>3. CASE c \notin OnPage(p)
    <3>1. c \in DOMAIN screen[o] /\ c \in Controls /\ screen'[o][c] = screen[o][c]
      BY <1>1, <1>3, <2>1, <2>3 DEF ScreensInv
    <3> QED BY <1>1, <1>4, <2>1, <2>3, <3>1 DEF ShownInv
  <2> QED BY <2>2, <2>3
<1>10. ClosingInv'
  BY <1>0, SameControls DEF SettingsInv, ClosingInv
<1>11. DOMAIN hwnd' = DOMAIN hwnd
  BY <1>1, <1>4
<1> QED BY <1>0, <1>1, <1>6, <1>8, <1>9, <1>10, <1>11, Kept, SameClass DEF SettingsInv

(* The undo button fills a page again.                                     *)
LEMMA ReadKeepsSettings ==
  ASSUME SettingsInv, NEW o \in Object, NEW p, WtkReadObjectValueTable(o, p) PROVE SettingsInv'
<1>0. /\ UNCHANGED <<mode, added, overrun, psdr, hwnd, values, closing, told, state, text, details>>
      /\ closing = {} /\ OnPage(p) # {} /\ OnPage(p) \subseteq DOMAIN screen[o]
      /\ screen' = Filled(screen, OnPage(p), values[o]) /\ edited' = StillEdited(OnPage(p))
  BY DEF WtkReadObjectValueTable, Read, Idle
<1>1. TableInv /\ ScreensInv /\ ShownInv
  BY DEF SettingsInv
<1>2. values[o] # <<>> /\ IsTable(psdr.settings, Barred(mode), values[o])
  <2>1. values[o] # <<>>
    BY <1>0, <1>1 DEF ScreensInv
  <2> QED BY <2>1, HasTable
<1>3. ValuesInv' /\ HandlesInv' /\ StatesInv' /\ TextsInv' /\ DetailsInv'
  BY <1>0, Kept
<1>4. mode.alone => \A x \in Object \ {o} : DOMAIN screen[x] \cap OnPage(p) = {}
  BY <1>0, <1>1 DEF ShownInv
<1>5. ScreensInv' /\ ShownInv'
  BY <1>0, <1>2, <1>3, <1>4, FillingKeepsScreens
<1>6. ClosingInv'
  BY <1>0, SameControls DEF SettingsInv, ClosingInv
<1> QED BY <1>0, <1>1, <1>3, <1>5, <1>6, SameClass DEF SettingsInv

(* What closing a page makes of the values: they fit, and those of other    *)
(* pages stay as they are.                                                 *)
LEMMA WrittenValues ==
  ASSUME SettingsInv, NEW o \in Object, NEW p, DestroyPage(o, p)
  PROVE  /\ values[o] # <<>> /\ values'[o] # <<>> /\ ValuesInv'
         /\ \A x \in Object \ {o} : values'[x] = values[x]
         /\ DOMAIN values'[o] = Settings
         /\ \A c \in Controls :
              values'[o][c[1]][c[2]] = IF c \in OnPage(p) THEN WriteValue(o, c) ELSE values[o][c[1]][c[2]]
<1> DEFINE v == [k \in Settings |-> [i \in DOMAIN values[o][k] |->
                   IF <<k, i>> \in OnPage(p) THEN WriteValue(o, <<k, i>>) ELSE values[o][k][i]]]
<1>0. /\ UNCHANGED <<mode, psdr>> /\ values' = [values EXCEPT ![o] = v]
      /\ closing # {} /\ OnPage(p) # {} /\ OnPage(p) \subseteq DOMAIN screen[o]
  BY DEF DestroyPage, WtkWriteObjectValueTable
<1>1. TableInv /\ ScreensInv /\ ClosingInv /\ hwnd \in [Controls -> Object \cup {Null}]
  BY DEF SettingsInv, HandlesInv
<1>2. values[o] # <<>>
  BY <1>0, <1>1 DEF ScreensInv
<1>3. /\ psdr.complete /\ psdr.settings # <<>> /\ values[o] \in [Settings -> Seq(Text \cup {Unknown})]
      /\ \A k \in Settings :
           /\ DOMAIN values[o][k] = DOMAIN Setting(k).types
           /\ \A i \in DOMAIN Setting(k).types :
                Fits(psdr.settings, k, i, values[o][k][i]) /\ values[o][k][i] \notin Barred(mode)
  BY <1>2, HasTable
<1>4. ASSUME NEW k \in Settings, NEW i \in DOMAIN Setting(k).types
      PROVE  LET w == WriteValue(o, <<k, i>>) IN Fits(psdr.settings, k, i, w) /\ w \notin Barred(mode)
  <2> DEFINE c == <<k, i>>
  <2>1. c \in Controls
    BY ControlFacts
  <2>2. CASE hwnd[c] = Null
    BY <1>3, <2>2 DEF WriteValue
  <2>3. CASE hwnd[c] # Null
    <3> DEFINE t == screen[hwnd[c]][c]
    <3>1. hwnd[c] \in Object /\ c \in DOMAIN screen[hwnd[c]]
      BY <1>1, <2>1, <2>3 DEF ScreensInv
    <3>2. Fits(psdr.settings, c[1], c[2], t)
      BY <1>1, <3>1 DEF ScreensInv
    <3>3. t \notin Barred(mode)
      BY <1>0, <1>1, <2>1, <2>3 DEF ClosingInv
    <3>4. WriteValue(o, c) = Written(Setting(k), i, t, values[o][k][i], FALSE)
      BY <2>3 DEF WriteValue
    <3>5. Fits(psdr.settings, k, i, t)
      BY <3>2
    <3>6. Fits(psdr.settings, k, i, values[o][k][i]) /\ values[o][k][i] \notin Barred(mode)
      BY <1>3
    <3> HIDE DEF t, c
    <3>7. LET w == Written(Setting(k), i, t, values[o][k][i], FALSE) IN
          Fits(psdr.settings, k, i, w) /\ w \notin Barred(mode)
      BY <1>1, <3>3, <3>5, <3>6, EnteredFits
    <3>8. Fits(psdr.settings, k, i, WriteValue(o, c)) /\ WriteValue(o, c) \notin Barred(mode)
      BY <3>4, <3>7
    <3> QED BY <3>8 DEF c
  <2> QED BY <2>2, <2>3
<1>5. ASSUME NEW k \in Settings
      PROVE  /\ DOMAIN v[k] = DOMAIN Setting(k).types /\ v[k] \in Seq(Text \cup {Unknown})
             /\ \A i \in DOMAIN Setting(k).types :
                  /\ v[k][i] = IF <<k, i>> \in OnPage(p) THEN WriteValue(o, <<k, i>>) ELSE values[o][k][i]
                  /\ Fits(psdr.settings, k, i, v[k][i]) /\ v[k][i] \notin Barred(mode)
  <2>1. v[k] = [i \in DOMAIN Setting(k).types |->
                  IF <<k, i>> \in OnPage(p) THEN WriteValue(o, <<k, i>>) ELSE values[o][k][i]]
    BY <1>3
  <2>2. Setting(k).types \in Seq(Type)
    BY <1>1, SettingFacts
  <2>3. DOMAIN Setting(k).types = 1 .. Len(Setting(k).types) /\ Len(Setting(k).types) \in Nat
    BY <2>2
  <2> HIDE DEF v
  <2>4. DOMAIN v[k] = DOMAIN Setting(k).types
    BY <2>1
  <2>5. \A i \in DOMAIN Setting(k).types :
          v[k][i] = IF <<k, i>> \in OnPage(p) THEN WriteValue(o, <<k, i>>) ELSE values[o][k][i]
    BY <2>1
  <2>6. \A i \in DOMAIN Setting(k).types : Fits(psdr.settings, k, i, v[k][i]) /\ v[k][i] \notin Barred(mode)
    BY <1>3, <1>4, <2>5
  <2>7. v[k] = [i \in 1 .. Len(Setting(k).types) |-> v[k][i]]
    BY <2>1, <2>3
  <2>8. v[k] \in [1 .. Len(Setting(k).types) -> Text \cup {Unknown}]
    BY <2>3, <2>6, <2>7 DEF Fits
  <2>9. \A S : \A n \in Nat : \A f \in [1 .. n -> S] : f \in Seq(S)
    OBVIOUS
  <2> QED BY <2>3, <2>4, <2>5, <2>6, <2>8, <2>9
<1>6. DOMAIN v = Settings /\ v = [k \in Settings |-> v[k]]
  OBVIOUS
<1> HIDE DEF v
<1>7. IsTable(psdr.settings, Barred(mode), v)
  <2>1. v \in [Settings -> Seq(Text \cup {Unknown})]
    BY <1>5, <1>6
  <2>2. Settings = DOMAIN psdr.settings /\ \A k \in Settings : psdr.settings[k] = Setting(k)
    BY DEF Settings, Setting
  <2> QED BY <1>5, <2>1, <2>2 DEF IsTable
<1>8. v # <<>>
  BY <1>3, <1>6, TableIsNotEmpty
<1>9. ValuesInv' /\ values'[o] = v /\ \A x \in Object \ {o} : values'[x] = values[x]
  BY <1>0, <1>3, <1>7, NewTable
<1>10. \A c \in Controls :
         values'[o][c[1]][c[2]] = IF c \in OnPage(p) THEN WriteValue(o, c) ELSE values[o][c[1]][c[2]]
  BY <1>5, <1>9, ControlFacts
<1> QED BY <1>2, <1>6, <1>8, <1>9, <1>10

(* What closing a page makes of the screen and the handles.                *)
LEMMA ClosedPage ==
  ASSUME SettingsInv, NEW o \in Object, NEW p, DestroyPage(o, p)
  PROVE  /\ UNCHANGED <<mode, added, overrun, psdr, state, text, details>>
         /\ closing # {} /\ closing' \subseteq closing
         /\ OnPage(p) \subseteq DOMAIN screen[o] /\ OnPage(p) \subseteq Controls
         /\ hwnd' \in [Controls -> Object \cup {Null}]
         /\ \A c \in Controls : hwnd'[c] = IF c \in OnPage(p) THEN Null ELSE hwnd[c]
         /\ DOMAIN screen' = Object /\ DOMAIN edited' = Object
         /\ \A x \in Object : /\ DOMAIN screen'[x] = IF x = o THEN DOMAIN screen[x] \ OnPage(p) ELSE DOMAIN screen[x]
                              /\ edited'[x] = IF x = o THEN edited[x] \ OnPage(p) ELSE edited[x]
                              /\ \A c \in DOMAIN screen'[x] : screen'[x][c] = screen[x][c]
<1>1. ScreensInv /\ hwnd \in [Controls -> Object \cup {Null}]
  BY DEF SettingsInv, HandlesInv
<1>2. OnPage(p) \subseteq Controls
  BY <1>1 DEF OnPage
<1>3. /\ hwnd' \in [Controls -> Object \cup {Null}]
      /\ \A c \in Controls : hwnd'[c] = IF c \in OnPage(p) THEN Null ELSE hwnd[c]
  <2>1. hwnd' = [c \in Controls |-> IF c \in OnPage(p) THEN Null ELSE hwnd[c]]
    BY <1>1 DEF DestroyPage, WtkDeregisterSettingsDialog
  <2> QED BY <1>1, <2>1
<1>4. /\ screen' = [screen EXCEPT ![o] = [c \in DOMAIN screen[o] \ OnPage(p) |-> screen[o][c]]]
      /\ edited' = [edited EXCEPT ![o] = edited[o] \ OnPage(p)]
  BY DEF DestroyPage
<1>5. /\ DOMAIN screen' = Object /\ DOMAIN edited' = Object
      /\ screen'[o] = [c \in DOMAIN screen[o] \ OnPage(p) |-> screen[o][c]] /\ edited'[o] = edited[o] \ OnPage(p)
      /\ \A x \in Object \ {o} : screen'[x] = screen[x] /\ edited'[x] = edited[x]
  BY <1>1, <1>4 DEF ScreensInv
<1>6. DOMAIN screen'[o] = DOMAIN screen[o] \ OnPage(p) /\ \A c \in DOMAIN screen'[o] : screen'[o][c] = screen[o][c]
  BY <1>5
<1>7. closing' \subseteq closing
  BY DEF DestroyPage
<1>8. UNCHANGED <<mode, added, overrun, psdr, state, text, details>> /\ closing # {} /\ OnPage(p) \subseteq DOMAIN screen[o]
  BY DEF DestroyPage
<1>9. \A x \in Object : /\ DOMAIN screen'[x] = IF x = o THEN DOMAIN screen[x] \ OnPage(p) ELSE DOMAIN screen[x]
                        /\ edited'[x] = IF x = o THEN edited[x] \ OnPage(p) ELSE edited[x]
                        /\ \A c \in DOMAIN screen'[x] : screen'[x][c] = screen[x][c]
  BY <1>5, <1>6
<1> QED BY <1>2, <1>3, <1>5, <1>7, <1>8, <1>9

(* A page is destroyed.                                                    *)
LEMMA DestroyKeepsSettings ==
  ASSUME SettingsInv, NEW o \in Object, NEW p, DestroyPage(o, p) PROVE SettingsInv'
<1>1. TableInv /\ ScreensInv /\ ShownInv /\ ClosingInv /\ hwnd \in [Controls -> Object \cup {Null}]
  BY DEF SettingsInv, HandlesInv
<1>2. /\ UNCHANGED <<mode, added, overrun, psdr, state, text, details>>
      /\ closing # {} /\ closing' \subseteq closing
      /\ OnPage(p) \subseteq DOMAIN screen[o] /\ OnPage(p) \subseteq Controls
      /\ hwnd' \in [Controls -> Object \cup {Null}]
      /\ \A c \in Controls : hwnd'[c] = IF c \in OnPage(p) THEN Null ELSE hwnd[c]
      /\ DOMAIN screen' = Object /\ DOMAIN edited' = Object
      /\ \A x \in Object : /\ DOMAIN screen'[x] = IF x = o THEN DOMAIN screen[x] \ OnPage(p) ELSE DOMAIN screen[x]
                           /\ edited'[x] = IF x = o THEN edited[x] \ OnPage(p) ELSE edited[x]
                           /\ \A c \in DOMAIN screen'[x] : screen'[x][c] = screen[x][c]
  BY ClosedPage
<1>3. /\ values[o] # <<>> /\ values'[o] # <<>> /\ ValuesInv'
      /\ \A x \in Object \ {o} : values'[x] = values[x]
      /\ \A c \in Controls \ OnPage(p) : values'[o][c[1]][c[2]] = values[o][c[1]][c[2]]
  BY WrittenValues
<1>4. Settings' = Settings /\ Controls' = Controls /\ \A k : Setting(k)' = Setting(k)
  BY <1>2, SameControls DEF Setting
<1>5. HandlesInv'
  BY <1>2, <1>4 DEF SettingsInv, HandlesInv
<1>6. \A c \in Controls : hwnd'[c] # Null =>
        /\ c \notin OnPage(p) /\ hwnd'[c] = hwnd[c] /\ hwnd[c] \in Object
        /\ c \in DOMAIN screen'[hwnd[c]] /\ screen'[hwnd[c]][c] = screen[hwnd[c]][c]
  <2> SUFFICES ASSUME NEW c \in Controls, hwnd'[c] # Null
               PROVE  /\ c \notin OnPage(p) /\ hwnd'[c] = hwnd[c] /\ hwnd[c] \in Object
                      /\ c \in DOMAIN screen'[hwnd[c]] /\ screen'[hwnd[c]][c] = screen[hwnd[c]][c]
    OBVIOUS
  <2>1. c \notin OnPage(p) /\ hwnd'[c] = hwnd[c] /\ hwnd[c] \in Object
    BY <1>1, <1>2
  <2>2. c \in DOMAIN screen[hwnd[c]]
    BY <1>1, <2>1 DEF ScreensInv
  <2> QED BY <1>2, <2>1, <2>2
<1>7. ScreensInv'
  <2>1. \A x \in Object : /\ DOMAIN screen'[x] \subseteq DOMAIN screen[x] /\ edited'[x] \subseteq edited[x]
                          /\ edited'[x] \subseteq DOMAIN screen'[x]
    <3> SUFFICES ASSUME NEW x \in Object
                 PROVE  /\ DOMAIN screen'[x] \subseteq DOMAIN screen[x] /\ edited'[x] \subseteq edited[x]
                        /\ edited'[x] \subseteq DOMAIN screen'[x]
      OBVIOUS
    <3>1. /\ DOMAIN screen'[x] = IF x = o THEN DOMAIN screen[x] \ OnPage(p) ELSE DOMAIN screen[x]
          /\ edited'[x] = IF x = o THEN edited[x] \ OnPage(p) ELSE edited[x]
      BY <1>2
    <3>2. edited[x] \subseteq DOMAIN screen[x]
      BY <1>1 DEF ScreensInv
    <3> QED BY <3>1, <3>2
  <2>2. \A x \in Object : /\ DOMAIN screen'[x] \subseteq Controls
                          /\ DOMAIN screen'[x] # {} => values'[x] # <<>>
    BY <1>1, <1>3, <2>1 DEF ScreensInv
  <2>3. \A x \in Object : \A c \in DOMAIN screen'[x] : Fits(psdr.settings, c[1], c[2], screen'[x][c])
    BY <1>1, <1>2, <2>1 DEF ScreensInv
  <2>4. \A x \in Object : \A c \in edited'[x] : Setting(c[1]).types[c[2]] # "DATE"
    BY <1>1, <2>1 DEF ScreensInv
  <2> QED BY <1>2, <1>4, <1>6, <2>1, <2>2, <2>3, <2>4 DEF ScreensInv
<1>8. ClosingInv'
  <2>1. told' \subseteq Settings /\ closing' \subseteq Object
    BY <1>1, <1>2 DEF ClosingInv, DestroyPage
  <2> QED BY <1>1, <1>2, <1>4, <1>6, <2>1 DEF ClosingInv
<1>9. ShownInv'
  <2> SUFFICES ASSUME mode.alone, NEW x \in Object, NEW c \in DOMAIN screen'[x]
               PROVE  hwnd'[c] = x /\ (c \notin edited'[x] => screen'[x][c] = values'[x][c[1]][c[2]])
    BY <1>2 DEF ShownInv
  <2>1. c \in DOMAIN screen[x] /\ c \in Controls /\ screen'[x][c] = screen[x][c]
    <3>1. DOMAIN screen'[x] \subseteq DOMAIN screen[x] /\ screen'[x][c] = screen[x][c]
      BY <1>2
    <3>2. DOMAIN screen[x] \subseteq Controls
      BY <1>1 DEF ScreensInv
    <3> QED BY <3>1, <3>2
  <2>2. hwnd[c] = x /\ (c \notin edited[x] => screen[x][c] = values[x][c[1]][c[2]])
    BY <1>1, <2>1 DEF ShownInv
  <2>3. c \notin OnPage(p)
    <3>1. CASE x = o
      BY <1>2, <3>1
    <3>2. CASE x # o
      BY <1>1, <1>2, <2>2, <3>2 DEF ShownInv
    <3> QED BY <3>1, <3>2
  <2>4. c \notin edited'[x] => c \notin edited[x]
    BY <1>2, <2>3
  <2>5. values'[x][c[1]][c[2]] = values[x][c[1]][c[2]]
    BY <1>3, <2>1, <2>3
  <2> QED BY <1>2, <2>1, <2>2, <2>3, <2>4, <2>5
<1>10. DOMAIN hwnd' = DOMAIN hwnd
  BY <1>1, <1>2
<1> QED BY <1>1, <1>2, <1>3, <1>5, <1>7, <1>8, <1>9, <1>10, Kept, SameClass DEF SettingsInv

-----------------------------------------------------------------------------
(* Details views.                                                          *)

(* A sum over a finite set, element by element.                            *)
Chosen(s) == CHOOSE x \in s : TRUE
SumStep(f, g, s) == IF s = {} THEN 0 ELSE f[Chosen(s)] + g[s \ {Chosen(s)}]
IsSum(f, S, g) == \A s \in SUBSET S : g[s] = SumStep(f, g, s)

(* A set without one of its elements.                                      *)
LEMMA Smaller ==
  ASSUME NEW s, IsFiniteSet(s), s # {}
  PROVE  /\ Chosen(s) \in s /\ IsFiniteSet(s \ {Chosen(s)})
         /\ Cardinality(s) \in Nat /\ Cardinality(s \ {Chosen(s)}) \in Nat
         /\ Cardinality(s) = Cardinality(s \ {Chosen(s)}) + 1
<1>1. Chosen(s) \in s
  BY DEF Chosen
<1>2. IsFiniteSet(s \ {Chosen(s)}) /\ Cardinality(s \ {Chosen(s)}) = Cardinality(s) - 1
  BY <1>1, FS_RemoveElement
<1>3. Cardinality(s) \in Nat /\ Cardinality(s \ {Chosen(s)}) \in Nat
  BY <1>2, FS_CardinalityType
<1> QED BY <1>1, <1>2, <1>3

(* There is such a sum.                                                    *)
LEMMA SumExists ==
  ASSUME NEW S, IsFiniteSet(S), NEW f \in [S -> Nat]
  PROVE  \E g \in [SUBSET S -> Nat] : IsSum(f, S, g) /\ Sum(f) = g[S]
<1> DEFINE UpTo(n) == {s \in SUBSET S : Cardinality(s) <= n}
           Has(n) == \E g \in [UpTo(n) -> Nat] : \A s \in UpTo(n) : g[s] = SumStep(f, g, s)
           T == {n \in Nat : Has(n)}
<1>0. \A s \in SUBSET S : IsFiniteSet(s) /\ Cardinality(s) \in Nat
  BY FS_Subset, FS_CardinalityType
<1>1. 0 \in T
  <2>1. \A s \in UpTo(0) : s = {}
    <3> SUFFICES ASSUME NEW s \in UpTo(0) PROVE s = {}
      OBVIOUS
    <3>1. IsFiniteSet(s) /\ Cardinality(s) = 0
      BY <1>0
    <3> QED BY <3>1, FS_EmptySet
  <2> DEFINE g == [s \in UpTo(0) |-> 0]
  <2>2. g \in [UpTo(0) -> Nat] /\ \A s \in UpTo(0) : g[s] = 0
    OBVIOUS
  <2> HIDE DEF g, UpTo
  <2>3. \A s \in UpTo(0) : g[s] = SumStep(f, g, s)
    BY <2>1, <2>2 DEF SumStep
  <2> QED BY <2>2, <2>3
<1>2. ASSUME NEW n \in Nat, n \in T PROVE n + 1 \in T
  <2>1. PICK g \in [UpTo(n) -> Nat] : \A s \in UpTo(n) : g[s] = SumStep(f, g, s)
    BY <1>2
  <2> DEFINE h == [s \in UpTo(n + 1) |-> SumStep(f, g, s)]
  <2>2. ASSUME NEW s \in UpTo(n + 1), s # {}
        PROVE  Chosen(s) \in S /\ s \ {Chosen(s)} \in UpTo(n) /\ s \ {Chosen(s)} \in UpTo(n + 1)
    <3>1. s \in SUBSET S /\ IsFiniteSet(s) /\ Cardinality(s) <= n + 1
      BY <1>0
    <3>2. /\ Chosen(s) \in s /\ Cardinality(s) \in Nat /\ Cardinality(s \ {Chosen(s)}) \in Nat
          /\ Cardinality(s) = Cardinality(s \ {Chosen(s)}) + 1
      BY <2>2, <3>1, Smaller
    <3>3. Cardinality(s \ {Chosen(s)}) <= n /\ Cardinality(s \ {Chosen(s)}) <= n + 1
      BY <3>1, <3>2
    <3> QED BY <3>1, <3>2, <3>3
  <2>3. ASSUME NEW s \in UpTo(n + 1) PROVE SumStep(f, g, s) \in Nat
    <3>1. CASE s = {}
      BY <3>1 DEF SumStep
    <3>2. CASE s # {}
      <4>1. f[Chosen(s)] \in Nat /\ g[s \ {Chosen(s)}] \in Nat
        BY <2>2, <3>2
      <4> QED BY <3>2, <4>1 DEF SumStep
    <3> QED BY <3>1, <3>2
  <2>4. \A s \in UpTo(n) : s \in UpTo(n + 1)
    BY <1>0
  <2>5. h \in [UpTo(n + 1) -> Nat] /\ \A s \in UpTo(n + 1) : h[s] = SumStep(f, g, s)
    BY <2>3
  <2> HIDE DEF h, UpTo
  <2>6. ASSUME NEW s \in UpTo(n + 1) PROVE h[s] = SumStep(f, h, s)
    <3>1. CASE s = {}
      BY <2>5, <3>1 DEF SumStep
    <3>2. CASE s # {}
      <4>1. s \ {Chosen(s)} \in UpTo(n)
        BY <2>2, <3>2
      <4>2. h[s \ {Chosen(s)}] = g[s \ {Chosen(s)}]
        BY <2>1, <2>4, <2>5, <4>1
      <4> QED BY <2>5, <3>2, <4>2 DEF SumStep
    <3> QED BY <3>1, <3>2
  <2> QED BY <2>5, <2>6
<1>3. Cardinality(S) \in T
  <2>1. Cardinality(S) \in Nat
    BY FS_CardinalityType
  <2> HIDE DEF T
  <2> QED BY <1>1, <1>2, <2>1, NatSetInduction
<1>4. UpTo(Cardinality(S)) = SUBSET S
  <2>1. \A s \in SUBSET S : Cardinality(s) <= Cardinality(S)
    BY FS_Subset
  <2> QED BY <2>1
<1>5. PICK g \in [SUBSET S -> Nat] : IsSum(f, S, g)
  <2> HIDE DEF UpTo
  <2> QED BY <1>3, <1>4 DEF IsSum
<1> DEFINE iter == CHOOSE it : it = [s \in SUBSET S |-> SumStep(f, it, s)]
<1>6. Sum(f) = iter[S]
  <2>1. DOMAIN f = S
    OBVIOUS
  <2> QED BY <2>1 DEF Sum, FoldFunctionOnSet, MapThenFoldSet, SumStep, Chosen
<1>7. iter = [s \in SUBSET S |-> SumStep(f, iter, s)]
  <2>1. g = [s \in SUBSET S |-> SumStep(f, g, s)]
    BY <1>5 DEF IsSum
  <2> QED BY <2>1
<1> HIDE DEF iter
<1>8. ASSUME NEW s \in SUBSET S PROVE iter[s] = g[s]
  <2> DEFINE E == {n \in Nat : \A r \in SUBSET S : Cardinality(r) = n => iter[r] = g[r]}
  <2>1. ASSUME NEW r \in SUBSET S PROVE iter[r] = SumStep(f, iter, r) /\ g[r] = SumStep(f, g, r)
    BY <1>5, <1>7 DEF IsSum
  <2>2. 0 \in E
    <3> SUFFICES ASSUME NEW r \in SUBSET S, Cardinality(r) = 0 PROVE iter[r] = g[r]
      OBVIOUS
    <3>1. r = {}
      BY <1>0, FS_EmptySet
    <3> QED BY <2>1, <3>1 DEF SumStep
  <2>3. ASSUME NEW n \in Nat, n \in E PROVE n + 1 \in E
    <3> SUFFICES ASSUME NEW r \in SUBSET S, Cardinality(r) = n + 1 PROVE iter[r] = g[r]
      OBVIOUS
    <3>1. r # {}
      <4>1. Cardinality({}) = 0 /\ n + 1 # 0
        BY FS_EmptySet
      <4> QED BY <2>3, <4>1
    <3>2. r \ {Chosen(r)} \in SUBSET S /\ Cardinality(r \ {Chosen(r)}) = n
      BY <1>0, <3>1, Smaller
    <3> QED BY <2>1, <2>3, <3>1, <3>2 DEF SumStep
  <2>4. Cardinality(s) \in E
    <3> HIDE DEF E
    <3> QED BY <1>0, <2>2, <2>3, NatSetInduction
  <2> QED BY <2>4
<1> QED BY <1>5, <1>6, <1>8

(* A sum of smaller numbers is smaller.                                    *)
LEMMA SumsCompare ==
  ASSUME NEW S, IsFiniteSet(S), NEW a \in [S -> Nat], NEW b \in [S -> Nat], \A x \in S : a[x] <= b[x]
  PROVE  Sum(a) <= Sum(b)
<1>1. PICK g \in [SUBSET S -> Nat] : IsSum(a, S, g) /\ Sum(a) = g[S]
  BY SumExists
<1>2. PICK h \in [SUBSET S -> Nat] : IsSum(b, S, h) /\ Sum(b) = h[S]
  BY SumExists
<1> DEFINE T == {n \in Nat : \A s \in SUBSET S : Cardinality(s) = n => g[s] <= h[s]}
<1>3. \A s \in SUBSET S : IsFiniteSet(s) /\ Cardinality(s) \in Nat
  BY FS_Subset, FS_CardinalityType
<1>4. 0 \in T
  <2> SUFFICES ASSUME NEW s \in SUBSET S, Cardinality(s) = 0 PROVE g[s] <= h[s]
    OBVIOUS
  <2>1. s = {}
    BY <1>3, FS_EmptySet
  <2>2. g[s] = 0 /\ h[s] = 0
    BY <1>1, <1>2, <2>1 DEF IsSum, SumStep
  <2> QED BY <2>2
<1>5. ASSUME NEW n \in Nat, n \in T PROVE n + 1 \in T
  <2> SUFFICES ASSUME NEW s \in SUBSET S, Cardinality(s) = n + 1 PROVE g[s] <= h[s]
    OBVIOUS
  <2> DEFINE x == Chosen(s)
             r == s \ {x}
  <2>1. s # {}
    <3>1. Cardinality({}) = 0 /\ n + 1 # 0
      BY FS_EmptySet
    <3> QED BY <1>5, <3>1
  <2>2. x \in S /\ r \in SUBSET S /\ Cardinality(r) = n
    BY <1>3, <2>1, Smaller
  <2>3. g[s] = a[x] + g[r] /\ h[s] = b[x] + h[r]
    BY <1>1, <1>2, <2>1 DEF IsSum, SumStep
  <2> HIDE DEF x, r
  <2>4. g[r] <= h[r] /\ a[x] <= b[x] /\ g[r] \in Nat /\ h[r] \in Nat /\ a[x] \in Nat /\ b[x] \in Nat
    BY <1>5, <2>2
  <2> QED BY <2>3, <2>4
<1>6. Cardinality(S) \in T
  <2>1. Cardinality(S) \in Nat
    BY FS_CardinalityType
  <2> HIDE DEF T
  <2> QED BY <1>4, <1>5, <2>1, NatSetInduction
<1> QED BY <1>1, <1>2, <1>6

(* What an item takes is no more than what was allocated for it, unless the *)
(* class is careless.                                                      *)
LEMMA ItemFits ==
  ASSUME SettingsInv, NEW o \in Object, values[o] # <<>>, NEW answer \in 0 .. 3, NEW left \in 0 .. 1,
         answer = 0 => mode.fails, NEW c \in Shown
  PROVE  /\ ItemSize(c) \in Nat /\ ItemUsed(o, c, answer, left) \in Nat
         /\ ~ClassIsCareless => ItemUsed(o, c, answer, left) <= ItemSize(c)
<1> DEFINE d == Setting(c[1])
           t == values[o][c[1]][c[2]]
<1>1. TableInv /\ c[1] \in Settings /\ c[2] \in DOMAIN d.types
  <2>1. c \in Controls
    BY DEF Shown, SettingsInv, HandlesInv
  <2> QED BY <2>1, ControlFacts DEF SettingsInv
<1>2. d.room[c[2]] \in Nat
  BY <1>1, SettingFacts
<1>3. Fits(psdr.settings, c[1], c[2], t) /\ psdr.settings[c[1]] = d
  BY <1>1, HasTable DEF Setting
<1>4. CASE d.types[c[2]] \in {"LONG", "DATE"}
  <2>1. ItemSize(c) = 4 /\ ItemUsed(o, c, answer, left) = 4
    BY <1>4 DEF ItemSize, ItemUsed
  <2> QED BY <2>1
<1>5. CASE d.types[c[2]] = "STRING"
  <2>1. ItemSize(c) = d.room[c[2]] /\ ItemUsed(o, c, answer, left) = Length(t)
    BY <1>5 DEF ItemSize, ItemUsed
  <2>2. t \in Text /\ Length(t) <= d.room[c[2]]
    BY <1>3, <1>5 DEF Fits
  <2>3. Length(t) \in Nat
    BY <2>2, LengthType
  <2> HIDE DEF d, t
  <2> QED BY <1>2, <2>1, <2>2, <2>3
<1>6. CASE d.types[c[2]] \notin {"LONG", "DATE", "STRING"}
  <2> DEFINE room == d.room[c[2]]
  <2>1. /\ ItemSize(c) = room
        /\ ItemUsed(o, c, answer, left) =
             IF answer = 0 THEN room + left + (IF room = 0 THEN 1 ELSE 0)
             ELSE IF room = 0 \/ answer < room THEN answer + 1 ELSE room
    BY <1>6 DEF ItemSize, ItemUsed
  <2>2. ~ClassIsCareless => room # 0 /\ ~mode.fails
    BY <1>6 DEF ClassIsCareless
  <2>3. ~ClassIsCareless => room # 0 /\ answer # 0
    BY <2>2
  <2>4. answer \in Nat /\ left \in Nat
    OBVIOUS
  <2> HIDE DEF room
  <2>5. room \in Nat
    BY <1>2 DEF room
  <2> QED BY ONLY <2>1, <2>3, <2>4, <2>5
<1> QED BY <1>4, <1>5, <1>6

(* The details data of an object fit, or the class is careless.            *)
LEMMA DetailsKeepSettings ==
  ASSUME SettingsInv, NEW o \in Object, WtkQueryObjectDetailsData(o) PROVE SettingsInv'
<1>0. /\ UNCHANGED <<mode, added, psdr, hwnd, values, screen, edited, closing, told, state, text>> /\ values[o] # <<>>
      /\ overrun' = (details'.used > details'.allocated)
  BY DEF WtkQueryObjectDetailsData
<1>1. PICK answer \in 0 .. 3, left \in 0 .. 1 :
        /\ answer = 0 => mode.fails
        /\ details' = [allocated |-> Sum([c \in Shown |-> ItemSize(c)]),
                       used      |-> Sum([c \in Shown |-> ItemUsed(o, c, answer, left)]),
                       columns   |-> Cardinality(Shown)]
  BY DEF WtkQueryObjectDetailsData
<1>2. IsFiniteSet(Shown)
  <2>1. Shown \subseteq Controls /\ IsFiniteSet(Controls)
    BY DEF SettingsInv, HandlesInv, Shown
  <2> QED BY <2>1, FS_Subset
<1>3. /\ details'.used \in Nat /\ details'.allocated \in Nat
      /\ ~ClassIsCareless => details'.used <= details'.allocated
  <2> DEFINE a == [c \in Shown |-> ItemUsed(o, c, answer, left)]
             b == [c \in Shown |-> ItemSize(c)]
  <2>1. /\ a \in [Shown -> Nat] /\ b \in [Shown -> Nat]
        /\ ~ClassIsCareless => \A c \in Shown : a[c] <= b[c]
    BY <1>0, <1>1, ItemFits
  <2>2. details'.used = Sum(a) /\ details'.allocated = Sum(b)
    BY <1>1
  <2> HIDE DEF a, b
  <2>3. \A f \in [Shown -> Nat] : Sum(f) \in Nat
    <3> SUFFICES ASSUME NEW f \in [Shown -> Nat] PROVE Sum(f) \in Nat
      OBVIOUS
    <3>1. PICK g \in [SUBSET Shown -> Nat] : Sum(f) = g[Shown]
      BY <1>2, SumExists
    <3> QED BY <3>1
  <2>4. ~ClassIsCareless => Sum(a) <= Sum(b)
    BY <1>2, <2>1, SumsCompare
  <2> QED BY <2>1, <2>2, <2>3, <2>4
<1>4. psdr.columns \in Nat /\ psdr.columns = Cardinality(Shown) /\ psdr.complete
  <2>1. psdr.columns \in Nat /\ psdr.columns > 0
    BY DEF SettingsInv, DetailsInv, WtkQueryObjectDetailsData
  <2>2. psdr.columns # 0
    BY <2>1
  <2> QED BY <2>1, <2>2 DEF SettingsInv, DetailsInv
<1>5. details'.columns = psdr.columns
  BY <1>1, <1>4
<1>6. DetailsInv'
  <2>1. Shown' = Shown /\ psdr' = psdr /\ ClassIsCareless' = ClassIsCareless
    BY <1>0, SameCare
  <2>2. details'.columns \in Nat /\ details'.columns <= psdr.columns
    BY <1>4, <1>5
  <2> DEFINE more == details'.used > details'.allocated
  <2>3. (~more => details'.used <= details'.allocated) /\ (more => ClassIsCareless)
    BY <1>3
  <2>4. overrun' = more
    BY <1>0
  <2> HIDE DEF more
  <2> QED BY <1>4, <2>1, <2>2, <2>3, <2>4 DEF DetailsInv
<1>7. TableInv /\ HandlesInv' /\ ValuesInv' /\ ScreensInv' /\ ShownInv' /\ ClosingInv' /\ StatesInv' /\ TextsInv'
  BY <1>0, Kept DEF SettingsInv
<1> QED BY <1>0, <1>6, <1>7, SameClass DEF SettingsInv

-----------------------------------------------------------------------------
(* All steps.                                                              *)

(* A step of an object keeps the invariant.                                *)
LEMMA ObjectKeepsSettings ==
  ASSUME SettingsInv, NEW o \in mode.objects, NextOf(o) PROVE SettingsInv'
<1>0. o \in Object
  BY ObjectOf
<1>1. CASE WtkCreateObjectValueTable(o) \/ WtkDestroyObjectValueTable(o)
  BY <1>0, <1>1, TablesComeAndGo
<1>2. CASE WtkEvaluateObjectSettings(o) \/ WtkRestoreObjectSettings(o)
  BY <1>0, <1>2, SetupsKeepSettings
<1>3. CASE WtkSaveObjectSettings(o)
  BY <1>0, <1>3, SaveKeepsSettings
<1>4. CASE WtkSaveObjectState(o)
  BY <1>0, <1>4, SaveKeepsStates
<1>5. CASE WtkRestoreObjectState(o)
  BY <1>0, <1>5, RestoreKeepsSettings
<1>6. CASE UserEnters(o)
  BY <1>0, <1>6, EnteringKeepsSettings
<1>7. CASE CloseNotebook(o)
  BY <1>0, <1>7, ClosingKeepsSettings
<1>8. CASE WtkQueryObjectDetailsData(o)
  BY <1>0, <1>8, DetailsKeepSettings
<1>9. ASSUME NEW p \in Pages, WtkRegisterSettingsDialog(o, p) PROVE SettingsInv'
  BY <1>0, <1>9, RegisterKeepsSettings
<1>10. ASSUME NEW p \in Pages, WtkReadObjectValueTable(o, p) PROVE SettingsInv'
  BY <1>0, <1>10, ReadKeepsSettings
<1>11. ASSUME NEW p \in Pages, DestroyPage(o, p) PROVE SettingsInv'
  BY <1>0, <1>11, DestroyKeepsSettings
<1> QED BY <1>1, <1>2, <1>3, <1>4, <1>5, <1>6, <1>7, <1>8, <1>9, <1>10, <1>11 DEF NextOf

(* So does a step that changes nothing.                                    *)
LEMMA StutteringKeepsSettings == ASSUME SettingsInv, UNCHANGED vars PROVE SettingsInv'
<1>1. UNCHANGED <<mode, added, overrun, psdr, hwnd, values, screen, edited, closing, told, state, text, details>>
  BY DEF vars
<1>2. TableInv /\ DOMAIN hwnd' = DOMAIN hwnd
  BY <1>1 DEF SettingsInv
<1>3. /\ HandlesInv' /\ ValuesInv' /\ ScreensInv' /\ ShownInv' /\ ClosingInv' /\ StatesInv' /\ TextsInv'
      /\ DetailsInv'
  BY <1>1, <1>2, Kept
<1> QED BY <1>1, <1>2, <1>3, SameClass DEF SettingsInv

(* So does any step.                                                       *)
LEMMA StepKeepsSettings == ASSUME SettingsInv, [Next]_vars PROVE SettingsInv'
<1>1. CASE WtkAddClassSetting
  BY <1>1, AddKeepsSettings
<1>2. CASE WtkCloseClassSettingsTable \/ WtkQueryClassDetailsInfo
  BY <1>2, ClassCallsKeepSettings
<1>3. CASE \E o \in mode.objects : NextOf(o)
  BY <1>3, ObjectKeepsSettings
<1>4. CASE UNCHANGED vars
  BY <1>4, StutteringKeepsSettings
<1> QED BY <1>1, <1>2, <1>3, <1>4 DEF Next

(* So it is always true.                                                   *)
LEMMA SettingsAlways == Spec => []SettingsInv
<1>1. SettingsInv /\ [Next]_vars => SettingsInv'
  BY StepKeepsSettings
<1> QED
  BY InitSettings, <1>1, PTL DEF Spec

(* The invariant says all that is to be right of the values.               *)
LEMMA SettingsInvImplies == ASSUME SettingsInv PROVE ValuesAreRight
<1>0. TableInv /\ HandlesInv /\ ScreensInv /\ ClosingInv /\ DOMAIN hwnd = Controls
  BY DEF SettingsInv, HandlesInv
<1>1. ASSUME NEW o \in Object, values[o] # <<>>, NEW c \in DOMAIN hwnd
      PROVE  /\ Fits(psdr.settings, c[1], c[2], values[o][c[1]][c[2]])
             /\ values[o][c[1]][c[2]] \notin Barred(mode)
  BY <1>0, <1>1, HasTable, ControlFacts
<1>2. TypeOK
  <2>1. mode \in Modes /\ added \in 0 .. Len(mode.class) /\ psdr.complete \in BOOLEAN
    <3>1. mode \in Modes /\ added \in Nat /\ added <= Len(mode.class) /\ psdr.complete \in BOOLEAN
      BY <1>0 DEF TableInv, ClassInv, TableFits
    <3>2. Len(mode.class) \in Nat
      BY <3>1, ClassAssumption DEF Mode
    <3> QED BY <3>1, <3>2
  <2>2. \A k \in Settings : Setting(k) \in Range(mode.class)
    BY <1>0 DEF TableInv
  <2>3. DOMAIN hwnd = Controls /\ Range(hwnd) \subseteq Object \cup {Null}
    BY <1>0 DEF HandlesInv, Range
  <2>4. ASSUME NEW o \in Object, values[o] # <<>>
        PROVE  /\ DOMAIN values[o] = Settings
               /\ \A k \in Settings : /\ DOMAIN values[o][k] = DOMAIN Setting(k).types
                                      /\ Range(values[o][k]) \subseteq Text \cup {Unknown}
    <3>1. /\ DOMAIN values[o] = Settings
          /\ \A k \in Settings : DOMAIN values[o][k] = DOMAIN Setting(k).types
      BY <2>4, HasTable
    <3>2. \A k \in Settings : \A i \in DOMAIN Setting(k).types : values[o][k][i] \in Text \cup {Unknown}
      BY <2>4, HasTable DEF Fits
    <3> QED BY <3>1, <3>2 DEF Range
  <2>5. \A c \in DOMAIN hwnd : hwnd[c] # Null => c \in DOMAIN screen[hwnd[c]]
    BY <1>0 DEF ScreensInv
  <2>6. \A o \in Object : DOMAIN screen[o] \subseteq Controls /\ edited[o] \subseteq DOMAIN screen[o]
    BY <1>0 DEF ScreensInv
  <2>7. closing \subseteq Object /\ told \subseteq Settings
    BY <1>0 DEF ClosingInv
  <2> QED BY <2>1, <2>2, <2>3, <2>4, <2>5, <2>6, <2>7 DEF TypeOK
<1>3. StringsFit
  <2>1. \A o \in Object : values[o] # <<>> => \A c \in DOMAIN hwnd :
          Setting(c[1]).types[c[2]] = "STRING" => Length(values[o][c[1]][c[2]]) <= Setting(c[1]).room[c[2]]
    BY <1>1 DEF Fits, Setting
  <2>2. /\ details.used <= details.allocated \/ overrun
        /\ overrun => ClassIsCareless
        /\ details.columns <= psdr.columns
    BY DEF SettingsInv, DetailsInv
  <2> QED BY <2>1, <2>2 DEF StringsFit
<1>4. OnlyAccepted
  BY <1>1 DEF OnlyAccepted, Barred
<1>5. ControlsShowValues
  BY DEF SettingsInv, ShownInv, ControlsShowValues
<1> QED BY <1>2, <1>3, <1>4, <1>5 DEF ValuesAreRight

(* For every class, with any number of settings and values, and all of its  *)
(* objects: the strings in the instance data fit into their buffers and the *)
(* details data into their memory, whether they come from setup strings,    *)
(* notebooks or INI files, and only a class that accepts a string without   *)
(* looking at its length, or shows an index for which there is no room or   *)
(* no text, makes a call write behind a buffer; nothing that the class      *)
(* rejects gets into a value (notebooks of several objects may be open),    *)
(* unless a notebook closes with it; and, while only one object is worked   *)
(* with, its controls show its values where the user has not entered        *)
(* something else.                                                         *)
THEOREM ValuesStayRight == Spec => []ValuesAreRight
BY SettingsAlways, SettingsInvImplies, PTL

-----------------------------------------------------------------------------
(* Changes.                                                                *)

(* The class is told of each setting that a setup string changes.          *)
LEMMA EvaluateTells ==
  ASSUME SettingsInv, NEW o \in Object, WtkEvaluateObjectSettings(o) \/ WtkRestoreObjectSettings(o)
  PROVE  /\ \A x \in Object \ {o} : values'[x] = values[x]
         /\ \A k \in Settings : values'[o][k] # values[o][k] => k \in told'
<1>1. PICK setup \in Seq(Item) : Evaluate(o, setup)
  BY SetupOf
<1> DEFINE now == Evaluated(o, setup)
<1>a. CASE \E j \in DOMAIN setup : Overruns(setup[j])
  BY <1>1, <1>a DEF Evaluate
<1>b. CASE \A j \in DOMAIN setup : ~Overruns(setup[j])
  <2>1. values' = [values EXCEPT ![o] = now.values] /\ told' = now.told
    BY <1>1, <1>b DEF Evaluate
  <2>2. TableInv /\ DOMAIN values = Object
    BY DEF SettingsInv, ValuesInv
  <2>3. IsTable(psdr.settings, Barred(mode), values[o])
    BY HasTable DEF WtkEvaluateObjectSettings, WtkRestoreObjectSettings
  <2>4. now \in Good(o)
    BY <1>b, <2>2, <2>3, EvaluatedGood
  <2> HIDE DEF now
  <2>5. \A k \in Settings : now.values[k] # values[o][k] => k \in now.told
    BY <2>4 DEF Good
  <2>6. values'[o] = now.values /\ \A x \in Object \ {o} : values'[x] = values[x]
    BY <2>1, <2>2
  <2> QED BY <2>1, <2>5, <2>6
<1> QED BY <1>a, <1>b

(* So it is by any call that changes a value, except for the object state. *)
LEMMA StepTells ==
  ASSUME SettingsInv, [Next]_vars, NEW o \in Object,
         values[o] # <<>>, values'[o] # <<>>, ~WtkRestoreObjectState(o),
         NEW k \in Settings, values'[o][k] # values[o][k]
  PROVE  k \in told'
<1>1. ~UNCHANGED values
  OBVIOUS
<1>2. PICK x \in mode.objects : NextOf(x)
  BY <1>1 DEF Next, vars, WtkAddClassSetting, WtkCloseClassSettingsTable, WtkQueryClassDetailsInfo
<1>3. x \in Object /\ DOMAIN values = Object
  BY ObjectOf DEF SettingsInv, ValuesInv
<1>4. CASE WtkCreateObjectValueTable(x) \/ WtkDestroyObjectValueTable(x) \/ WtkRestoreObjectState(x)
  <2>1. \E v : values' = [values EXCEPT ![x] = v]
    BY <1>4 DEF WtkCreateObjectValueTable, WtkDestroyObjectValueTable, WtkRestoreObjectState
  <2>2. x = o
    BY <1>3, <2>1
  <2>3. WtkCreateObjectValueTable(o) => values[o] = <<>>
    BY DEF WtkCreateObjectValueTable
  <2>4. WtkDestroyObjectValueTable(o) => values'[o] = <<>>
    BY <1>3 DEF WtkDestroyObjectValueTable
  <2> QED BY <1>4, <2>2, <2>3, <2>4
<1>5. CASE WtkEvaluateObjectSettings(x) \/ WtkRestoreObjectSettings(x)
  BY <1>3, <1>5, EvaluateTells
<1>6. ASSUME NEW p \in Pages, DestroyPage(x, p) PROVE k \in told'
  <2>1. x = o
    BY <1>3, <1>6, WrittenValues
  <2> QED BY <1>6, <2>1 DEF DestroyPage
<1>7. ~(WtkSaveObjectSettings(x) \/ WtkSaveObjectState(x) \/ UserEnters(x) \/ CloseNotebook(x) \/ WtkQueryObjectDetailsData(x))
  BY <1>1 DEF WtkSaveObjectSettings, WtkSaveObjectState, UserEnters, CloseNotebook, WtkQueryObjectDetailsData
<1>8. \A p \in Pages : ~(WtkRegisterSettingsDialog(x, p) \/ WtkReadObjectValueTable(x, p))
  BY <1>1 DEF WtkRegisterSettingsDialog, WtkReadObjectValueTable
<1> QED BY <1>2, <1>4, <1>5, <1>6, <1>7, <1>8 DEF NextOf

(* What fits a type that no other setting shares is what is written.       *)
LEMMA WrittenIsSame ==
  ASSUME TableInv, NEW k \in Settings, NEW i \in DOMAIN Setting(k).types,
         NEW t, IsOf(Setting(k).types[i], t), NEW old, IsOf(Setting(k).types[i], old)
  PROVE  Written(Setting(k), i, t, old, FALSE) = t
<1> DEFINE type == Setting(k).types[i]
           w == Written(Setting(k), i, t, old, FALSE)
<1>1. type \in Type
  BY SettingFacts
<1>2. CASE type \in {"STRING", "LONG", "INDEXITEM"}
  BY <1>2 DEF Written
<1>3. CASE type = "BOOL"
  <2>1. t \in {<<"TRUE">>, <<"FALSE">>}
    BY <1>3 DEF IsOf
  <2>2. <<"TRUE">> \in True /\ <<"FALSE">> \notin True
    BY DEF True
  <2>3. w = IF t \in True THEN <<"TRUE">> ELSE <<"FALSE">>
    BY <1>3 DEF Written
  <2> QED BY <2>1, <2>2, <2>3
<1>4. CASE type = "INDEX"
  <2>1. t \in Known \/ t = Unknown
    BY <1>4 DEF IsOf
  <2>2. w = IF t \in Known THEN t ELSE Unknown
    BY <1>4 DEF Written
  <2> QED BY <2>1, <2>2
<1>5. CASE type = "DATE"
  <2>1. t = <<>> /\ old = <<>>
    BY <1>5 DEF IsOf
  <2>2. w = old
    BY <1>5 DEF Written
  <2> QED BY <2>1, <2>2
<1> QED BY <1>1, <1>2, <1>3, <1>4, <1>5 DEF Type

(* A page of a notebook that is the only one leaves what it shows.         *)
LEMMA PageTakesInput ==
  ASSUME SettingsInv, mode.alone, NEW o \in Object, NEW p PROVE TakesInput(o, p)
<1> SUFFICES ASSUME DestroyPage(o, p), NEW c \in DOMAIN hwnd
             PROVE  /\ c \notin OnPage(p) => values'[o][c[1]][c[2]] = values[o][c[1]][c[2]]
                    /\ c \in OnPage(p) /\ ~SharesIds(c[1]) => values'[o][c[1]][c[2]] = screen[o][c]
  BY DEF TakesInput
<1>1. c \in Controls /\ c[1] \in Settings /\ c[2] \in DOMAIN Setting(c[1]).types /\ TableInv
  BY ControlFacts DEF SettingsInv, HandlesInv
<1>2. /\ values[o] # <<>>
      /\ values'[o][c[1]][c[2]] = IF c \in OnPage(p) THEN WriteValue(o, c) ELSE values[o][c[1]][c[2]]
  BY <1>1, WrittenValues
<1>3. ASSUME c \in OnPage(p), ~SharesIds(c[1]) PROVE WriteValue(o, c) = screen[o][c]
  <2>1. c \in DOMAIN screen[o] /\ hwnd[c] = o
    BY <1>3 DEF DestroyPage, SettingsInv, ShownInv
  <2>2. o # Null
    BY ObjectAssumption
  <2>3. WriteValue(o, c) = Written(Setting(c[1]), c[2], screen[o][c], values[o][c[1]][c[2]], FALSE)
    BY <2>1, <2>2 DEF WriteValue
  <2>4. ~Shares(psdr.settings, c[1])
    BY <1>3 DEF SharesIds, Shares, Settings, Setting
  <2>5. Fits(psdr.settings, c[1], c[2], screen[o][c])
    BY <2>1 DEF SettingsInv, ScreensInv
  <2>6. Fits(psdr.settings, c[1], c[2], values[o][c[1]][c[2]])
    BY <1>1, <1>2, HasTable
  <2>7. IsOf(Setting(c[1]).types[c[2]], screen[o][c]) /\ IsOf(Setting(c[1]).types[c[2]], values[o][c[1]][c[2]])
    BY <2>4, <2>5, <2>6 DEF Fits, Setting
  <2> QED BY <1>1, <2>3, <2>7, WrittenIsSame
<1> QED BY <1>2, <1>3

(* Whenever a call changes a value of a setting of an object, the class is  *)
(* told of the setting (unless the call restores the object state); and     *)
(* while only one object is worked with, its values become what its         *)
(* notebook shows when a page is closed, and no others, unless the setting  *)
(* shares its ids.                                                         *)
THEOREM ChangesReachTheClass == Spec => ChangesAreTaken
<1>1. SettingsInv /\ [Next]_vars =>
        [\A o \in Object : values[o] # <<>> /\ values'[o] # <<>> /\ ~WtkRestoreObjectState(o) =>
           \A k \in Settings : values'[o][k] # values[o][k] => k \in told']_vars
  BY StepTells
<1>2. SettingsInv => [mode.alone => \A o \in Object, p \in Pages : TakesInput(o, p)]_vars
  BY PageTakesInput
<1>3. Spec => ChangesAreTold
  BY <1>1, SettingsAlways, PTL DEF Spec, ChangesAreTold
<1>4. Spec => ClosingTakesInput
  BY <1>2, SettingsAlways, PTL DEF ClosingTakesInput
<1> QED
  BY <1>3, <1>4 DEF ChangesAreTaken

-----------------------------------------------------------------------------
(* What is saved and restored.                                             *)

(* A plain setting is one that the setup string of an object has.          *)
LEMMA PlainIsListed ==
  ASSUME SettingsInv, NEW o \in Object, text[o].of # <<>>,
         NEW k \in Settings, ~SharesIds(k), Plain(Setting(k), text[o].of[k])
  PROVE  /\ Listed(Setting(k), text[o].of[k])
         /\ text[o].of[k] \in Seq(Text \cup {Unknown}) /\ DOMAIN text[o].of[k] = DOMAIN Setting(k).types
         /\ \A i \in DOMAIN Setting(k).types :
              LET t == text[o].of[k][i] IN
              /\ Fits(psdr.settings, k, i, t) /\ t \notin mode.rejects /\ IsOf(Setting(k).types[i], t)
              /\ t \in Text /\ Len(t) = 1
              /\ Setting(k).types[i] \in {"STRING", "LONG", "BOOL", "INDEX"}
<1> DEFINE d == Setting(k)
           v == text[o].of[k]
<1>1. IsTable(psdr.settings, Barred(mode), text[o].of) /\ TableInv
  BY DEF SettingsInv, TextsInv
<1>2. /\ v \in Seq(Text \cup {Unknown}) /\ DOMAIN v = DOMAIN d.types
      /\ \A i \in DOMAIN d.types : Fits(psdr.settings, k, i, v[i]) /\ v[i] \notin mode.rejects
  BY <1>1 DEF IsTable, Settings, Setting, Plain
<1>3. ~Shares(psdr.settings, k)
  BY DEF SharesIds, Shares, Settings, Setting
<1>4. \A i \in DOMAIN d.types : IsOf(d.types[i], v[i]) /\ v[i] \in Text \cup {Unknown}
  BY <1>2, <1>3 DEF Fits, Setting
<1>5. \A i \in DOMAIN d.types : d.types[i] # "INDEXITEM" /\ Len(v[i]) = 1 /\ v[i] # Unknown
  BY DEF Plain
<1>6. d.name # "" /\ d.queries > 0
  BY DEF Plain
<1> HIDE DEF d, v
<1>7. \A i \in DOMAIN d.types : v[i] # <<>>
  <2>1. Len(<<>>) # 1
    OBVIOUS
  <2>2. ASSUME NEW i \in DOMAIN d.types PROVE v[i] # <<>>
    <3>1. Len(v[i]) = 1
      BY <1>5
    <3> QED BY ONLY <2>1, <3>1, Zenon
  <2> QED BY <2>2
<1>8. \A i \in DOMAIN d.types : d.types[i] # "DATE"
  BY <1>4, <1>7 DEF IsOf
<1>9. \A i \in DOMAIN d.types : d.types[i] \in {"STRING", "LONG", "BOOL", "INDEX"}
  BY <1>1, <1>5, <1>8, SettingFacts DEF Type, d
<1>10. Listed(d, v)
  BY <1>6, <1>7, <1>8 DEF Listed, HasValue
<1>11. \A i \in DOMAIN d.types : v[i] \in Text
  BY <1>4, <1>5
<1> QED BY <1>2, <1>4, <1>5, <1>9, <1>10, <1>11 DEF d, v

(* A value of a setup string that was written for a value gives it again.  *)
LEMMA PlainIsWritten ==
  ASSUME TableInv, NEW k \in Settings, NEW i \in DOMAIN Setting(k).types, NEW t \in Text, Len(t) = 1,
         Fits(psdr.settings, k, i, t), t \notin mode.rejects, IsOf(Setting(k).types[i], t),
         Setting(k).types[i] \in {"STRING", "LONG", "BOOL", "INDEX"}, NEW old
  PROVE  Valid(Setting(k), i, t, TRUE) /\ Written(Setting(k), i, t, old, TRUE) = t
<1> DEFINE d == Setting(k)
           type == d.types[i]
           w == Written(d, i, t, old, TRUE)
<1>1. CASE type = "STRING"
  <2>1. w = t
    BY <1>1 DEF Written
  <2>2. Length(t) <= d.room[i]
    BY <1>1 DEF Fits, Setting
  <2> QED BY <1>1, <2>1, <2>2 DEF Valid
<1>2. CASE type = "LONG"
  <2>1. w = AsNumber(t)
    BY <1>2 DEF Written
  <2>2. PICK n \in Number : t = <<n>>
    BY <1>2 DEF IsOf
  <2>3. t[1] \in Number
    BY <2>2
  <2>4. AsNumber(t) = t
    BY <2>3, AsNumberIs
  <2> QED BY <1>2, <2>1, <2>3, <2>4 DEF Valid
<1>3. CASE type = "BOOL"
  <2>1. t \in {<<"TRUE">>, <<"FALSE">>}
    BY <1>3 DEF IsOf
  <2>2. <<"TRUE">> \in True /\ <<"FALSE">> \notin True /\ <<"FALSE">> \in False
    BY DEF True, False
  <2>3. w = IF t \in True THEN <<"TRUE">> ELSE <<"FALSE">>
    BY <1>3 DEF Written
  <2>4. w = t /\ t \in True \cup False
    BY <2>1, <2>2, <2>3
  <2> QED BY <1>3, <2>4 DEF Valid
<1>4. CASE type = "INDEX"
  <2>1. t \in Known
    BY <1>4, UnknownIsNoText DEF IsOf
  <2>2. w = t
    BY <1>4, <2>1 DEF Written
  <2> QED BY <1>4, <2>2 DEF Valid
<1> QED BY <1>1, <1>2, <1>3, <1>4

(* The setting of a setup string that was written for a plain one is valid  *)
(* and gives all of its values again.                                      *)
LEMMA PlainIsEvaluated ==
  ASSUME SettingsInv, NEW o \in Object, text[o].of # <<>>,
         NEW k \in Settings, ~SharesIds(k), Plain(Setting(k), text[o].of[k])
  PROVE  LET s == AsText(Setting(k), text[o].of[k]) IN
         /\ s \in Item /\ s.name = Setting(k).name /\ Setting(k).name \in Key
         /\ Accepts(Setting(k), s)
         /\ \A old : NewValues(k, s, old) = text[o].of[k]
<1> DEFINE d == Setting(k)
           v == text[o].of[k]
           s == AsText(d, v)
           n == Len(v)
           e == [i \in 1 .. n |-> v[i][1]]
<1>0. TableInv
  BY DEF SettingsInv
<1>1. /\ Listed(d, v) /\ v \in Seq(Text \cup {Unknown}) /\ DOMAIN v = DOMAIN d.types
      /\ \A i \in DOMAIN d.types :
           /\ Fits(psdr.settings, k, i, v[i]) /\ v[i] \notin mode.rejects /\ IsOf(d.types[i], v[i])
           /\ v[i] \in Text /\ Len(v[i]) = 1 /\ d.types[i] \in {"STRING", "LONG", "BOOL", "INDEX"}
  BY PlainIsListed
<1>2. d \in Definition
  BY <1>0, SettingFacts
<1> HIDE DEF d, v
<1>3. DOMAIN d.types = 1 .. n /\ n \in Nat
  BY <1>1
<1>4. \A i \in 1 .. n : v[i][1] \in Part /\ v[i] = <<v[i][1]>>
  BY <1>1, <1>3, OnePart
<1>5. d.name \in Key
  BY <1>1, <1>2, ListedName
<1>6. s \in Item /\ s.name = d.name
  BY <1>1, <1>5, AsTextType
<1>7. e \in [1 .. n -> Part] /\ \A i \in 1 .. n : v[i] = <<e[i]>> /\ e[i] \in Part
  BY <1>4
<1> HIDE DEF e
<1>8. Len(s.parts) = n /\ \A i \in 1 .. n : s.parts[i] = e[i]
  BY <1>1, <1>7, AsTextSingle
<1> HIDE DEF s, n
<1>9. ASSUME NEW i \in DOMAIN d.types PROVE Given(d, s, i) = v[i]
  <2>1. i \in 1 .. n /\ i <= Len(s.parts)
    BY <1>3, <1>8
  <2>2. "" \notin Part
    BY PartAssumption
  <2>3. s.parts[i] = e[i] /\ e[i] \in Part /\ v[i] = <<e[i]>>
    BY <1>7, <1>8, <2>1
  <2>4. s.parts[i] # ""
    BY <2>2, <2>3
  <2> QED BY <2>1, <2>3, <2>4 DEF Given
<1>10. ASSUME NEW i \in DOMAIN d.types, NEW old
       PROVE  Valid(d, i, Given(d, s, i), TRUE) /\ Written(d, i, Given(d, s, i), old, TRUE) = v[i]
  <2>1. /\ v[i] \in Text /\ Len(v[i]) = 1 /\ v[i] \notin mode.rejects
        /\ Fits(psdr.settings, k, i, v[i]) /\ IsOf(d.types[i], v[i])
        /\ d.types[i] \in {"STRING", "LONG", "BOOL", "INDEX"}
    BY <1>1
  <2>2. Valid(d, i, v[i], TRUE) /\ Written(d, i, v[i], old, TRUE) = v[i]
    BY ONLY <1>0, <2>1, k \in Settings, i \in DOMAIN d.types, PlainIsWritten DEF d
  <2>3. Given(d, s, i) = v[i]
    BY <1>9
  <2> QED BY <2>2, <2>3
<1>11. Accepts(d, s)
  BY <1>10 DEF Accepts
<1>12. ASSUME NEW old PROVE NewValues(k, s, old) = v
  <2>1. NewValues(k, s, old) = [i \in DOMAIN d.types |-> v[i]]
    BY <1>10 DEF NewValues, d
  <2>2. v = [i \in DOMAIN v |-> v[i]]
    BY <1>1
  <2> QED BY <1>1, <2>1, <2>2
<1> QED BY <1>5, <1>6, <1>11, <1>12 DEF d, v, s

(* What evaluating one setting does to another one: nothing.               *)
LEMMA OthersStay ==
  ASSUME TableInv, NEW o, NEW now \in Good(o), NEW s \in Item, NEW k \in Settings, Setting(k).name # s.name
  PROVE  EvaluateSetting(now, s).values[k] = now.values[k]
<1>1. CASE EvaluateSetting(now, s) = now
  BY <1>1
<1>2. ASSUME NEW l \in Settings, Setting(l).name = s.name,
             EvaluateSetting(now, s) =
               [values |-> [now.values EXCEPT ![l] = NewValues(l, s, now.values[l])],
                set    |-> now.set \cup {l},
                told   |-> IF NewValues(l, s, now.values[l]) # now.values[l] THEN now.told \cup {l} ELSE now.told]
      PROVE  EvaluateSetting(now, s).values[k] = now.values[k]
  <2>1. EvaluateSetting(now, s).values = [now.values EXCEPT ![l] = NewValues(l, s, now.values[l])]
    BY <1>2
  <2>2. k # l /\ DOMAIN now.values = Settings
    BY <1>2 DEF Good
  <2> QED BY <2>1, <2>2
<1> QED BY <1>1, <1>2, EvaluateSettingIs

(* A setting of a setup string that is valid becomes that of its name.     *)
LEMMA AcceptedIsTaken ==
  ASSUME TableInv, NEW o, NEW now \in Good(o), NEW s \in Item, NEW k \in Settings,
         Setting(k).name = s.name, Accepts(Setting(k), s)
  PROVE  EvaluateSetting(now, s).values[k] = NewValues(k, s, now.values[k])
<1>1. PICK l \in Settings :
        /\ Setting(l).name = s.name
        /\ EvaluateSetting(now, s) =
             [values |-> [now.values EXCEPT ![l] = NewValues(l, s, now.values[l])],
              set    |-> now.set \cup {l},
              told   |-> IF NewValues(l, s, now.values[l]) # now.values[l] THEN now.told \cup {l} ELSE now.told]
  BY EvaluateSettingIs
<1>2. l = k
  <2>1. s.name \in Key
    BY DEF Item
  <2> QED BY <1>1, <2>1, NamedOnce
<1>3. EvaluateSetting(now, s).values = [now.values EXCEPT ![k] = NewValues(k, s, now.values[k])]
  BY <1>1, <1>2
<1>4. DOMAIN now.values = Settings
  BY DEF Good
<1> QED BY <1>3, <1>4

(* A plain setting comes back from the setup string of its object.         *)
LEMMA PlainComesBack ==
  ASSUME SettingsInv, NEW o \in Object, WtkRestoreObjectSettings(o), ~overrun',
         NEW k \in Settings, ~SharesIds(k), Plain(Setting(k), text[o].of[k])
  PROVE  values'[o][k] = text[o].of[k]
<1> DEFINE v == text[o].of[k]
           s == AsText(Setting(k), v)
           list == text[o].settings
           n == Len(list)
<1>0. TableInv /\ DOMAIN values = Object /\ IsTable(psdr.settings, Barred(mode), values[o])
  BY HasTable DEF WtkRestoreObjectSettings, SettingsInv, ValuesInv
<1>1. text[o].of # <<>>
  BY DEF WtkRestoreObjectSettings
<1>2. list \in Seq(Item) /\ IsText(psdr.settings, text[o].of, list)
  BY <1>1 DEF SettingsInv, TextsInv, IsText
<1>3. n \in Nat /\ DOMAIN list = 1 .. n /\ \A j \in 1 .. n : list[j] \in Item
  BY <1>2
<1>4. /\ s \in Item /\ s.name = Setting(k).name /\ Setting(k).name \in Key /\ Accepts(Setting(k), s)
      /\ \A old : NewValues(k, s, old) = v
  BY <1>1, PlainIsEvaluated
<1>5. PICK j \in 1 .. n : list[j] = s
  <2>1. Listed(Setting(k), v)
    BY <1>1, PlainIsListed
  <2>2. k \in DOMAIN psdr.settings /\ psdr.settings[k] = Setting(k)
    BY DEF Settings, Setting
  <2>3. \E j \in DOMAIN list : list[j] = AsText(psdr.settings[k], text[o].of[k])
    BY <1>2, <2>1, <2>2 DEF IsText
  <2> QED BY <1>3, <2>2, <2>3
<1>6. ASSUME NEW m \in 1 .. n, Setting(k).name = list[m].name PROVE list[m] = s
  <2>1. PICK l \in DOMAIN psdr.settings :
          /\ Listed(psdr.settings[l], text[o].of[l])
          /\ list[m] = AsText(psdr.settings[l], text[o].of[l])
    BY <1>2, <1>3 DEF IsText
  <2>2. l \in Settings /\ Setting(l) = psdr.settings[l]
    BY <2>1 DEF Settings, Setting
  <2>3. list[m].name = Setting(l).name
    <3>1. text[o].of[l] \in Seq(Text \cup {Unknown})
      BY <1>1, <2>1 DEF SettingsInv, TextsInv, IsTable
    <3>2. Setting(l).name \in Key
      BY <1>0, <2>1, <2>2, SettingFacts, ListedName
    <3>3. AsText(Setting(l), text[o].of[l]).name = Setting(l).name
      BY <3>1, <3>2, AsTextType
    <3> QED BY <2>1, <2>2, <3>3
  <2>4. l = k
    BY <1>0, <1>4, <1>6, <2>2, <2>3, NamedOnce
  <2> QED BY <2>1, <2>2, <2>4
<1>7. PICK after \in [0 .. n -> Good(o)] :
        /\ \A m \in 1 .. n : after[m] = EvaluateSetting(after[m - 1], list[m])
        /\ Evaluated(o, list) = after[n]
  <2>1. \A m \in DOMAIN list : ~Overruns(list[m])
    BY <1>2, SetupFits DEF WtkRestoreObjectSettings, Idle, list
  <2> QED BY <1>0, <1>2, <2>1, EvaluatedFold
<1> HIDE DEF s, v, list, n
<1>8. ASSUME NEW m \in 1 .. n
      PROVE  /\ list[m] = s => after[m].values[k] = v
             /\ list[m] # s => after[m].values[k] = after[m - 1].values[k]
  <2>1. after[m - 1] \in Good(o) /\ list[m] \in Item /\ after[m] = EvaluateSetting(after[m - 1], list[m])
    <3>1. m - 1 \in 0 .. n
      BY <1>3
    <3> QED BY <1>3, <1>7, <3>1
  <2>2. CASE list[m] = s
    BY <1>0, <1>4, <2>1, <2>2, AcceptedIsTaken
  <2>3. CASE list[m] # s
    BY <1>0, <1>6, <2>1, <2>3, OthersStay
  <2> QED BY <2>2, <2>3
<1> DEFINE T == {m \in Nat : j + m <= n => after[j + m].values[k] = v}
<1>9. 0 \in T
  BY <1>3, <1>5, <1>8
<1>10. ASSUME NEW m \in Nat, m \in T PROVE m + 1 \in T
  <2> SUFFICES ASSUME j + (m + 1) <= n PROVE after[j + (m + 1)].values[k] = v
    OBVIOUS
  <2>1. j + (m + 1) \in 1 .. n /\ (j + (m + 1)) - 1 = j + m /\ j + m <= n
    BY <1>3
  <2> QED BY <1>8, <1>10, <2>1
<1>11. after[n].values[k] = v
  <2>1. n - j \in Nat /\ j + (n - j) = n
    BY <1>3
  <2>2. n - j \in T
    <3> HIDE DEF T
    <3> QED BY <1>9, <1>10, <2>1, NatSetInduction
  <2> QED BY <1>3, <2>1, <2>2
<1>12. values'[o] = Evaluated(o, list).values
  <2>1. values' = [values EXCEPT ![o] = Evaluated(o, list).values]
    BY <1>2, SetupFits DEF WtkRestoreObjectSettings, Idle, list
  <2> QED BY <1>0, <2>1
<1> QED BY <1>7, <1>11, <1>12 DEF v

(* The first value of a setting comes back from the object state.          *)
LEMMA FirstValueComesBack ==
  ASSUME SettingsInv, NEW o \in Object, WtkRestoreObjectState(o), state[o].of # <<>>,
         NEW k \in Settings, Ids(Setting(k)) # {}, ~SharesIds(k)
  PROVE  values'[o][k][1] = state[o].of[k][1]
<1> DEFINE d == Setting(k)
           t == state[o].of[k][1]
<1>0. TableInv /\ DOMAIN values = Object
  BY DEF SettingsInv, ValuesInv
<1>1. values'[o] = [l \in Settings |-> [values[o][l] EXCEPT ![1] = Restored(o, Setting(l), values[o][l][1])]]
  BY <1>0 DEF WtkRestoreObjectState
<1>2. values'[o][k] = [values[o][k] EXCEPT ![1] = Restored(o, d, values[o][k][1])]
  BY <1>1
<1>3. ASSUME NEW id \in Ids(d)
      PROVE  id \in DOMAIN state[o].ids /\ state[o].ids[id].kind = Kind(d) /\ state[o].ids[id].text = t
  <2>1. id \in DOMAIN state[o].ids
    BY DEF SettingsInv, StatesInv
  <2>2. PICK l \in Settings :
          id \in Ids(Setting(l)) /\ state[o].ids[id] = [kind |-> Kind(Setting(l)), text |-> state[o].of[l][1]]
    BY <2>1 DEF SettingsInv, StatesInv
  <2>3. l = k
    BY <2>2 DEF SharesIds
  <2> QED BY <2>1, <2>2, <2>3
<1>4. Kind(d) = "string" => Length(t) <= d.room[1]
  <2> SUFFICES ASSUME Kind(d) = "string" PROVE Length(t) <= d.room[1]
    OBVIOUS
  <2>1. d.types[1] = "STRING"
    BY DEF Kind
  <2>2. IsTable(psdr.settings, Barred(mode), state[o].of)
    BY DEF SettingsInv, StatesInv
  <2>3. Fits(psdr.settings, k, 1, t)
    <3>1. k \in DOMAIN psdr.settings /\ 1 \in DOMAIN psdr.settings[k].types
      BY <1>0, SettingFacts DEF Settings, Setting
    <3> QED BY <2>2, <3>1 DEF IsTable
  <2> QED BY <2>1, <2>3 DEF Fits, Setting
<1>5. /\ Saved(d)
      /\ \E i \in DOMAIN d.types, q \in 1 .. d.queries : TRUE
      /\ \A i \in DOMAIN d.types, q \in 1 .. d.queries : SettingsId(d, i, q) \in Ids(d)
  BY DEF Ids
<1>6. Found(o, d) # {}
  <2>1. PICK i \in DOMAIN d.types, q \in 1 .. d.queries : TRUE
    BY <1>5
  <2>2. SettingsId(d, i, q) \in Ids(d)
    BY <1>5
  <2> DEFINE id == SettingsId(d, i, q)
  <2>3. id \in DOMAIN state[o].ids /\ state[o].ids[id].kind = Kind(d) /\ state[o].ids[id].text = t
    BY <1>3, <2>2
  <2>4. <<q, i>> \in Found(o, d)
    BY <1>4, <1>5, <2>3 DEF Found
  <2> QED BY <2>4
<1>7. PICK f \in Found(o, d) : Restored(o, d, values[o][k][1]) = state[o].ids[SettingsId(d, f[2], f[1])].text
  BY <1>0, <1>6, RestoredIs
<1>8. SettingsId(d, f[2], f[1]) \in Ids(d)
  BY <1>5 DEF Found
<1>9. Restored(o, d, values[o][k][1]) = t
  BY <1>3, <1>7, <1>8
<1>10. 1 \in DOMAIN values[o][k]
  <2>1. values[o] # <<>>
    BY DEF WtkRestoreObjectState
  <2> QED BY <1>0, <2>1, HasTable, SettingFacts
<1> QED BY <1>2, <1>9, <1>10

(* For every class and object, whatever happened to them since: a setting   *)
(* gets all of its values back from the setup string saved of it, if it is  *)
(* plain and shares no ids, and its first value from the object state.      *)
THEOREM SavedComesBack == Spec => SettingsComeBack
<1>1. SettingsInv =>
        [\A o \in Object : WtkRestoreObjectSettings(o) /\ ~overrun' =>
           \A k \in Settings :
             ~SharesIds(k) /\ Plain(Setting(k), text[o].of[k]) => values'[o][k] = text[o].of[k]]_vars
  BY PlainComesBack
<1>2. SettingsInv =>
        [\A o \in Object : WtkRestoreObjectState(o) /\ state[o].of # <<>> =>
           \A k \in Settings : Ids(Setting(k)) # {} /\ ~SharesIds(k) =>
             values'[o][k][1] = state[o].of[k][1]]_vars
  BY FirstValueComesBack
<1>3. Spec => PlainSettingsComeBack
  BY <1>1, SettingsAlways, PTL DEF PlainSettingsComeBack
<1>4. Spec => FirstValuesComeBack
  BY <1>2, SettingsAlways, PTL DEF FirstValuesComeBack
<1> QED
  BY <1>3, <1>4 DEF SettingsComeBack

=============================================================================
