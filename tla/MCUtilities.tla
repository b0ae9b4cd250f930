---------------------------- MODULE MCUtilities ----------------------------
(***************************************************************************)
(* The utilities that compute an answer from their arguments: a program    *)
(* calls one of them with each of the arguments below.                     *)
(***************************************************************************)
EXTENDS Integers, Sequences, FiniteSets, TLC

CONSTANTS
    Summer,         \* the months of daylight saving time
    MaxRevisions,   \* bound: numbers of a revision
    Chunk,          \* bytes of a file that are read at once
    Block,          \* bytes of a block of MD5
    Width,          \* bits of a word that counts bits
    MaxBytes        \* bound: bytes of a message of MD5

\* The words that count bits wrap at the end of a block.
ASSUME BlockAssumption == Block % 2 = 0 /\ Block > 2 /\ (2 ^ (Width - 3)) % Block = 0

VARIABLE call       \* the utility that is called and its arguments

Regular == INSTANCE RegularExpression
Meaning == INSTANCE RegularPromise
Setup == INSTANCE SetupString
Dates == INSTANCE DateTime
Build == INSTANCE BuildLevel
System == INSTANCE SysLevel

(* Rows of the tables of languages, in their order (wtkulmd.c, wtkusys.c). *)
Row(id1, id2, locale) == [id1 |-> id1, id2 |-> id2, locale |-> locale]
SystemRow(chars, id1, id2, keys) == [chars |-> chars, id1 |-> id1, id2 |-> id2, keys |-> keys]
auli == <<Row("de", "deu", "de_DE"), Row("de", "des", "de_CH"), Row("en", "eng", "en_GB"),
          Row("en", "enu", "en_US"), Row("fr", "fra", "fr_FR"), Row("fr", "frc", "fr_CA"),
          Row("ja", "jap", "ja_JP")>>
ausli == <<SystemRow({"0", "_"}, "en", "eng", "YNARI"), SystemRow({"F"}, "fr", "fra", "ONARI"),
           SystemRow({"F"}, "fi", "fin", "*"), SystemRow({"G"}, "de", "deu", "*"),
           SystemRow({"J"}, "jp", "jap", "*"), SystemRow({"C"}, "fr", "frc", "*")>>
Device == [width |-> 3, height |-> 2, colors |-> 16]

Languages == INSTANCE LanguageModule WITH auli <- auli, ausli <- ausli
Packages == INSTANCE PackageModule
FileName == INSTANCE FileNames
Sums == INSTANCE CheckSum
Bitmaps == INSTANCE BitmapFile WITH Caps <- Device

-----------------------------------------------------------------------------
(* Regular expressions of up to two pieces or branches, one of which may   *)
(* be a group, and texts of up to three characters.                        *)
Atoms == {Meaning!Letter("a"), Meaning!Letter("b"), Meaning!Letter("*"), Meaning!AnyLetter,
          Meaning!OneOf({"a", "b"}), Meaning!NoneOf({"a"}), Meaning!AtBegin, Meaning!AtEnd}
Repeats == {"", "*", "+", "?"}
Pieces == {Meaning!Piece(a, o) : a \in Atoms, o \in Repeats}
Few == {Meaning!Piece(Meaning!Letter("a"), ""), Meaning!Piece(Meaning!Letter("b"), ""),
        Meaning!Piece(Meaning!Letter("a"), "*"), Meaning!Piece(Meaning!AtEnd, "")}
Inner == {<<b>> : b \in {<<>>} \cup {<<p>> : p \in Few} \cup {<<p, q>> : p \in Few, q \in Few}}
         \cup {<<<<p>>, <<q>>>> : p \in Few, q \in Few}
Groups == {Meaning!Piece(Meaning!Group(x), o) : x \in Inner, o \in Repeats}
Expressions ==
    {<<<<p>>>> : p \in Pieces \cup Groups}
    \cup {<<<<p, q>>>> : p \in Pieces, q \in Pieces}
    \cup {<<<<p>>, <<q>>>> : p \in Pieces, q \in Few}
    \cup {<<<<p, g>>>> : p \in Few, g \in Groups} \cup {<<<<g, p>>>> : g \in Groups, p \in Few}
    \cup {<<<<p>>, <<g>>>> : p \in Few, g \in Groups} \cup {<<<<g>>, <<p>>>> : g \in Groups, p \in Few}
Texts == UNION {[1..n -> {"a", "b"}] : n \in 0..3} \cup {<<"*">>, <<"a", "*">>}
Behind == {<<>>, <<"a">>, <<"b", "a", "b">>}

(* Expressions with a group that finds some or none of it, replace         *)
(* patterns with insertions of each kind, and buffers around their length. *)
Grouped == {<<<<Meaning!Piece(Meaning!Group(<<<<Meaning!Piece(Meaning!Letter("a"), o)>>>>), p),
               Meaning!Piece(Meaning!Letter("b"), q)>>>> : o \in {"*", "+"}, p \in {"", "?"}, q \in {"", "*"}}
Inserts == {Meaning!Whole, Meaning!PartOne, Meaning!Char("c"), Meaning!Char("&"), Meaning!Char("\\")}
Replaces == UNION {[1..n -> Inserts] : n \in 0..2}

(* Up to two settings, whose values hold all characters that are special.  *)
Names == {<<"a">>, <<"b">>}
Values == UNION {[1..n -> {"a", ";", "^", "="}] : n \in 0..2}
Settings == UNION {[1..n -> [name : Names, value : Values]] : n \in 1..2}

(* Days around the ends of months, leap days and the end of time.          *)
Days == {0, 58, 59, 789, 3651, 3652, 10956, 11015, 11016, 17897, 17988, 20000, 24836, 24854}
Seconds == {0, 1, 59, 43199, 43200, 46800, 82800, 86399}
Times == [day : Days, second : Seconds]
OtherTimes == [day : {3652, 3653, 11016, 17898}, second : {0, 61, 3600, 86399}]

(* Executables without a table and with tables of several names, with data *)
(* before or behind it; parts of build levels with separators in them, and *)
(* one that is too long.                                                   *)
Parts == {"vendor", "revision", "description"}
Signatures == [vendor : {<<>>, <<65>>, <<65, 58>>, [i \in 1..250 |-> 65]},
               revision : {<<>>, <<49>>, <<49, 35>>},
               description : {<<>>, <<66>>, <<32, 66>>, <<64, 66>>}]
Before == [vendor |-> <<67>>, revision |-> <<49>>, description |-> <<68>>]
Tables == {<<>>,
           Build!Entry(<<65>>, <<0, 0>>) \o <<0>>,
           Build!Entry(<<65>>, <<1, 0>>) \o Build!Entry(<<66, 67>>, <<0, 0>>) \o <<0>>,
           Build!Entry(Build!Info(Before), <<0, 0>>) \o Build!Entry(<<65>>, <<0, 1>>)
               \o Build!Entry(<<66>>, <<2, 0>>) \o <<0>>}
Executable(valid, table, behind, dataOfs) ==
    [isLX |-> valid, table |-> table, tableOfs |-> 10, length |-> 10 + Len(table) + behind,
     headerOfs |-> dataOfs, dataOfs |-> dataOfs]
Executables ==
    {Executable(valid, table, behind, 5) : valid \in BOOLEAN, table \in Tables, behind \in {0, 5}}
    \cup {Executable(TRUE, table, 5, 12 + Len(table)) : table \in Tables}

Revisions == UNION {[1..n -> {0, 1, 12}] : n \in 0..MaxRevisions}
Written(numbers, separator) ==
    Setup!FlattenSeq([i \in DOMAIN numbers |->
        (IF numbers[i] = 12 THEN <<49, 50>> ELSE <<48 + numbers[i]>>) \o separator])

(* SYSLEVEL files of one table, changed twice.                             *)
Table == [sysid |-> 7, compid |-> 7, name |-> 7, date |-> 7, type |-> 7,
          version |-> 18, modify |-> 3, refresh |-> 4,
          csd |-> <<"p", "q", "r", "1", "2", "3", "4", "_">>,
          csdPrev |-> <<"p", "q", "r", "1", "2", "_", "_", "_">>]
Plainly(n) == [sysid |-> n, compid |-> n, name |-> n, date |-> n, type |-> n]
Info1 == Plainly(1) @@ [version |-> [major |-> 1, minor |-> 33, refresh |-> 1],
    prefix |-> <<"a", "b">>, language |-> "x", current |-> <<"a", "b", "c">>, previous |-> <<"a">>]
Info2 == Plainly(2) @@ [version |-> [major |-> 15, minor |-> 255, refresh |-> 2],
    prefix |-> <<"c">>, language |-> "y", current |-> <<"d", "_", "e", "f">>, previous |-> <<>>]
FieldSets == {f \in SUBSET System!Fields : Cardinality(f) \in 1..2}

(* Masks with placeholders of each kind, alone and after another, and the  *)
(* files of some languages; the system tells its language by its files.    *)
Text == Languages!Text("pmw")
Mask(code, of) == <<Text, Languages!Placeholder(code, of)>>
MaskPaths == {<<Mask("id2", "system")>>, <<Mask("id2", "locale"), <<Text>>>>,
              <<Mask("id2", "locale"), Mask("id2", "system")>>, <<Mask("id1", "system")>>,
              <<<<Text, Languages!Placeholder("id2", "default"), Languages!Placeholder("id1", "system")>>>>}
NlsFiles == {F \in SUBSET {<<"pmw", "deu">>, <<"pmw", "des">>, <<"pmw", "enu">>, <<"pmw", "frc">>,
                           <<"pmw", "jap">>, <<"pmw", "de">>, <<"pmw">>} : Cardinality(F) <= 2}
CsdChars == [char : {"_", "F", "G", "C", "J"}, keys : {"YNARI", "ONARI"}, readable : BOOLEAN]
Locales == [available : BOOLEAN, language : {"de_CH", "en_US", "xx"}]

(* Modules of up to two entries of a path, some of which are no DLLs.      *)
ModuleEntries == [wild : BOOLEAN, files : {<<>>, <<"a">>, <<"x">>, <<"a", "b">>, <<"x", "c">>}]
ModulePaths == UNION {[1..n -> ModuleEntries] : n \in 0..3}
\* A program with an extension, and one without it in a directory with one.
ModuleNames == {<<"c", "\\", "os2", "\\", "pmw", ".", "exe">>, <<"c", "\\", "os2", ".", "d", "\\", "pmw">>}

(* Parts of file names, and texts with a zero, a blank and a letter.       *)
Directories == UNION {[1..n -> {<<>>, <<"a">>, <<"a", ".", "b">>}] : n \in 0..2}
Bytes == UNION {[1..n -> {0, 32, 65}] : n \in 0..4}

(* Bytes that make the sum of four of them -1, and others.                 *)
FF == 0..7
CrcData == UNION {[1..n -> {FF, {}, {0, 4, 5}}] : n \in 0..4}
           \cup {<<FF, FF, FF, FF, b, c>> : b \in {{}, {6}}, c \in {FF, {1}}}
Digests == [1..3 -> {0, 9, 15, 16, 255}]

(* Arrays of up to three bitmaps for any display, for this one, for one    *)
(* that is as wide or as high, and for a larger one.                       *)
Displays == {<<0, 0>>, <<3, 2>>, <<2, 5>>, <<9, 2>>, <<9, 9>>}
BitmapSorts == {[cx |-> x, cy |-> 1, bits |-> b, image |-> 9] : x \in {7, 8}, b \in {1, 8}}
               \cup {[cx |-> 8, cy |-> 2, bits |-> 4, image |-> 6]}
Header(valid, picture, display, bitmap) ==
    [valid |-> valid, picture |-> picture, cxDisplay |-> display[1], cyDisplay |-> display[2],
     bitmap |-> bitmap]
Smallest == [cx |-> 8, cy |-> 1, bits |-> 1, image |-> 9]
Headers == {Header(TRUE, "bitmap", d, b) : d \in Displays, b \in BitmapSorts}
           \cup {Header(FALSE, "bitmap", <<0, 0>>, Smallest)}
           \cup {Header(TRUE, "icon", d, Smallest) : d \in {<<0, 0>>, <<3, 2>>}}
Arrays == {<<h>> : h \in Headers} \cup {<<h, i>> : h \in Headers, i \in Headers}
          \cup {<<h, i, j>> : h \in {x \in Headers : x.bitmap.cx = 7}, i \in Headers,
                             j \in {x \in Headers : x.bitmap.bits = 1}}

-----------------------------------------------------------------------------
Init == call = [fn |-> "none"]

Match == \E e \in Expressions, t \in Texts, b \in Behind :
    /\ t = <<>> \/ b = <<>>
    /\ call' = [fn |-> "match", expr |-> e, text |-> t,
                found |-> Regular!Subst(Meaning!Write(e), t, b, <<"&">>, 9)]
Replace == \E e \in Grouped, t \in Texts, r \in Replaces, maxlen \in 1..6 :
    call' = [fn |-> "replace", expr |-> e, text |-> t, inserts |-> r, maxlen |-> maxlen,
             found |-> Regular!Subst(Meaning!Write(e), t, <<>>, Meaning!WriteReplace(r), maxlen)]
Scan == \E s \in Settings, n \in Names, len \in 2..3 :
    call' = [fn |-> "setup", settings |-> s, name |-> n, buflen |-> len]
Date == \E s \in Times, t \in OtherTimes : call' = [fn |-> "date", time |-> s, other |-> t]
SetBuildLevel == \E exe \in Executables, s \in Signatures, o \in SUBSET Parts :
    call' = [fn |-> "build", exe |-> exe, signature |-> s, options |-> o]
CompareRevisions == \E r \in Revisions, s \in Revisions, c \in {<<46>>, <<46, 98>>} :
    call' = [fn |-> "revision", first |-> r, second |-> s, separator |-> c]
SetSyslevel == \E f \in FieldSets, g \in FieldSets, update \in BOOLEAN, valid \in BOOLEAN :
    call' = [fn |-> "syslevel", first |-> f, second |-> g, update |-> update, valid |-> valid]
FindLanguageFile == \E m \in MaskPaths, F \in NlsFiles, d \in {"en", "de"}, e \in {"", "fr", "xx"},
                       c \in CsdChars, l \in Locales :
    /\ e = "" \/ c.char = "G"
    /\ call' = [fn |-> "language", masks |-> m, files |-> F, default |-> d, env |-> e,
                system |-> Languages!WtkQuerySystemLanguage(c.readable, c.char, c.keys, "locale"),
                locale |-> Languages!WtkQueryLocaleLanguage(l.available, l.language, "locale")]
LoadModules == \E p \in ModulePaths, L \in SUBSET {"a", "b", "c"}, max \in 1..3 :
    call' = [fn |-> "modules", entries |-> p, loadable |-> L, max |-> max]
AssembleName == \E m \in ModuleNames, s \in {Packages!NULL, <<>>, <<"lang">>, <<"lang", "\\">>},
                   n \in {Packages!NULL, <<>>, <<"pmwx">>, <<"pmwx", ".">>, <<"pmwx", ".", "dll">>},
                   e \in {Packages!NULL, <<"dll">>}, len \in 4..12, max \in {6, 12} :
    call' = [fn |-> "name", module |-> m, subdir |-> s, name |-> n, ext |-> e, buflen |-> len, max |-> max]
SplitName == \E d \in {<<>>, <<"?", ":">>, <<"d", ":">>}, p \in Directories,
                f \in {<<"f">>, <<"f", ".", "g">>}, e \in {<<>>, <<"e">>} :
    (e # <<>> \/ ~FileName!Contains(f, ".")) /\ call' = [fn |-> "spec", drive |-> d, path |-> p, file |-> f, ext |-> e]
IsEmpty == \E b \in Bytes, readable \in BOOLEAN :
    call' = [fn |-> "empty", bytes |-> b, readable |-> readable]
Sum == \E d \in CrcData, cut \in 0..4 :
    cut <= Len(d) /\ call' = [fn |-> "crc", data |-> d, cut |-> cut]
Digest == \E n \in 0..MaxBytes, fails \in 0..2 :
    fails <= n \div Chunk /\ call' = [fn |-> "md5", data |-> [b \in 1..n |-> 1000 + b], fails |-> fails]
WriteDigest == \E d \in Digests, len \in 3..8 : call' = [fn |-> "text", digest |-> d, buflen |-> len]
LoadBitmap == \E a \in Arrays, w \in {0, 7, 8}, force \in BOOLEAN :
    call' = [fn |-> "bitmaps", headers |-> a, width |-> w, force |-> force]
LoadSingleBitmap == \E b \in BitmapSorts, k \in {"bitmap", "other"}, w \in {0, 7, 8}, force \in BOOLEAN,
                       memory \in BOOLEAN, gpi \in BOOLEAN :
    call' = [fn |-> "bitmap", file |-> [kind |-> k, bitmap |-> b], width |-> w, force |-> force,
             memory |-> memory, gpi |-> gpi]

Next ==
    /\ call.fn = "none"
    /\ \/ Match \/ Replace \/ Scan \/ Date \/ SetBuildLevel \/ CompareRevisions \/ SetSyslevel
       \/ FindLanguageFile \/ LoadModules \/ AssembleName \/ SplitName \/ IsEmpty
       \/ Sum \/ Digest \/ WriteDigest \/ LoadBitmap \/ LoadSingleBitmap

-----------------------------------------------------------------------------
(* An expression is refused exactly if it is not well formed.  Otherwise   *)
(* the leftmost match is found if there is one, it ends where a match may  *)
(* end, and each part of it lies inside and is matched by its group; of an *)
(* empty text no more is said if the search has left it (wtkurgx.c 862).   *)
(* What is inserted into a replace pattern is what was found, cut off at   *)
(* the end of the buffer or of the part that did not fit, and the caller   *)
(* is told when it was cut off (wtkurgx.c: RegComp, RegExec and RegSub).   *)
PartsMatch(e, t, match) ==
    \A g \in 1..9 :
        \/ match.startp[g] = 0 /\ match.endp[g] = 0
        \/ /\ g \in DOMAIN Meaning!Groups(e)
           /\ match.endp[g] \in Meaning!Ends(Meaning!Groups(e)[g], t, match.startp[g])
           /\ match.start <= match.startp[g] /\ match.endp[g] <= match.end

TextIsReplaced ==
    LET r == call.found
        Found(from, to) == SubSeq(call.text, from, to - 1)
        full == Meaning!Replaced(call.inserts, Found(r.match.start, r.match.end),
                                 Found(r.match.startp[1], r.match.endp[1]))
    IN  r.rc # "ERROR_FILE_NOT_FOUND" =>
            /\ Regular!IsPrefix(r.written, Append(full, Regular!NUL))
            /\ r.rc = "NO_ERROR" => r.written = Append(full, Regular!NUL) /\ Len(r.written) <= call.maxlen
            /\ r.rc = "ERROR_BUFFER_OVERFLOW" => Len(full) + 1 >= call.maxlen
            /\ r.rc \in {"NO_ERROR", "ERROR_BUFFER_OVERFLOW"}

MatchIsRight ==
    /\ call.fn = "replace" => TextIsReplaced
    /\ call.fn = "match" =>
        LET r == call.found
            starts == {i \in 1..(Len(call.text) + 1) : Meaning!Ends(call.expr, call.text, i) # {}}
        IN  CASE ~Meaning!WellFormed(call.expr) -> r.rc = "ERROR_INVALID_PARAMETER"
              [] Meaning!WellFormed(call.expr) /\ starts = {} ->
                     \/ r.rc = "ERROR_FILE_NOT_FOUND"
                     \/ call.text = <<>> /\ r.match.start > 1
              [] OTHER ->
                     /\ r.rc = "NO_ERROR"
                     /\ r.match.start \in starts /\ \A i \in starts : r.match.start <= i
                     /\ r.match.end \in Meaning!Ends(call.expr, call.text, r.match.start)
                     /\ r.written = SubSeq(call.text, r.match.start, r.match.end - 1)
                                        \o <<Regular!NUL>>
                     /\ PartsMatch(call.expr, call.text, r.match)

(* A setup string gives back each setting it was written from, whichever   *)
(* characters their values hold; to extract one but the last, or to split, *)
(* leaves the others as they were, where nothing is escaped (wtkset1.c).   *)
SettingsAreRead ==
    call.fn = "setup" =>
        /\ Setup!ScanFinds(call.settings, call.name, call.buflen)
        /\ Setup!ExtractLeavesOthers(call.settings, call.name, call.buflen)
        /\ Setup!SplitGivesAll(call.settings, call.buflen)

(* Conversions of dates agree with each other, and sorted stamps with time *)
(* (wtkutim.c to wtkutim4.c).                                              *)
DatesAreRight ==
    call.fn = "date" =>
        /\ Dates!ConversionsAgree(call.time)
        /\ Dates!FileDatesAgree(Dates!WtkTimeToFDateTime(call.time))
        /\ Dates!StampsSort(call.time, call.other)

(* A build level that is set can be read and compared, and a SYSLEVEL file *)
(* keeps the changes it was closed with; both leave what was not asked for *)
(* as it was (wtkfbldl.c, wtkfslvl.c).                                     *)
LevelsAreKept ==
    /\ call.fn = "build" =>
        /\ Build!BuildLevelComesBack(call.exe, call.signature, call.options)
        /\ Build!ExecutableStaysWhole(call.exe, call.signature, call.options)
    /\ call.fn = "revision" =>
        Build!RevisionsCompare(call.first, call.second,
            Written(call.first, call.separator), Written(call.second, call.separator))
    /\ call.fn = "syslevel" =>
        System!SyslevelKeepsChanges([valid |-> call.valid, table |-> Table],
            <<[fields |-> call.first, info |-> Info1], [fields |-> call.second, info |-> Info2]>>,
            call.update)

(* The files and modules that belong to a program and to the language of   *)
(* its user are found, those of the environment before those of the        *)
(* system; modules that are loaded are freed; parts of names, and files without    *)
(* text, are told right (wtkulmd.c, wtkumod.c, wtkufil4.c, wtkufil5.c).    *)
PackagesAreFound ==
    /\ call.fn = "language" =>
        Languages!LanguageFileIsFound(call.default, call.env, call.system, call.locale,
                                      call.masks, call.files)
    /\ call.fn = "modules" =>
        Packages!ModulesAreLoaded(call.entries, call.loadable, call.max)
    /\ call.fn = "name" =>
        Packages!NameIsAssembled(call.module, call.subdir, call.name, call.ext, call.max, call.buflen)
    /\ call.fn = "spec" =>
        FileName!PartsOfName(call.drive, call.path, call.file, call.ext, "c")
    /\ call.fn = "empty" => FileName!EmptyIsWithoutText(call.readable, call.bytes, 3)

(* The sums of memory and of files are those of their definitions, however *)
(* the data is cut (wtkucrc.c, wtkumd5.c).                                 *)
SumsAreRight ==
    /\ call.fn = "crc" => Sums!CrcIsRight(call.data, call.cut)
    /\ call.fn = "md5" => Sums!DigestIsRight(call.data, call.fails)
    /\ call.fn = "text" => Sums!TextOfDigest(call.digest, call.buflen)

(* Of an array of bitmaps the best for the device is loaded, and a size    *)
(* that is forced is that of the bitmap (wtkfbmp.c).                       *)
BitmapsAreChosen ==
    /\ call.fn = "bitmaps" =>
        Bitmaps!BitmapIsChosen(call.headers, call.width, IF call.width = 0 THEN 0 ELSE 1, call.force)
    /\ call.fn = "bitmap" =>
        Bitmaps!SingleIsChecked(call.file, call.width, 1, call.force, call.memory, call.gpi)
=============================================================================
