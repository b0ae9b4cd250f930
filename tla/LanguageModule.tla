--------------------------- MODULE LanguageModule ---------------------------
(***************************************************************************)
(* Files of a language (wtkulmd.c): the languages of the system            *)
(* (wtkusys.c) and of the locale (wtkuloc.c) are translated by a table of  *)
(* language codes, and a path of file masks, relative to the directory of  *)
(* the calling module, is searched for a file of that language, of one of  *)
(* its variants, or of the default language.                               *)
(*                                                                         *)
(* A mask is a sequence of texts and of placeholders %s, %l and %d, a file *)
(* name the sequence of texts a mask becomes.                              *)
(***************************************************************************)
EXTENDS Integers, Sequences, SequencesExt

CONSTANTS
    auli,       \* the languages: id1 and id2 (ISO 639-1 and -2), and locale
    ausli       \* the languages of the operating system, with the characters
                \* of their CSD level, and the prompt keys or "*"

NO_ERROR == 0
ERROR_FILE_NOT_FOUND == 2
ERROR_INVALID_PARAMETER == 87

-----------------------------------------------------------------------------
(* A language is found under each of its codes; one that is not in the     *)
(* table, or none, counts as English.                                      *)
Speaks(row, language) == language \in {row.id1, row.id2, row.locale}
English == [id1 |-> "en", id2 |-> "eng", locale |-> "en_GB"]

getcode(language, type) ==
    LET row == SelectInSeq(auli, LAMBDA r : Speaks(r, language))
    IN  IF row = 0 THEN English[type] ELSE auli[row][type]

(* Mutant: the variants are those of the very code asked for.              *)
VariantsOfCode(language, type) ==
    LET rows == SelectSeq(auli, LAMBDA r : Speaks(r, language))
        codes == [i \in DOMAIN rows |-> rows[i][type]]
    IN  FoldLeft(LAMBDA all, c : IF Contains(all, c) THEN all ELSE Append(all, c), <<>>, codes)

(* All codes of the rows of a language, in the order of the table.         *)
Variants(language, type) ==
    LET base == getcode(language, "id1")
        rows == SelectSeq(auli, LAMBDA r : Speaks(r, base))
        codes == [i \in DOMAIN rows |-> rows[i][type]]
    IN  FoldLeft(LAMBDA all, c : IF Contains(all, c) THEN all ELSE Append(all, c), <<>>, codes)

WtkTranslateLanguageCode(language, type) == getcode(language, type)

(* Variants of the two-letter code are those with the country; the result  *)
(* is the code of the language, the buffer holds the variants.             *)
WtkQueryLanguageVariants(language, type) ==
    LET used == IF type = "id1" THEN "locale" ELSE type
    IN  IF used \in {"locale", "id2"}
        THEN [result |-> getcode(getcode(language, "id1"), used),
              variants |-> Variants(language, used)]
        ELSE [result |-> language, variants |-> <<>>]

getLangDef(language) ==
    [id1 |-> WtkTranslateLanguageCode(language, "id1"),
     variants |-> WtkQueryLanguageVariants(language, "id2").variants]

-----------------------------------------------------------------------------
(* The character of the CSD level in SYSLEVEL.OS2 tells the language, for  *)
(* some of them only together with the prompt keys of the message file.    *)
(* "eng" if a file cannot be read or the language is not known, whatever   *)
(* type is asked for.                                                      *)
WtkQuerySystemLanguage(readable, csdChar, promptKeys, type) ==
    LET row == SelectInSeq(ausli, LAMBDA r : csdChar \in r.chars /\ r.keys \in {"*", promptKeys})
    IN  CASE ~readable \/ row = 0 -> "eng"
          [] OTHER -> IF type = "locale" THEN WtkTranslateLanguageCode(ausli[row].id2, "locale")
                      ELSE ausli[row][type]

(* A code of the locale goes through the table and comes back as the main  *)
(* one of its language.  Without a locale it is English of any type.       *)
WtkQueryLocaleLanguage(available, language, type) ==
    IF available THEN WtkQueryLanguageVariants(language, type).result
    ELSE WtkQueryLanguageVariants("", "id1").result

-----------------------------------------------------------------------------
(* The placeholders of a mask: which code they stand for, and the language *)
(* of which they are, that of the first one counts for all.                *)
Text(t) == [text |-> t]
Placeholder(code, of) == [code |-> code, of |-> of]
IsPlaceholder(part) == "code" \in DOMAIN part

FileName(mask, language) ==
    [i \in DOMAIN mask |->
        IF IsPlaceholder(mask[i]) THEN getcode(language, mask[i].code) ELSE mask[i].text]

(* The languages a mask is tried with: only the first one unless some      *)
(* placeholder has three letters.                                          *)
Tried(mask, used, default) ==
    LET others == IF used.id1 # default.id1 THEN default.variants ELSE <<>>
        searching == \E i \in DOMAIN mask : IsPlaceholder(mask[i]) /\ mask[i].code = "id2"
    IN  IF searching THEN used.variants \o others ELSE SubSeq(used.variants, 1, 1)

getLanguageFile(mask, files, definitions) ==
    LET first == SelectInSeq(mask, IsPlaceholder)
        tried == IF first = 0 THEN <<"">>
                 ELSE Tried(mask, definitions[mask[first].of], definitions["default"])
        found == SelectInSeq(tried, LAMBDA language : FileName(mask, language) \in files)
    IN  IF found = 0 THEN [rc |-> ERROR_FILE_NOT_FOUND]
        ELSE [rc |-> NO_ERROR, file |-> FileName(mask, tried[found]), language |-> tried[found]]

(* The language of the environment variable replaces both languages, if it *)
(* is set; masks are searched in the order of the path.                    *)
WtkGetNlsPackageFilename(default, env, system, locale, masks, files) ==
    LET code(language) == WtkTranslateLanguageCode(language, "locale")
        definitions ==
            [default |-> getLangDef(code(default)),
             system |-> getLangDef(IF env = "" THEN system ELSE code(env)),
             locale |-> getLangDef(IF env = "" THEN locale ELSE code(env))]
        results == [i \in DOMAIN masks |-> getLanguageFile(masks[i], files, definitions)]
        found == SelectInSeq(results, LAMBDA r : r.rc = NO_ERROR)
    IN  IF found = 0 THEN [rc |-> ERROR_FILE_NOT_FOUND] ELSE results[found]

(* The module or the INF file that was found is used; no error of the      *)
(* viewer is told.                                                         *)
WtkLoadNlsResourceModule(found, loads) == IF found.rc = NO_ERROR THEN loads ELSE found.rc
WtkLoadNlsInfFile(found) == found.rc

-----------------------------------------------------------------------------
(* What a program may rely on.  A file that is found is one of a mask of   *)
(* the path, in the language that the mask asks for, or in the default     *)
(* language.  If no file is found, or only one of the default language or  *)
(* of a later mask, no file of any variant of the language is there under  *)
(* a mask with three-letter codes.  A language that is set in the          *)
(* environment takes the place of those of the system and of the locale.   *)
SameLanguage(a, b) == getcode(a, "id1") = getcode(b, "id1")

Asked(mask, system, locale, default) ==
    LET first == SelectInSeq(mask, IsPlaceholder)
    IN  CASE first = 0 -> ""
          [] first # 0 /\ mask[first].of = "system" -> system
          [] first # 0 /\ mask[first].of = "locale" -> locale
          [] OTHER -> default

FilesOf(mask, language, files) ==
    {FileName(mask, auli[i].id2) : i \in {i \in DOMAIN auli : SameLanguage(auli[i].id2, language)}}
        \cap files

ThreeLetters(mask) ==
    \A i \in DOMAIN mask : IsPlaceholder(mask[i]) => mask[i].code = "id2"

LanguageFileIsFound(default, env, system, locale, masks, files) ==
    LET found == WtkGetNlsPackageFilename(default, env, system, locale, masks, files)
        Set(language) == IF env = "" THEN language ELSE env
        asked(i) == Asked(masks[i], Set(system), Set(locale), default)
        own(i) == FilesOf(masks[i], asked(i), files)
        fallback(i) == FilesOf(masks[i], default, files)
        first == SelectInSeq([i \in DOMAIN masks |-> i], LAMBDA i : own(i) \cup fallback(i) # {})
    IN  (\A i \in DOMAIN masks : ThreeLetters(masks[i])) =>
            IF first = 0 THEN found.rc = ERROR_FILE_NOT_FOUND
            ELSE /\ found.rc = NO_ERROR
                 /\ found.file \in (IF own(first) # {} THEN own(first) ELSE fallback(first))
=============================================================================
