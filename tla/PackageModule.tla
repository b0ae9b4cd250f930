---------------------------- MODULE PackageModule ----------------------------
(***************************************************************************)
(* Files beside a module (wtkumod.c): names relative to the directory of   *)
(* an executable or DLL, and the modules of a path that are loaded.        *)
(*                                                                         *)
(* A path name is a sequence of words, of which the backslash and the dot  *)
(* are words of their own.                                                 *)
(***************************************************************************)
EXTENDS Integers, Sequences, SequencesExt

NO_ERROR == 0
ERROR_FILE_NOT_FOUND == 2
ERROR_NO_MORE_FILES == 18
ERROR_INVALID_PARAMETER == 87
ERROR_BUFFER_OVERFLOW == 111

NULL == <<"NULL">>      \* what is not given
BACKSLASH == "\\"
DOT == "."

(* The length of a path name: each word counts one, the terminating zero   *)
(* too.                                                                    *)
PathLen(path) == Len(path) + 1

(* What comes up to the last occurrence of a word, and what is behind it.  *)
UpTo(path, word) == SubSeq(path, 1, SelectLastInSeq(path, LAMBDA w : w = word))
Behind(path, word) == SubSeq(path, Len(UpTo(path, word)) + 1, Len(path))
OrNothing(text) == IF text = NULL THEN <<>> ELSE text

-----------------------------------------------------------------------------
(* The name of the module of an address; if it comes without a path, the   *)
(* system is asked for it again.                                           *)
WtkGetModuleInfo(module, buflen) ==
    IF PathLen(module) > buflen THEN [rc |-> ERROR_BUFFER_OVERFLOW, path |-> <<>>]
    ELSE [rc |-> NO_ERROR, path |-> module]

(* The directory is taken with a buffer of its own, and must fit that of   *)
(* the caller.                                                             *)
WtkGetModulePath(module, maxPath, buflen) ==
    LET info == WtkGetModuleInfo(module, maxPath)
        dir == Front(UpTo(info.path, BACKSLASH))
    IN  CASE info.rc # NO_ERROR -> info
          [] info.rc = NO_ERROR /\ PathLen(dir) > buflen ->
                 [rc |-> ERROR_BUFFER_OVERFLOW, path |-> <<>>]
          [] OTHER -> [rc |-> NO_ERROR, path |-> dir]

(* What is given is strung together behind the last backslash of the       *)
(* module, a mere extension behind its last dot, as it comes: no backslash *)
(* and no dot is put in between.  The name is put together in a buffer of  *)
(* twice the length, in which all names here have room.                    *)
WtkAssemblePackageFilename(module, subdir, name, ext, maxPath, buflen) ==
    LET info == WtkGetModuleInfo(module, 2 * maxPath)
        path == CASE subdir # NULL \/ name # NULL ->
                         UpTo(module, BACKSLASH) \o OrNothing(subdir) \o OrNothing(name) \o OrNothing(ext)
                  [] subdir = NULL /\ name = NULL /\ ext # NULL -> UpTo(module, DOT) \o ext
                  [] OTHER -> module
    IN  CASE info.rc # NO_ERROR -> info
          [] info.rc = NO_ERROR /\ PathLen(path) > buflen ->
                 [rc |-> ERROR_BUFFER_OVERFLOW, path |-> <<>>]
          [] OTHER -> [rc |-> NO_ERROR, path |-> path]

(* A mask is beside the module; without a wildcard the file must be there. *)
WtkGetPackageFilename(entry) ==
    IF ~entry.wild /\ entry.files = <<>> THEN ERROR_FILE_NOT_FOUND ELSE NO_ERROR

-----------------------------------------------------------------------------
(* The modules of one entry of the path are loaded in the order the search *)
(* gives them, until there are as many as the table holds; one that cannot *)
(* be loaded is passed.  An entry that is no mask and has no file leaves   *)
(* its error behind.                                                       *)
LoadEntry(loaded, entry, loadable, max) ==
    LET found == SelectSeq(entry.files, LAMBDA f : f \in loadable)
        left == max - Len(loaded.modules)
    IN  IF left = 0 THEN loaded
        ELSE [rc |-> WtkGetPackageFilename(entry),
              modules |-> loaded.modules \o SubSeq(found, 1, IF Len(found) < left THEN Len(found) ELSE left)]

(* The limit of the table must not be zero: the code would pass it.        *)
WtkLoadModules(entries, loadable, max) ==
    LET loaded == FoldLeft(LAMBDA l, entry : LoadEntry(l, entry, loadable, max),
                           [rc |-> NO_ERROR, modules |-> <<>>], entries)
    IN  IF entries = <<>> THEN [rc |-> ERROR_INVALID_PARAMETER, modules |-> <<>>]
        ELSE [loaded EXCEPT !.rc = IF loaded.modules = <<>> THEN ERROR_NO_MORE_FILES ELSE @]

(* How often each module is in use afterwards.                             *)
WtkFreeModules(uses, modules) ==
    [m \in DOMAIN uses |-> uses[m] - Len(SelectSeq(modules, LAMBDA x : x = m))]

-----------------------------------------------------------------------------
(* The table gets the modules of the path that can be loaded, in order and *)
(* as many as fit; after freeing them each module is in use as before.     *)
ModulesAreLoaded(entries, loadable, max) ==
    LET all == FlattenSeq([i \in DOMAIN entries |->
                   SelectSeq(entries[i].files, LAMBDA f : f \in loadable)])
        r == WtkLoadModules(entries, loadable, max)
        uses == [m \in loadable |-> Len(SelectSeq(r.modules, LAMBDA x : x = m))]
    IN  /\ Len(r.modules) <= max
        /\ IsPrefix(r.modules, all)
        /\ Len(r.modules) = max \/ r.modules = all
        /\ r.rc = NO_ERROR => r.modules # <<>>
        /\ \A m \in loadable : WtkFreeModules(uses, r.modules)[m] = 0

(* A name that is assembled lies beside the module, or in the              *)
(* subdirectory, and is that of the file with the extension, those of the  *)
(* module for what was not given; it fits in the buffer, and a directory   *)
(* that fits is told.  The caller has to write the backslash behind the    *)
(* subdirectory and the dot before the extension himself, though the       *)
(* description (wtkumod.c 405) says "without leading dot"; and the module  *)
(* must have an extension, for otherwise a dot of its directory is taken.  *)
WritesSeparators(subdir, name, ext) ==
    /\ OrNothing(subdir) # <<>> => Last(subdir) = BACKSLASH
    /\ ext # NULL => \/ OrNothing(name) # <<>> /\ Last(name) = DOT
                     \/ subdir = NULL /\ name = NULL

NameIsAssembled(module, subdir, name, ext, maxPath, buflen) ==
    LET r == WtkAssemblePackageFilename(module, subdir, name, ext, maxPath, buflen)
        dir == WtkGetModulePath(module, maxPath, buflen)
        file == Behind(module, BACKSLASH)
        beside == UpTo(module, BACKSLASH)
    IN  /\ r.rc = NO_ERROR => PathLen(r.path) <= buflen
        /\ dir.rc = NO_ERROR => PathLen(dir.path) <= buflen /\ dir.path \o <<BACKSLASH>> = beside
        /\ r.rc = NO_ERROR /\ WritesSeparators(subdir, name, ext) =>
               /\ Contains(file, DOT) => UpTo(r.path, BACKSLASH) = beside \o OrNothing(subdir)
               /\ name # NULL => Behind(r.path, BACKSLASH) = name \o OrNothing(ext)
               /\ subdir = NULL /\ name = NULL /\ Contains(file, DOT) =>
                      Behind(r.path, BACKSLASH) =
                          IF ext = NULL THEN file ELSE UpTo(file, DOT) \o ext
=============================================================================
