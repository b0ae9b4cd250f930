---------------------------- MODULE FileUtilities ----------------------------
(***************************************************************************)
(* The file utilities (wtkufil.c to wtkufil7.c) called by several threads  *)
(* of a process, all of them working on the same directories: creating and *)
(* deleting paths, searching a directory, creating temporary files, asking *)
(* whether a file was modified, and the current directory.                 *)
(*                                                                         *)
(* A utility makes several calls of the operating system; each of these is *)
(* one step here, so that the threads meet between any two of them.        *)
(*                                                                         *)
(* A path is a sequence of names that begins with the drive, a name a      *)
(* sequence of characters.                                                 *)
(***************************************************************************)
EXTENDS Integers, Sequences, FiniteSets, SequencesExt

CONSTANTS
    Threads,        \* the threads that call the utilities
    Drives,         \* the drives, each a path of one name
    Boot,           \* the default drive at the beginning
    Tree0,          \* the directories and files at the beginning
    Paths,          \* the paths that are created and deleted
    Files,          \* the files that are written and asked for
    TmpDir,         \* the directory of temporary files
    Wildcards,      \* the question marks in the mask of temporary files
    Counters,       \* the texts the counter of milliseconds may have
    Char,           \* the characters of names
    MaxCalls,       \* bound: calls of all threads together
    MaxClock        \* bound: steps of the clock, of two seconds each

VARIABLES
    tree,       \* what exists: path -> directory or file
    clock,      \* the time that is written to files
    disk,       \* the default drive of the process
    curdir,     \* the current directory of each drive
    call,       \* what each thread is doing
    search,     \* the search of each thread
    status,     \* the FILESTATUS3 each thread holds
    answer,     \* what the last call of each thread returned
    calls       \* number of calls begun

vars == <<tree, clock, disk, curdir, call, search, status, answer, calls>>

Path == Seq(Seq(Char)) \ {<<>>}

Entry == [kind : {"dir", "file"}, size : Nat, stamp : Nat, version : Nat]

(* Drives are there, what is in a directory is there with the directory,   *)
(* and what the application names is on a drive.                           *)
ASSUME PathAssumption ==
    /\ Tree0 \in [DOMAIN Tree0 -> [kind : {"dir", "file"}, size : Nat, stamp : {0}, version : {0}]]
    /\ IsFiniteSet(DOMAIN Tree0)
    /\ DOMAIN Tree0 \cup Paths \cup Files \cup {TmpDir} \subseteq Path
    /\ \A p \in DOMAIN Tree0 : Len(p) > 1 => Front(p) \in DOMAIN Tree0 /\ Tree0[Front(p)].kind = "dir"
    /\ \A d \in Drives : Len(d) = 1 /\ d \in DOMAIN Tree0 /\ Tree0[d].kind = "dir"
    /\ Boot \in Drives
    /\ \A p \in Paths : SubSeq(p, 1, 1) \in Drives
    /\ Counters \subseteq Seq(Char) \ {<<>>} /\ Wildcards \in Nat

-----------------------------------------------------------------------------
(* The version stands for the contents of a file: each write has its own.  *)
Directory == [kind |-> "dir", size |-> 0, stamp |-> 0, version |-> 0]
NewFile == [kind |-> "file", size |-> 0, stamp |-> clock, version |-> 2 * calls]

IsDir(path) == path \in DOMAIN tree /\ tree[path].kind = "dir"
IsFile(path) == path \in DOMAIN tree /\ tree[path].kind = "file"

Parent(path) == Front(path)
PartsOf(path) == {SubSeq(path, 1, i) : i \in 1..Len(path)}
Children(path) == {p \in DOMAIN tree : Len(p) = Len(path) + 1 /\ Front(p) = path}

With(path, entry) == [p \in DOMAIN tree \cup {path} |-> IF p = path THEN entry ELSE tree[p]]
Without(path) == [p \in DOMAIN tree \ {path} |-> tree[p]]

(* What the operating system allows.                                       *)
CanCreate(path) == Len(path) > 1 /\ path \notin DOMAIN tree /\ IsDir(Parent(path))
CanDelete(path) == Len(path) > 1 /\ IsDir(path) /\ Children(path) = {}
                   /\ \A d \in Drives : curdir[d] # path

Idle == [op |-> "idle"]
NoAnswer == [op |-> "none"]
NoSearch == [open |-> FALSE, dir |-> <<>>, kind |-> "", dots |-> {}, given |-> {}, told |-> {},
             since |-> {}, lost |-> FALSE]
NoStatus == [path |-> <<>>, size |-> 0, stamp |-> -1, version |-> -1]

Init ==
    /\ tree = Tree0
    /\ clock = 0
    /\ disk = Boot
    /\ curdir = [d \in Drives |-> d]
    /\ call = [t \in Threads |-> Idle]
    /\ search = [t \in Threads |-> NoSearch]
    /\ status = [t \in Threads |-> NoStatus]
    /\ answer = [t \in Threads |-> NoAnswer]
    /\ calls = 0

(* A call begins.                                                          *)
Begins(t, started) ==
    /\ call[t] = Idle
    /\ calls < MaxCalls
    /\ calls' = calls + 1
    /\ call' = [call EXCEPT ![t] = started]
    /\ answer' = [answer EXCEPT ![t] = NoAnswer]

(* "disturbed" tells of a path that is created whether another thread has  *)
(* taken a part of it since the call began, and of one that is deleted     *)
(* whether another thread has taken a part of it or put one back.          *)
Taken(p) == p \in DOMAIN tree /\ p \notin DOMAIN tree'
Put(p) == p \notin DOMAIN tree /\ p \in DOMAIN tree'
Against(c) ==
    /\ c.op \in {"create", "delete"}
    /\ \E p \in PartsOf(c.path) : Taken(p) \/ (c.op = "delete" /\ Put(p))

DisturbedBy(t) ==
    [u \in Threads |-> IF u # t /\ Against(call[u]) THEN [call[u] EXCEPT !.disturbed = TRUE]
                       ELSE call[u]]

(* The step of thread t ends its call, or leaves it at "next".             *)
Goes(t, next, changed) ==
    /\ call' = [(IF changed THEN DisturbedBy(t) ELSE call) EXCEPT ![t] = next]
    /\ UNCHANGED answer
Returns(t, result, changed) ==
    /\ call' = [(IF changed THEN DisturbedBy(t) ELSE call) EXCEPT ![t] = Idle]
    /\ answer' = [answer EXCEPT ![t] = result]

(* What was there since the search began and still is.                     *)
Remains(newTree) ==
    search' = [t \in Threads |-> [search[t] EXCEPT !.since = @ \cap DOMAIN newTree]]

TreeBecomes(newTree) == tree' = newTree /\ Remains(newTree)

-----------------------------------------------------------------------------
WtkCreatePath(t, path) ==
    /\ Begins(t, [op |-> "create", path |-> path, upto |-> 1, disturbed |-> FALSE])
    /\ UNCHANGED <<tree, clock, disk, curdir, search, status>>

(* Mutant: an error ends the call, as it does in WtkDeletePath.            *)
CreateComponentOrEnd(t) ==
    LET path == call[t].path
        this == SubSeq(path, 1, call[t].upto)
        ok == CanCreate(this)
    IN  /\ call[t].op = "create"
        /\ TreeBecomes(IF ok THEN With(this, Directory) ELSE tree)
        /\ IF call[t].upto < Len(path) /\ ok
           THEN Goes(t, [call[t] EXCEPT !.upto = @ + 1], ok)
           ELSE Returns(t, [op |-> "create", ok |-> ok, path |-> path,
                            sure |-> ~call[t].disturbed], ok)
        /\ UNCHANGED <<clock, disk, curdir, status, calls>>

(* One component of the path: an error counts for the last one only.       *)
CreateComponent(t) ==
    LET path == call[t].path
        this == SubSeq(path, 1, call[t].upto)
        ok == CanCreate(this)
    IN  /\ call[t].op = "create"
        /\ TreeBecomes(IF ok THEN With(this, Directory) ELSE tree)
        /\ IF call[t].upto < Len(path)
           THEN Goes(t, [call[t] EXCEPT !.upto = @ + 1], ok)
           ELSE Returns(t, [op |-> "create", ok |-> ok, path |-> path,
                            sure |-> ~call[t].disturbed], ok)
        /\ UNCHANGED <<clock, disk, curdir, status, calls>>

WtkDeletePath(t, path) ==
    /\ Begins(t, [op |-> "delete", path |-> path, upto |-> Len(path), disturbed |-> FALSE])
    /\ UNCHANGED <<tree, clock, disk, curdir, search, status>>

(* The last directory must go, the ones above it go as long as they can.   *)
DeleteComponent(t) ==
    LET path == call[t].path
        this == SubSeq(path, 1, call[t].upto)
        ok == CanDelete(this)
    IN  /\ call[t].op = "delete"
        /\ TreeBecomes(IF ok THEN Without(this) ELSE tree)
        /\ IF ok
           THEN Goes(t, [call[t] EXCEPT !.upto = @ - 1], ok)
           ELSE Returns(t, [op |-> "delete", ok |-> call[t].upto < Len(path), path |-> path,
                            sure |-> ~call[t].disturbed], ok)
        /\ UNCHANGED <<clock, disk, curdir, status, calls>>

-----------------------------------------------------------------------------
(* A search: the operating system gives, in any order, what is there, but  *)
(* need not see what comes while the search goes on.  Among directories it *)
(* gives the two dot entries, which a drive does not have.                 *)
Entries(dir, kind) == {p \in Children(dir) : tree[p].kind = kind}
Dots == {<<".">>, <<".", ".">>}

Started(t, dir, kind) ==
    IF search[t].open THEN search[t]
    ELSE [NoSearch EXCEPT !.open = TRUE, !.dir = dir, !.kind = kind, !.since = Entries(dir, kind),
                          !.dots = IF kind = "dir" /\ Len(dir) > 1 THEN Dots ELSE {}]

(* WtkGetNextFile and WtkGetNextDirectory: the first call finds the handle *)
(* to be HDIR_CREATE and begins the search, the others go on with it.      *)
GetNext(t, dir, kind, fits) ==
    /\ Begins(t, [op |-> "find", fits |-> fits])
    /\ search' = [search EXCEPT ![t] = Started(t, dir, kind)]
    /\ UNCHANGED <<tree, clock, disk, curdir, status>>

(* Mutant: dot entries are skipped once in a call.                         *)
FindDotOnce(t) ==
    \E dot \in search[t].dots :
        /\ call[t].op = "find"
        /\ IF search[t].dots = Dots
           THEN /\ search' = [search EXCEPT ![t].dots = @ \ {dot}]
                /\ Goes(t, call[t], FALSE)
           ELSE /\ search' = [search EXCEPT ![t].dots = @ \ {dot},
                                            ![t].told = @ \cup {Append(search[t].dir, dot)}]
                /\ Returns(t, [op |-> "next", ok |-> call[t].fits], FALSE)
        /\ UNCHANGED <<tree, clock, disk, curdir, status, calls>>

(* A dot entry is skipped: the next entry is asked for.                    *)
FindDot(t) ==
    \E dot \in search[t].dots :
        /\ call[t].op = "find"
        /\ search' = [search EXCEPT ![t].dots = @ \ {dot}]
        /\ Goes(t, call[t], FALSE)
        /\ UNCHANGED <<tree, clock, disk, curdir, status, calls>>

(* A name that does not fit in the buffer is passed all the same.          *)
FindName(t) ==
    LET found == search[t]
        fits == call[t].fits
    IN  /\ call[t].op = "find"
        /\ \E p \in Entries(found.dir, found.kind) \ found.given :
             search' = [search EXCEPT ![t] =
                 [found EXCEPT !.given = @ \cup {p},
                               !.told = IF fits THEN @ \cup {p} ELSE @,
                               !.lost = @ \/ ~fits]]
        /\ Returns(t, [op |-> "next", ok |-> fits], FALSE)
        /\ UNCHANGED <<tree, clock, disk, curdir, status, calls>>

(* There are no more: the handle is closed.                                *)
FindNoMore(t) ==
    /\ call[t].op = "find"
    /\ search[t].dots = {} /\ search[t].since \subseteq search[t].given
    /\ search' = [search EXCEPT ![t].open = FALSE]
    /\ Returns(t, [op |-> "last", ok |-> FALSE], FALSE)
    /\ UNCHANGED <<tree, clock, disk, curdir, status, calls>>

-----------------------------------------------------------------------------
(* The question marks are replaced by the digits of the counter, the last  *)
(* one first, and going on where the attempt before has stopped.           *)
Digit(counter, at) == counter[Len(counter) - (at % Len(counter))]
TmpFile(counter, at) == Append(TmpDir, [i \in 1..Wildcards |-> Digit(counter, at + i - 1)])

WtkCreateTmpFile(t) ==
    /\ \E counter \in Counters :
         Begins(t, [op |-> "tmp", counter |-> counter, at |-> 0])
    /\ UNCHANGED <<tree, clock, disk, curdir, search, status>>


(* The file is created if it is new, otherwise the next name is tried.     *)
TryTmpFile(t) ==
    LET file == TmpFile(call[t].counter, call[t].at)
        ok == CanCreate(file)
        next == (call[t].at + Wildcards) % Len(call[t].counter)
    IN  /\ call[t].op = "tmp"
        /\ TreeBecomes(IF ok THEN With(file, NewFile) ELSE tree)
        /\ IF ok THEN Returns(t, [op |-> "tmp", path |-> file], ok)
           ELSE Goes(t, [call[t] EXCEPT !.at = next], ok)
        /\ UNCHANGED <<clock, disk, curdir, status, calls>>

-----------------------------------------------------------------------------
(* A file is written: replaced, or appended to.  No one else writes to it  *)
(* until it is closed.                                                     *)
Writing(file) == \E t \in Threads : call[t] # Idle /\ call[t].op = "write" /\ call[t].path = file

WtkWriteFile(t, file, fAppend) ==
    LET old == IF IsFile(file) THEN tree[file] ELSE NewFile
        opened == IF fAppend THEN old
                  ELSE [old EXCEPT !.size = 0, !.stamp = clock, !.version = 2 * calls]
    IN  /\ ~Writing(file)
        /\ IsFile(file) \/ CanCreate(file)
        /\ Begins(t, [op |-> "write", path |-> file])
        /\ TreeBecomes(With(file, opened))
        /\ UNCHANGED <<clock, disk, curdir, status>>

WriteData(t) ==
    LET file == call[t].path
        written == [tree[file] EXCEPT !.size = @ + 1, !.stamp = clock,
                                         !.version = 2 * calls + 1]
    IN  /\ call[t].op = "write"
        /\ TreeBecomes(With(file, written))
        /\ Returns(t, [op |-> "write", ok |-> TRUE], FALSE)
        /\ UNCHANGED <<clock, disk, curdir, status, calls>>

WtkDeleteFile(t, file) ==
    /\ IsFile(file) /\ ~Writing(file)
    /\ call[t] = Idle /\ calls < MaxCalls
    /\ calls' = calls + 1
    /\ TreeBecomes(Without(file))
    /\ Returns(t, [op |-> "erase", ok |-> TRUE], TRUE)
    /\ UNCHANGED <<clock, disk, curdir, status>>

(* The status the caller asks the system for, and the question whether the *)
(* file was modified since then: only the size and the stamp are compared  *)
StatusOf(file) == [path |-> file, size |-> tree[file].size, stamp |-> tree[file].stamp,
                   version |-> tree[file].version]
Differs(new, old) == new.size # old.size \/ new.stamp # old.stamp

DosQueryPathInfo(t, file) ==
    /\ call[t] = Idle /\ calls < MaxCalls
    /\ IsFile(file)
    /\ calls' = calls + 1
    /\ status' = [status EXCEPT ![t] = StatusOf(file)]
    /\ answer' = [answer EXCEPT ![t] = NoAnswer]
    /\ UNCHANGED <<tree, clock, disk, curdir, call, search>>

WtkFileModified(t) ==
    LET file == status[t].path
        modified == IsFile(file) => Differs(StatusOf(file), status[t])
    IN  /\ call[t] = Idle /\ calls < MaxCalls
        /\ file # <<>>
        /\ calls' = calls + 1
        /\ status' = [status EXCEPT ![t] =
               IF modified /\ IsFile(file) THEN StatusOf(file) ELSE @]
        /\ answer' = [answer EXCEPT ![t] =
               [op |-> "modified", ok |-> modified, old |-> status[t],
                new |-> IF IsFile(file) THEN StatusOf(file) ELSE NoStatus]]
        /\ UNCHANGED <<tree, clock, disk, curdir, call, search>>

-----------------------------------------------------------------------------
(* The default drive is set first and stays set if the directory cannot be *)
(* set on it.                                                              *)
WtkSetCurrentDir(t, path) ==
    /\ Begins(t, [op |-> "setdir", path |-> path])
    /\ disk' = SubSeq(path, 1, 1)
    /\ UNCHANGED <<tree, clock, curdir, search, status>>

SetDirOnDrive(t) ==
    LET path == call[t].path
        drive == SubSeq(path, 1, 1)
    IN  /\ call[t].op = "setdir"
        /\ curdir' = IF IsDir(path) THEN [curdir EXCEPT ![drive] = path] ELSE curdir
        /\ Returns(t, [op |-> "setdir", ok |-> IsDir(path)], FALSE)
        /\ UNCHANGED <<tree, clock, disk, search, status, calls>>

(* The drive is the one asked for, or the default drive; the directory is  *)
(* that of the default drive in any case.                                  *)
WtkQueryCurrentDir(t, asked) ==
    /\ Begins(t, [op |-> "querydir", drive |-> IF asked = <<>> THEN disk ELSE asked])
    /\ UNCHANGED <<tree, clock, disk, curdir, search, status>>

QueryDir(t) ==
    /\ call[t].op = "querydir"
    /\ Returns(t, [op |-> "querydir", path |-> call[t].drive \o Tail(curdir[disk])], FALSE)
    /\ UNCHANGED <<tree, clock, disk, curdir, search, status, calls>>

-----------------------------------------------------------------------------
Tick ==
    /\ clock < MaxClock
    /\ clock' = clock + 1
    /\ UNCHANGED <<tree, disk, curdir, call, search, status, answer, calls>>

Steps(t) ==
    \/ CreateComponent(t)
    \/ DeleteComponent(t)
    \/ FindDot(t) \/ FindName(t) \/ FindNoMore(t)
    \/ TryTmpFile(t)
    \/ WriteData(t)
    \/ SetDirOnDrive(t)
    \/ QueryDir(t)

Next ==
    \/ Tick
    \/ \E t \in Threads :
        \/ \E path \in Paths : \/ WtkCreatePath(t, path)
                               \/ WtkDeletePath(t, path)
                               \/ WtkSetCurrentDir(t, path)
        \/ \E path \in Paths, kind \in {"dir", "file"}, fits \in BOOLEAN :
               GetNext(t, path, kind, fits)
        \/ WtkCreateTmpFile(t)
        \/ \E file \in Files, fAppend \in BOOLEAN : WtkWriteFile(t, file, fAppend)
        \/ \E file \in Files : WtkDeleteFile(t, file) \/ DosQueryPathInfo(t, file)
        \/ WtkFileModified(t)
        \/ \E asked \in Drives \cup {<<>>} : WtkQueryCurrentDir(t, asked)
        \/ Steps(t)

Spec == Init /\ [][Next]_vars /\ \A t \in Threads : WF_vars(Steps(t))

-----------------------------------------------------------------------------
(* Paths and their parts form a tree, and no directory disappears from     *)
(* under a file, a directory or the current directory.                     *)
TypeOK ==
    /\ \A p \in DOMAIN tree : Len(p) > 1 => IsDir(Parent(p))
    /\ \A d \in Drives : IsDir(curdir[d]) /\ Head(curdir[d]) = Head(d)
    /\ disk \in Drives

(* When WtkCreatePath returns, whatever it returns, the path is there      *)
(* unless a file is in the way or another thread has taken a part of this  *)
(* very path meanwhile: threads that create the same path help each other. *)
Ended(t, op) == call[t] # Idle /\ call[t].op = op /\ call'[t] = Idle

CreatedPathIsThere(t) ==
    Ended(t, "create") =>
        LET path == call[t].path
        IN  \/ ~answer'[t].sure
            \/ \E p \in PartsOf(path) : IsFile(p)
            \/ path \in DOMAIN tree' /\ tree'[path].kind = "dir"

(* When WtkDeletePath has succeeded, the directory is gone and so is each  *)
(* one above it that was left empty, unless another thread has taken a     *)
(* part of this very path or put one back meanwhile.                       *)
DeletedPathIsGone(t) ==
    Ended(t, "delete") =>
        LET path == call[t].path
        IN  (answer'[t].ok /\ answer'[t].sure) =>
                \A p \in PartsOf(path) : ~CanDelete(p)' /\ (p = path => ~IsDir(p)')

(* Two threads never have the same temporary file, though they try the     *)
(* same names at the same time, but for a name the application erases.     *)
TmpFilesDiffer ==
    \A t, u \in Threads :
        t # u /\ answer[t].op = "tmp" /\ answer[u].op = "tmp" =>
            answer[t].path # answer[u].path \/ answer[t].path \in Files

(* What a call that says it has succeeded leaves behind is what it was     *)
(* asked for, whatever other threads do to other paths meanwhile, and      *)
(* though they create the same path or try the same names.                 *)
FilesAsAsked ==
    [][/\ \A t \in Threads : CreatedPathIsThere(t) /\ DeletedPathIsGone(t)
       /\ TmpFilesDiffer']_vars

(* A search tells only names that were in the directory, and has told      *)
(* every one that was there all the time when it says that there are no    *)
(* more, unless it said that one did not fit.                              *)
SearchIsRight ==
    \A t \in Threads :
        /\ search[t].told \subseteq search[t].given
        /\ answer[t].op = "last" /\ ~search[t].lost => search[t].since \subseteq search[t].told

(* If WtkFileModified says that the file is as it was, then the file has   *)
(* the contents that were seen the last time, or was written to within the *)
(* same two seconds; if it says that it was modified, it was.  Of a file   *)
(* that is not there any more nothing is said.                             *)
ModifiedIsSeen ==
    \A t \in Threads : answer[t].op = "modified" =>
        LET old == answer[t].old
            new == answer[t].new
        IN  new # NoStatus =>
                IF answer[t].ok THEN new.version # old.version
                ELSE new.version = old.version \/ new.stamp = old.stamp

(* What is in the directories is what the calls see of it.                 *)
FilesAreSeen ==
    /\ TypeOK
    /\ SearchIsRight
    /\ ModifiedIsSeen

(* Every call returns, but for a temporary file whose names are all taken. *)
NoNameLeft(t) ==
    call[t] # Idle /\ call[t].op = "tmp"
    /\ \A at \in 0..(Len(call[t].counter) - 1) : ~CanCreate(TmpFile(call[t].counter, at))
CallsReturn == \A t \in Threads : call[t] # Idle ~> (call[t] = Idle \/ NoNameLeft(t))
-----------------------------------------------------------------------------
(* The inductive invariant behind these properties.                        *)

(* Parents are there, as far as the drives, which nobody deletes.          *)
TreeStands ==
    /\ tree = [p \in DOMAIN tree |-> tree[p]]
    /\ DOMAIN tree \subseteq Path
    /\ \A p \in DOMAIN tree : tree[p] \in Entry /\ (Len(p) > 1 => IsDir(Parent(p)))
    /\ \A d \in Drives : IsDir(d)
DirsStand ==
    /\ disk \in Drives /\ curdir \in [Drives -> Path]
    /\ \A d \in Drives : IsDir(curdir[d]) /\ Head(curdir[d]) = Head(d)

(* A call: where it is in its path, and a file it writes stays a file.     *)
Call ==
    {Idle}
    \cup [op : {"create", "delete"}, path : Paths, upto : Nat, disturbed : BOOLEAN]
    \cup [op : {"find"}, fits : BOOLEAN]
    \cup [op : {"tmp"}, counter : Seq(Char) \ {<<>>}, at : Nat]
    \cup [op : {"write"}, path : Files]
    \cup [op : {"setdir"}, path : Paths]
    \cup [op : {"querydir"}, drive : Drives]
CallFits(c) ==
    /\ c \in Call
    /\ c.op \in {"create", "delete"} => c.upto \in 1..Len(c.path)
    /\ c.op = "write" => IsFile(c.path)

(* Undisturbed, the directories are there that WtkCreatePath has passed,   *)
(* unless a file is in its way, and those are gone that WtkDeletePath has  *)
(* passed.                                                                 *)
Passed(c) ==
    /\ c.op = "create" /\ ~c.disturbed =>
           \/ \A i \in 1..(c.upto - 1) : IsDir(SubSeq(c.path, 1, i))
           \/ \E i \in 1..Len(c.path) : IsFile(SubSeq(c.path, 1, i))
    /\ c.op = "delete" /\ ~c.disturbed /\ c.upto < Len(c.path) =>
           /\ IsDir(SubSeq(c.path, 1, c.upto))
           /\ \A i \in (c.upto + 1)..Len(c.path) : ~IsDir(SubSeq(c.path, 1, i))
CallsStand ==
    /\ clock \in Nat /\ calls \in Nat /\ call \in [Threads -> Call]
    /\ \A t \in Threads : CallFits(call[t]) /\ Passed(call[t])

Search == [open : BOOLEAN, dir : Path \cup {<<>>}, kind : {"", "dir", "file"}, dots : SUBSET Dots, given : SUBSET Path,
           told : SUBSET Path, since : SUBSET Path, lost : BOOLEAN]
SearchFits(s) == s \in Search /\ s.told \subseteq s.given /\ (~s.lost => s.given \subseteq s.told)
SearchesStand ==
    /\ search \in [Threads -> Search] /\ answer = [t \in Threads |-> answer[t]]
    /\ \A t \in Threads : /\ SearchFits(search[t])
                          /\ answer[t].op = "last" => search[t].since \subseteq search[t].given

(* A status has the version of a call that is over, and as long as that is *)
(* the version of the file, its size and stamp.                            *)
Status == {NoStatus} \cup [path : Path, size : Nat, stamp : Nat, version : Nat]
StatusFits(s) ==
    s.path # <<>> =>
        /\ s.version < 2 * calls
        /\ IsFile(s.path) /\ tree[s.path].version = s.version => ~Differs(StatusOf(s.path), s)
StatusesStand ==
    /\ \A p \in DOMAIN tree : tree[p].version <= 2 * calls + 1
    /\ status \in [Threads -> Status]
    /\ \A t \in Threads : StatusFits(status[t])
    /\ ModifiedIsSeen

(* A temporary file is there, and belongs to one thread, until the         *)
(* application erases it.                                                  *)
TmpFilesStand ==
    /\ \A t \in Threads : answer[t].op = "tmp" => IsFile(answer[t].path) \/ answer[t].path \in Files
    /\ TmpFilesDiffer

FilesInv == TreeStands /\ DirsStand /\ CallsStand /\ SearchesStand /\ StatusesStand /\ TmpFilesStand

==============================================================================
