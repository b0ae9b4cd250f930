# Verification of the WPS Toolkit

TLA+ models, TLC runs and TLAPS proofs about the WPS Toolkit, a C library for
OS/2 (`src/source/lib`, headers in `src/include`). Most managers of the library
have a model; sections 1 and 7 say what has none, section 5 what the models brought
to light, section 6 what is proved for every instance.

## 1. Inventory

The library is a collection of managers. An application gets a handle from a
manager, passes it to the calls of that manager, and closes it. There is no main
loop; what runs besides the calling thread are page fault handlers (MMF), window
procedures with timers (bubble help, settings notebook, dialogs) and other threads
and processes. Documentation is in comments of the form `@@Wtk...@SYNTAX` above each
function; section 5 quotes them.

| part | state | operations | hard behaviour | what makes it correct |
|---|---|---|---|---|
| **MMF manager, buffers** `wtkmmf.c` | per buffer: size, PAG_COMMIT and PAG_WRITE of each page, contents, file handle, offset, modified flag | alloc (by name, in memory, by handle), free, update, revert, set size, commit; access of the application, served by the page fault handler | pages loaded on demand in any order, I/O that fails half way, end of the process within an update, partial pages, ULONG arithmetic | no modified page is forgotten; what an update reports as stored is in the file; the file outside the mapped area is untouched |
| **MMF manager, table and entries** `wtkmmf.c` | global table of managers, mutex, init flag; per manager its thread, its exception registration, its entries with name, handle and time of each file | initialize, terminate, search at the start of every call and fault; allocate, update, free | threads that race, failing allocation, threads that end early, ids used again, a manager terminated by another thread | a handle stays valid, no use after free, one manager per thread, no handle or memory is lost, a file bears the time of its update |
| **INI profiles** `wtkfinit.c` | tree of sections, keys and comments, modified flag, open file | open (parse), query, write, delete, close, close with backup | rewrite in place, errors of writing, soft delete into comments | nothing the application did not change is lost; save then open gives the same profile |
| **Extended attributes** `wtkeas.c` | handle with the list in memory, index of the search | read, create, find first and next, append, save, close, and calls that do all of it | three layouts, lengths, handles closed implicitly | a search returns each matching value once; an appended value disturbs no other; a handle stays that of its thread |
| **Text messages** `wtktmf.c` | table compiled from the message file, cached in extended attributes with a time stamp | get message | two attributes written one after the other, a file edited meanwhile, placeholders replaced in a loop | the message is that of the id in the current file |
| **Bubble help** `wtkbbh.c` | two timers, a flag, last pointer position, windows, text | initialize, activate, deactivate, update, terminate; timer, posted and paint messages | posted messages and timers that race with deactivate and destroy | help is off after deactivate, shows the last text, goes with the pointer, comes up at rest |
| **Process status** `wtkproc.c` | snapshot of the process list, check sum, levels, caller's memory | refresh, enumerate, details, kill (tree), wait | the snapshot is stale when used, ids are used again, polling | kills just the tree; the caller's memory follows its process; wait ends and tells the truth |
| **Settings manager** `wtkset.c`, `wtkset1.c` | table of the class, values of objects, notebook pages and controls, saved values, setup strings | add settings, evaluate setup strings, read, validate and write controls, undo, default, save and restore | long protocols, callbacks, tables shared by all objects of a class | an object's values are those last set and valid; what is saved comes back |
| **CONFIG.SYS** `wtkfcfgs.c` | the file, its backup and a temporary file | add or delete statements and entries of lists | a system file is replaced; statements are counted off while lines pass by | no line is lost; what is asked for is stored, once |
| **build level, syslevel** `wtkfbldl.c`, `wtkfslvl.c` | non-resident name table; table of a SYSLEVEL file behind a handle | query, set, compare, check; open, query, set, close | the table is moved within the executable, fields that are set selectively | what is set comes back and nothing else changes |
| **bitmap files** `wtkfbmp.c` | none | load one of the bitmaps of a file | headers that are linked by offsets | the best bitmap for the device is loaded |
| **regular expressions** `wtkurgx.c` | compiled program | compile, execute, substitute | backtracking over nested repeats | agrees with what an expression means |
| **language modules, locale** `wtkulmd.c`, `wtkuloc.c` | tables of codes | find files and modules of a language | order of fallbacks | the best file that is there is found |
| **modules** `wtkumod.c` | none | load, free, names beside a module | counts and errors half way | what is loaded can be freed; names are complete |
| **file utilities** `wtkufil*.c` | none of their own: directories, current drive, searches | paths, temporary files, searches, dates | several calls of the system per utility, other threads in between | what was asked for is there when the call returns |
| **date and time** `wtkutim*.c` | none | conversions | boundaries, daylight saving time | conversions are inverse to each other; stamps sort |
| **CRC, MD5** `wtkucrc.c`, `wtkumd5.c` | running sum | update, final, of memory and files | cuts at any place, padding, counters of bits | the sum does not depend on the cuts |
| **PM helpers** `wtkuctl.c`, `wtkupm*.c` | a directory dialog; otherwise none | dialog messages; window calls | directories and disks that change under the dialog | it lists, opens and returns what it shows |
| **system, devices, errors** `wtkusys.c`, `wtkuioc.c`, `wtkuerr.c` | none | queries | - | - |
| **base** `wpstk.c`, `wpstkdll.c`, `printf.c` | debug output | initialize | - | - |
| **samples, scripts, docs** | - | - | - | not part of the library |

How they interact: text messages call the attribute manager twice per compilation;
bubble help, settings and the dialog use the PM helpers, settings the setup strings
and INI files; the dialog and CONFIG.SYS use the file utilities; language files use the
names beside a module; the MMF manager calls the file and time utilities when an
entry is freed. The MMF manager interacts with the application not only by calls: an
access to a buffer may raise an exception that the system delivers to the handler
of the thread, which finds its manager through the table.

The hazards of the code, each at its line, are in `PROJECT.json`, with the properties
that watch over them.

## 2. Plan

Done: the MMF manager (buffers, table, entries) and INI profiles with abstract
specifications; the managers with several actors (attributes, messages, bubble help,
process status, settings, CONFIG.SYS, file utilities with the directory dialog); the
utilities that compute. Proved: all safety properties and both refinements of the MMF
manager and of INI profiles, all of the attribute manager, of the file utilities with the
directory dialog, of bubble help and of the settings.

Left, in order: proofs of `NoLineIsLost` for CONFIG.SYS, of `ListIsRight` for the process
list and of `MessageIsRight` for text messages, for which the definitions that filter a list
(`SelectSeq`) or select from one have first to be stated as functions or folds. Models of
the notebook dialog of `wtkupm1.c` and of the lists of threads and modules in `wtkproc.c`.

## 3. The modules

A step of a model is what another actor can see in between: a call of the library
is one step where nothing runs beside it, one step for each call of the system where
other threads, a crash or an error may come in. Calls of the system are external and
modelled by their effect. Values that no code computes with are taken from small
sets. `mode`, where there is one, fixes the circumstances of a behaviour (what may
fail, which calls are made) and is any in an initial state. Variables marked as
history are not in the code.

### MmfBuffer, MmfPromise

One buffer of one thread, from allocation to WtkFreeMmf, and again. A byte is a
*cell* and a page is `PageSize` cells, so that partial pages, files that end within a
page and offsets exist with a handful of cells. Variables: the entry (`used`,
`ulCurrentSize`, `fModified`), the pages (`committed`, `writable`, `mem`), the file, and
the locals of WtkUpdateMmf (`pos`, `loopRc`, `fFileWritten`). `modified` and `known` are
history: pages written and not stored, cells whose contents may be relied on.

| action | code |
|---|---|
| `AllocByName`, `AllocInMemory`, `AllocByHandle`, `AllocByNoHandle` | WtkAllocMmf, WtkAllocMmfFileEx |
| `AppRead`, `AppWrite` | an access: memory that is accessible, or `__pageFaultHandler` (`Handled`, `Unhandled`) |
| `UpdateBegin` ... `UpdateFinish` | WtkUpdateMmf, one step per page |
| `WtkRevertMmf`, `WtkSetMmfSize`, `WtkCommitMmf`, `WtkFreeMmf` | those calls |
| `Crash` | the process ends, in an update as well |

`MmfPromise` is what the application may expect: a size, the contents of the cells
it knows, a file, and an operation that makes the file agree; it has neither pages
nor flags. `KeepsPromise` states that every step of the buffer, with `Contents` as the
function from `known` to what a read would return, is one of its steps.

### MmfTable, MmfEntries

`MmfTable` is the table `apmmf` for any number of threads. Under the mutex
`__createNewMMFHandler` is two steps after the scan, and `__destroyMMFHandler` two,
since `__initialize` clears the table without the mutex; `__initialize` is three
(test, clear, mark). Objects are addresses that malloc may return again; the member
`tid` of a freed object may have any value. `chain` are the exception handlers of each
thread.

`MmfEntries` EXTENDS it: each manager has a table of entries, an entry the memory of a
buffer, the handle and name of its file, and the time of its last update. Each of its
steps is a step of `MmfTable`, which takes the entries along (`CreateEntries`,
`DestroyEntries`), or a call on a buffer (`AllocNamed`, `WtkAllocMmfFileEx`, `WtkUpdateMmf`,
`WtkFreeMmf` and the ways in which they fail), which for the table is a use of the
handle; or one thread calls WtkTerminateMmf with the handle of another
(`TerminateForeign`). The system gives the lowest free handle; the time of a file changes
when it is closed after writing, and `DestroyEntry` closes and stamps in one step.
Buffers are read and write.

### InitText, InitProfile, ProfilePromise

`InitText` has the functions of `wtkfinit.c` without state: `Parse` is the loop of
WtkOpenInitProfile over the lines, `Written` is `_writeSECTION` and `_writeKEY`, and
`Find`, `AddKey`, `AddSection`, `RemoveKey`, `RemoveSection` are what their namesakes do to
the tree. A key carries the comments in front of it, the comment cut off its value, and
the tail into which a soft deletion puts the next key. `InitProfile` is one profile and
its application; the disk is `file` and `backup`, and writing is the buffer of a stream
from which lines reach the disk one at a time (`Flush`), so that the process may end, or
the disk be full, between any two. `leaked` holds the lines of the stream that
WtkCloseInitProfileBackup leaves open.

| action | code |
|---|---|
| `OpenInMemory`, `OpenFile`, `OpenFails` | WtkOpenInitProfile |
| `WriteValue`, `CreateKey`, `DeleteKey`, `DeleteSection`, `LoseEntry` | WtkWriteInitProfileString |
| `QueryString`, `QueryNames`, `QuerySize` | WtkQueryInitProfileString, WtkQueryInitProfileSize |
| `CloseOnly`, `UpdateBegin`, `Flush`, `UpdateEnd` | WtkCloseInitProfile |
| `BackupRefused` ... `BackupEnd` | WtkCloseInitProfileBackup |
| `Exit`, `Crash` | the process ends, with and without writing its streams |

`ProfilePromise` is a table of values by section and key without lines, comments or
trees; `KeepsPromise` states that every step of `InitProfile`, with `Values` as the table,
is one of its steps.

### EaManager

Threads with handles of their own that share a file and the heap: `eaindex` are the
blocks of memory, `hea` the handle a thread holds, and the memory of a closed handle is
used again. An attribute is a single value (SVST), a list with types (MVMT) or of one
type (MVST). Appending keeps the account of lengths as the code does (`slack` is what
cbValue has beyond the data). The calls that do all at once (WtkPutEaValue,
WtkGetNextEaValue, WtkReadStringEa, WtkWriteStringEa) are sequences of steps (`PutAppends`,
`PutSaves`, `FindsFirst`, `ImplicitClose`) between which the other thread runs.

### TextMessage

WtkGetTextMessage: the stamp is compared (`stamp`), the file read, scanned for ids
(`scan`, one entry a step), the stamp and then the table written, an entry looked up, a
part of the file read, and placeholders expanded one at a time. `Edit` saves the file at
any time, `Crash` ends the process. A text is a sequence of tokens; positions count
tokens, the table counts bytes as the code does.

### BubbleHelp

The window procedures of the help and its shadow. Posted messages are dispatched before
timers; `PostedMessage`, `TimerStart`, `TimerStop`, `Paint`, `PaintShadow` are the
messages, the rest are calls of the application, the mouse (`MovePointer`) and the end
of the owner's window (`DestroyOwner`). `shown` and `extent` are what is on the screen,
`wanted` and `accepted` history of the calls.

### ProcStatus

Processes start and end (`Spawn`, `Exit`) between any two calls of the system. `list` is
the snapshot with levels, `ulCrc` the sum of ids, `pvPrivateMem` the caller's memory.
WtkKillProcess is a recursion over the list: `stack` holds what is to be killed, and
`Kill` is one call of DosKillProcess. WtkWaitProcess is `Look` and `WakeUp` in turns.

### Settings, SetupString

`Settings` is a class with its table (`psdr`), objects with values, and notebooks:
`hwnd` tells whose control the table of the class holds, `screen` what the controls show.
Values are sequences of the parts between commas, since that is what a setup string
loses; what depends on a type is `Written` and `Valid`. The class answers as its mode says: it
rejects texts, or accepts them (then the length of a string is not looked at), and it
lets a notebook close with a text it rejects, because the control is disabled (4523) or
because it says so when the error is reported to it (4567-4573). `overrun` tells that a call
has written behind a buffer; nothing happens after it. Controls are created, filled,
edited, undone, set to defaults and destroyed page by page; state and setup strings are
saved and restored; details views are filled. `SetupString` has the scanner of
`wtkset1.c`: to find, extract and split settings, with escape characters removed in place
while offsets computed before are used after.

### ConfigSys

WtkUpdateConfigsys: `CountUp` and `DeleteBackup` choose the backup, `CreateTmpFile`,
`ReadConfigsys` and `WriteLines` make the new file (`NewLines` is what the loop over
lines and statements writes), `MoveToBackup`, `MoveTmp` and `SwapBack` exchange the files.
Each call of the system may fail; the program may end anywhere, and the next call then
begins with what files there are, CONFIG.SYS among them or not. What the call was asked
and what it returned stay in `call` and `rc`, so that the properties look at CONFIG.SYS after
the return and not at the temporary file.

### FileUtilities, DirDialog, FileNames

`FileUtilities` has threads that create and delete paths, search, make temporary files
and so on, one call of the system at a step. A search skips the dot entries of a directory
(`FindDot`) before it gives a name (`FindName`) or ends (`FindNoMore`). `disturbed` is history:
another thread has taken a part of the very path that is being created or deleted, or put
one back that is being deleted; what threads do to other paths, or to the same one with the
same aim, is no disturbance. `DirDialog` EXTENDS it by the dialog of
`wtkupm2.c`: a step is what the dialog does for one message (`EnterText`, `SelectItem`,
`OpenItem`, `OpenDrive`, `Ok`, `Cancel`), `ChangeDisk` is the user at the drive, and while a
dialog is open the other threads go on between messages. `FileNames` has the parts of
names and the test for an empty file.

### Utilities

Modules of functions, checked for each argument of small sets by `MCUtilities`, whose
variable `call` is the utility and its arguments:

| module | code | definition it is compared with |
|---|---|---|
| `RegularExpression` | compiler, matcher and substitution of `wtkurgx.c`, with what lies in memory behind the text | `RegularPromise`: the ends of matches, by recursion over the expression; what a substitution puts together |
| `SetupString` | `wtkset1.c` | the settings it was written from |
| `DateTime` | `wtkutim*.c`, with mktime and localtime as external functions | inverse conversions; order of stamps and times |
| `BuildLevel`, `SysLevel` | `wtkfbldl.c`, `wtkfslvl.c` | what was set; what was there |
| `LanguageModule`, `PackageModule`, `FileNames` | `wtkulmd.c`, `wtkuloc.c`, `wtkusys.c`, `wtkumod.c`, `wtkufil4.c`, `wtkufil5.c` | the order of preference; the set of modules; the parts a name was made from. A name of `PackageModule` is a sequence of words, among them the backslash and the dot, which the code strings together |
| `CheckSum` | `wtkucrc.c`, `wtkumd5.c` | the polynomial remainder; the padded message |
| `BitmapFile` | `wtkfbmp.c` | the best header |

`CheckSum` is scaled: `Chunk` = 4 bytes are read at once, an MD5 block has `Block` = 8
bytes of which the length takes two, and the words that count bits have `Width` = 6 bits,
so that chunks, blocks and the carry between the words all end in different places
within messages of at most `MaxBytes` = 40. The rounds of MD5 are an arbitrary
function.

## 4. The runs

| run | instance | properties |
|---|---|---|
| `buffer_pages` | two pages of two cells of which three may be used; six modes that cover each way to get a buffer, each kind of memory, both update modes, an offset, failing loads and writes | `CleanPagesAreStored`, `FrontUntouched`, the refinement `KeepsPromise` |
| `table` | three threads and objects for two slots, with failing malloc and unset, or threads that end early; pairs of threads with overlapping first calls or failing calloc; one thread with four calls on two entries and two files, while the clock ticks or calls fail; two threads, one of which terminates the other's manager | `NoUseAfterFree`, `HandleStaysValid`, `OneManagerPerThread`, `EntriesFit`, `StampIsThatOfUpdate` |
| `profile` | nine modes: a file with comments in every place, a quoted value over three lines one of which looks like a key, two sections, no file, files with errors; soft delete, discarded and value comments; each kind of call failing | `TreeIsKept`, `OriginalOrBackup`, the refinement `KeepsPromise` |
| `attributes` | two threads, two blocks, all layouts, values that fit and do not fit the buffer; overlapping and serial calls; failing malloc | `AttributesAreRight`, `NothingLost` |
| `text_messages` | seven files: comments, double and lower case ids, an id that does not end, too short and without ids; two calls with edits and a crash; failing realloc | `MessageIsRight`, `CallsReturn` |
| `bubble_help` | two places over the window and one beside it; four texts, one larger than the buffer; with and without shadow; calls between and before messages; each creation failing | `HelpIsRight`, `LeavesWithPointer`, `AppearsAtRest` |
| `process_status` | three ids whose sums differ or not, two that are given again, calls of the system that fail; three starts of processes; waits of several lengths | `ListIsRight`, `KillsTheTree`, `WaitTellsTheTruth`, `CallsReturn` |
| `settings` | classes of all triples of eight definitions (double names, shared ids, details, no values); two objects with notebooks of two pages, one at a time or both at once; setup strings that are valid in part, rejected texts, all types of values, a number that shares an id with a Boolean; a class that accepts what does not fit, or closes with what it rejects; saved and restored | `ValuesAreRight`, `SettingsComeBack`, `ChangesAreTaken` |
| `config_sys` | five lines with lists, doubles and variables named like drivers; fourteen updates of statements and of lists of SET and LIBPATH, two calls, two backups, near and far TMP; each call failing, a full disk, a crash, a retry | `NoLineIsLost`, `UpdateIsStored` |
| `config_sys_v_entries` | the same with one call | `EntriesStayWhole`, violated |
| `files` | two threads and three calls on a drive with a directory, a file and a second drive; or the dialog, with texts of every kind and a disk that is taken out, while one thread makes a call | `FilesAsAsked`, `FilesAreSeen`, `DialogIsRight`, `CallsReturn` |
| `utilities` | each argument of the sets in `MCUtilities`: among them empty texts with something behind them, substitutions into buffers of every length up to the result, names without separators, files with pictures that are no bitmaps | `MatchIsRight`, `SettingsAreRead`, `DatesAreRight`, `LevelsAreKept`, `PackagesAreFound`, `SumsAreRight`, `BitmapsAreChosen` |

Properties that are about one thing are stated together, each with a name of its own:

| property | its parts |
|---|---|
| `TreeIsKept` | `TypeOK`, `NamesUnique`, `ModifiedIsFlagged`, `RoundTrip` |
| `AttributesAreRight` | `TypeOK`, `HandleIsMine`, `ListsFit`, `SearchIsComplete` |
| `MessageIsRight` | `TypeOK`, `MessageIsThatOfTheId`, `TableFits` |
| `HelpIsRight` | `TypeOK`, `StaysDeactivated`, `HelpIsCurrent`, `SizeFitsText`, `ShadowFollows`, `MisusedOnlyAtTheEnds` |
| `ListIsRight` | `TypeOK`, `LevelIsDepth`, `SnapshotIsCurrent`, `DataBelongs` |
| `ValuesAreRight` | `TypeOK`, `StringsFit`, `OnlyAccepted`, `ControlsShowValues` |
| `SettingsComeBack` | `PlainSettingsComeBack`, `FirstValuesComeBack` |
| `ChangesAreTaken` | `ChangesAreTold`, `ClosingTakesInput` |
| `NoLineIsLost` | `OldLinesAreKept`, `OthersStay` |
| `UpdateIsStored` | `SinglesAreStored`, `SinglesAreDeleted`, `ListsAreRight` |
| `FilesAsAsked` | `CreatedPathIsThere`, `DeletedPathIsGone`, `TmpFilesDiffer` |
| `FilesAreSeen` | `TypeOK`, `SearchIsRight`, `ModifiedIsSeen` |
| `DialogIsRight` | `DialogTypeOK`, `ListBelongsToPath`, `TrapsWithoutDrive`, `ItemLeadsWhereShown`, `ReturnsDirectory` |

Every property of a passing run has a mutant in `PROJECT.json`, a plausible slip of the
code, that violates it. Exceptions that a property names (unless a value did not fit,
unless the list is the same) were each tried without: the run then fails, so they are
cases in which the code does otherwise, and section 5 describes them. Where the code and
its own descriptions disagree, the property either has the code's case as an exception or
leaves it open, and never demands it; these are the disagreements:

| property | what is left open | the descriptions |
|---|---|---|
| `KeepsPromise` (profiles) | whether names that differ in case only are one entry, as stricmp has it (`wtkfinit.c` 223, 240), or two | 1259, 1272, 1318-1321, 1437-1438, 1516-1522: names depend on case |
| `DataBelongs` | whether a refresh that sees no change keeps the caller's data (`wtkproc.c` 811-818) or clears them | 581-582, 741, 1224-1225: each call resets them |
| `SearchIsComplete` | a new search on a handle whose search has ended (`wtkeas.c` 857) | 825-826: starts at the first value |
| `FirstValuesComeBack` | all values but the first (`wtkset.c` 4868-4892) | 4777, 4797-4798, 4961: all of them |
| `UpdateIsStored` | updates of lists only, which are given up (`wtkfcfgs.c` 974-977) | 481-483, 565-567: stored |
| `ModifiedIsSeen` | a file that does not exist, which is reported as modified | `wtkufil6.c` 57-67: not modified |
| `LevelsAreKept` | fields whose flag is also that of a field that is set (`wtkfslvl.h` 88-89) | `wtkfslvl.c` 440-458: a flag for each field |
| `PackagesAreFound` | names for which the caller does not write backslash and dot himself (`wtkumod.c` 477-494) | 405-406: without them |

**Bounds.** Two pages are the least number for which an update can be cut short between
pages, and three used cells of four the least for which the last page is partial; the
file may be empty, end within a page, and be longer than the buffer. `Word` bounds the
ULONG arithmetic and is larger than any size, as 2^32 is; that is all `BytesToWrite`
depends on, which `WholePageStored` proves. Two slots and three threads let the table be
full while a thread waits, and let a slot and an object be used again. Threads, objects
and files are symmetric: no property or action compares them. A profile has three names,
of which two differ in case only, and up to three keys: enough for a soft deletion of the
first, a middle and the last key. `opens`, `changes`, `calls`, `spawns`, `edits`, `MaxCalls`,
`MaxOthers` and `MaxClock` bound how often the environment acts, at least twice wherever
one call may find what another has left; but for a dialog, during which one call of
another thread is enough to change what is listed. Three processes make a tree of depth
three or of breadth two.

**Deadlock** is checked in `buffer_pages`, `table`, `profile`, `bubble_help` and
`process_status`. In the others a behaviour ends when the application makes no more
calls (`attributes`, `text_messages`, `settings`, `files`), when the process ends or traps
within a call (`text_messages`, `config_sys`, `files`), or at once (`utilities`, where a state
is a call).

**Fairness** is weak, and only for what runs by itself. `BubbleHelp`: the message loop,
which dispatches posted messages and timers and paints; not the application nor the
mouse. `ProcStatus`, `TextMessage`, `FileUtilities`: a thread within a call goes on
(`Look`, `WakeUp`, `Kill`; `Steps`), since nothing in these calls waits for another thread;
in `DirDialog` as well. Nothing is assumed about when calls are made, about crashes or
failures. The other specifications have safety properties only and no fairness.

## 5. What the models found

**Checked: an entry that ends like another one loses its end.** `_newListValue`
searches the entry of an update in the old list and looks only at what follows
(`wtkfcfgs.c` 189), against its comment at 187. `config_sys_v_entries` has the
counterexample.

**Checked in earlier instances of the same models.** A write behind the current size
into a page that is writable already does not extend the size (`wtkmmf.c` 703);
WtkUpdateMmf overwrites the error of its loop with the result of DosSetFileSize (1798);
an in-memory buffer has the handle -1, which the fault handler takes for a file (1209), so
that an untouched page below the size traps: `KeepsPromise` asks of such an access only that
it loses nothing the application has written; first calls of two threads race in
`__initialize` (776); when calloc or DosSetExceptionHandler fails, WtkInitializeMmf returns
NO_ERROR and a handle to freed memory (444); WtkCloseInitProfileBackup never closes the
stream by which it updates the original file (`wtkfinit.c` 1195), so that it returns
NO_ERROR while the file is empty or cut; the size WtkQueryInitProfileSize reports for a
list of names is one byte less than is needed (315). The properties of the runs name
these cases as exceptions or leave them out of their modes.

**Seen while modelling**, kept as the code has it:

*MMF* (`wtkmmf.c`). A read fault makes a page writable (585), so that updates store pages
that were only read, against 1651; WtkRevertMmf does not refuse an in-memory buffer,
against 1852; WtkAllocMmfFileEx accepts a file longer than `ulMaxSize`, against 1342;
WtkCommitMmf leaves out the offset (2231); a failed read leaves a zero page that counts
as written (656); the operands at 1767 are exchanged, so that between the last write and
DosSetFileSize a crash leaves a file longer than the buffer. `szFile` stays in an entry
after WtkAllocMmf fails (1172-1187), so a buffer got later by a handle stamps that file
(317-330); the duplicate of DosDupHandle is never closed after a later failure
(1425-1492); with the handle -1 `ulFileMode` is used uninitialized (1443). WtkTerminateMmf
called from another thread frees all buffers and then fails (466-474).

*Profiles* (`wtkfinit.c`). Names are compared by stricmp (223, 240), against 1259, 1272, 1318-1321,
1437-1438 and 1516-1522;
`pszDefault` is never copied (1366); comments behind the last key are not kept, a softly
deleted key loses its own tail and the comment of its value (513), and
WTK_INIT_UPDATE_DISCARDCOMMENTS still writes the comments of values; when strdup fails for
a name, the freed entry is used and NO_ERROR returned (371, 413); a full disk is not noticed
(1072); once WtkCloseInitProfileBackup has failed, a second attempt is refused (1169).

*Extended attributes* (`wtkeas.c`). A value that does not fit a nonzero buffer is written
past it; with a buffer of zero bytes the next value is skipped (992-995). `pbData` is unset
when the type of a single value does not match (985). WtkReadStringEa closes a handle again
that its callee has closed (1955), which may be another thread's by then. WtkPutEaValue
never writes to a file without any attributes (301-305). A third value appended to a
single one overruns the memory (1252-1277); MVMT or MVST appended to a single value garbles
it (1223-1237); appending to MVST changes the type of all values (1306); concurrent puts
lose a value; a search cannot start again after its end (857, against 825-826).

*Text messages* (`wtktmf.c`). The stamp is written with 14 bytes and compared with 15, so
that a file may be compiled again each time (162); WtkQueryEaSize may leave no table (172);
files that are shorter than an entry overrun the table (274-279); the error of realloc is
overwritten (305); a comment ends the message though only a part is to be cut (674); ids
are found in upper case only; a value with its own placeholder loops forever (377-420).

*Bubble help* (`wtkbbh.c`). A BHM_ACTIVATEBHELP that is still queued brings the help back
after deactivation (664, 336, 564-567); the data is freed twice if creation fails late
(1003); the shadow that WtkTerminateBubbleHelp leaves uses freed data; texts leak.

*Process status* (`wtkproc.c`). The check sum is the sum of ids (811-818, against 716), and a refresh
that finds it the same keeps list and data (against 581-582, 741, 1224-1225);
`*pulMaxWait` must be at least `ulWait` (1649), the text says at most (1610); the caller's
memory is not freed (688); WtkKillProcess returns NO_ERROR without killing when malloc fails
(1394); the error of DosQueryModuleName is ignored (532); parents that are each other's
make the walk at 890 endless, which ids given again can bring about.

*Settings* (`wtkset.c`). Handles of controls are kept in the table of the class and shared
by all objects (3788, 4000, 4223, against 4132): with two notebooks open, values of one
object are read from and written to the controls of another, hence the mode `alone`. Save
and RestoreObjectState use the type and value of the first value for all (4868-4892,
5027-5052), against 4777, 4797-4798 and 4961; disabled controls are not validated (4523) and
a class may close a notebook with a text it rejects (4567-4573); a class that accepts a
string skips the check of its length (1556-1561) before strcpy (1451); an index shown
without room (5932) or without a text (5936-5940) overruns the memory of the details; ids
collide (137, 4866); the range of ids is tested wrongly (2184); a malformed string is
reported as success (2164); index items are not stored (1430) and any index text is valid
(1578); "0" is no Boolean (1607); a spin button is set only at or above its limit (1008);
the test for a larger buffer uses a length of zero (3294), which overruns beyond 1024; empty
strings are left out (3317); values with commas are split; an escaped semicolon loops
forever (510-515), an escaped comma is tested with the wrong character (533); an unknown
index in details is not terminated (939).

*Setup strings* (`wtkset1.c`). Extracting the last setting copies from a wild pointer
(168-169); removing escapes shifts offsets (166-170, 413-415); a setting is deleted though
ERROR_BUFFER_OVERFLOW is returned (166-180); a second equal sign restarts the value (90-97);
a lone escape at the end reads past it.

*CONFIG.SYS* (`wtkfcfgs.c`). Lists alone never set `fModified`, so that the new file of an
update of lists only is given up with ERROR_ALREADY_ASSIGNED (974-977), against 481-483 and
565-567, which promise that code only when nothing is to be done: `ListsAreRight` is stated
for NO_ERROR and leaves this case out. The given backup is deleted (820) before CONFIG.SYS
is looked for (831): after a crash between the two moves (1012, 1015) a retry with the same
extension deletes the only copy of the old lines, the exception `OverwritesOnlyCopy` in
`NoLineIsLost`. A list that is the same drops the first single statement (897-903); a list
that is not in CONFIG.SYS is never added; SET X and DEVICE=X are taken for each other (890);
entries that begin like others make repeated updates grow the list; of doubles only the
first is cleared; a short write is reported as success (322-324) and so is a failed write of
an added line (1000), the file is exchanged, and nothing is said of such calls; a given
backup extension fails unless that backup exists (820); the temporary file stays behind
after errors; from another drive the way back fails as CONFIG.SYS exists; a last line
without a line end is read past (985).

*Files* (`wtkufil*.c`). WtkFileIsEmpty returns TRUE above 1 KB (`wtkufil4.c` 494);
WtkFilespec may take the extension of a directory; WtkQueryCurrentDir asks for the current
drive whichever was given (`wtkufil.c` 313), and drive and directory are two calls;
WtkSetCurrentDir leaves the new drive when the directory fails; WtkFileModified returns TRUE
for a missing file, against `wtkufil6.c` 57-67; WtkCreateTmpFile loops forever on any error or
when its names are taken (`wtkufil5.c` 278-305); WtkFileMaskExists leaks a handle; a name
that does not fit is passed over; WtkGetNextFile closes the handle at the end without
clearing it (`wtkufil3.c` 238), and WtkLoadModules closes it again (`wtkumod.c` 692).

*Directory dialog* (`wtkupm2.c`). A text whose drive was refused stays in `szFullDir`
(1138-1148): an item of the list then leads to a wrong path, or OK with an item selected
returns the text unchecked with DID_OK; if it has no colon, or the path is empty, the
process traps at 592. A path that does not exist is kept as the path of its drive, against
679-680, so that the drive cannot be listed by the box any more. An empty entry field and OK
return the path unchecked. The texts of drive items leak.

*Regular expressions* (`wtkurgx.c`). The search in an empty text goes on behind its end, and may find
a match there (862): `MatchIsRight` excepts it. A part of a substitution is copied before the
room for it is checked (1321-1326): the caller is told, which is checked, but bytes behind the
buffer are written.
*Dates* (`wtkutim*.c`). The day of the week comes from localtime only; twelve o'clock is
"am" and zero hours print 0 (`wtkutim4.c` 158); tm_isdst is 0 for mktime, an hour late in
summer; odd seconds are lost.
*SYSLEVEL* (`wtkfslvl.c`). WtkSetSyslevelInfo reads the file into the caller's structure
before it applies it (515-519); DATE and CSDPREFIX, and APPTYPE and CSDLANGUAGE, have the same
flags (`wtkfslvl.h` 88-89, against `wtkfslvl.c` 440-458), so that setting one field sets the
other; handles leak (134); WtkCloseSyslevel keeps the file on errors.
*Build level* (`wtkfbldl.c`). WtkGetBlSignature goes on by 2 bytes where an entry has an
ordinal of 2 and a length (323-330), so that the signature is found as the first entry only;
lengths above 255 are cut; the header is written before the table.
*Languages* (`wtkulmd.c`, `wtkuloc.c`, `wtkusys.c`). The placeholder %c always gives
ERROR_BAD_FORMAT (432-456), breaks at 462-484 leave only the inner loop; two-letter masks
try the first code only (576); the own variant is not preferred (229, 236); NULL as default
becomes English; "jp" is no code of the other table; the wrapper of UniCreateUconvObject
passes `*uobj` (`wtkuloc.c` 109); the default is "en_GB" for every type (433).
*Modules* (`wtkumod.c`). WtkAssemblePackageFilename puts neither a backslash behind the
subdirectory nor a dot before the extension (477-494, against 405-406), and for a module
without an extension cuts at a dot of its directory. With a count of 0 the table is overrun
(649-665); a missing last file is an error though modules are loaded.
*Sums* (`wtkucrc.c`, `wtkumd5.c`). An intermediate CRC of 0xFFFFFFFF is taken for a first
call (153-154, against 85); an empty file gives 0xFFFFFFFF, empty memory 0; digests are
written without leading zeros, so that different ones look the same; a sum is handed
over though reading failed.
*Bitmaps* (`wtkfbmp.c`). The height of the device is compared with cxDisplay (390); a file
of which the chosen picture is no bitmap gives NO_ERROR and none (439-440); file data leaks;
headers that form a ring loop forever.

## 6. What is proved

All theorems hold for every value of the constants that the named assumptions allow:
`SizeAssumption`, `ValueAssumption`, `ModeAssumption` (buffer), `TableAssumption`,
`EntriesAssumption`, `BubbleAssumption`, `ClassAssumption`, `PartAssumption`,
`ObjectAssumption`, `AnswersAssumption` (settings), `EaAssumption`, `PathAssumption`,
`OthersAssumption`, `TextAssumption` (dialog), `NameAssumption`, `ProfileAssumption`. They
say what the code relies on: what is on a disk at the start is a finite tree with its
drives, the content of an attribute at the start is one of the three layouts, a profile at
the start cannot be read or has no name twice (as stricmp sees it) and no quoted value left
open, each value of a setting has a default and room for the end of its text, a class does
not reject the values its objects start with nor the number it makes of a text it accepts,
the constants that stand for "none" are none of the others.

Each of the safety properties needs an inductive invariant, which stands at the end of the
module whose states it describes (those of profiles and settings, which need more notions,
in front of their proofs) and was checked by TLC, as an invariant of the run, before it was
proved. The proof has one lemma for each call or step.

| theorems | inductive invariant | property |
|---|---|---|
| `BufferCorrect`, `CleanStored`, `FrontKept`, `PromiseKept` | `BufferInv`, `NoFileBehind` | `CleanPagesAreStored`, `FrontUntouched`, the refinement of `MmfPromise` |
| `TableCorrect`, `NeverUsedAfterFree`, `HandleValid`, `OneManager` | `TableInv` | `NoUseAfterFree`, `HandleStaysValid`, `OneManagerPerThread` |
| `EntriesCorrect`, `EntriesAlwaysFit`, `StampAlwaysThatOfUpdate` | `EntriesInv` | `EntriesFit`, `StampIsThatOfUpdate` |
| `TreeAlwaysKept`, `PromiseAlwaysKept` | `ProfileInv` | `TreeIsKept`, the refinement of `ProfilePromise` |
| `OldContentsKept` | `BackupInv` | `OriginalOrBackup` |
| `EaCorrect`, `AttributesAlwaysRight`, `NothingIsLost` | `EaInv` | `AttributesAreRight`, `NothingLost` |
| `FilesCorrect`, `FilesAlwaysSeen`, `FilesAlwaysAsAsked` | `FilesInv` | `FilesAreSeen`, `FilesAsAsked` |
| `FilesSeenInDialog`, `FilesAsAskedInDialog`, `DialogAlwaysRight` | `FilesInv`, `DialogInv` | the same two in the composition, and `DialogIsRight` |
| `HelpCorrect` | `HelpInv` | `HelpIsRight` |
| `ValuesStayRight`, `ChangesReachTheClass`, `SavedComesBack` | `SettingsInv` | `ValuesAreRight`, `ChangesAreTaken`, `SettingsComeBack` |

**MmfBuffer.** `TypeCorrect` proves `TypeOK` together with `SizeFits`, because the
length of the file stays in its bound only if the size does. None of the safety
properties is inductive alone, and `BufferInv` adds what the code relies on:
`StoredIsInFile` speaks of the end of an update, so the loop needs `StoredSoFar`, and
keeping that through a later page needs that a store hits its own page only
(`StoreEffect`) and is never short (`WholePageStored`). A skipped page is stored already
by `CleanPagesAreStored`; an uncommitted one by `KnownInFile`. DosSetFileSize at the end
cuts nothing that is known by `KnownInSize`. `UpdateAllowed` carries the guards of the
call into its loop, and `UnusedEmpty` starts each new buffer clean. `BufferCorrect` proves
the invariant with one lemma per call; `ModifiedFlagged`, `CleanStored`, `SizeInside` and
`UpdateStores` follow. `FrontKept` proves the action property that the file in front of
the offset never changes. `PromiseKept` is the refinement: each step of the buffer, seen
through `Did`, is a step of the file with the same name in `MmfPromise` or leaves it alone.
The one fact this takes beyond `BufferInv` is `NoFileBehind`: a buffer that is not backed by
a file finds nothing in it. `ModeAssumption` has a source in memory begin with no file,
since there is none.

**MmfTable** (in `MmfEntries_proofs`). `TableInv` states that a registered manager is known in
any circumstances and, in orderly ones, that the mutex belongs to the thread within a
section, entries are allocated and distinct, each thread has at most one, the slot
found free is still free when it is filled, and handle, table and handler chain
agree. `Exclusion` derives that no two threads are in a section; `LargestSlot` that the
search, which returns the last match, is well defined. *Orderly* means that the first
call is over before others begin and that memory is short at malloc, if at all; neither
condition can be dropped (section 5).

**MmfEntries.** The theorems of the table are carried over to the composition:
`TableSteps` shows that each step of a thread on its own manager is a step of `MmfTable` or
leaves it alone, `ForeignKeepsTable` that WtkTerminateMmf for another thread, which is no
step of the table, keeps its invariant, since the system refuses to unset the handler of
another thread. `NeverUsedAfterFreeWithEntries` and `HandleValidWithEntries` follow.
`EntriesInv` counts memory and open files by the entries that hold them (`BuffersFit`), in
every table at once and not only in those a thread still has a handle of, because a manager is freed
entry by entry; `StampsFit` says of each file that it has its stamp or that exactly one buffer
will still set it. Freeing all entries of a manager is a fold over them, about which
`FoldLemmas` has what is needed: that its recursion is defined, and the index it takes next.

**EaManager.** `EaInv` says of a block in use that its length accounts for the values in it and
that `seen` is what the list has of the type up to `index` (`Fits`); of each thread where it
is in its call and whether its handle is still its own (`AtWork`, `Mine`); and that each block
in use has a handle (`Holds`). `ListsFit` follows from the account of lengths, by the sum over a list
and what one more value adds to it (`SumOfMore`), `SearchIsComplete` from what was seen.
`NothingIsLost` needs `Puts`: if calls do not overlap, the list on the disk is still the one
that was read when WtkPutEaValue appends to it, and the beginning of the new one when it saves
(`Keeps`). A handle is its thread's only if WtkReadStringEa does not overlap with other calls, as it
closes its handle twice (section 5); `EaAssumption` therefore excludes modes in which it does,
and the run has none.

**FileUtilities.** `FilesInv` says that parents exist (`TreeStands`), that the directories
that are current exist (`DirsStand`), and for each call how far it is (`CallsStand`): a path
that was created so far is there, a path being deleted is gone so far, unless another thread
works against this very path. That threads which create the same path, or delete and create
others, do no harm is the point of the proof: a step of another thread leaves the parts that
are done as they are, whichever step it is. `TmpFilesStand` keeps the temporary files of two
threads apart. A search tells names that were there and, at its end, all that were there
throughout, because what it has not given yet is still to come (`SearchFits`); a modified
file is seen because the version that a status has is that of the file only with the same
size and time (`StatusFits`). **DirDialog** extends the module, and `DialogFileStep` shows
that what the dialog does is a step of the files or none, so that both theorems hold with it
as well. `DialogInv` adds that the first item is a drive and that an open dialog has a path
with a drive, unless a drive was refused: hence an item never leads to a path without one,
where the code traps. That a list box has an entry for each directory needs that there are
finitely many. `ListBelongsToPath` compares the number of items with `Level`, which is what
`_getDirectoryLevel` counts, because a drive may be given without its backslash.

**InitProfile.** `RoundTrip` is about two folds: reading goes over lines, writing over
sections and their keys. `ParseTree` shows that reading what is written gives `TreeAgain`, the
tree with each comment where the reader attaches it, for any number of sections, keys and
comments; it goes by induction on the number of keys (`ParseKeys`) and of sections, from what
one line does to the reader (`ReadKeyLine`, `ReadComment`, `ReadSection`). A write that fails leaves
the first lines only, so that the same is needed of each first part of a file: `ProfileInv` has
in `FileInv` that the file on the disk can be read as a plain tree, if at all, and in `StreamInv`
that the file and the lines still buffered are what is written for the tree, or the first part
of that, and what a stream that was never closed may still add. `HandleInv` says how far a
handle is by the step of the call. `FlagInv` is `ModifiedIsFlagged`: without the flag the values
are those that were read. `TreeAlwaysKept` follows, and `PromiseAlwaysKept`: an insertion,
replacement or deletion in the tree changes the table of `ProfilePromise` at one section and
key and nowhere else, because names are unique; a close puts the table into the file if it
was changed and may be written. The theorems need of the files at the start what
`ProfileAssumption` says: with a name that occurs twice, deleting the first entry brings the
second to light, and a quoted value that is not closed takes the lines behind it.

`OldContentsKept` proves `OriginalOrBackup`. That the old contents are in
one of the two files says nothing of which one is written next: `BackupInv` adds where
they are by the step of WtkCloseInitProfileBackup, and that the handle has no stream, so
that no other call can write.

**BubbleHelp.** `HelpCorrect` proves `HelpIsRight` from `HelpInv`, which adds to it that
nothing is on the screen before the help is created (`Fresh`) and that the text in the
data is the one given last, or none if there was no memory (`TextInv`). `ShowIsRight` is
the lemma on `_showHelp`, from which the timers, the messages and the update follow.

**Settings.** The three theorems rest on `SettingsInv`, which `StepKeepsSettings` carries
through each call. None of its parts can do without the others. `ValuesInv` says of each
value that it is of its type, fits and is not rejected, or passes a notebook though it is
(`IsTable`). A value can come from four places, and the parts say the same of what is on its
way there: a setup string is validated when it is evaluated (`GivenFits`); a notebook is
validated as a whole when it closes, so that `ClosingInv` holds until its last page is
written; `StatesInv` and `TextsInv` keep what was saved together with the values it was
saved from. `ScreensInv` has that a control shows what its type lets the user enter, and
that a handle in the table of the class is one of an open page, whichever object that page
belongs to: that is why `OnlyAccepted` survives two open notebooks, though `ShownInv`, which
is the strengthening of `ControlsShowValues`, needs that other objects are left alone.
`TableInv` (which contains `ClassInv`) and `HandlesInv` give the types; `DetailsInv` follows
by comparing two sums term by term (`SumsCompare`).

`ChangesReachTheClass` follows from what one setting of a setup string does
(`EvaluateSettingIs`), carried along the string by `FoldChain`, and from `WrittenIsSame`: what
a control shows is in the form it is kept in. `SavedComesBack` takes the way through the
setup string and back: every plain setting is listed (`PlainIsListed`), once, because names
differ; the other settings of the string leave it alone (`OthersStay`); and evaluating its
text gives the values it was written from (`PlainIsEvaluated`). For object states, no other
setting writes under its ids (`FirstValueComesBack`). Both proofs failed at first for
settings that share an id with one of another type: the check of ids lets such classes
through (2184), and a number then comes back as the Boolean. So `SharesIds` became an exception
of `ClosingTakesInput` and `PlainSettingsComeBack`, and the run a mode in which it happens.

**Only model-checked.** Liveness under fairness is out of the prover's reach:
`LeavesWithPointer`, `AppearsAtRest` and the three `CallsReturn`. So are the utilities
(`MatchIsRight`, `SettingsAreRead`, `DatesAreRight`, `LevelsAreKept`, `PackagesAreFound`,
`SumsAreRight`, `BitmapsAreChosen` in `MCUtilities`): they compare recursive definitions, which
lose the prover its SMT backend, and say what these compute for every input, which needs
induction over data. Not proved either: `ListIsRight`, `KillsTheTree`, `WaitTellsTheTruth`
(ProcStatus), `MessageIsRight` (TextMessage), `NoLineIsLost` and `UpdateIsStored` (ConfigSys).
The definitions of ProcStatus and ConfigSys filter lists with `SelectSeq`, whose recursion the
prover does not expand, or walk trees of any depth; those of TextMessage are not out of reach,
but their proof is not done. `EntriesStayWhole` is false (section 5).

## 7. What is not modelled, and why

Of the MMF manager: execute faults, which differ from reads only in the flag; the two
queries; access modes of entries; a client that writes to a file between its closing and
stamping. Of the profile: WTK_INIT_OPEN_ALLOWERRORS, under which a key without a name makes
the next search trap; values given by the application that hold quotes, comments or line
ends, which are not read back as they were given; indents, delimiters and field widths,
and with them the length of the buffer for a softly deleted key; a last line without a
line end; lines longer than 512 characters; a second handle with the same file. Of the
process list: lists of threads, modules and semaphores, which are read and forgotten, and
WtkSelectProcess. Of settings: relocating the controls of a page and
WtkQueryGUIControlsChanged, icon data, queries of more than one value at a time, NULL target
buffers. Of CONFIG.SYS: the placeholder of the boot drive, upper and lower case. Of files:
WtkFileMaskExists, WtkQueryFullname, WtkReadFilePart and the queries of sizes and dates. Of
the dates: WtkSetCDateTime and WtkQueryDateTimeStamp. Of the dialog: drawing, the texts of
message boxes, the labels of drives and the buttons. Parameter checks that refuse null
pointers throughout.

The wrappers of window calls, of system queries and device calls, the base of the
library and the debug output keep no state and take no decisions that a property could
be about; samples, scripts and books are not part of the library.

## 8. Running

    tlc -config MmfBuffer_pages.cfg MCMmfBuffer.tla
    tlc -config MmfTable_all.cfg MCMmfTable.tla
    tlc -config InitProfile_all.cfg MCInitProfile.tla
    tlc -config EaManager_all.cfg MCEaManager.tla
    tlc -config TextMessage_all.cfg MCTextMessage.tla
    tlc -config BubbleHelp_all.cfg MCBubbleHelp.tla
    tlc -config ProcStatus_all.cfg MCProcStatus.tla
    tlc -config Settings_all.cfg MCSettings.tla
    tlc -config ConfigSys_all.cfg MCConfigSys.tla
    tlc -config ConfigSys_v_entries.cfg MCConfigSys.tla
    tlc -config FileUtilities_all.cfg MCFileUtilities.tla
    tlc -config Utilities_all.cfg MCUtilities.tla

    tlapm FoldLemmas.tla              tlapm MmfBuffer_proofs.tla
    tlapm MmfEntries_proofs.tla       tlapm InitProfile_proofs.tla
    tlapm EaManager_proofs.tla        tlapm FileUtilities_proofs.tla
    tlapm BubbleHelp_proofs.tla       tlapm Settings_proofs.tla
