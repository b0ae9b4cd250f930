------------------------------ MODULE DirDialog ------------------------------
(***************************************************************************)
(* The dialog for the selection of a directory (wtkupm2.c), while threads  *)
(* of FileUtilities create and delete directories: a list box with the     *)
(* parts of a path and the directories in it, a combo box with the drives, *)
(* an entry field, and the path that the dialog returns.                   *)
(*                                                                         *)
(* A step is what the dialog does for one message.  Layout, drawing and    *)
(* the texts of message boxes are left out; the answers to them are not.   *)
(***************************************************************************)
EXTENDS FileUtilities

CONSTANTS
    NoDrives,       \* letters of drives that do not exist
    Removable,      \* drives whose disk the user may take out and put in
    Starts,         \* paths the application begins with
    Typed,          \* texts the user enters
    Others,         \* the threads that run while there is a dialog
    MaxOthers       \* bound: calls of these threads

(* A text is a path, and whether a backslash follows it, as it does after  *)
(* a drive.  A text without a drive begins with another name.              *)
Text(path) == [path |-> path, slash |-> Len(path) = 1]
Empty == [path |-> <<>>, slash |-> FALSE]
Texts == {Empty} \cup [path : Path, slash : BOOLEAN]

ASSUME OthersAssumption == Others \subseteq Threads
ASSUME TextAssumption == Starts \cup Typed \subseteq Texts

VARIABLES
    phase,      \* "off" if there is no dialog at all, or "closed", "open", "trapped",
                \* or what it returned: "ok", "cancel", "error"
    media,      \* for each removable drive whether the disk is in
    fullDir,    \* pdd->szFullDir
    items, selected,    \* the list box, and the selected item, 0 if none
    entry,      \* the text of the entry field
    drivePath,  \* the handles of the items of the combo box
    listed,     \* history: the path of which the list box was filled
    refused     \* history: fullDir is a text whose drive was refused

dialogVars == <<phase, media, fullDir, items, selected, entry, drivePath, listed, refused>>

-----------------------------------------------------------------------------
Drive(text) == IF text = Empty THEN <<>> ELSE SubSeq(text.path, 1, 1)
HasDrive(text) == Drive(text) \in Drives \cup NoDrives

(* _getDirectoryLevel: the number of backslashes, and one; a root is 1.    *)
Level(text) == Len(text.path) + (IF text.slash /\ Len(text.path) > 1 THEN 1 ELSE 0)

Ready(drive) == drive \in Drives /\ (drive \in Removable => media[drive] = "in")
DirExists(text) ==
    HasDrive(text) /\ Ready(Drive(text)) /\ IsDir(text.path)
    /\ (text.slash => Len(text.path) = 1)

(* _checkDrive: the user may be asked to put the disk in, and does or does *)
(* not; any other drive is refused.                                        *)
CheckDrive(text, inserts) ==
    /\ HasDrive(text)
    /\ Ready(Drive(text)) \/ (Drive(text) \in Removable /\ inserts)
MediaAfter(text, inserts) ==
    IF Drive(text) \in Removable /\ inserts THEN [media EXCEPT ![Drive(text)] = "in"] ELSE media

NoPath == [d \in Drives |-> Empty]

DialogInit ==
    /\ Init
    /\ phase \in {"off", "closed"}
    /\ media = [d \in Removable |-> "in"]
    /\ fullDir = Empty /\ entry = Empty
    /\ items = <<>> /\ selected = 0
    /\ drivePath = NoPath
    /\ listed = <<>> /\ refused = FALSE

-----------------------------------------------------------------------------
(* _updateDriveCombobox: the item of the drive takes over the path; a path *)
(* without a drive makes the process trap.                                 *)
UpdateDriveCombobox(full, paths) ==
    IF HasDrive(full) /\ Drive(full) \in Drives THEN [paths EXCEPT ![Drive(full)] = full] ELSE paths

(* _updateDirListbox: the parts of the path, of which the last is selected *)
(* and the directories in it; nothing if the path does not exist.          *)
Names(path) == {Last(p) : p \in Entries(path, "dir")}
UpdateDirListbox(full, disks) ==
    IF (Drive(full) \in Removable => disks[Drive(full)] = "in") /\ IsDir(full.path)
       /\ (full.slash => Len(full.path) = 1)
    THEN /\ items' = full.path \o SetToSeq(Names(full.path))
         /\ selected' = Len(full.path)
         /\ entry' = full
         /\ listed' = full.path
    ELSE /\ items' = <<>> /\ selected' = 0 /\ listed' = <<>>
         /\ UNCHANGED entry

(* What follows a new path.                                                *)
Shows(full, paths, disks) ==
    /\ fullDir' = full
    /\ IF HasDrive(full)
       THEN /\ phase' = "open"
            /\ drivePath' = UpdateDriveCombobox(full, paths)
            /\ UpdateDirListbox(full, disks)
       ELSE phase' = "trapped" /\ UNCHANGED <<drivePath, items, selected, entry, listed>>

Dismissed(result) ==
    /\ phase' = result
    /\ UNCHANGED <<items, selected, drivePath, listed>>

-----------------------------------------------------------------------------
(* WtkDirDlg and WM_INITDLG: the combo box is filled without paths.        *)
WtkDirDlg(start) ==
    /\ phase \in {"closed", "ok", "cancel", "error"}
    /\ refused' = FALSE
    /\ fullDir' = start
    /\ drivePath' = NoPath
    /\ IF start # Empty /\ ~DirExists(start)
       THEN phase' = "error" /\ items' = <<>> /\ selected' = 0 /\ listed' = <<>> /\ entry' = Empty
       ELSE /\ phase' = "open"
            /\ IF start = Empty
               THEN items' = <<>> /\ selected' = 0 /\ listed' = <<>> /\ entry' = Empty
               ELSE UpdateDirListbox(start, media)
    /\ UNCHANGED <<vars, media>>

(* EN_CHANGE                                                               *)
EnterText(text) ==
    /\ phase = "open" /\ text # entry
    /\ entry' = text
    /\ selected' = IF text # fullDir THEN 0 ELSE selected
    /\ UNCHANGED <<vars, phase, media, fullDir, items, drivePath, listed, refused>>

SelectItem(i) ==
    /\ phase = "open" /\ i \in DOMAIN items /\ i # selected
    /\ selected' = i
    /\ UNCHANGED <<vars, phase, media, fullDir, items, entry, drivePath, listed, refused>>

(* Mutant of SelectedPath: the directories below begin one item later.     *)
SelectedPathAfter(i, level) ==
    IF i <= level + 1 THEN SubSeq(items, 1, i)
    ELSE Append(SubSeq(items, 1, level + 1), items[i])

(* _determineSelectedPath: an item at or above the level of the path is a  *)
(* part of it, any other one follows it.                                   *)
SelectedPath(i, level) ==
    IF i <= level THEN SubSeq(items, 1, i) ELSE Append(SubSeq(items, 1, level), items[i])

(* LN_ENTER                                                                *)
OpenItem(i) ==
    /\ phase = "open" /\ i \in DOMAIN items
    /\ refused' = FALSE
    /\ Shows(Text(SelectedPath(i, Level(fullDir))), drivePath, media)
    /\ UNCHANGED <<vars, media>>

(* CBN_ENTER and _determinePathOfSelectedDrive: the path of the item, or   *)
(* the current directory of the drive; if the drive is refused, the box    *)
(* goes back to the drive of the path.                                     *)
OpenDrive(drive) ==
    LET full == IF drivePath[drive] # Empty THEN drivePath[drive] ELSE Text(curdir[drive])
    IN  /\ phase = "open"
        /\ \E inserts \in BOOLEAN :
             LET disks == MediaAfter(Text(drive), inserts)
             IN  /\ media' = disks
                 /\ IF CheckDrive(Text(drive), inserts)
                    THEN Shows(full, [drivePath EXCEPT ![drive] = full], disks) /\ refused' = FALSE
                    ELSE Shows(fullDir, drivePath, disks) /\ UNCHANGED refused
        /\ UNCHANGED vars

(* DID_OK: with an item selected, or without a text, the dialog ends; else *)
(* the text becomes the path, whatever comes of it.  With a backslash at   *)
(* its end it is shown, otherwise the dialog ends if it is a directory.    *)
Ok ==
    /\ phase = "open"
    /\ IF selected # 0 \/ entry = Empty
       THEN Dismissed("ok") /\ UNCHANGED <<media, fullDir, entry, refused>>
       ELSE \E inserts \in BOOLEAN :
              LET disks == MediaAfter(entry, inserts)
              IN  /\ media' = disks
                  /\ IF ~CheckDrive(entry, inserts)
                     THEN /\ fullDir' = entry /\ refused' = TRUE
                          /\ UNCHANGED <<phase, items, selected, entry, drivePath, listed>>
                     ELSE IF entry.slash
                     THEN Shows(Text(entry.path), drivePath, disks) /\ refused' = FALSE
                     ELSE /\ fullDir' = entry /\ refused' = FALSE /\ UNCHANGED entry
                          /\ Dismissed(IF IsDir(entry.path) THEN "ok" ELSE "error")
    /\ UNCHANGED vars

Cancel ==
    /\ phase = "open"
    /\ Dismissed("cancel")
    /\ UNCHANGED <<vars, media, fullDir, entry, refused>>

ChangeDisk(drive) ==
    /\ phase = "open"
    /\ media' = [media EXCEPT ![drive] = IF @ = "in" THEN "out" ELSE "in"]
    /\ UNCHANGED <<vars, phase, fullDir, items, selected, entry, drivePath, listed, refused>>

(* The other threads: while there is a dialog, those that change what it   *)
(* shows.                                                                  *)
OtherCall(t) ==
    /\ calls < MaxOthers
    /\ \E path \in Paths :
         WtkCreatePath(t, path) \/ WtkDeletePath(t, path) \/ WtkSetCurrentDir(t, path)

FileStep ==
    /\ IF phase = "off" THEN Next ELSE \E t \in Others : OtherCall(t) \/ Steps(t)
    /\ UNCHANGED dialogVars

DialogNext ==
    \/ FileStep
    \/ \E start \in Starts : WtkDirDlg(start)
    \/ \E text \in Typed : EnterText(text)
    \/ \E i \in DOMAIN items : SelectItem(i) \/ OpenItem(i)
    \/ \E drive \in Drives : OpenDrive(drive)
    \/ Ok \/ Cancel
    \/ \E drive \in Removable : ChangeDisk(drive)

DialogSpec ==
    /\ DialogInit /\ [][DialogNext]_<<vars, dialogVars>>
    /\ \A t \in Threads : WF_<<vars, dialogVars>>(Steps(t) /\ UNCHANGED dialogVars)

-----------------------------------------------------------------------------
DialogTypeOK ==
    /\ phase \in {"off", "closed", "open", "trapped", "ok", "cancel", "error"}
    /\ selected \in 0..Len(items)
    /\ media \in [Removable -> {"in", "out"}]
    /\ \A d \in Drives : drivePath[d] = Empty \/ Drive(drivePath[d]) = d

(* Unless a drive was refused, the list box has the parts of the path of   *)
(* the dialog and then the directories in it, in which a path is looked    *)
(* for by its length only.                                                 *)
ListBelongsToPath ==
    phase = "open" /\ items # <<>> /\ ~refused =>
        fullDir.path = listed /\ Level(fullDir) = Len(listed) /\ IsPrefix(listed, items)

(* The process traps only if what was entered has no drive, or nothing was *)
(* entered.                                                                *)
TrapsWithoutDrive == phase = "trapped" => refused \/ fullDir = Empty

(* An item that is opened leads to the directory that the list box shows.  *)
ItemLeadsWhereShown ==
    \A i \in DOMAIN items : ~refused /\ OpenItem(i) =>
        fullDir'.path = IF i <= Len(listed) THEN SubSeq(listed, 1, i) ELSE Append(listed, items[i])

(* A dialog that was not cancelled returns the directory it shows, or one  *)
(* that is there; unless the drive of a text was refused, or nothing is    *)
(* shown and entered.                                                      *)
ReturnsDirectory ==
    phase = "open" /\ phase' = "ok" /\ ~refused' /\ ~(items = <<>> /\ entry = Empty) =>
        fullDir'.path = listed \/ IsDir(fullDir'.path)

(* What the dialog shows, opens and returns, while the directories and the *)
(* disks change under it.                                                  *)
DialogIsRight ==
    [][/\ (DialogTypeOK /\ ListBelongsToPath /\ TrapsWithoutDrive)'
       /\ ItemLeadsWhereShown /\ ReturnsDirectory]_<<vars, dialogVars>>
-----------------------------------------------------------------------------
(* The inductive invariant behind it: what is listed begins with a drive,  *)
(* and a dialog that is open has a path with a drive, or none, unless the  *)
(* drive of a text was refused.                                            *)
DialogInv ==
    /\ IsFiniteSet(DOMAIN tree)
    /\ DialogTypeOK /\ drivePath \in [Drives -> Texts] /\ refused \in BOOLEAN
    /\ fullDir \in Texts /\ entry \in Texts
    /\ items \in Seq(Seq(Char)) /\ listed \in Seq(Seq(Char))
    /\ items # <<>> => fullDir # Empty /\ SubSeq(items, 1, 1) \in Drives \cup NoDrives
    /\ phase = "open" /\ ~refused => fullDir = Empty \/ HasDrive(fullDir)
    /\ ListBelongsToPath
    /\ TrapsWithoutDrive
==============================================================================
