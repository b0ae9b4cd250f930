------------------------------ MODULE FileNames ------------------------------
(***************************************************************************)
(* The parts of file names, the boot drive in them, and whether a file     *)
(* holds any text (wtkufil4.c, wtkufil5.c, wpstk.c).                       *)
(*                                                                         *)
(* A name is a sequence of characters.                                     *)
(***************************************************************************)
EXTENDS Integers, Sequences, SequencesExt

Backslash == "\\"

(* The part behind the last of a character, NULL if there is none or if    *)
(* nothing follows.                                                        *)
NULL == <<>>
strrchr(name, char) == SelectLastInSeq(name, LAMBDA c : c = char)
Behind(name, i) == SubSeq(name, i + 1, Len(name))

PatchBootDrive(name, bootDrive) ==
    IF IsPrefix(<<"?", ":">>, name) THEN <<bootDrive>> \o Tail(name) ELSE name

(* An extension is what follows the last dot, a name what follows the last *)
(* backslash or else the drive, a path what follows the drive, if there is *)
(* a backslash.                                                            *)
WtkFilespec(name, part) ==
    LET extension == strrchr(name, ".")
        directory == strrchr(name, Backslash)
        drive == strrchr(name, ":")
    IN  CASE part = "EXTENSION" -> IF extension = 0 THEN NULL ELSE Behind(name, extension)
          [] part = "NAME" -> Behind(name, IF directory # 0 THEN directory ELSE drive)
          [] OTHER -> IF directory = 0 THEN NULL ELSE Behind(name, drive)

(* A missing file and, although it should be the other way round, a file   *)
(* of more than Kb bytes count as empty, one that cannot be read does not. *)
WtkFileIsEmpty(size, readable, bytes, Kb) ==
    \/ size = 0 \/ size > Kb
    \/ readable /\ LET nul == SelectInSeq(bytes, LAMBDA b : b = 0)
                   IN  \A i \in DOMAIN bytes : bytes[i] > 32 => nul # 0 /\ nul < i

-----------------------------------------------------------------------------
(* The parts of a name put together give the name again, on the boot drive *)
(* if it is asked for; the extension is that of the file, unless it has    *)
(* none and a directory has.                                               *)
PartsOfName(drive, directories, file, extension, bootDrive) ==
    LET dotted(part) == IF part = <<>> THEN <<>> ELSE <<".">> \o part
        path == FlattenSeq([i \in DOMAIN directories |-> directories[i] \o <<Backslash>>])
        last == file \o dotted(extension)
        name == PatchBootDrive(drive \o path \o last, bootDrive)
    IN  /\ WtkFilespec(name, "NAME") = last
        /\ directories # <<>> => WtkFilespec(name, "PATHNAME") = path \o last
        /\ directories = <<>> => WtkFilespec(name, "PATHNAME") = NULL
        /\ extension # <<>> \/ (\A i \in DOMAIN directories : ~Contains(directories[i], "."))
              => WtkFilespec(name, "EXTENSION") = extension
        /\ drive # <<>> => SubSeq(name, 1, 2) = <<IF drive[1] = "?" THEN bootDrive ELSE drive[1], ":">>

(* A file of at most Kb bytes counts as empty only if no text is lost with *)
(* it: in front of a zero there is none.                                   *)
EmptyIsWithoutText(readable, bytes, Kb) ==
    Len(bytes) \in 1..Kb /\ WtkFileIsEmpty(Len(bytes), readable, bytes, Kb)
        => /\ readable
           /\ \A i \in DOMAIN bytes : bytes[i] > 32 => \E j \in 1..(i - 1) : bytes[j] = 0
=============================================================================
