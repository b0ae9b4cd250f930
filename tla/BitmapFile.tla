----------------------------- MODULE BitmapFile -----------------------------
(***************************************************************************)
(* Loading one of the bitmaps of a file (wtkfbmp.c).                       *)
(*                                                                         *)
(* A file holds a single bitmap or an array of headers of bitmaps, each    *)
(* for any display or for one of a size.  A header is valid if it is that  *)
(* of an array, and its picture a bitmap, or an icon or the like.  A       *)
(* bitmap is [cx, cy, bits, image]: image is the number of bytes that the  *)
(* file holds from where its image begins.                                 *)
(***************************************************************************)
EXTENDS Integers, Sequences, SequencesExt

CONSTANT
    Caps        \* the device: [width, height, colors]

NO_ERROR == 0
ERROR_NOT_ENOUGH_MEMORY == 8
ERROR_INVALID_DATA == 13
ERROR_INVALID_PARAMETER == 87
ERROR_GPI == 8199

Colors(bitmap) == 2 ^ bitmap.bits
HasSize(bitmap, width, height) == bitmap.cx = width /\ bitmap.cy = height
Sized(width, height) == width # 0 /\ height # 0

-----------------------------------------------------------------------------
(* A part of a file is read as far as there is one: a short read is no     *)
(* error.  The rest of the memory is undefined.                            *)
readFilePart(available, length) ==
    IF length = 0 THEN [rc |-> ERROR_INVALID_PARAMETER, read |-> 0]
    ELSE [rc |-> NO_ERROR, read |-> IF available < length THEN available ELSE length]

readFilePartDyn(available, length, memory) ==
    IF length # 0 /\ ~memory THEN [rc |-> ERROR_NOT_ENOUGH_MEMORY, read |-> 0]
    ELSE readFilePart(available, length)

Created(bitmap, read, gpi) ==
    IF gpi THEN [rc |-> NO_ERROR, bitmap |-> bitmap, read |-> read]
    ELSE [rc |-> ERROR_GPI, bitmap |-> <<>>, read |-> read]
Failed(rc) == [rc |-> rc, bitmap |-> <<>>, read |-> 0]

LoadSingle(file, width, height, force, memory, gpi) ==
    LET bitmap == file.bitmap
        part == readFilePartDyn(bitmap.image, bitmap.image, memory)
    IN  CASE part.rc # NO_ERROR -> Failed(part.rc)
          [] part.rc = NO_ERROR /\ force /\ ~HasSize(bitmap, width, height) ->
                 Failed(ERROR_INVALID_DATA)
          [] OTHER -> Created(bitmap, part.read, gpi)

-----------------------------------------------------------------------------
(* The headers of an array are scanned, and of each kind of bitmap the     *)
(* last one is kept.  A bitmap is for a display of the size of the device  *)
(* or smaller if that is so for the width or the height, where the height  *)
(* of the device is compared with the width of the display.                *)
None == [match |-> 0, dependent |-> 0, dependentLow |-> 0,
         independent |-> 0, independentLow |-> 0, first |-> 0]

Kind(header) ==
    LET low == Colors(header.bitmap) > Caps.colors
    IN  CASE header.cxDisplay = 0 /\ header.cyDisplay = 0 ->
                 IF low THEN "independentLow" ELSE "independent"
          [] /\ header.cxDisplay # 0 \/ header.cyDisplay # 0
             /\ Caps.width >= header.cxDisplay \/ Caps.height >= header.cxDisplay ->
                 IF low THEN "dependentLow" ELSE "dependent"
          [] OTHER -> "none"

Kept(kept, header, i, width, height, force) ==
    LET sized == Sized(width, height)
        fits == HasSize(header.bitmap, width, height)
        matched == IF sized /\ fits THEN [kept EXCEPT !.match = i] ELSE kept
        kind == Kind(header)
        counted == [matched EXCEPT !.first = IF @ = 0 THEN i ELSE @]
    IN  CASE ~header.valid -> kept
          [] header.valid /\ force /\ sized /\ ~fits -> matched
          [] OTHER -> IF kind = "none" THEN counted ELSE [counted EXCEPT ![kind] = i]

Scanned(headers, width, height, force) ==
    FoldLeft(LAMBDA kept, i : Kept(kept, headers[i], i, width, height, force),
             None, [i \in DOMAIN headers |-> i])

(* Of what was kept, the best is taken.  (Mutant: bitmaps for any display  *)
(* are preferred to those for this one.)                                   *)
FirstOf(choices) ==
    LET i == SelectInSeq(choices, LAMBDA c : c # 0) IN IF i = 0 THEN 0 ELSE choices[i]
SelectedAnyDisplay(kept) ==
    FirstOf(<<kept.match, kept.independent, kept.independentLow,
              kept.dependent, kept.dependentLow, kept.first>>)

Selected(kept) ==
    FirstOf(<<kept.match, kept.dependent, kept.dependentLow,
              kept.independent, kept.independentLow, kept.first>>)

ImageLen(bitmap) ==
    LET bytesPerLine == (bitmap.cx * bitmap.bits) \div 8
    IN  ((bytesPerLine \div 4) + 1) * 4 * bitmap.cy

(* The header is read twice, then the image.  A picture that is no bitmap  *)
(* is given up without an error.  Memory that was read is not freed if a   *)
(* later read fails.                                                       *)
LoadArray(file, width, height, force, memory, gpi) ==
    LET i == Selected(Scanned(file.headers, width, height, force))
        bitmap == file.headers[i].bitmap
        header == readFilePartDyn(1, 1, memory)
        image == readFilePartDyn(bitmap.image, ImageLen(bitmap), memory)
    IN  CASE i = 0 -> Failed(ERROR_INVALID_DATA)
          [] i # 0 /\ header.rc # NO_ERROR -> Failed(header.rc)
          [] i # 0 /\ header.rc = NO_ERROR /\ file.headers[i].picture # "bitmap" -> Failed(NO_ERROR)
          [] i # 0 /\ file.headers[i].picture = "bitmap" /\ image.rc # NO_ERROR -> Failed(image.rc)
          [] OTHER -> Created(bitmap, image.read, gpi)

WtkLoadBitmapFromFile(file, width, height, force, memory, gpi) ==
    CASE force /\ ~Sized(width, height) -> Failed(ERROR_INVALID_PARAMETER)
      [] (~force \/ Sized(width, height)) /\ file.kind = "bitmap" ->
             LoadSingle(file, width, height, force, memory, gpi)
      [] (~force \/ Sized(width, height)) /\ file.kind = "array" ->
             LoadArray(file, width, height, force, memory, gpi)
      [] OTHER -> Failed(NO_ERROR)

-----------------------------------------------------------------------------
(* What a program may rely on.  A size that is forced is that of the       *)
(* bitmap, and one is found if there is one of that size; one of the size  *)
(* that is asked for is preferred even if it is not forced.  No bitmap     *)
(* with more colors than the device is taken if there is one of the same   *)
(* kind, for this display or for any, without; no bitmap for any display   *)
(* if there is one for this one.  What is read of the image is all of it,  *)
(* if the file holds all.  Only a file that holds other pictures too may   *)
(* end without an error and without a bitmap (wtkfbmp.c 439).              *)
ForAnyDisplay(h) == h.cxDisplay = 0 /\ h.cyDisplay = 0
ForThisDisplay(h) ==
    ~ForAnyDisplay(h) /\ h.cxDisplay <= Caps.width /\ h.cyDisplay <= Caps.height
FewColors(bitmap) == Colors(bitmap) <= Caps.colors

LineLen(bitmap) == ((bitmap.cx * bitmap.bits + 31) \div 32) * 4

BitmapIsChosen(headers, width, height, force) ==
    LET file == [kind |-> "array", headers |-> headers]
        r == WtkLoadBitmapFromFile(file, width, height, force, TRUE, TRUE)
        sized == Sized(width, height)
        valid == {i \in DOMAIN headers : headers[i].valid}
        matching == {i \in valid : HasSize(headers[i].bitmap, width, height)}
        chosen == {i \in valid : headers[i].bitmap = r.bitmap /\ headers[i].picture = "bitmap"}
        given == r.bitmap # <<>>
    IN  /\ ((force => sized) => (r.rc = NO_ERROR <=> (IF force THEN matching ELSE valid) # {}))
        /\ r.rc = NO_ERROR /\ (\A i \in valid : headers[i].picture = "bitmap") => given
        /\ given =>
            /\ r.rc = NO_ERROR /\ chosen # {}
            /\ sized /\ matching # {} => chosen \cap matching # {}
            /\ r.read >= (IF r.bitmap.image < LineLen(r.bitmap) * r.bitmap.cy
                          THEN r.bitmap.image ELSE LineLen(r.bitmap) * r.bitmap.cy)
        /\ given /\ ~(sized /\ matching # {}) =>
            /\ (\E i \in valid : ForThisDisplay(headers[i])) =>
                   \E i \in chosen : ~ForAnyDisplay(headers[i])
            /\ (\E i \in valid : ForThisDisplay(headers[i]) /\ FewColors(headers[i].bitmap))
                   => FewColors(r.bitmap)
            /\ (\A i \in chosen : ForAnyDisplay(headers[i])) =>
                   (\A i \in valid : ForAnyDisplay(headers[i]) => ~FewColors(headers[i].bitmap))
                       \/ FewColors(r.bitmap)

SingleIsChecked(file, width, height, force, memory, gpi) ==
    LET r == WtkLoadBitmapFromFile(file, width, height, force, memory, gpi)
    IN  /\ force /\ r.bitmap # <<>> => HasSize(r.bitmap, width, height)
        /\ r.bitmap = <<>> => r.rc # NO_ERROR \/ file.kind = "other"
        /\ r.rc = NO_ERROR /\ file.kind = "bitmap" => memory /\ gpi
=============================================================================
