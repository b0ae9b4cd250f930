------------------------------ MODULE CheckSum ------------------------------
(***************************************************************************)
(* Sums of memory and of files: the CRC-32 (wtkucrc.c) and the MD5 digest  *)
(* (wtkumd5.c).                                                            *)
(*                                                                         *)
(* A word or a byte of the CRC is the set of its bits that are one.  MD5   *)
(* is modelled up to Transform: the digest is the sequence of the blocks   *)
(* that were transformed, of Block bytes, ending in a length of two words  *)
(* of one byte, and the words that count bits wrap at 2 ^ Width.           *)
(***************************************************************************)
EXTENDS Integers, Sequences, SequencesExt, FiniteSets

CONSTANTS
    Chunk,      \* bytes of a file that are read at once (0x1000)
    Block,      \* bytes of a block of MD5 (64)
    Width       \* bits of a word that counts bits of the message (32)

NO_ERROR == 0
ERROR_READ_FAULT == 30
ERROR_BUFFER_OVERFLOW == 111

-----------------------------------------------------------------------------
Bits == 0..31
xor(a, b) == (a \ b) \cup (b \ a)
ShiftedBy(word, n) == {b - n : b \in {b \in word : b >= n}}
Polynomial == {5, 8, 9, 15, 19, 20, 21, 23, 24, 26, 27, 29, 30, 31}    \* 0xedb88320

CrcBit(crc, n) ==
    IF 0 \in crc THEN xor(ShiftedBy(crc, 1), Polynomial) ELSE ShiftedBy(crc, 1)
aulCrc32Tab == [i \in SUBSET (0..7) |-> FoldLeft(CrcBit, i, [n \in 1..8 |-> n])]

CrcByte(crc, byte) == xor(aulCrc32Tab[xor(crc, byte) \cap (0..7)], ShiftedBy(crc, 8))

(* The sum so far is inverted again, except that of a first call, -1.      *)
(* Mutant: it is always inverted.                                          *)
WtkCalcMemCRC32Inverted(data, crc) == xor(FoldLeft(CrcByte, xor(crc, Bits), data), Bits)

WtkCalcMemCRC32(data, crc) ==
    LET start == IF crc = Bits THEN crc ELSE xor(crc, Bits)
    IN  xor(FoldLeft(CrcByte, start, data), Bits)

(* The pieces a file is read in, up to the first that cannot be read.      *)
Pieces(data) ==
    [i \in 1..((Len(data) + Chunk - 1) \div Chunk) |->
        SubSeq(data, (i - 1) * Chunk + 1, IF i * Chunk < Len(data) THEN i * Chunk ELSE Len(data))]
Readable(data, fails) ==
    IF fails = 0 THEN Pieces(data) ELSE SubSeq(Pieces(data), 1, fails - 1)
ReadCode(fails) == IF fails = 0 THEN NO_ERROR ELSE ERROR_READ_FAULT

WtkCalcFileCRC32(data, fails) ==
    [rc |-> ReadCode(fails),
     crc |-> FoldLeft(LAMBDA crc, piece : WtkCalcMemCRC32(piece, crc), Bits, Readable(data, fails))]

-----------------------------------------------------------------------------
(* The context of MD5: the bits counted in two words, the bytes of the     *)
(* block so far (those of an earlier block stay), and the digest.          *)
MD5Init == [i0 |-> 0, i1 |-> 0, in |-> [b \in 1..Block |-> "undefined"], buf |-> <<>>]

Used(context) == (context.i0 \div 8) % Block

Counted(context, inLen) ==
    LET low == (context.i0 + ((inLen * 8) % (2 ^ Width))) % (2 ^ Width)
    IN  [context EXCEPT
            !.i0 = low,
            !.i1 = (@ + (IF low < context.i0 THEN 1 ELSE 0) + (inLen \div (2 ^ (Width - 3))))
                       % (2 ^ Width)]

(* A byte is put at its place; a full block is transformed.                *)
Transform(buf, block) == Append(buf, block)

WithByte(filling, byte) ==
    LET in == [filling.in EXCEPT ![filling.mdi + 1] = byte]
    IN  IF filling.mdi + 1 = Block
        THEN [mdi |-> 0, in |-> in, buf |-> Transform(filling.buf, in)]
        ELSE [mdi |-> filling.mdi + 1, in |-> in, buf |-> filling.buf]

MD5Update(context, bytes) ==
    LET filled == FoldLeft(WithByte,
                           [mdi |-> Used(context), in |-> context.in, buf |-> context.buf], bytes)
    IN  [Counted(context, Len(bytes)) EXCEPT !.in = filled.in, !.buf = filled.buf]

(* The message is padded up to the two words of its length.                *)
Padding(n) == [b \in 1..n |-> IF b = 1 THEN 128 ELSE 0]
MD5Final(context) ==
    LET mdi == Used(context)
        room == Block - 2
        padLen == IF mdi < room THEN room - mdi ELSE Block + room - mdi
        padded == MD5Update(context, Padding(padLen))
    IN  Transform(padded.buf, [padded.in EXCEPT ![Block - 1] = context.i0, ![Block] = context.i1])

WtkCalcMemMD5(data) == MD5Final(MD5Update(MD5Init, data))
WtkCalcFileMD5(data, fails) ==
    [rc |-> ReadCode(fails),
     digest |-> MD5Final(FoldLeft(MD5Update, MD5Init, Readable(data, fails)))]

(* Each byte of a digest is written in hexadecimal without leading zeros.  *)
HexDigits(byte) == IF byte < 16 THEN <<byte>> ELSE <<byte \div 16, byte % 16>>
WtkMD5DigestToStr(digest, buflen) ==
    LET text == FlattenSeq([i \in DOMAIN digest |-> HexDigits(digest[i])])
    IN  IF Len(text) + 1 > buflen THEN [rc |-> ERROR_BUFFER_OVERFLOW, text |-> <<>>]
        ELSE [rc |-> NO_ERROR, text |-> text]

-----------------------------------------------------------------------------
(* The definitions of the sums.  The CRC is the remainder of the message,  *)
(* its first 32 bits inverted, times x^32, by the generator polynomial,    *)
(* inverted; each byte, and the result, has its lowest bit first.          *)
Generator == {31 - b : b \in Polynomial}
MessageBits(data) ==
    LET bits == FlattenSeq([i \in DOMAIN data |-> [b \in 1..8 |-> (b - 1) \in data[i]]])
                    \o [b \in 1..32 |-> FALSE]
    IN  [b \in DOMAIN bits |-> IF b <= 32 THEN ~bits[b] ELSE bits[b]]
Divided(remainder, bit) ==
    LET shifted == {b + 1 : b \in remainder} \cup (IF bit THEN {0} ELSE {})
    IN  IF 32 \in shifted THEN xor(shifted \ {32}, Generator) ELSE shifted
Crc(data) ==
    LET remainder == FoldLeft(Divided, {}, MessageBits(data))
    IN  xor({31 - b : b \in remainder}, Bits)

(* The padded message of RFC 1321, in blocks.                              *)
Zeros(data) == (2 * Block - 3 - (Len(data) % Block)) % Block
Message(data) ==
    data \o <<128>> \o [b \in 1..Zeros(data) |-> 0]
         \o <<(Len(data) * 8) % (2 ^ Width), (Len(data) * 8) \div (2 ^ Width)>>
Blocks(message) ==
    [i \in 1..(Len(message) \div Block) |-> SubSeq(message, (i - 1) * Block + 1, i * Block)]

-----------------------------------------------------------------------------
(* The CRC of memory is right, and calculated in several calls it is the   *)
(* same as in one, unless the sum so far is -1 by chance, which counts as  *)
(* a first call; nor does it matter how a file is read.                    *)
InCalls(first, second) == WtkCalcMemCRC32(second, WtkCalcMemCRC32(first, Bits))

CrcIsRight(data, cut) ==
    LET first == SubSeq(data, 1, cut)
        second == SubSeq(data, cut + 1, Len(data))
    IN  /\ WtkCalcMemCRC32(data, Bits) = Crc(data)
        /\ Crc(first) # Bits => InCalls(first, second) = Crc(data)
        /\ data # <<>> /\ (\A i \in 1..(Len(data) - 1) : Crc(SubSeq(data, 1, i)) # Bits)
              => WtkCalcFileCRC32(data, 0) = [rc |-> NO_ERROR, crc |-> Crc(data)]
        /\ WtkCalcFileCRC32(data, 1).rc # NO_ERROR

(* The blocks that are transformed are those of the padded message,        *)
(* whichever pieces a file is read in, and an error of reading is told.    *)
DigestIsRight(data, fails) ==
    LET file == WtkCalcFileMD5(data, fails)
    IN  /\ WtkCalcMemMD5(data) = Blocks(Message(data))
        /\ file.rc = NO_ERROR => file.digest = WtkCalcMemMD5(data)
        /\ fails # 0 => file.rc # NO_ERROR

(* The text of a digest is that of its bytes; it can be read back only if  *)
(* no byte but the last may have one digit.                                *)
TextOfDigest(digest, buflen) ==
    LET r == WtkMD5DigestToStr(digest, buflen)
        long == {i \in DOMAIN digest : digest[i] >= 16}
    IN  /\ r.rc = NO_ERROR => Len(r.text) < buflen
        /\ r.rc = NO_ERROR <=> Len(digest) + Cardinality(long) < buflen
        /\ r.rc = NO_ERROR /\ long = DOMAIN digest
              => \A i \in DOMAIN digest : digest[i] = 16 * r.text[2 * i - 1] + r.text[2 * i]
=============================================================================
