---------------------------- MODULE BufferCodec ----------------------------
(***************************************************************************)
(* The numbers a couv.Buffer holds (src/buffer.c): what its accessors      *)
(* write for a number and what they read back.  Bytes are the members of   *)
(* 0 .. Byte - 1, so that a `short' has two digits and an `int' four; 0x80 *)
(* is Byte \div 2, 0x10000 is Byte^2 and 0x100000000 is Byte^4.  A float   *)
(* or a double is the sequence of its bytes, least significant first.      *)
(***************************************************************************)
EXTENDS Integers, Sequences, SequencesExt

CONSTANTS
    Byte,        \* how many values a byte has: 256
    CharSigned   \* whether the compiler's `char' is signed

ASSUME ByteAssumption == Byte \in Nat /\ Byte >= 2 /\ Byte % 2 = 0
ASSUME CharAssumption == CharSigned \in BOOLEAN

VARIABLE number   \* the number the program passes to an accessor

Short == Byte * Byte
Word  == Short * Short
Bytes == 0 .. Byte - 1

UInt(v) == v % Word                              \* (unsigned int) v
SInt(v) == ((v + Word \div 2) % Word) - Word \div 2    \* (int) v

\* `(v >> 8 * i) & 0xFF', and the same without the mask where a byte is stored.
Digit(v, i) == (v \div (CASE i = 0 -> 1 [] i = 1 -> Byte
                          [] i = 2 -> Short [] i = 3 -> Short * Byte)) % Byte

\* Faulty variant: the least number is taken for a positive one.
SignedPast(v, n) == IF v > n \div 2 THEN -(((n - 1) - v) + 1) ELSE v

\* What one of 2^(8 * width) values stands for in two's complement.
Signed(v, n) == IF v >= n \div 2 THEN -(((n - 1) - v) + 1) ELSE v
----------------------------------------------------------------------------
WriteUInt8(v) == <<UInt(v) % Byte>>
WriteInt8(v)  == <<UInt(v) % Byte>>
ReadUInt8(p)  == p[1]
ReadInt8(p)   == IF CharSigned THEN Signed(p[1], Byte) ELSE p[1]

WriteUInt16LE(v) == LET u == UInt(v) IN <<Digit(u, 0), Digit(u, 1)>>
WriteUInt16BE(v) == LET u == UInt(v) IN <<Digit(u, 1), Digit(u, 0)>>
ReadUInt16LE(p)  == p[2] * Byte + p[1]
ReadUInt16BE(p)  == p[1] * Byte + p[2]

WriteUInt32LE(v) ==
    LET u == UInt(v) IN <<Digit(u, 0), Digit(u, 1), Digit(u, 2), Digit(u, 3)>>
WriteUInt32BE(v) ==
    LET u == UInt(v) IN <<Digit(u, 3), Digit(u, 2), Digit(u, 1), Digit(u, 0)>>
ReadUInt32LE(p) == UInt(p[4] * Short * Byte + p[3] * Short + p[2] * Byte + p[1])
ReadUInt32BE(p) == UInt(p[1] * Short * Byte + p[2] * Short + p[3] * Byte + p[4])

\* writeInt16 and writeInt32 add the modulus to a negative value first.
UValue(v, n) == UInt(IF v < 0 THEN n + v ELSE v)

WriteInt16LE(v) == WriteUInt16LE(UValue(v, Short))
WriteInt16BE(v) == WriteUInt16BE(UValue(v, Short))
ReadInt16LE(p)  == Signed(ReadUInt16LE(p), Short)
ReadInt16BE(p)  == Signed(ReadUInt16BE(p), Short)

WriteInt32LE(v) == WriteUInt32LE(UValue(v, Word))
WriteInt32BE(v) == WriteUInt32BE(UValue(v, Word))

\* The negation is of an int: that of the least int is the least int again.
SignedInt(v) ==
    IF v >= Word \div 2 THEN SInt(-SInt(((Word - 1) - v) + 1)) ELSE SInt(v)

ReadInt32LE(p) == SignedInt(ReadUInt32LE(p))
ReadInt32BE(p) == SignedInt(ReadUInt32BE(p))
----------------------------------------------------------------------------
(***************************************************************************)
(* Floats and doubles are copied from and to the memory of a C variable,   *)
(* which holds them in the order of the host.                              *)
(***************************************************************************)
Hosts == {"little endian", "big endian"}

InHost(host, s) == IF host = "little endian" THEN s ELSE Reverse(s)

memcpy_le(host, src) == IF host = "little endian" THEN src ELSE Reverse(src)

\* Faulty variant: the bytes are copied as they are, whatever the host.
memcpy_beAsIs(host, src) == src

memcpy_be(host, src) == IF host = "little endian" THEN Reverse(src) ELSE src

WriteFloatLE(host, s) == memcpy_le(host, InHost(host, s))
WriteFloatBE(host, s) == memcpy_be(host, InHost(host, s))
----------------------------------------------------------------------------
(***************************************************************************)
(* What the accessors are for.                                             *)
(***************************************************************************)
Shorts == -(Short \div 2) .. (Short \div 2) - 1
Ints   == -(Word \div 2) .. (Word \div 2) - 1

\* The numbers some accessor takes.
Numbers == Ints \cup 0 .. Word - 1

\* Every number in the range of an accessor pair is read back as it was
\* written, in either byte order, down to the least one
\* (src/buffer.c:130-248, 304-438).
IntegersRoundTrip ==
    /\ number \in Bytes => ReadUInt8(WriteUInt8(number)) = number
    /\ number \in -(Byte \div 2) .. (Byte \div 2) - 1 =>
          ReadInt8(WriteInt8(number)) = number
    /\ number \in 0 .. Short - 1 => /\ ReadUInt16LE(WriteUInt16LE(number)) = number
                                    /\ ReadUInt16BE(WriteUInt16BE(number)) = number
    /\ number \in Shorts => /\ ReadInt16LE(WriteInt16LE(number)) = number
                            /\ ReadInt16BE(WriteInt16BE(number)) = number
    /\ number \in 0 .. Word - 1 => /\ ReadUInt32LE(WriteUInt32LE(number)) = number
                                   /\ ReadUInt32BE(WriteUInt32BE(number)) = number
    /\ number \in Ints => /\ ReadInt32LE(WriteInt32LE(number)) = number
                          /\ ReadInt32BE(WriteInt32BE(number)) = number

\* The bytes on the wire are those of the format, whatever the host: LE is least
\* significant first, for any number (one out of range is reduced modulo the
\* width); BE is LE backwards; a peer with the other byte order reads the same
\* float back, of whatever bytes (src/buffer.c:95-121, 250-292, 440-478).
WireOrder ==
    /\ number \in Ints =>
          /\ \E d \in [1 .. 2 -> Bytes] :
                /\ d[1] + d[2] * Byte = number % Short
                /\ WriteInt16LE(number) = d /\ WriteUInt16LE(number) = d
          /\ \E d \in [1 .. 4 -> Bytes] :
                /\ d[1] + d[2] * Byte + d[3] * Short + d[4] * Short * Byte = number % Word
                /\ WriteInt32LE(number) = d /\ WriteUInt32LE(number) = d
          /\ WriteInt16BE(number) = Reverse(WriteInt16LE(number))
          /\ WriteInt32BE(number) = Reverse(WriteInt32LE(number))
    /\ number \in 0 .. Word - 1 =>
          LET s == [i \in 1 .. 4 |-> Digit(number, i - 1)] IN
          \A here, there \in Hosts :
             /\ memcpy_le(there, WriteFloatLE(here, s)) = InHost(there, s)
             /\ memcpy_be(there, WriteFloatBE(here, s)) = InHost(there, s)
             /\ WriteFloatBE(here, s) = Reverse(WriteFloatLE(there, s))
=============================================================================
