------------------------- MODULE BufferCodecProofs -------------------------
(***************************************************************************)
(* The accessors of Buffer return what was written, for bytes of any       *)
(* (even) number of values.                                                *)
(***************************************************************************)
EXTENDS BufferCodec, TLAPS

LEMMA DivMod ==
    ASSUME NEW u \in Int, NEW a \in Nat, a > 0
    PROVE  /\ u \div a \in Int /\ u % a \in 0 .. a - 1
           /\ u = a * (u \div a) + (u % a)
           /\ u >= 0 => u \div a \in Nat
    OBVIOUS

\* Quotient and remainder are the only numbers that divide.
LEMMA DivModUnique ==
    ASSUME NEW a \in Nat, a > 0, NEW q \in Int, NEW r \in 0 .. a - 1
    PROVE  (a * q + r) \div a = q /\ (a * q + r) % a = r
<1> DEFINE u == a * q + r
           p == u \div a
           s == u % a
<1>1. u \in Int
    OBVIOUS
<1>2. p \in Int /\ s \in 0 .. a - 1 /\ u = a * p + s
    BY <1>1, DivMod
<1> HIDE DEF p, s
<1>3. a * q + r = a * p + s
    BY <1>2
<1>4. a * (q - p) = s - r /\ q - p \in Int
    BY <1>2, <1>3
<1>5. ASSUME q - p >= 1 PROVE FALSE
    <2>1. a * (q - p) >= a
        BY <1>4, <1>5
    <2> QED BY <1>2, <1>4, <2>1
<1>6. ASSUME q - p <= -1 PROVE FALSE
    <2>1. a * (p - q) >= a
        BY <1>2, <1>6
    <2>2. a * (p - q) = r - s
        BY <1>2, <1>3
    <2> QED BY <1>2, <2>1, <2>2
<1>7. q = p
    BY <1>2, <1>5, <1>6
<1>8. r = s
    BY <1>2, <1>3, <1>7
<1> QED BY <1>7, <1>8 DEF p, s

LEMMA ModSmall ==
    ASSUME NEW a \in Nat, NEW u \in 0 .. a - 1
    PROVE  u % a = u
<1>1. a > 0 /\ a * 0 + u = u
    OBVIOUS
<1> QED BY <1>1, DivModUnique

LEMMA DivDiv ==
    ASSUME NEW u \in Nat, NEW a \in Nat, a > 0, NEW b \in Nat, b > 0
    PROVE  u \div (a * b) = (u \div a) \div b
<1>1. PICK q \in Nat, r \in 0 .. a - 1 : u = a * q + r /\ q = u \div a
    BY DivMod
<1>2. PICK p \in Nat, s \in 0 .. b - 1 : q = b * p + s /\ p = q \div b
    BY DivMod
<1>3. a * s >= 0 /\ a * s <= a * (b - 1) /\ a * s \in Int
    BY <1>2
<1>4. a * (b - 1) = a * b - a
    OBVIOUS
<1>5. a * s + r \in 0 .. (a * b) - 1 /\ a * b \in Nat /\ a * b > 0
    BY <1>1, <1>3, <1>4
<1>6. u = (a * b) * p + (a * s + r)
    BY <1>1, <1>2
<1>7. u \div (a * b) = p
    BY <1>5, <1>6, DivModUnique
<1> QED BY <1>1, <1>2, <1>7
----------------------------------------------------------------------------
LEMMA Sizes ==
    /\ Byte \in Nat /\ Byte >= 2 /\ Short \in Nat /\ Word \in Nat
    /\ Byte <= Short /\ Short <= Word /\ Short * Byte \in Nat /\ Short > 0
    /\ Word = (Short * Byte) * Byte
<1>1. Byte \in Nat /\ Byte >= 2
    BY ByteAssumption
<1>2. Short \in Nat /\ Byte <= Short
    BY <1>1 DEF Short
<1>3. Short >= 2
    BY <1>1, <1>2
<1>4. Word \in Nat /\ Short <= Word
    BY <1>2, <1>3 DEF Word
<1>5. Word = (Short * Byte) * Byte
    BY <1>1, <1>2 DEF Word, Short
<1> QED BY <1>1, <1>2, <1>3, <1>4, <1>5

\* Half of an even number, and of its square, is exact.
LEMMA Halves ==
    /\ Byte \div 2 \in Nat /\ Byte = 2 * (Byte \div 2)
    /\ Short \div 2 \in Nat /\ Short = 2 * (Short \div 2)
    /\ Word \div 2 \in Nat /\ Word = 2 * (Word \div 2)
<1>1. Byte \div 2 \in Nat /\ Byte = 2 * (Byte \div 2)
    BY ByteAssumption
<1>2. ASSUME NEW n \in Nat, NEW h \in Nat, n = 2 * h
      PROVE  (n * n) \div 2 \in Nat /\ n * n = 2 * ((n * n) \div 2)
    <2>1. n * n = 2 * (h * n) + 0 /\ h * n \in Nat
        BY <1>2
    <2>2. (n * n) \div 2 = h * n
        BY <2>1, DivModUnique
    <2> QED BY <2>1, <2>2
<1>3. Short \div 2 \in Nat /\ Short = 2 * (Short \div 2)
    BY <1>1, <1>2, Sizes DEF Short
<1>4. Word \div 2 \in Nat /\ Word = 2 * (Word \div 2)
    BY <1>2, <1>3, Sizes DEF Word
<1> QED BY <1>1, <1>3, <1>4

LEMMA DigitsAre ==
    ASSUME NEW u \in Nat
    PROVE  /\ Digit(u, 0) = u % Byte /\ Digit(u, 1) = (u \div Byte) % Byte
           /\ Digit(u, 2) = (u \div Short) % Byte
           /\ Digit(u, 3) = (u \div (Short * Byte)) % Byte
<1>1. u \div 1 = u
    OBVIOUS
<1> QED BY <1>1 DEF Digit

LEMMA TwoDigits ==
    ASSUME NEW u \in 0 .. Short - 1
    PROVE  /\ Digit(u, 0) \in Nat /\ Digit(u, 1) \in Nat
           /\ Digit(u, 1) * Byte + Digit(u, 0) = u
<1>1. PICK q \in Nat, r \in 0 .. Byte - 1 :
         u = Byte * q + r /\ q = u \div Byte /\ r = u % Byte
    BY Sizes, DivMod
<1>2. q <= Byte - 1
    <2>1. ASSUME q >= Byte PROVE FALSE
        <3>1. Byte * q >= Byte * Byte
            BY <2>1, Sizes
        <3> QED BY <1>1, <3>1, Sizes DEF Short
    <2> QED BY <1>1, <2>1, Sizes
<1>3. q % Byte = q
    <2>1. Byte \in Nat /\ q \in 0 .. Byte - 1
        BY <1>1, <1>2, Sizes
    <2> QED BY <2>1, ModSmall
<1>4. u \in Nat
    BY Sizes
<1>5. Digit(u, 0) = u % Byte /\ Digit(u, 1) = (u \div Byte) % Byte
    BY <1>4, DigitsAre
<1>6. Digit(u, 0) = r /\ Digit(u, 1) = q
    BY <1>1, <1>3, <1>5, Zenon
<1>7. q * Byte + r = u
    BY <1>1, Sizes
<1> QED BY <1>1, <1>6, <1>7

LEMMA FourDigits ==
    ASSUME NEW u \in 0 .. Word - 1
    PROVE  /\ \A i \in 0 .. 3 : Digit(u, i) \in Nat
           /\ Digit(u, 3) * Short * Byte + Digit(u, 2) * Short
                 + Digit(u, 1) * Byte + Digit(u, 0) = u
<1>1. PICK q \in Nat, a \in 0 .. Byte - 1 :
         u = Byte * q + a /\ q = u \div Byte /\ a = u % Byte
    BY Sizes, DivMod
<1>2. PICK p \in Nat, b \in 0 .. Byte - 1 :
         q = Byte * p + b /\ p = q \div Byte /\ b = q % Byte
    BY Sizes, DivMod
<1>3. PICK o \in Nat, c \in 0 .. Byte - 1 :
         p = Byte * o + c /\ o = p \div Byte /\ c = p % Byte
    BY Sizes, DivMod
<1>4. p = u \div Short
    BY <1>1, <1>2, DivDiv, Sizes DEF Short
<1>5. o = u \div (Short * Byte)
    <2>1. u \in Nat /\ Byte \in Nat /\ Byte > 0 /\ Short \in Nat /\ Short > 0
        BY Sizes
    <2>2. u \div (Short * Byte) = (u \div Short) \div Byte
        BY <2>1, DivDiv
    <2> QED BY <1>3, <1>4, <2>2
<1>6. u = (Short * Byte) * o + Short * c + Byte * b + a
    <2>1. Byte * (Byte * (Byte * o + c) + b) + a
            = ((Byte * Byte) * Byte) * o + (Byte * Byte) * c + Byte * b + a
        BY Sizes
    <2> QED BY <1>1, <1>2, <1>3, <2>1 DEF Short
<1>7. o <= Byte - 1
    <2>1. ASSUME o >= Byte PROVE FALSE
        <3>1. (Short * Byte) * o >= (Short * Byte) * Byte
            BY <2>1, Sizes
        <3>2. Short * c >= 0 /\ Byte * b >= 0
            BY Sizes
        <3> QED BY <1>6, <3>1, <3>2, Sizes
    <2> QED BY <2>1, Sizes
<1>8. o % Byte = o
    <2>1. Byte \in Nat /\ o \in 0 .. Byte - 1
        BY <1>3, <1>7, Sizes
    <2> QED BY <2>1, ModSmall
<1>9. u \in Nat
    BY Sizes
<1>10. /\ Digit(u, 0) = u % Byte /\ Digit(u, 1) = (u \div Byte) % Byte
       /\ Digit(u, 2) = (u \div Short) % Byte
       /\ Digit(u, 3) = (u \div (Short * Byte)) % Byte
    BY <1>9, DigitsAre, Zenon
<1>11. Digit(u, 0) = a /\ Digit(u, 1) = b /\ Digit(u, 2) = c /\ Digit(u, 3) = o
    BY <1>1, <1>2, <1>3, <1>4, <1>5, <1>8, <1>10, Zenon
<1>12. o * Short * Byte + c * Short + b * Byte + a = u
    BY <1>6, Sizes
<1> QED BY <1>11, <1>12
----------------------------------------------------------------------------
LEMMA Unsigned ==
    /\ \A v \in 0 .. Word - 1 : UInt(v) = v
    /\ \A v \in 0 .. Short - 1 : UInt(v) = v
    /\ \A v \in -Word .. -1 : UInt(v) = Word + v
<1>1. ASSUME NEW v \in 0 .. Word - 1 PROVE UInt(v) = v
    BY Sizes, ModSmall DEF UInt
<1>2. ASSUME NEW v \in -Word .. -1 PROVE UInt(v) = Word + v
    <2>1. Word + v \in 0 .. Word - 1 /\ Word \in Nat /\ Word > 0 /\ -1 \in Int
        BY Sizes
    <2>2. (Word * (-1) + (Word + v)) % Word = Word + v
        BY <2>1, DivModUnique
    <2>3. Word * (-1) + (Word + v) = v
        BY <2>1
    <2> QED BY <2>2, <2>3 DEF UInt
<1>3. 0 .. Short - 1 \subseteq 0 .. Word - 1
    BY Sizes
<1> QED BY <1>1, <1>2, <1>3

\* (int) v: v itself in range, and the least int for one more than the greatest.
LEMMA Truncated ==
    /\ \A v \in -(Word \div 2) .. (Word \div 2) - 1 : SInt(v) = v
    /\ SInt(Word \div 2) = -(Word \div 2)
<1>1. ASSUME NEW v \in -(Word \div 2) .. (Word \div 2) - 1 PROVE SInt(v) = v
    <2>1. v + Word \div 2 \in 0 .. Word - 1 /\ Word \in Nat
        BY Halves, Sizes
    <2>2. (v + Word \div 2) % Word = v + Word \div 2
        BY <2>1, ModSmall
    <2> QED BY <2>1, <2>2, Halves DEF SInt
<1>2. SInt(Word \div 2) = -(Word \div 2)
    <2>1. Word \div 2 + Word \div 2 = Word * 1 + 0 /\ Word > 0
        BY Halves, Sizes
    <2>2. (Word * 1 + 0) % Word = 0
        BY <2>1, Sizes, DivModUnique
    <2> QED BY <2>1, <2>2, Halves DEF SInt
<1> QED BY <1>1, <1>2

LEMMA UValues ==
    /\ \A v \in Shorts : /\ UValue(v, Short) = IF v < 0 THEN Short + v ELSE v
                         /\ UValue(v, Short) \in 0 .. Short - 1
    /\ \A v \in Ints : /\ UValue(v, Word) = IF v < 0 THEN Word + v ELSE v
                       /\ UValue(v, Word) \in 0 .. Word - 1
<1>1. ASSUME NEW v \in Shorts
      PROVE  (IF v < 0 THEN Short + v ELSE v) \in 0 .. Short - 1
    BY Halves, Sizes DEF Shorts
<1>2. ASSUME NEW v \in Ints
      PROVE  (IF v < 0 THEN Word + v ELSE v) \in 0 .. Word - 1
    BY Halves, Sizes DEF Ints
<1> QED BY <1>1, <1>2, Unsigned DEF UValue

LEMMA Read16 ==
    ASSUME NEW u \in 0 .. Short - 1
    PROVE  ReadUInt16LE(WriteUInt16LE(u)) = u /\ ReadUInt16BE(WriteUInt16BE(u)) = u
<1>1. UInt(u) = u
    BY Unsigned
<1>2. Digit(u, 1) * Byte + Digit(u, 0) = u
    BY TwoDigits
<1>3. WriteUInt16LE(u) = <<Digit(u, 0), Digit(u, 1)>>
      /\ WriteUInt16BE(u) = <<Digit(u, 1), Digit(u, 0)>>
    BY <1>1 DEF WriteUInt16LE, WriteUInt16BE
<1> QED BY <1>2, <1>3 DEF ReadUInt16LE, ReadUInt16BE

LEMMA Read32 ==
    ASSUME NEW u \in 0 .. Word - 1
    PROVE  ReadUInt32LE(WriteUInt32LE(u)) = u /\ ReadUInt32BE(WriteUInt32BE(u)) = u
<1>1. UInt(u) = u
    BY Unsigned
<1>2. Digit(u, 3) * Short * Byte + Digit(u, 2) * Short + Digit(u, 1) * Byte + Digit(u, 0) = u
    BY FourDigits
<1>3. WriteUInt32LE(u) = <<Digit(u, 0), Digit(u, 1), Digit(u, 2), Digit(u, 3)>>
      /\ WriteUInt32BE(u) = <<Digit(u, 3), Digit(u, 2), Digit(u, 1), Digit(u, 0)>>
    BY <1>1 DEF WriteUInt32LE, WriteUInt32BE
<1> QED BY <1>1, <1>2, <1>3 DEF ReadUInt32LE, ReadUInt32BE

LEMMA Signed16 ==
    ASSUME NEW v \in Shorts
    PROVE  Signed(UValue(v, Short), Short) = v
BY UValues, Halves, Sizes DEF Shorts, Signed

LEMMA Signed32 ==
    ASSUME NEW v \in Ints
    PROVE  SignedInt(UValue(v, Word)) = v
<1>1. v \in Int /\ -(Word \div 2) <= v /\ v <= (Word \div 2) - 1
    BY Halves DEF Ints
<1>2. CASE v >= 0
    <2>1. UValue(v, Word) = v /\ SInt(v) = v
        BY <1>2, UValues, Truncated DEF Ints
    <2> QED BY <1>1, <2>1, Halves DEF SignedInt
<1>3. CASE v < 0
    <2>1. UValue(v, Word) = Word + v /\ Word + v >= Word \div 2
        BY <1>1, <1>3, UValues, Halves DEF Ints
    <2>2. ((Word - 1) - (Word + v)) + 1 = -v
        BY <1>1, Sizes
    <2>3. SignedInt(Word + v) = SInt(-SInt(-v))
        BY <2>1, <2>2 DEF SignedInt
    <2>4. SInt(-SInt(-v)) = v
        <3>1. CASE v = -(Word \div 2)
            <4>1. -v = Word \div 2
                BY <3>1, Halves
            <4>2. SInt(-v) = v
                BY <3>1, <4>1, Truncated
            <4> QED BY <3>1, <4>1, <4>2, Truncated
        <3>2. CASE v # -(Word \div 2)
            <4>1. -v \in -(Word \div 2) .. (Word \div 2) - 1
                BY <1>1, <1>3, <3>2, Halves
            <4>2. SInt(-v) = -v
                BY <4>1, Truncated
            <4>3. -(-v) = v /\ SInt(v) = v
                BY <1>1, Truncated, Halves
            <4> QED BY <4>2, <4>3
        <3> QED BY <3>1, <3>2
    <2> QED BY <2>1, <2>3, <2>4
<1> QED BY <1>1, <1>2, <1>3

LEMMA Bytes8 ==
    /\ \A v \in Bytes : UInt(v) % Byte = v
    /\ \A v \in -(Byte \div 2) .. -1 : UInt(v) % Byte = Byte + v
<1>1. ASSUME NEW v \in Bytes PROVE UInt(v) % Byte = v
    <2>1. v \in 0 .. Word - 1 /\ v \in 0 .. Byte - 1 /\ Byte \in Nat
        BY Sizes DEF Bytes
    <2> QED BY <2>1, Unsigned, ModSmall
<1>2. ASSUME NEW v \in -(Byte \div 2) .. -1 PROVE UInt(v) % Byte = Byte + v
    <2>1. v \in -Word .. -1 /\ Byte + v \in 0 .. Byte - 1
        BY Sizes, Halves
    <2>2. UInt(v) = Word + v
        BY <2>1, Unsigned
    <2>3. Word + v = Byte * (Short * Byte - 1) + (Byte + v)
        BY <2>1, Sizes
    <2>4. (Byte * (Short * Byte - 1) + (Byte + v)) % Byte = Byte + v
        <3>1. Short * Byte - 1 \in Int /\ Byte \in Nat /\ Byte > 0
            BY Sizes
        <3> QED BY <2>1, <3>1, DivModUnique
    <2> QED BY <2>2, <2>3, <2>4
<1> QED BY <1>1, <1>2

\* Every accessor pair returns the number it was given over its whole range, down
\* to the least int, for bytes of any size; readInt8 where the compiler's char is
\* signed.
THEOREM RoundTrip == CharSigned => IntegersRoundTrip
<1> SUFFICES ASSUME CharSigned PROVE IntegersRoundTrip
    OBVIOUS
<1>1. \A v \in Bytes : ReadUInt8(WriteUInt8(v)) = v
    BY Bytes8 DEF ReadUInt8, WriteUInt8
<1>2. ASSUME NEW v \in -(Byte \div 2) .. (Byte \div 2) - 1
      PROVE  ReadInt8(WriteInt8(v)) = v
    <2>1. ReadInt8(WriteInt8(v)) = Signed(UInt(v) % Byte, Byte)
        BY DEF ReadInt8, WriteInt8
    <2>2. CASE v < 0
        BY <2>1, <2>2, Bytes8, Halves, Sizes DEF Signed
    <2>3. CASE v >= 0
        <3>1. v \in Bytes
            BY <2>3, Halves DEF Bytes
        <3> QED BY <2>1, <3>1, Bytes8, Halves DEF Signed
    <2> QED BY <2>2, <2>3, Halves
<1>3. \A v \in 0 .. Short - 1 : /\ ReadUInt16LE(WriteUInt16LE(v)) = v
                                /\ ReadUInt16BE(WriteUInt16BE(v)) = v
    BY Read16
<1>4. ASSUME NEW v \in Shorts
      PROVE  ReadInt16LE(WriteInt16LE(v)) = v /\ ReadInt16BE(WriteInt16BE(v)) = v
    BY UValues, Read16, Signed16 DEF ReadInt16LE, WriteInt16LE, ReadInt16BE, WriteInt16BE
<1>5. \A v \in 0 .. Word - 1 : /\ ReadUInt32LE(WriteUInt32LE(v)) = v
                               /\ ReadUInt32BE(WriteUInt32BE(v)) = v
    BY Read32
<1>6. ASSUME NEW v \in Ints
      PROVE  ReadInt32LE(WriteInt32LE(v)) = v /\ ReadInt32BE(WriteInt32BE(v)) = v
    BY UValues, Read32, Signed32 DEF ReadInt32LE, WriteInt32LE, ReadInt32BE, WriteInt32BE
<1> QED BY <1>1, <1>2, <1>3, <1>4, <1>5, <1>6 DEF IntegersRoundTrip
----------------------------------------------------------------------------
LEMMA Regroup ==
    ASSUME NEW a \in Int, NEW b \in Int, NEW q \in Int, NEW p \in Int, NEW s \in Int
    PROVE  (a * b) * q + (a * p + s) = a * (b * q + p) + s /\ b * q + p \in Int
<1>1. a * b \in Int /\ b * q \in Int /\ a * p \in Int /\ b * q + p \in Int
    OBVIOUS
<1>2. (a * b) * q = a * (b * q)
    OBVIOUS
<1>3. a * (b * q + p) = a * (b * q) + a * p
    OBVIOUS
<1>4. a * (b * q) \in Int
    BY <1>1
<1> QED BY <1>1, <1>2, <1>3, <1>4

\* The remainder by a width survives a reduction modulo a multiple of the width.
LEMMA ModOfMod ==
    ASSUME NEW v \in Int, NEW a \in Nat, a > 0, NEW k \in Nat, k > 0
    PROVE  (v % (a * k)) % a = v % a
<1>1. a * k \in Nat /\ a * k > 0
    OBVIOUS
<1>2. PICK q \in Int, w \in Nat : v = (a * k) * q + w /\ w = v % (a * k)
    BY <1>1, DivMod
<1>3. PICK p \in Int, s \in 0 .. a - 1 : w = a * p + s /\ s = w % a
    BY DivMod
<1>4. v = a * (k * q + p) + s /\ k * q + p \in Int
    <2>1. (a * k) * q + (a * p + s) = a * (k * q + p) + s /\ k * q + p \in Int
        BY Regroup
    <2>2. v = (a * k) * q + (a * p + s)
        BY <1>2, <1>3
    <2> QED BY <2>1, <2>2, Zenon
<1>5. v % a = s
    BY <1>4, DivModUnique
<1> QED BY <1>2, <1>3, <1>5

LEMMA ModShift ==
    ASSUME NEW v \in Int, NEW a \in Nat, a > 0
    PROVE  (a + v) % a = v % a
<1>1. PICK q \in Int, r \in 0 .. a - 1 : v = a * q + r /\ r = v % a
    BY DivMod
<1>2. a + v = a * (q + 1) + r /\ q + 1 \in Int
    BY <1>1
<1> QED BY <1>1, <1>2, DivModUnique

LEMMA DigitsAreBytes ==
    ASSUME NEW u \in Nat, NEW i \in 0 .. 3
    PROVE  Digit(u, i) \in Bytes
<1>1. u \div Byte \in Nat /\ u \div Short \in Nat /\ u \div (Short * Byte) \in Nat
    <2>1. Byte > 0 /\ Short > 0 /\ Short * Byte > 0
        BY Sizes
    <2> QED BY <2>1, Sizes, DivMod
<1>2. \A x \in Nat : x % Byte \in Bytes
    BY Sizes, DivMod DEF Bytes
<1>3. Digit(u, 0) \in Bytes /\ Digit(u, 1) \in Bytes /\ Digit(u, 2) \in Bytes
      /\ Digit(u, 3) \in Bytes
    BY <1>1, <1>2, DigitsAre
<1>4. i = 0 \/ i = 1 \/ i = 2 \/ i = 3
    OBVIOUS
<1> QED BY <1>3, <1>4

\* The two low digits of a number are those of its low short.
LEMMA LowDigits ==
    ASSUME NEW u \in Nat
    PROVE  Digit(u, 0) = Digit(u % Short, 0) /\ Digit(u, 1) = Digit(u % Short, 1)
<1>1. PICK p \in Nat, s \in 0 .. Short - 1 : u = Short * p + s /\ s = u % Short
    BY Sizes, DivMod
<1>2. PICK q \in Nat, r \in 0 .. Byte - 1 :
         s = Byte * q + r /\ q = s \div Byte /\ r = s % Byte
    BY Sizes, DivMod
<1>3. u = Byte * (Byte * p + q) + r /\ Byte * p + q \in Int
    <2>1. (Byte * Byte) * p + (Byte * q + r) = Byte * (Byte * p + q) + r
          /\ Byte * p + q \in Int
        BY Sizes, Regroup
    <2>2. u = (Byte * Byte) * p + (Byte * q + r)
        BY <1>1, <1>2 DEF Short
    <2> QED BY <2>1, <2>2, Zenon
<1>4. Byte \in Nat /\ Byte > 0
    BY Sizes
<1>5. u % Byte = r /\ u \div Byte = Byte * p + q
    BY <1>3, <1>4, DivModUnique
<1>6. (Byte * p + q) % Byte = q % Byte
    <2>1. PICK o \in Nat, c \in 0 .. Byte - 1 : q = Byte * o + c /\ c = q % Byte
        BY <1>4, DivMod
    <2>2. Byte * p + q = Byte * (p + o) + c /\ p + o \in Int
        BY <1>4, <2>1
    <2> QED BY <1>4, <2>1, <2>2, DivModUnique
<1>7. s \in Nat
    BY Sizes
<1>8. /\ Digit(u, 0) = u % Byte /\ Digit(u, 1) = (u \div Byte) % Byte
      /\ Digit(s, 0) = s % Byte /\ Digit(s, 1) = (s \div Byte) % Byte
    BY <1>7, DigitsAre
<1> QED BY <1>1, <1>2, <1>5, <1>6, <1>8, Zenon

\* An accessor of 2 bytes writes the digits of its number modulo the width, whether
\* it is the signed or the unsigned one.
LEMMA Wire16 ==
    ASSUME NEW v \in Int, NEW w \in Nat, w % Short = v % Short, UInt(w) = w
    PROVE  LET s == v % Short IN
           /\ WriteUInt16LE(w) = <<Digit(s, 0), Digit(s, 1)>>
           /\ WriteUInt16BE(w) = <<Digit(s, 1), Digit(s, 0)>>
BY LowDigits DEF WriteUInt16LE, WriteUInt16BE

LEMMA ReverseTwo ==
    ASSUME NEW a, NEW b
    PROVE  Reverse(<<a, b>>) = <<b, a>>
BY DEF Reverse

LEMMA ReverseFour ==
    ASSUME NEW a, NEW b, NEW c, NEW d
    PROVE  Reverse(<<a, b, c, d>>) = <<d, c, b, a>>
BY DEF Reverse

LEMMA Wire32 ==
    ASSUME NEW v \in Int, NEW w \in Nat, w = v % Word, UInt(w) = w
    PROVE  LET s == v % Word IN
           /\ WriteUInt32LE(w) = <<Digit(s, 0), Digit(s, 1), Digit(s, 2), Digit(s, 3)>>
           /\ WriteUInt32BE(w) = <<Digit(s, 3), Digit(s, 2), Digit(s, 1), Digit(s, 0)>>
BY DEF WriteUInt32LE, WriteUInt32BE

\* Whatever an accessor of a short or an int is given, the bytes it writes are those
\* of the number modulo the width, least significant first in LE and last in BE.
LEMMA IntegersOnTheWire ==
    ASSUME NEW v \in Ints
    PROVE  /\ LET s == v % Short IN
              /\ WriteInt16LE(v) = <<Digit(s, 0), Digit(s, 1)>>
              /\ WriteUInt16LE(v) = <<Digit(s, 0), Digit(s, 1)>>
              /\ WriteInt16BE(v) = <<Digit(s, 1), Digit(s, 0)>>
           /\ LET s == v % Word IN
              /\ WriteInt32LE(v) = <<Digit(s, 0), Digit(s, 1), Digit(s, 2), Digit(s, 3)>>
              /\ WriteUInt32LE(v) = <<Digit(s, 0), Digit(s, 1), Digit(s, 2), Digit(s, 3)>>
              /\ WriteInt32BE(v) = <<Digit(s, 3), Digit(s, 2), Digit(s, 1), Digit(s, 0)>>
<1>1. v \in Int /\ Short + v \in Int /\ Word + v \in Int
    BY Sizes, Halves DEF Ints
<1>2. ASSUME NEW x \in Int
      PROVE  /\ UInt(x) \in Nat /\ UInt(UInt(x)) = UInt(x)
             /\ UInt(x) % Short = x % Short /\ UInt(x) = x % Word
    <2>1. UInt(x) \in 0 .. Word - 1
        BY Sizes, DivMod DEF UInt
    <2>2. UInt(UInt(x)) = UInt(x)
        BY <2>1, Unsigned
    <2>3. UInt(x) % Short = x % Short
        BY Sizes, ModOfMod DEF UInt, Word
    <2> QED BY <2>1, <2>2, <2>3 DEF UInt
<1>3. (Short + v) % Short = v % Short /\ (Word + v) % Word = v % Word
    <2>1. Short \in Nat /\ Short > 0 /\ Word \in Nat /\ Word > 0
        BY Sizes
    <2> QED BY <1>1, <2>1, ModShift
<1>4. UValue(v, Short) \in {UInt(v), UInt(Short + v)}
      /\ UValue(v, Word) \in {UInt(v), UInt(Word + v)}
    BY DEF UValue
<1>5. LET w == UValue(v, Short) IN w \in Nat /\ w % Short = v % Short /\ UInt(w) = w
    BY <1>1, <1>2, <1>3, <1>4
<1>6. LET w == UValue(v, Word) IN w \in Nat /\ w = v % Word /\ UInt(w) = w
    BY <1>1, <1>2, <1>3, <1>4
<1>7. /\ LET s == v % Short IN /\ WriteInt16LE(v) = <<Digit(s, 0), Digit(s, 1)>>
                               /\ WriteInt16BE(v) = <<Digit(s, 1), Digit(s, 0)>>
      /\ LET s == v % Word IN
         /\ WriteInt32LE(v) = <<Digit(s, 0), Digit(s, 1), Digit(s, 2), Digit(s, 3)>>
         /\ WriteInt32BE(v) = <<Digit(s, 3), Digit(s, 2), Digit(s, 1), Digit(s, 0)>>
    BY <1>1, <1>5, <1>6, Wire16, Wire32
       DEF WriteInt16LE, WriteInt16BE, WriteInt32LE, WriteInt32BE
<1>8. /\ UInt(v) \in Nat /\ UInt(UInt(v)) = UInt(v)
      /\ UInt(v) % Short = v % Short /\ UInt(v) = v % Word
    BY <1>1, <1>2
<1>9. WriteUInt16LE(v) = WriteUInt16LE(UInt(v)) /\ WriteUInt32LE(v) = WriteUInt32LE(UInt(v))
    BY <1>8 DEF WriteUInt16LE, WriteUInt32LE
<1> QED BY <1>1, <1>7, <1>8, <1>9, Wire16, Wire32

\* What a host writes of a float, a host of either byte order reads.
LEMMA FloatsOnTheWire ==
    ASSUME NEW u \in Nat, NEW here \in Hosts, NEW there \in Hosts
    PROVE  LET s == [i \in 1 .. 4 |-> Digit(u, i - 1)] IN
           /\ memcpy_le(there, WriteFloatLE(here, s)) = InHost(there, s)
           /\ memcpy_be(there, WriteFloatBE(here, s)) = InHost(there, s)
           /\ WriteFloatBE(here, s) = Reverse(WriteFloatLE(there, s))
<1> DEFINE s == [i \in 1 .. 4 |-> Digit(u, i - 1)]
<1>1. s = <<Digit(u, 0), Digit(u, 1), Digit(u, 2), Digit(u, 3)>>
    OBVIOUS
<1> HIDE DEF s
<1>2. Reverse(Reverse(s)) = s
    BY <1>1, ReverseFour
<1>3. WriteFloatLE(here, s) = s /\ WriteFloatLE(there, s) = s /\ WriteFloatBE(here, s) = Reverse(s)
    BY <1>2 DEF Hosts, WriteFloatLE, WriteFloatBE, memcpy_le, memcpy_be, InHost
<1>4. memcpy_le(there, s) = InHost(there, s) /\ memcpy_be(there, Reverse(s)) = InHost(there, s)
    BY <1>2 DEF Hosts, memcpy_le, memcpy_be, InHost
<1> QED BY <1>3, <1>4 DEF s

\* The bytes on the wire are those of the format on every host and for bytes of any
\* size: LE is least significant first, for any number an accessor takes (one out of
\* range is reduced modulo the width), BE is LE backwards, and a peer of the other
\* byte order reads the same float back.
THEOREM OnTheWire == WireOrder
<1>1. ASSUME NEW v \in Ints
      PROVE  /\ \E d \in [1 .. 2 -> Bytes] :
                   /\ d[1] + d[2] * Byte = v % Short
                   /\ WriteInt16LE(v) = d /\ WriteUInt16LE(v) = d
             /\ \E d \in [1 .. 4 -> Bytes] :
                   /\ d[1] + d[2] * Byte + d[3] * Short + d[4] * Short * Byte = v % Word
                   /\ WriteInt32LE(v) = d /\ WriteUInt32LE(v) = d
             /\ WriteInt16BE(v) = Reverse(WriteInt16LE(v))
             /\ WriteInt32BE(v) = Reverse(WriteInt32LE(v))
    <2> DEFINE s == v % Short
               w == v % Word
               two == <<Digit(s, 0), Digit(s, 1)>>
               four == <<Digit(w, 0), Digit(w, 1), Digit(w, 2), Digit(w, 3)>>
    <2>1. s \in 0 .. Short - 1 /\ w \in 0 .. Word - 1 /\ s \in Nat /\ w \in Nat
        <3>1. v \in Int
            BY Halves DEF Ints
        <3> QED BY <3>1, Sizes, DivMod
    <2>2. /\ Digit(s, 0) \in Bytes /\ Digit(s, 1) \in Bytes
          /\ Digit(w, 0) \in Bytes /\ Digit(w, 1) \in Bytes
          /\ Digit(w, 2) \in Bytes /\ Digit(w, 3) \in Bytes
        BY <2>1, DigitsAreBytes
    <2>3. Digit(s, 1) * Byte + Digit(s, 0) = s
        BY <2>1, TwoDigits
    <2>4. Digit(w, 3) * Short * Byte + Digit(w, 2) * Short + Digit(w, 1) * Byte + Digit(w, 0) = w
        BY <2>1, FourDigits
    <2>5. /\ WriteInt16LE(v) = two /\ WriteUInt16LE(v) = two
          /\ WriteInt32LE(v) = four /\ WriteUInt32LE(v) = four
          /\ WriteInt16BE(v) = Reverse(two) /\ WriteInt32BE(v) = Reverse(four)
        BY IntegersOnTheWire, ReverseTwo, ReverseFour
    <2> HIDE DEF s, w
    <2>6. two \in [1 .. 2 -> Bytes] /\ four \in [1 .. 4 -> Bytes]
        BY <2>2
    <2>7. two[1] + two[2] * Byte = s
        BY <2>2, <2>3, Sizes DEF Bytes
    <2>8. four[1] + four[2] * Byte + four[3] * Short + four[4] * Short * Byte = w
        <3>1. /\ Digit(w, 0) \in Int /\ Digit(w, 1) * Byte \in Int
              /\ Digit(w, 2) * Short \in Int /\ Digit(w, 3) * Short * Byte \in Int
            BY <2>2, Sizes DEF Bytes
        <3> QED BY <2>4, <3>1
    <2> HIDE DEF two, four
    <2> QED BY <2>5, <2>6, <2>7, <2>8 DEF s, w
<1>2. 0 .. Word - 1 \subseteq Nat
    BY Sizes
<1> QED BY <1>1, <1>2, FloatsOnTheWire DEF WireOrder

\* Where char is unsigned, readInt8 returns no negative number as it was written:
\* each comes back one byte's values higher (src/buffer.c:188).
THEOREM UnsignedCharLosesSign ==
    ASSUME ~CharSigned, NEW v \in -(Byte \div 2) .. -1
    PROVE  ReadInt8(WriteInt8(v)) = Byte + v /\ ReadInt8(WriteInt8(v)) # v
<1>1. ReadInt8(WriteInt8(v)) = Byte + v
    BY Bytes8 DEF ReadInt8, WriteInt8
<1>2. v \in Int /\ Byte \in Nat /\ Byte >= 2
    BY Halves, Sizes
<1> QED BY <1>1, <1>2
=============================================================================
