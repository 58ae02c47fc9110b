---------------------------- MODULE BinaryFormat ----------------------------
(***************************************************************************)
(* What the five binary formats of json.hpp have in common: JSON values,   *)
(* numbers of 64 bits, and the parts of binary_reader and binary_writer    *)
(* that all formats use.                                                   *)
(*                                                                         *)
(* A 64-bit number, signed or not, is the sequence of its eight bytes with *)
(* the highest first, a double the sequence of the bytes of its bits; so   *)
(* every width is exact.  A count is an ordinary number: no text here has  *)
(* 2^24 elements, and one that claims to ends early.                       *)
(***************************************************************************)
EXTENDS Integers, Sequences

Byte == 0 .. 255

\* content is a sequence for every type: bytes, elements or <<key, value>> pairs
\* in the order of the keys; of a binary <<subtype, bytes>>, the subtype <<>>
\* when there is none.
Json(type, content) == <<type, content>>
TypeOf(j) == j[1]
Content(j) == j[2]
NullValue == Json("null", <<>>)
Boolean(b) == Json("boolean", IF b THEN <<1>> ELSE <<0>>)
Unsigned(n) == Json("unsigned", n)
Integer(n) == Json("integer", n)
Float(d) == Json("float", d)
StringOf(bytes) == Json("string", bytes)
Binary(subtype, bytes) == Json("binary", <<subtype, bytes>>)

-----------------------------------------------------------------------------
(* Numbers.                                                                *)

Zeros(k) == [i \in 1 .. k |-> 0]
ZeroExtended(b) == Zeros(8 - Len(b)) \o b
SignExtended(b) == [i \in 1 .. 8 - Len(b) |-> IF b[1] >= 128 THEN 255 ELSE 0] \o b
Low(n, k) == SubSeq(n, 9 - k, 8)
IsNegative(n) == n[1] >= 128

\* -1 - n
Complement(n) == [i \in 1 .. 8 |-> 255 - n[i]]

Negated(n) ==
    [i \in 1 .. 8 |-> IF \A k \in i + 1 .. 8 : n[k] = 0 THEN (256 - n[i]) % 256 ELSE 255 - n[i]]

\* n is a value of uint8_t, uint16_t or uint32_t; of int8_t, ..., when it is signed.
FitsUnsigned(n, k) == \A i \in 1 .. 8 - k : n[i] = 0
FitsSigned(n, k) == n = SignExtended(Low(n, k))

EightBytes(c) == <<0, 0, 0, 0, (c \div 16777216) % 256, (c \div 65536) % 256, (c \div 256) % 256, c % 256>>
TooMany == 16777216
Count(n) == IF FitsUnsigned(n, 3) THEN n[6] * 65536 + n[7] * 256 + n[8] ELSE TooMany

\* The order of byte strings, and of unsigned numbers.
RECURSIVE BytesLess(_, _)
BytesLess(k, l) ==
    IF k = <<>> \/ l = <<>> THEN k = <<>> /\ l # <<>>
    ELSE k[1] < l[1] \/ (k[1] = l[1] /\ BytesLess(Tail(k), Tail(l)))

\* The length that is not known, and max_size() of an array and of an object:
\* PTRDIFF_MAX by the 16 bytes of an element and the 80 of a node of std::map.
UnknownSize == [i \in 1 .. 8 |-> 255]
MaxArray == <<7>> \o [i \in 1 .. 7 |-> 255]
MaxObject == <<1>> \o [i \in 1 .. 7 |-> 153]

RECURSIVE DecimalText(_), FromDecimal(_)
\* The decimal text of an unsigned number, and the number of a text; <<>> when
\* it does not fit.
DecimalText(n) ==
    LET rest[i \in 0 .. 8] == IF i = 0 THEN 0 ELSE (rest[i - 1] * 256 + n[i]) % 10
        quotient == [i \in 1 .. 8 |-> (rest[i - 1] * 256 + n[i]) \div 10]
    IN (IF quotient = Zeros(8) THEN <<>> ELSE DecimalText(quotient)) \o <<48 + rest[8]>>

FromDecimal(text) ==
    IF text = <<>> THEN Zeros(8)
    ELSE LET n == FromDecimal(SubSeq(text, 1, Len(text) - 1))
             carry[i \in 0 .. 8] ==
                 IF i = 0 THEN text[Len(text)] - 48 ELSE (n[9 - i] * 10 + carry[i - 1]) \div 256
         IN IF n = <<>> \/ carry[8] # 0 THEN <<>>
            ELSE [i \in 1 .. 8 |-> (n[i] * 10 + carry[8 - i]) % 256]

-----------------------------------------------------------------------------
(* Doubles, floats and halves, bit by bit.                                 *)

\* The mantissa of a double: its upper 20 bits and the bytes below.
Assembled(sign, exponent, high, low) ==
    <<sign * 128 + exponent \div 16, (exponent % 16) * 16 + high \div 65536,
      (high \div 256) % 256, high % 256>> \o low

Sign(d) == d[1] \div 128
ExponentOf(d) == (d[1] % 128) * 16 + d[2] \div 16
HighMantissa(d) == (d[2] % 16) * 65536 + d[3] * 256 + d[4]
NoMantissa(d) == HighMantissa(d) = 0 /\ SubSeq(d, 5, 8) = Zeros(4)
IsNaN(d) == ExponentOf(d) = 2047 /\ ~NoMantissa(d)
IsInfinite(d) == ExponentOf(d) = 2047 /\ NoMantissa(d)
IsZero(d) == ExponentOf(d) = 0 /\ NoMantissa(d)

\* The 23 bits of the mantissa that a float has; the highest bit of a number.
FloatMantissa(d) == HighMantissa(d) * 8 + d[5] \div 32
HighestBit(m) == CHOOSE k \in 0 .. 22 : m \in 2 ^ k .. 2 ^ (k + 1) - 1

\* static_cast<float> loses nothing: the exponent is one of a float or of a
\* denormal float, and the bits that are cut off are not used.
Denormals == 874 .. 896
IsFloat(d) ==
    \/ IsZero(d)
    \/ /\ ExponentOf(d) \in Denormals \cup 897 .. 1150
       /\ d[5] % 32 = 0 /\ SubSeq(d, 6, 8) = Zeros(3)
       /\ ExponentOf(d) \in Denormals => FloatMantissa(d) % 2 ^ (897 - ExponentOf(d)) = 0

Narrow(d) ==
    LET e == ExponentOf(d)
        denormal == e \in Denormals
        exponent == IF denormal \/ IsZero(d) THEN 0 ELSE e - 896
        mantissa == IF denormal THEN 2 ^ (e - 874) + FloatMantissa(d) \div 2 ^ (897 - e)
                    ELSE FloatMantissa(d)
    IN <<Sign(d) * 128 + exponent \div 2, (exponent % 2) * 128 + mantissa \div 65536,
         (mantissa \div 256) % 256, mantissa % 256>>

\* A NaN becomes a quiet one.
Widen(f) ==
    LET exponent == (f[1] % 128) * 2 + f[2] \div 128
        m == (f[2] % 128) * 65536 + f[3] * 256 + f[4]
        Double(e, mantissa) ==
            Assembled(f[1] \div 128, e, mantissa \div 8, <<(mantissa % 8) * 32, 0, 0, 0>>)
    IN CASE exponent = 0 /\ m = 0 -> Double(0, 0)
         [] exponent = 0 -> LET top == HighestBit(m) IN Double(top + 874, (m - 2 ^ top) * 2 ^ (23 - top))
         [] exponent = 255 -> Double(2047, IF m \in 1 .. 4194303 THEN m + 4194304 ELSE m)
         [] OTHER -> Double(exponent + 896, m)

\* The decoder of RFC 7049: high is the byte with the sign.
Half(high, low) ==
    LET exponent == (high \div 4) % 32
        m == (high % 4) * 256 + low
        Double(e, mantissa) == Assembled(high \div 128, e, mantissa, Zeros(4))
    IN CASE exponent = 0 /\ m = 0 -> Double(0, 0)
         [] exponent = 0 -> LET top == HighestBit(m) IN Double(top + 999, (m - 2 ^ top) * 2 ^ (20 - top))
         [] exponent = 31 -> Double(2047, IF m = 0 THEN 0 ELSE 524288)
         [] OTHER -> Double(exponent + 1008, m * 1024)

-----------------------------------------------------------------------------
(* Reading.  What a reader returns has a value and the place where the     *)
(* next begins, or the exception that was thrown.                          *)

Eof == -1
ByteAt(in, at) == IF at \in DOMAIN in THEN in[at] ELSE Eof

Read(v, at) == [value |-> v, at |-> at]
Error(id) == [error |-> id]
Failed(r) == "error" \in DOMAIN r
UnexpectedEnd == Error("parse_error.110")
Then(r, Continue(_, _)) == IF Failed(r) THEN r ELSE Continue(r.value, r.at)

\* A number of k bytes, get_string and get_binary.
GetNumber(in, at, k, little) ==
    IF at + k - 1 > Len(in) THEN UnexpectedEnd
    ELSE Read(IF little THEN [i \in 1 .. k |-> in[at + k - i]] ELSE SubSeq(in, at, at + k - 1),
              at + k)

GetString(in, at, count) ==
    IF count > Len(in) - at + 1 THEN UnexpectedEnd
    ELSE Read(SubSeq(in, at, at + count - 1), at + count)

GetBinary(in, at, count) ==
    IF count > Len(in) - at + 1 THEN UnexpectedEnd
    ELSE Read(SubSeq(in, at, at + count - 1), at + count)

\* The members of an object under construction: key() finds the one of this
\* name or puts it in its place, and the value is assigned to it.
WithMember(members, key, v) ==
    LET before == SelectSeq(members, LAMBDA m : BytesLess(m[1], key))
        after == SelectSeq(members, LAMBDA m : BytesLess(key, m[1]))
    IN before \o <<<<key, v>>>> \o after

-----------------------------------------------------------------------------
(* Writing.                                                                *)

Reversed(b) == [i \in 1 .. Len(b) |-> b[Len(b) - i + 1]]

\* The lower k bytes of a number.
WriteNumber(n, k, little) == IF little THEN Reversed(Low(n, k)) ELSE Low(n, k)

\* write_compact_float, with the prefixes of a float and of a double.
WriteCompactFloat(d, short, long) ==
    IF IsFloat(d) THEN <<short>> \o Narrow(d) ELSE <<long>> \o d

\* Joined half by half.
RECURSIVE Concatenated(_)
Concatenated(parts) ==
    LET n == Len(parts) IN
    CASE n = 0 -> <<>>
      [] n = 1 -> parts[1]
      [] OTHER -> Concatenated(SubSeq(parts, 1, n \div 2)) \o Concatenated(SubSeq(parts, n \div 2 + 1, n))
=============================================================================
