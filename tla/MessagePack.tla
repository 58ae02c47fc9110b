---------------------------- MODULE MessagePack ----------------------------
(***************************************************************************)
(* write_msgpack of binary_writer and parse_msgpack_internal of            *)
(* binary_reader.  The first byte of an item is its type, together with a  *)
(* small number or length, or with the width of what follows.              *)
(***************************************************************************)
EXTENDS BinaryFormat

FixMap == 128
FixArray == 144
FixStr == 160
Bin == <<196, 197, 198>>        \* with a length of 8, 16 or 32 bits
Ext == <<199, 200, 201>>
FixExt == <<212, 213, 214, 215, 216>>   \* of 1, 2, 4, 8 or 16 bytes
UInt == <<204, 205, 206, 207>>  \* of 8, 16, 32 or 64 bits
SInt == <<208, 209, 210, 211>>
Str == <<217, 218, 219>>
Array16 == <<220, 221>>
Map16 == <<222, 223>>

-----------------------------------------------------------------------------
(* Writing.                                                                *)

WriteMsgpackUnsigned(n) ==
    CASE FitsUnsigned(n, 1) /\ n[8] < 128 -> <<n[8]>>
      [] FitsUnsigned(n, 1) /\ n[8] >= 128 -> <<UInt[1]>> \o WriteNumber(n, 1, FALSE)
      [] FitsUnsigned(n, 2) /\ ~FitsUnsigned(n, 1) -> <<UInt[2]>> \o WriteNumber(n, 2, FALSE)
      [] FitsUnsigned(n, 4) /\ ~FitsUnsigned(n, 2) -> <<UInt[3]>> \o WriteNumber(n, 4, FALSE)
      [] OTHER -> <<UInt[4]>> \o WriteNumber(n, 8, FALSE)

WriteMsgpackInteger(n) ==
    CASE ~IsNegative(n) -> WriteMsgpackUnsigned(n)
      [] IsNegative(n) /\ FitsSigned(n, 1) ->
             IF n[8] >= 224 THEN <<n[8]>> ELSE <<SInt[1]>> \o WriteNumber(n, 1, FALSE)
      [] FitsSigned(n, 2) /\ ~FitsSigned(n, 1) -> <<SInt[2]>> \o WriteNumber(n, 2, FALSE)
      [] FitsSigned(n, 4) /\ ~FitsSigned(n, 2) -> <<SInt[3]>> \o WriteNumber(n, 4, FALSE)
      [] OTHER -> <<SInt[4]>> \o WriteNumber(n, 8, FALSE)

\* A length that fits into the first byte, into one byte, into two or four.
Length8(types, n) ==
    CASE n <= 255 -> <<types[1], n>>
      [] n \in 256 .. 65535 -> <<types[2]>> \o WriteNumber(EightBytes(n), 2, FALSE)
      [] OTHER -> <<types[3]>> \o WriteNumber(EightBytes(n), 4, FALSE)

Length16(types, n) ==
    IF n <= 65535 THEN <<types[1]>> \o WriteNumber(EightBytes(n), 2, FALSE)
    ELSE <<types[2]>> \o WriteNumber(EightBytes(n), 4, FALSE)

WriteMsgpackString(bytes) ==
    (IF Len(bytes) <= 31 THEN <<FixStr + Len(bytes)>> ELSE Length8(Str, Len(bytes))) \o bytes

\* The subtype is cut to eight bits.
WriteMsgpackBinary(subtype, bytes) ==
    IF subtype = <<>> THEN Length8(Bin, Len(bytes)) \o bytes
    ELSE (IF \E k \in 1 .. 5 : Len(bytes) = 2 ^ (k - 1)
          THEN <<FixExt[CHOOSE k \in 1 .. 5 : Len(bytes) = 2 ^ (k - 1)]>>
          ELSE Length8(Ext, Len(bytes))) \o Low(subtype, 1) \o bytes

RECURSIVE WriteMsgpack(_)
WriteMsgpackArray(elements) ==
    (IF Len(elements) <= 15 THEN <<FixArray + Len(elements)>> ELSE Length16(Array16, Len(elements)))
    \o Concatenated([i \in DOMAIN elements |-> WriteMsgpack(elements[i])])

WriteMsgpackObject(members) ==
    (IF Len(members) <= 15 THEN <<FixMap + Len(members)>> ELSE Length16(Map16, Len(members)))
    \o Concatenated([i \in DOMAIN members |->
                         WriteMsgpackString(members[i][1]) \o WriteMsgpack(members[i][2])])

WriteMsgpack(j) ==
    CASE TypeOf(j) = "null" -> <<192>>
      [] TypeOf(j) = "boolean" -> IF Content(j) = <<1>> THEN <<195>> ELSE <<194>>
      [] TypeOf(j) = "integer" -> WriteMsgpackInteger(Content(j))
      [] TypeOf(j) = "unsigned" -> WriteMsgpackUnsigned(Content(j))
      [] TypeOf(j) = "float" -> WriteCompactFloat(Content(j), 202, 203)
      [] TypeOf(j) = "string" -> WriteMsgpackString(Content(j))
      [] TypeOf(j) = "binary" -> WriteMsgpackBinary(Content(j)[1], Content(j)[2])
      [] TypeOf(j) = "array" -> WriteMsgpackArray(Content(j))
      [] TypeOf(j) = "object" -> WriteMsgpackObject(Content(j))

-----------------------------------------------------------------------------
(* Reading.                                                                *)

\* A number as wide as the k-th type of a list: 1, 2, 4 or 8 bytes.
Wide(in, at, k) == GetNumber(in, at, 2 ^ (k - 1), FALSE)
Kth(types, c) == CHOOSE k \in DOMAIN types : types[k] = c
OneOf(types, c) == \E k \in DOMAIN types : types[k] = c

GetMsgpackString(in, at) ==
    LET c == ByteAt(in, at)
        TakeText(n, next) == GetString(in, next, Count(ZeroExtended(n)))
    IN CASE c = Eof -> UnexpectedEnd
         [] c \in FixStr .. FixStr + 31 -> GetString(in, at + 1, c - FixStr)
         [] OneOf(Str, c) -> Then(Wide(in, at + 1, Kth(Str, c)), TakeText)
         [] OTHER -> Error("parse_error.113")

\* The bytes, with the subtype in front of them or with none.
MsgpackBin(in, at, count) ==
    LET Bytes(b, next) == Read(Binary(<<>>, b), next) IN Then(GetBinary(in, at, count), Bytes)

MsgpackExt(in, at, count) ==
    LET Subtype(t, next) ==
            LET Bytes(b, end) == Read(Binary(ZeroExtended(t), b), end)
            IN Then(GetBinary(in, next, count), Bytes)
    IN Then(GetNumber(in, at, 1, FALSE), Subtype)

GetMsgpackBinary(in, at) ==
    LET c == in[at]
        SizedBin(n, next) == MsgpackBin(in, next, Count(ZeroExtended(n)))
        SizedExt(n, next) == MsgpackExt(in, next, Count(ZeroExtended(n)))
    IN CASE OneOf(Bin, c) -> Then(Wide(in, at + 1, Kth(Bin, c)), SizedBin)
         [] OneOf(Ext, c) -> Then(Wide(in, at + 1, Kth(Ext, c)), SizedExt)
         [] OneOf(FixExt, c) -> MsgpackExt(in, at + 1, 2 ^ (Kth(FixExt, c) - 1))

RECURSIVE ParseMsgpack(_, _), GetMsgpackArray(_, _, _, _), GetMsgpackObject(_, _, _, _)

GetMsgpackArray(in, at, count, read) ==
    LET More(v, next) == GetMsgpackArray(in, next, count - 1, Append(read, v)) IN
    IF count = 0 THEN Read(Json("array", read), at) ELSE Then(ParseMsgpack(in, at), More)

GetMsgpackObject(in, at, count, read) ==
    LET Member(key, place) ==
            LET More(v, next) == GetMsgpackObject(in, next, count - 1, WithMember(read, key, v))
            IN Then(ParseMsgpack(in, place), More)
    IN IF count = 0 THEN Read(Json("object", read), at) ELSE Then(GetMsgpackString(in, at), Member)

ParseMsgpackString(in, at) ==
    LET TakeValue(s, next) == Read(StringOf(s), next) IN Then(GetMsgpackString(in, at), TakeValue)

ParseMsgpackFloat(in, at, wide) ==
    LET TakeValue(b, next) == Read(Float(IF wide THEN b ELSE Widen(b)), next)
    IN Then(GetNumber(in, at + 1, IF wide THEN 8 ELSE 4, FALSE), TakeValue)

ParseMsgpackUnsigned(in, at) ==
    LET TakeValue(b, next) == Read(Unsigned(ZeroExtended(b)), next)
    IN Then(Wide(in, at + 1, Kth(UInt, in[at])), TakeValue)

\* Of any sign: the type stays signed.
ParseMsgpackInteger(in, at) ==
    LET TakeValue(b, next) == Read(Integer(SignExtended(b)), next)
    IN Then(Wide(in, at + 1, Kth(SInt, in[at])), TakeValue)

ParseMsgpackArray(in, at) ==
    LET Sized(n, next) == GetMsgpackArray(in, next, Count(ZeroExtended(n)), <<>>)
    IN Then(Wide(in, at + 1, 1 + Kth(Array16, in[at])), Sized)

ParseMsgpackObject(in, at) ==
    LET Sized(n, next) == GetMsgpackObject(in, next, Count(ZeroExtended(n)), <<>>)
    IN Then(Wide(in, at + 1, 1 + Kth(Map16, in[at])), Sized)

ParseMsgpack(in, at) ==
    LET c == ByteAt(in, at) IN
    CASE c = Eof -> UnexpectedEnd
      [] c \in 0 .. 127 -> Read(Unsigned(ZeroExtended(<<c>>)), at + 1)
      [] c \in FixMap .. FixMap + 15 -> GetMsgpackObject(in, at + 1, c - FixMap, <<>>)
      [] c \in FixArray .. FixArray + 15 -> GetMsgpackArray(in, at + 1, c - FixArray, <<>>)
      [] c \in FixStr .. FixStr + 31 \/ OneOf(Str, c) -> ParseMsgpackString(in, at)
      [] c = 192 -> Read(NullValue, at + 1)
      [] c = 194 -> Read(Boolean(FALSE), at + 1)
      [] c = 195 -> Read(Boolean(TRUE), at + 1)
      [] OneOf(Bin, c) \/ OneOf(Ext, c) \/ OneOf(FixExt, c) -> GetMsgpackBinary(in, at)
      [] c \in {202, 203} -> ParseMsgpackFloat(in, at, c = 203)
      [] OneOf(UInt, c) -> ParseMsgpackUnsigned(in, at)
      [] OneOf(SInt, c) -> ParseMsgpackInteger(in, at)
      [] OneOf(Array16, c) -> ParseMsgpackArray(in, at)
      [] OneOf(Map16, c) -> ParseMsgpackObject(in, at)
      [] c \in 224 .. 255 -> Read(Integer(SignExtended(<<c>>)), at + 1)
      [] OTHER -> Error("parse_error.112")
=============================================================================
