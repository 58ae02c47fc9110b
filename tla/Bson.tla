-------------------------------- MODULE Bson --------------------------------
(***************************************************************************)
(* write_bson of binary_writer and parse_bson_internal of binary_reader.   *)
(* A document is its size, its elements (type, name, value) and a zero;    *)
(* the writer computes the sizes before it writes, the reader passes over  *)
(* them.                                                                   *)
(***************************************************************************)
EXTENDS BinaryFormat

BsonDouble == 1
BsonString == 2
BsonObject == 3
BsonArray == 4
BsonBinary == 5
BsonBoolean == 8
BsonNull == 10
BsonInt32 == 16
BsonUInt64 == 17
BsonInt64 == 18

\* std::to_string of a position, from 0.
IndexName(i) == DecimalText(EightBytes(i - 1))

RECURSIVE Total(_)
Total(sizes) == IF sizes = <<>> THEN 0 ELSE Head(sizes) + Total(Tail(sizes))

-----------------------------------------------------------------------------
(* The sizes.                                                              *)

CalcBsonEntryHeaderSize(name) == 1 + Len(name) + 1
CalcBsonStringSize(bytes) == 4 + Len(bytes) + 1
CalcBsonIntegerSize(n) == IF FitsSigned(n, 4) THEN 4 ELSE 8
CalcBsonUnsignedSize(n) == IF FitsSigned(n, 4) /\ ~IsNegative(n) THEN 4 ELSE 8
CalcBsonBinarySize(bytes) == 4 + Len(bytes) + 1

RECURSIVE CalcBsonElementSize(_, _)
CalcBsonArraySize(elements) ==
    4 + Total([i \in DOMAIN elements |-> CalcBsonElementSize(IndexName(i), elements[i])]) + 1

\* A bug to catch: the size of an object without the zero at its end.
CalcBsonObjectSizeShort(members) ==
    4 + Total([i \in DOMAIN members |-> CalcBsonElementSize(members[i][1], members[i][2])])

CalcBsonObjectSize(members) ==
    4 + Total([i \in DOMAIN members |-> CalcBsonElementSize(members[i][1], members[i][2])]) + 1

CalcBsonElementSize(name, j) ==
    CalcBsonEntryHeaderSize(name) +
    CASE TypeOf(j) = "object" -> CalcBsonObjectSize(Content(j))
      [] TypeOf(j) = "array" -> CalcBsonArraySize(Content(j))
      [] TypeOf(j) = "binary" -> CalcBsonBinarySize(Content(j)[2])
      [] TypeOf(j) = "boolean" -> 1
      [] TypeOf(j) = "float" -> 8
      [] TypeOf(j) = "integer" -> CalcBsonIntegerSize(Content(j))
      [] TypeOf(j) = "unsigned" -> CalcBsonUnsignedSize(Content(j))
      [] TypeOf(j) = "string" -> CalcBsonStringSize(Content(j))
      [] TypeOf(j) = "null" -> 0

-----------------------------------------------------------------------------
(* Writing.                                                                *)

WriteBsonEntryHeader(name, type) == <<type>> \o name \o <<0>>
Int32(n) == WriteNumber(EightBytes(n), 4, TRUE)

WriteBsonBoolean(name, b) == WriteBsonEntryHeader(name, BsonBoolean) \o b
WriteBsonDouble(name, d) == WriteBsonEntryHeader(name, BsonDouble) \o WriteNumber(d, 8, TRUE)
WriteBsonNull(name) == WriteBsonEntryHeader(name, BsonNull)

WriteBsonString(name, bytes) ==
    WriteBsonEntryHeader(name, BsonString) \o Int32(Len(bytes) + 1) \o bytes \o <<0>>

WriteBsonInteger(name, n) ==
    IF FitsSigned(n, 4) THEN WriteBsonEntryHeader(name, BsonInt32) \o WriteNumber(n, 4, TRUE)
    ELSE WriteBsonEntryHeader(name, BsonInt64) \o WriteNumber(n, 8, TRUE)

WriteBsonUnsigned(name, n) ==
    CASE IsNegative(n) -> WriteBsonEntryHeader(name, BsonUInt64) \o WriteNumber(n, 8, TRUE)
      [] ~IsNegative(n) /\ FitsSigned(n, 4) ->
             WriteBsonEntryHeader(name, BsonInt32) \o WriteNumber(n, 4, TRUE)
      [] OTHER -> WriteBsonEntryHeader(name, BsonInt64) \o WriteNumber(n, 8, TRUE)

\* The subtype is cut to eight bits, and 0 when there is none.
WriteBsonBinary(name, subtype, bytes) ==
    WriteBsonEntryHeader(name, BsonBinary) \o Int32(Len(bytes))
    \o (IF subtype = <<>> THEN <<0>> ELSE Low(subtype, 1)) \o bytes

RECURSIVE WriteBsonElement(_, _)
WriteBsonArray(name, elements) ==
    WriteBsonEntryHeader(name, BsonArray) \o Int32(CalcBsonArraySize(elements))
    \o Concatenated([i \in DOMAIN elements |-> WriteBsonElement(IndexName(i), elements[i])]) \o <<0>>

WriteBsonObject(members) ==
    Int32(CalcBsonObjectSize(members))
    \o Concatenated([i \in DOMAIN members |-> WriteBsonElement(members[i][1], members[i][2])]) \o <<0>>

WriteBsonObjectEntry(name, members) ==
    WriteBsonEntryHeader(name, BsonObject) \o WriteBsonObject(members)

WriteBsonElement(name, j) ==
    CASE TypeOf(j) = "object" -> WriteBsonObjectEntry(name, Content(j))
      [] TypeOf(j) = "array" -> WriteBsonArray(name, Content(j))
      [] TypeOf(j) = "binary" -> WriteBsonBinary(name, Content(j)[1], Content(j)[2])
      [] TypeOf(j) = "boolean" -> WriteBsonBoolean(name, Content(j))
      [] TypeOf(j) = "float" -> WriteBsonDouble(name, Content(j))
      [] TypeOf(j) = "integer" -> WriteBsonInteger(name, Content(j))
      [] TypeOf(j) = "unsigned" -> WriteBsonUnsigned(name, Content(j))
      [] TypeOf(j) = "string" -> WriteBsonString(name, Content(j))
      [] TypeOf(j) = "null" -> WriteBsonNull(name)

-----------------------------------------------------------------------------
(* Reading.                                                                *)

\* get_bson_cstr: up to the next zero, which is passed over.
RECURSIVE GetBsonCstr(_, _, _)
GetBsonCstr(in, at, read) ==
    LET c == ByteAt(in, at) IN
    CASE c = Eof -> UnexpectedEnd
      [] c = 0 -> Read(read, at + 1)
      [] OTHER -> GetBsonCstr(in, at + 1, Append(read, c))

\* get_bson_string: the byte behind the text may be any, but not the end, which
\* is no parse error: from_bson then returns a discarded value.
Discarded == Error("discarded")
GetBsonString(in, at) ==
    LET TakeText(n, next) ==
            LET Terminated(bytes, end) ==
                    IF ByteAt(in, end) = Eof THEN Discarded ELSE Read(StringOf(bytes), end + 1)
            IN IF n[1] >= 128 \/ n = Zeros(4) THEN Error("parse_error.112")
               ELSE Then(GetString(in, next, Count(ZeroExtended(n)) - 1), Terminated)
    IN Then(GetNumber(in, at, 4, TRUE), TakeText)

GetBsonBinary(in, at) ==
    LET Sized(n, next) ==
            LET Subtype(t, place) ==
                    LET Bytes(b, end) == Read(Binary(ZeroExtended(t), b), end)
                    IN Then(GetBinary(in, place, Count(ZeroExtended(n))), Bytes)
            IN IF n[1] >= 128 THEN Error("parse_error.112") ELSE Then(GetNumber(in, next, 1, TRUE), Subtype)
    IN Then(GetNumber(in, at, 4, TRUE), Sized)

\* At the end of the input a boolean is true.
GetBsonBoolean(in, at) == Read(Boolean(ByteAt(in, at) # 0), at + 1)

GetBsonNumber(in, at, type) ==
    LET TakeValue(b, next) ==
            Read(CASE type = BsonDouble -> Float(b) [] type = BsonUInt64 -> Unsigned(b)
                   [] OTHER -> Integer(SignExtended(b)), next)
    IN Then(GetNumber(in, at, IF type = BsonInt32 THEN 4 ELSE 8, TRUE), TakeValue)

RECURSIVE ParseBsonElement(_, _, _), ParseBsonElementList(_, _, _, _)

\* The elements up to a type of 0; the names of those of an array do not matter.
ParseBsonElementList(in, at, is_array, read) ==
    LET type == ByteAt(in, at)
        Element(name, place) ==
            LET More(v, next) ==
                    ParseBsonElementList(in, next, is_array,
                        IF is_array THEN Append(read, v) ELSE WithMember(read, name, v))
            IN Then(ParseBsonElement(in, place, type), More)
    IN CASE type = 0 -> Read(Json(IF is_array THEN "array" ELSE "object", read), at + 1)
         [] type = Eof -> UnexpectedEnd
         [] OTHER -> Then(GetBsonCstr(in, at + 1, <<>>), Element)

\* parse_bson_internal and parse_bson_array.
ParseBsonDocument(in, at, is_array) ==
    LET Sized(n, next) == ParseBsonElementList(in, next, is_array, <<>>)
    IN Then(GetNumber(in, at, 4, TRUE), Sized)

ParseBsonElement(in, at, type) ==
    CASE type \in {BsonDouble, BsonInt32, BsonInt64, BsonUInt64} -> GetBsonNumber(in, at, type)
      [] type = BsonString -> GetBsonString(in, at)
      [] type = BsonObject -> ParseBsonDocument(in, at, FALSE)
      [] type = BsonArray -> ParseBsonDocument(in, at, TRUE)
      [] type = BsonBinary -> GetBsonBinary(in, at)
      [] type = BsonBoolean -> GetBsonBoolean(in, at)
      [] type = BsonNull -> Read(NullValue, at)
      [] OTHER -> Error("parse_error.114")
=============================================================================
