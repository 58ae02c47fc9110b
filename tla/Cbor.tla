-------------------------------- MODULE Cbor --------------------------------
(***************************************************************************)
(* write_cbor of binary_writer and parse_cbor_internal of binary_reader.   *)
(* An item begins with a byte: its type in the upper three bits, and in    *)
(* the lower five a small number or the width of the number that follows.  *)
(***************************************************************************)
EXTENDS BinaryFormat

\* cbor_tag_handler_t: what the reader does with tags.
TagHandler == {"error", "ignore", "store"}

CborUInt == 0
CborNegative == 32
CborBytes == 64
CborText == 96
CborArray == 128
CborMap == 160
CborTag == 192
CborBreak == 255

-----------------------------------------------------------------------------
(* Writing.                                                                *)

\* A bug to catch: 24 in the first byte, which says that a byte follows.
CborHeadShort(type, n) ==
    CASE FitsUnsigned(n, 1) -> IF n[8] <= 24 THEN <<type + n[8]>> ELSE <<type + 24>> \o WriteNumber(n, 1, FALSE)
      [] FitsUnsigned(n, 2) /\ ~FitsUnsigned(n, 1) -> <<type + 25>> \o WriteNumber(n, 2, FALSE)
      [] FitsUnsigned(n, 4) /\ ~FitsUnsigned(n, 2) -> <<type + 26>> \o WriteNumber(n, 4, FALSE)
      [] OTHER -> <<type + 27>> \o WriteNumber(n, 8, FALSE)

CborHead(type, n) ==
    CASE FitsUnsigned(n, 1) /\ n[8] <= 23 -> <<type + n[8]>>
      [] FitsUnsigned(n, 1) /\ n[8] > 23 -> <<type + 24>> \o WriteNumber(n, 1, FALSE)
      [] FitsUnsigned(n, 2) /\ ~FitsUnsigned(n, 1) -> <<type + 25>> \o WriteNumber(n, 2, FALSE)
      [] FitsUnsigned(n, 4) /\ ~FitsUnsigned(n, 2) -> <<type + 26>> \o WriteNumber(n, 4, FALSE)
      [] OTHER -> <<type + 27>> \o WriteNumber(n, 8, FALSE)

CborSize(type, data) == CborHead(type, EightBytes(Len(data)))

WriteCborInteger(n) ==
    IF IsNegative(n) THEN CborHead(CborNegative, Complement(n)) ELSE CborHead(CborUInt, n)

WriteCborUnsigned(n) == CborHead(CborUInt, n)

WriteCborFloat(d) ==
    CASE IsNaN(d) -> <<249, 126, 0>>
      [] IsInfinite(d) -> <<249, IF Sign(d) = 0 THEN 124 ELSE 252, 0>>
      [] OTHER -> WriteCompactFloat(d, 250, 251)

WriteCborString(bytes) == CborSize(CborText, bytes) \o bytes

\* The subtype as a tag of its own width.
WriteCborBinary(subtype, bytes) ==
    (IF subtype = <<>> THEN <<>>
     ELSE CASE FitsUnsigned(subtype, 1) -> <<216>> \o WriteNumber(subtype, 1, FALSE)
            [] FitsUnsigned(subtype, 2) /\ ~FitsUnsigned(subtype, 1) ->
                   <<217>> \o WriteNumber(subtype, 2, FALSE)
            [] FitsUnsigned(subtype, 4) /\ ~FitsUnsigned(subtype, 2) ->
                   <<218>> \o WriteNumber(subtype, 4, FALSE)
            [] OTHER -> <<219>> \o WriteNumber(subtype, 8, FALSE))
    \o CborSize(CborBytes, bytes) \o bytes

RECURSIVE WriteCbor(_)
WriteCborArray(elements) ==
    CborSize(CborArray, elements) \o Concatenated([i \in DOMAIN elements |-> WriteCbor(elements[i])])

WriteCborObject(members) ==
    CborSize(CborMap, members)
    \o Concatenated([i \in DOMAIN members |-> WriteCborString(members[i][1]) \o WriteCbor(members[i][2])])

WriteCbor(j) ==
    CASE TypeOf(j) = "null" -> <<246>>
      [] TypeOf(j) = "boolean" -> IF Content(j) = <<1>> THEN <<245>> ELSE <<244>>
      [] TypeOf(j) = "integer" -> WriteCborInteger(Content(j))
      [] TypeOf(j) = "unsigned" -> WriteCborUnsigned(Content(j))
      [] TypeOf(j) = "float" -> WriteCborFloat(Content(j))
      [] TypeOf(j) = "string" -> WriteCborString(Content(j))
      [] TypeOf(j) = "binary" -> WriteCborBinary(Content(j)[1], Content(j)[2])
      [] TypeOf(j) = "array" -> WriteCborArray(Content(j))
      [] TypeOf(j) = "object" -> WriteCborObject(Content(j))

-----------------------------------------------------------------------------
(* Reading.  at is the position of the first byte of an item.              *)

MajorType(c) == (c \div 32) * 32
Additional(c) == c % 32

\* The number in or behind the first byte, as eight bytes.
CborNumber(in, at) ==
    LET extra == Additional(in[at])
        Extended(b, next) == Read(ZeroExtended(b), next)
    IN IF extra <= 23 THEN Read(EightBytes(extra), at + 1)
       ELSE Then(GetNumber(in, at + 1, 2 ^ (extra - 24), FALSE), Extended)

ParseCborUnsigned(in, at) ==
    LET TakeValue(n, next) == Read(Unsigned(n), next) IN Then(CborNumber(in, at), TakeValue)

\* static_cast<number_integer_t>(-1) - number, in 64 bits
ParseCborNegative(in, at) ==
    LET TakeValue(n, next) == Read(Integer(Complement(n)), next) IN Then(CborNumber(in, at), TakeValue)

\* get_cbor_string: a text, or any number of them up to a break.
RECURSIVE GetCborString(_, _), GetCborChunks(_, _, _)
GetCborString(in, at) ==
    LET c == ByteAt(in, at)
        TakeText(n, next) == GetString(in, next, Count(n))
    IN CASE c = Eof -> UnexpectedEnd
         [] c \in CborText .. CborText + 27 -> Then(CborNumber(in, at), TakeText)
         [] c = CborText + 31 -> GetCborChunks(in, at + 1, <<>>)
         [] OTHER -> Error("parse_error.113")

GetCborChunks(in, at, read) ==
    LET More(chunk, next) == GetCborChunks(in, next, read \o chunk) IN
    IF ByteAt(in, at) = CborBreak THEN Read(read, at + 1) ELSE Then(GetCborString(in, at), More)

\* get_cbor_binary.
RECURSIVE GetCborBinary(_, _), GetCborBinaryChunks(_, _, _)
GetCborBinary(in, at) ==
    LET c == ByteAt(in, at)
        Bytes(n, next) == GetBinary(in, next, Count(n))
    IN CASE c = Eof -> UnexpectedEnd
         [] c \in CborBytes .. CborBytes + 27 -> Then(CborNumber(in, at), Bytes)
         [] c = CborBytes + 31 -> GetCborBinaryChunks(in, at + 1, <<>>)
         [] OTHER -> Error("parse_error.113")

GetCborBinaryChunks(in, at, read) ==
    LET More(chunk, next) == GetCborBinaryChunks(in, next, read \o chunk) IN
    IF ByteAt(in, at) = CborBreak THEN Read(read, at + 1) ELSE Then(GetCborBinary(in, at), More)

ParseCborString(in, at) ==
    LET TakeValue(s, next) == Read(StringOf(s), next) IN Then(GetCborString(in, at), TakeValue)

ParseCborBinary(in, at, subtype) ==
    LET TakeValue(b, next) == Read(Binary(subtype, b), next) IN Then(GetCborBinary(in, at), TakeValue)

RECURSIVE ParseCbor(_, _, _), CborElements(_, _, _, _, _), CborMembers(_, _, _, _, _)

\* The rest of a container: count elements, or those up to a break when count
\* is -1.  A break takes the place of an element, never that of a value.
CborElements(in, at, count, read, tag_handler) ==
    LET More(v, next) == CborElements(in, next, IF count = -1 THEN -1 ELSE count - 1,
                                       Append(read, v), tag_handler) IN
    CASE count = 0 -> Read(Json("array", read), at)
      [] count = -1 /\ ByteAt(in, at) = CborBreak -> Read(Json("array", read), at + 1)
      [] OTHER -> Then(ParseCbor(in, at, tag_handler), More)

CborMembers(in, at, count, read, tag_handler) ==
    LET Member(key, place) ==
            LET More(v, next) == CborMembers(in, next, IF count = -1 THEN -1 ELSE count - 1,
                                             WithMember(read, key, v), tag_handler)
            IN Then(ParseCbor(in, place, tag_handler), More)
    IN CASE count = 0 -> Read(Json("object", read), at)
         [] count = -1 /\ ByteAt(in, at) = CborBreak -> Read(Json("object", read), at + 1)
         [] OTHER -> Then(GetCborString(in, at), Member)

\* The count of a container; the largest number says that it is not known.
CborContainer(in, at, most, Rest(_, _, _)) ==
    LET Counted(n, next) ==
            CASE n = UnknownSize -> Rest(in, next, -1)
              [] n # UnknownSize /\ BytesLess(most, n) -> Error("out_of_range.408")
              [] OTHER -> Rest(in, next, Count(n))
    IN IF Additional(in[at]) = 31 THEN Rest(in, at + 1, -1) ELSE Then(CborNumber(in, at), Counted)

ParseCborArray(in, at, tag_handler) ==
    LET Elements(text, next, count) == CborElements(text, next, count, <<>>, tag_handler) IN
    CborContainer(in, at, MaxArray, Elements)

ParseCborObject(in, at, tag_handler) ==
    LET Members(text, next, count) == CborMembers(text, next, count, <<>>, tag_handler) IN
    CborContainer(in, at, MaxObject, Members)

\* A tag is an error, is passed over, or is the subtype of a binary.
ParseCborTag(in, at, tag_handler) ==
    LET wide == Additional(in[at]) >= 24
        Skip(n, next) == ParseCbor(in, next, tag_handler)
        Store(n, next) == ParseCborBinary(in, next, n)
    IN CASE tag_handler = "error" -> Error("parse_error.112")
         [] tag_handler = "ignore" -> Then(CborNumber(in, at), Skip)
         [] OTHER -> IF wide THEN Then(CborNumber(in, at), Store) ELSE ParseCbor(in, at + 1, tag_handler)

ParseCborHalf(in, at) ==
    LET TakeValue(b, next) == Read(Float(Half(b[1], b[2])), next) IN
    Then(GetNumber(in, at + 1, 2, FALSE), TakeValue)

ParseCborSingle(in, at) ==
    LET TakeValue(b, next) == Read(Float(Widen(b)), next) IN Then(GetNumber(in, at + 1, 4, FALSE), TakeValue)

ParseCborDouble(in, at) ==
    LET TakeValue(b, next) == Read(Float(b), next) IN Then(GetNumber(in, at + 1, 8, FALSE), TakeValue)

ParseCbor(in, at, tag_handler) ==
    LET c == ByteAt(in, at)
        sized == c % 32 \in 0 .. 27
        open == c % 32 = 31
        type == MajorType(c)
    IN CASE c = Eof -> UnexpectedEnd
         [] c # Eof /\ type = CborUInt /\ sized -> ParseCborUnsigned(in, at)
         [] c # Eof /\ type = CborNegative /\ sized -> ParseCborNegative(in, at)
         [] c # Eof /\ type = CborBytes /\ (sized \/ open) -> ParseCborBinary(in, at, <<>>)
         [] c # Eof /\ type = CborText /\ (sized \/ open) -> ParseCborString(in, at)
         [] c # Eof /\ type = CborArray /\ (sized \/ open) -> ParseCborArray(in, at, tag_handler)
         [] c # Eof /\ type = CborMap /\ (sized \/ open) -> ParseCborObject(in, at, tag_handler)
         [] c \in 198 .. 212 \cup 216 .. 219 -> ParseCborTag(in, at, tag_handler)
         [] c = 244 -> Read(Boolean(FALSE), at + 1)
         [] c = 245 -> Read(Boolean(TRUE), at + 1)
         [] c = 246 -> Read(NullValue, at + 1)
         [] c = 249 -> ParseCborHalf(in, at)
         [] c = 250 -> ParseCborSingle(in, at)
         [] c = 251 -> ParseCborDouble(in, at)
         [] OTHER -> Error("parse_error.112")
=============================================================================
