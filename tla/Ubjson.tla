------------------------------- MODULE Ubjson -------------------------------
(***************************************************************************)
(* write_ubjson of binary_writer and parse_ubjson_internal of              *)
(* binary_reader, for UBJSON and for BJData.  A value is a marker and what *)
(* belongs to it; in front of the elements of a container may be their     *)
(* number (#), and their common type ($) instead of a marker each.  BJData *)
(* has more number types, binaries, and arrays of several dimensions.      *)
(*                                                                         *)
(* The reader keeps the last byte it fetched, current, which a number that *)
(* follows does not change: it is an argument here where that matters.     *)
(***************************************************************************)
EXTENDS BinaryFormat, JsonLexer

\* The markers are letters.
Marker == [Null |-> 90, True |-> 84, False |-> 70, Noop |-> 78, Char |-> 67, String |-> 83,
           High |-> 72, Byte |-> 66, Half |-> 104, Single |-> 100, Double |-> 68,
           Array |-> 91, ArrayEnd |-> 93, Object |-> 123, ObjectEnd |-> 125,
           Type |-> 36, Count |-> 35,
           int8 |-> 105, uint8 |-> 85, int16 |-> 73, uint16 |-> 117,
           int32 |-> 108, uint32 |-> 109, int64 |-> 76, uint64 |-> 77]

\* The integers, in the order the writer tries them.
IntegerMarkers(bjdata) ==
    IF bjdata THEN <<Marker.int8, Marker.uint8, Marker.int16, Marker.uint16,
                     Marker.int32, Marker.uint32, Marker.int64, Marker.uint64>>
    ELSE <<Marker.int8, Marker.uint8, Marker.int16, Marker.int32, Marker.int64>>

IsIntegerMarker(c, bjdata) == \E k \in DOMAIN IntegerMarkers(bjdata) : IntegerMarkers(bjdata)[k] = c
IsSigned(c) == c \in {Marker.int8, Marker.int16, Marker.int32, Marker.int64}
Width(c) ==
    CASE c \in {Marker.int8, Marker.uint8} -> 1 [] c \in {Marker.int16, Marker.uint16} -> 2
      [] c \in {Marker.int32, Marker.uint32} -> 4 [] OTHER -> 8

\* bjd_optimized_type_markers: no $ in front of these in BJData.
NotOptimized == {Marker.False, Marker.High, Marker.Noop, Marker.String, Marker.True, Marker.Null,
                 Marker.Array, Marker.Object}

\* The keys and the names of the types of an ndarray in JData; the keys in
\* their order, a name by the marker it stands for.
ArrayData == <<95, 68>>
ArraySize == <<95, 83>>
ArrayType == <<95, 84>>
NamedTypes == {Marker.Byte, Marker.Char, Marker.Double, Marker.Single} \cup
              {IntegerMarkers(TRUE)[k] : k \in 1 .. 8}
TypeName(c) == <<c>>

\* A product in 64 bits.
RECURSIVE Times(_, _)
Times(n, m) ==
    LET carry[i \in 0 .. 8] ==
            IF i = 0 THEN 0 ELSE (n[9 - i] * m[8] + carry[i - 1]) \div 256
        low == [i \in 1 .. 8 |-> (n[i] * m[8] + carry[8 - i]) % 256]
        rest == Times(SubSeq(n, 2, 8) \o <<0>>, <<0>> \o SubSeq(m, 1, 7))
        sum[i \in 0 .. 8] == IF i = 0 THEN 0 ELSE (low[9 - i] + rest[9 - i] + sum[i - 1]) \div 256
    IN IF m = Zeros(8) THEN Zeros(8)
       ELSE [i \in 1 .. 8 |-> (low[i] + rest[i] + sum[8 - i]) % 256]

\* The products of the first dimensions.
RECURSIVE Products(_, _)
Products(dim, so_far) ==
    IF dim = <<>> THEN <<>>
    ELSE LET next == Times(so_far, Head(dim)) IN <<next>> \o Products(Tail(dim), next)

-----------------------------------------------------------------------------
(* Writing.  f has use_count, use_type, bjdata and draft3.                 *)

\* A number j has the type of marker c.
HasType(j, c) ==
    IF IsSigned(c)
    THEN FitsSigned(Content(j), Width(c)) /\ (TypeOf(j) = "integer" \/ ~IsNegative(Content(j)))
    ELSE FitsUnsigned(Content(j), Width(c))

IntegerPrefix(j, bjdata) ==
    LET markers == IntegerMarkers(bjdata)
        fitting == {k \in DOMAIN markers : HasType(j, markers[k])}
    IN IF fitting = {} THEN Marker.High
       ELSE markers[CHOOSE k \in fitting : \A l \in fitting : k <= l]

UbjsonPrefix(j, bjdata) ==
    CASE TypeOf(j) = "null" -> Marker.Null
      [] TypeOf(j) = "boolean" -> IF Content(j) = <<1>> THEN Marker.True ELSE Marker.False
      [] TypeOf(j) \in {"integer", "unsigned"} -> IntegerPrefix(j, bjdata)
      [] TypeOf(j) = "float" -> Marker.Double
      [] TypeOf(j) = "string" -> Marker.String
      [] TypeOf(j) \in {"array", "binary"} -> Marker.Array
      [] TypeOf(j) = "object" -> Marker.Object

Prefixed(add_prefix, marker, bytes) == (IF add_prefix THEN <<marker>> ELSE <<>>) \o bytes

RECURSIVE WriteUbjsonInteger(_, _, _)
WriteUbjsonSize(n, bjdata) == WriteUbjsonInteger(Unsigned(EightBytes(n)), TRUE, bjdata)

\* A number that fits no type is written as a text.
WriteUbjsonInteger(j, add_prefix, bjdata) ==
    LET prefix == IntegerPrefix(j, bjdata)
        text == DecimalText(Content(j))
    IN Prefixed(add_prefix, prefix,
                IF prefix = Marker.High THEN WriteUbjsonSize(Len(text), bjdata) \o text
                ELSE WriteNumber(Content(j), Width(prefix), bjdata))

WriteUbjsonFloat(d, add_prefix, bjdata) ==
    Prefixed(add_prefix, Marker.Double, WriteNumber(d, 8, bjdata))

WriteUbjsonString(bytes, add_prefix, bjdata) ==
    Prefixed(add_prefix, Marker.String, WriteUbjsonSize(Len(bytes), bjdata) \o bytes)

\* use_type: the values have one marker, which is written once.
SameMarker(values, f) ==
    /\ f.use_type /\ values # <<>>
    /\ \A i \in DOMAIN values : UbjsonPrefix(values[i], f.bjdata) = UbjsonPrefix(values[1], f.bjdata)
    /\ f.bjdata => UbjsonPrefix(values[1], f.bjdata) \notin NotOptimized

Opening(values, f) ==
    (IF SameMarker(values, f) THEN <<Marker.Type, UbjsonPrefix(values[1], f.bjdata)>> ELSE <<>>)
    \o (IF f.use_count THEN <<Marker.Count>> \o WriteUbjsonSize(Len(values), f.bjdata) ELSE <<>>)

Ending(marker, f) == IF f.use_count THEN <<>> ELSE <<marker>>

WriteUbjsonBinary(bytes, add_prefix, f) ==
    LET marker == IF f.bjdata /\ f.draft3 THEN Marker.Byte ELSE Marker.uint8
        typed == f.use_type /\ (bytes # <<>> \/ marker = Marker.Byte)
    IN Prefixed(add_prefix, Marker.Array,
           (IF typed THEN <<Marker.Type, marker>> ELSE <<>>)
           \o (IF f.use_count THEN <<Marker.Count>> \o WriteUbjsonSize(Len(bytes), f.bjdata) ELSE <<>>)
           \o (IF f.use_type THEN bytes ELSE Concatenated([i \in DOMAIN bytes |-> <<marker, bytes[i]>>]))
           \o Ending(Marker.ArrayEnd, f))

MemberValues(members) == [i \in DOMAIN members |-> members[i][2]]
MemberAt(members, key) == members[CHOOSE i \in DOMAIN members : members[i][1] = key][2]

\* What a range-based for runs through.
ElementsOf(j) ==
    CASE TypeOf(j) = "array" -> Content(j) [] TypeOf(j) = "object" -> MemberValues(Content(j))
      [] TypeOf(j) = "null" -> <<>> [] OTHER -> <<j>>

IsNdarray(j) ==
    /\ TypeOf(j) = "object"
    /\ {Content(j)[i][1] : i \in DOMAIN Content(j)} = {ArrayType, ArraySize, ArrayData}

\* The number of elements in an ndarray: the product of its sizes, read as
\* unsigned numbers whatever they are.
NdarrayLength(members) ==
    LET size == ElementsOf(MemberAt(members, ArraySize))
        products == Products([i \in DOMAIN size |-> Content(size[i])], EightBytes(1))
    IN IF size = <<>> THEN EightBytes(0) ELSE products[Len(size)]

\* write_bjdata_ndarray writes it, and does not return true.
IsWritten(members) ==
    /\ Content(MemberAt(members, ArrayType)) \in {TypeName(c) : c \in NamedTypes}
    /\ EightBytes(Len(ElementsOf(MemberAt(members, ArrayData)))) = NdarrayLength(members)

\* The bytes of a number are taken for one of the type, whatever it is.
NdarrayElement(c, j) ==
    CASE c = Marker.Single -> Reversed(Narrow(Content(j)))
      [] c \in {Marker.Char, Marker.Byte} -> WriteNumber(Content(j), 1, TRUE)
      [] OTHER -> WriteNumber(Content(j), Width(c), TRUE)

RECURSIVE WriteUbjson(_, _, _)
WriteNdarray(members, f) ==
    LET c == Content(MemberAt(members, ArrayType))[1]
        elements == ElementsOf(MemberAt(members, ArrayData))
    IN <<Marker.Array, Marker.Type, c, Marker.Count>>
       \o WriteUbjson(MemberAt(members, ArraySize), TRUE, f)
       \o Concatenated([i \in DOMAIN elements |-> NdarrayElement(c, elements[i])])

WriteUbjsonArray(elements, add_prefix, f) ==
    Prefixed(add_prefix, Marker.Array,
        Opening(elements, f)
        \o Concatenated([i \in DOMAIN elements |->
                             WriteUbjson(elements[i], ~SameMarker(elements, f), f)])
        \o Ending(Marker.ArrayEnd, f))

WriteUbjsonObject(members, add_prefix, f) ==
    Prefixed(add_prefix, Marker.Object,
        Opening(MemberValues(members), f)
        \o Concatenated([i \in DOMAIN members |->
                WriteUbjsonString(members[i][1], FALSE, f.bjdata)
                \o WriteUbjson(members[i][2], ~SameMarker(MemberValues(members), f), f)])
        \o Ending(Marker.ObjectEnd, f))

WriteUbjson(j, add_prefix, f) ==
    CASE TypeOf(j) \in {"null", "boolean"} -> Prefixed(add_prefix, UbjsonPrefix(j, f.bjdata), <<>>)
      [] TypeOf(j) \in {"integer", "unsigned"} -> WriteUbjsonInteger(j, add_prefix, f.bjdata)
      [] TypeOf(j) = "float" -> WriteUbjsonFloat(Content(j), add_prefix, f.bjdata)
      [] TypeOf(j) = "string" -> WriteUbjsonString(Content(j), add_prefix, f.bjdata)
      [] TypeOf(j) = "binary" -> WriteUbjsonBinary(Content(j)[2], add_prefix, f)
      [] TypeOf(j) = "array" -> WriteUbjsonArray(Content(j), add_prefix, f)
      [] TypeOf(j) = "object" ->
             IF f.bjdata /\ IsNdarray(j) /\ IsWritten(Content(j)) THEN WriteNdarray(Content(j), f)
             ELSE WriteUbjsonObject(Content(j), add_prefix, f)

-----------------------------------------------------------------------------
(* Reading.  next is the position behind the marker or behind current.     *)

\* get_ignore_noop: the position of the first byte that is no N.
RECURSIVE SkipNoop(_, _)
SkipNoop(in, next) == IF ByteAt(in, next) = Marker.Noop THEN SkipNoop(in, next + 1) ELSE next

\* get_ubjson_string; a negative length is one of no characters.
GetUbjsonString(in, c, next, bjdata) ==
    LET TakeText(n, place) ==
            IF IsSigned(c) /\ n[1] >= 128 THEN Read(<<>>, place)
            ELSE GetString(in, place, Count(ZeroExtended(n)))
    IN CASE c = Eof -> UnexpectedEnd
         [] IsIntegerMarker(c, bjdata) -> Then(GetNumber(in, next, Width(c), bjdata), TakeText)
         [] OTHER -> Error("parse_error.113")

Size(n, current, dim) == [n |-> n, current |-> current, dim |-> dim]
SizeType(size, type) == [size |-> size, type |-> type]

\* The size that follows from the dimensions; it has dimensions itself when it
\* is that of an ndarray.
SizeOfDim(dim, current, next) ==
    LET products == Products(dim, EightBytes(1)) IN
    CASE Len(dim) = 1 \/ (Len(dim) = 2 /\ dim[1] = EightBytes(1)) ->
             Read(Size(dim[Len(dim)], current, <<>>), next)
      [] dim = <<>> \/ \E i \in DOMAIN dim : dim[i] = Zeros(8) -> Read(Size(Zeros(8), current, <<>>), next)
      [] \E i \in DOMAIN products : products[i] \in {Zeros(8), UnknownSize} -> Error("out_of_range.408")
      [] OTHER -> Read(Size(products[Len(dim)], current, dim), next)

RECURSIVE GetSizeValue(_, _, _, _, _, _), GetDim(_, _, _, _, _, _), GetDimToEnd(_, _, _, _)

\* get_ubjson_size_type: the type is 0 when there is none.
GetSizeType(in, at, inside_ndarray, bjdata) ==
    LET first == SkipNoop(in, at)
        type == ByteAt(in, first + 1)
        count == SkipNoop(in, first + 2)
        c == ByteAt(in, count)
        excluded == bjdata /\ type \in NotOptimized
        Typed(size, next) ==
            IF size.dim # <<>> /\ inside_ndarray THEN Error("parse_error.112") ELSE Read(SizeType(size, type), next)
        Untyped(size, next) ==
            IF size.dim # <<>> THEN Error("parse_error.112") ELSE Read(SizeType(size, 0), next)
    IN CASE ByteAt(in, first) = Marker.Type ->
                CASE excluded -> Error("parse_error.112")
                  [] ~excluded /\ c = Eof -> UnexpectedEnd
                  [] ~excluded /\ c \notin {Marker.Count, Eof} -> Error("parse_error.112")
                  [] OTHER -> Then(GetSizeValue(in, FALSE, 0, Marker.Count, count + 1, bjdata), Typed)
         [] ByteAt(in, first) = Marker.Count ->
                Then(GetSizeValue(in, FALSE, 0, Marker.Count, first + 1, bjdata), Untyped)
         [] OTHER -> Read(SizeType(Size(UnknownSize, ByteAt(in, first), <<>>), 0), first + 1)

\* get_ubjson_ndarray_size.
GetNdarraySize(in, next) ==
    LET Dim(t, place) ==
            IF t.size.n = UnknownSize THEN GetDimToEnd(in, t.size.current, place, <<>>)
            ELSE GetDim(in, Count(t.size.n), t.type, t.size.current, place, <<>>)
    IN Then(GetSizeType(in, next, TRUE, TRUE), Dim)

\* count sizes of one type, or with a marker each.
GetDim(in, count, type, current, next, dim) ==
    LET More(size, place) == GetDim(in, count - 1, type, size.current, place, Append(dim, size.n)) IN
    IF count = 0 THEN SizeOfDim(dim, current, next)
    ELSE Then(GetSizeValue(in, TRUE, type, current, next, TRUE), More)

GetDimToEnd(in, current, next, dim) ==
    LET More(size, place) ==
            LET following == SkipNoop(in, place)
            IN GetDimToEnd(in, ByteAt(in, following), following + 1, Append(dim, size.n))
    IN IF current = Marker.ArrayEnd THEN SizeOfDim(dim, current, next)
       ELSE Then(GetSizeValue(in, TRUE, current, current, next, TRUE), More)

\* get_ubjson_size_value: with prefix 0 the marker is read first.
GetSizeValue(in, is_ndarray, prefix, current, next, bjdata) ==
    LET first == SkipNoop(in, next)
        c == IF prefix = 0 THEN ByteAt(in, first) ELSE prefix
        last == IF prefix = 0 THEN c ELSE current
        place == IF prefix = 0 THEN first + 1 ELSE next
        Sized(n, end) ==
            IF IsSigned(c) /\ n[1] >= 128 THEN Error("parse_error.113")
            ELSE Read(Size(ZeroExtended(n), last, <<>>), end)
    IN CASE IsIntegerMarker(c, bjdata) -> Then(GetNumber(in, place, Width(c), bjdata), Sized)
         [] c = Marker.Array /\ bjdata /\ ~is_ndarray -> GetNdarraySize(in, place)
         [] OTHER -> Error("parse_error.113")

\* A number that is given by its text: an integer of 64 bits.  Texts of other
\* numbers, which become doubles, are left out.
OtherNumber == Error("number")
HighPrecision(text) ==
    LET start == SkipWhitespace(text, IF HasByteOrderMark(text) THEN 4 ELSE 1)
        first == Get(text, start)
        end == NumberEnd(text, start + 1, CASE first = Minus -> "minus" [] first = Zero -> "zero"
                                            [] OTHER -> "any1")
        digits == SubSeq(text, IF first = Minus THEN start + 1 ELSE start, end.at - 1)
        n == FromDecimal(digits)
    IN CASE first \notin Digits \cup {Minus} \/ end.ends = "error"
            \/ Get(text, SkipWhitespace(text, end.at)) \notin {0, EOF} -> Error("parse_error.115")
         [] end.label \in {"decimal2", "any2"} \/ n = <<>> -> OtherNumber
         [] first = Minus -> IF ~IsNegative(Negated(n)) /\ n # Zeros(8) THEN OtherNumber
                             ELSE Read(Integer(Negated(n)), 0)
         [] OTHER -> Read(Unsigned(n), 0)

GetHighPrecision(in, next, bjdata) ==
    LET Number(size, place) ==
            LET Parsed(text, end) ==
                    LET number == HighPrecision(text)
                    IN IF Failed(number) THEN number ELSE Read(number.value, end)
            IN Then(GetString(in, place, Count(size.n)), Parsed)
    IN Then(GetSizeValue(in, TRUE, 0, Marker.High, next, bjdata), Number)

GetUbjsonInteger(in, c, next, bjdata) ==
    LET TakeValue(b, place) ==
            Read(IF IsSigned(c) THEN Integer(SignExtended(b)) ELSE Unsigned(ZeroExtended(b)), place)
    IN Then(GetNumber(in, next, Width(c), bjdata), TakeValue)

GetUbjsonFloat(in, c, next, bjdata) ==
    LET TakeValue(b, place) == Read(Float(IF c = Marker.Double THEN b ELSE Widen(b)), place)
    IN Then(GetNumber(in, next, IF c = Marker.Double THEN 8 ELSE 4, bjdata), TakeValue)

GetHalf(in, next) ==
    LET TakeValue(b, place) == Read(Float(Half(b[1], b[2])), place)
    IN Then(GetNumber(in, next, 2, TRUE), TakeValue)

GetChar(in, next) ==
    LET c == ByteAt(in, next) IN
    CASE c = Eof -> UnexpectedEnd [] c > 127 -> Error("parse_error.113") [] OTHER -> Read(StringOf(<<c>>), next + 1)

GetByte(in, next) ==
    LET TakeValue(b, place) == Read(Unsigned(ZeroExtended(b)), place)
    IN Then(GetNumber(in, next, 1, TRUE), TakeValue)

GetUbjsonStringValue(in, next, bjdata) ==
    LET TakeValue(s, place) == Read(StringOf(s), place)
    IN Then(GetUbjsonString(in, ByteAt(in, next), next + 1, bjdata), TakeValue)

RECURSIVE GetUbjsonValue(_, _, _, _), UbjsonElements(_, _, _, _, _, _),
          UbjsonElementsToEnd(_, _, _, _, _), UbjsonMembers(_, _, _, _, _, _),
          UbjsonMembersToEnd(_, _, _, _, _)

\* parse_ubjson_internal.
ParseUbjson(in, next, bjdata) ==
    LET first == SkipNoop(in, next) IN GetUbjsonValue(in, ByteAt(in, first), first + 1, bjdata)

\* count elements of one type, or with a marker each (type 0).
UbjsonElements(in, count, type, next, bjdata, read) ==
    LET More(v, place) == UbjsonElements(in, count - 1, type, place, bjdata, Append(read, v)) IN
    CASE count = 0 -> Read(Json("array", read), next)
      [] count # 0 /\ type # 0 -> Then(GetUbjsonValue(in, type, next, bjdata), More)
      [] OTHER -> Then(ParseUbjson(in, next, bjdata), More)

UbjsonElementsToEnd(in, current, next, bjdata, read) ==
    LET More(v, place) ==
            LET following == SkipNoop(in, place)
            IN UbjsonElementsToEnd(in, ByteAt(in, following), following + 1, bjdata, Append(read, v))
    IN IF current = Marker.ArrayEnd THEN Read(Json("array", read), next)
       ELSE Then(GetUbjsonValue(in, current, next, bjdata), More)

\* Elements that take no bytes can be as many as memory holds: bound.
MaxWeightless == 100
Weightless(count, type) ==
    count > MaxWeightless /\ type \in {Marker.True, Marker.False, Marker.Null}
Excessive == Error("memory")

GetNdarray(in, size, type, next) ==
    LET stored == IF type \in {Marker.Char, Marker.Byte} THEN Marker.uint8 ELSE type
        Annotated(v, place) ==
            Read(Json("object", <<<<ArrayData, v>>,
                     <<ArraySize, Json("array", [i \in DOMAIN size.dim |-> Unsigned(size.dim[i])])>>,
                     <<ArrayType, StringOf(TypeName(type))>>>>), place)
    IN CASE type \notin NamedTypes -> Error("parse_error.112")
         [] type \in NamedTypes /\ BytesLess(MaxArray, size.n) -> Error("out_of_range.408")
         [] OTHER -> Then(UbjsonElements(in, Count(size.n), stored, next, TRUE, <<>>), Annotated)

GetUbjsonArray(in, next, bjdata) ==
    LET Bytes(b, end) == Read(Binary(<<>>, b), end)
        Rest(t, place) ==
            CASE t.size.dim # <<>> -> GetNdarray(in, t.size, t.type, place)
              [] t.size.n = UnknownSize -> UbjsonElementsToEnd(in, t.size.current, place, bjdata, <<>>)
              [] t.size.dim = <<>> /\ t.size.n # UnknownSize /\ bjdata /\ t.type = Marker.Byte ->
                     Then(GetBinary(in, place, Count(t.size.n)), Bytes)
              [] t.size.n # UnknownSize /\ ~(bjdata /\ t.type = Marker.Byte) /\ BytesLess(MaxArray, t.size.n) ->
                     Error("out_of_range.408")
              [] t.type = Marker.Noop -> Read(Json("array", <<>>), place)
              [] Weightless(Count(t.size.n), t.type) -> Excessive
              [] OTHER -> UbjsonElements(in, Count(t.size.n), t.type, place, bjdata, <<>>)
    IN Then(GetSizeType(in, next, FALSE, bjdata), Rest)

UbjsonMembers(in, count, type, next, bjdata, read) ==
    LET Member(key, place) ==
            LET More(v, end) == UbjsonMembers(in, count - 1, type, end, bjdata, WithMember(read, key, v))
            IN Then(IF type # 0 THEN GetUbjsonValue(in, type, place, bjdata)
                    ELSE ParseUbjson(in, place, bjdata), More)
    IN IF count = 0 THEN Read(Json("object", read), next)
       ELSE Then(GetUbjsonString(in, ByteAt(in, next), next + 1, bjdata), Member)

UbjsonMembersToEnd(in, current, next, bjdata, read) ==
    LET Member(key, place) ==
            LET More(v, end) ==
                    LET following == SkipNoop(in, end)
                    IN UbjsonMembersToEnd(in, ByteAt(in, following), following + 1, bjdata,
                                          WithMember(read, key, v))
            IN Then(ParseUbjson(in, place, bjdata), More)
    IN IF current = Marker.ObjectEnd THEN Read(Json("object", read), next)
       ELSE Then(GetUbjsonString(in, current, next, bjdata), Member)

GetUbjsonObject(in, next, bjdata) ==
    LET Rest(t, place) ==
            CASE t.size.dim # <<>> -> Error("parse_error.112")
              [] t.size.n = UnknownSize -> UbjsonMembersToEnd(in, t.size.current, place, bjdata, <<>>)
              [] t.size.dim = <<>> /\ t.size.n # UnknownSize /\ BytesLess(MaxObject, t.size.n) -> Error("out_of_range.408")
              [] OTHER -> UbjsonMembers(in, Count(t.size.n), t.type, place, bjdata, <<>>)
    IN Then(GetSizeType(in, next, FALSE, bjdata), Rest)

GetUbjsonValue(in, c, next, bjdata) ==
    CASE c = Eof -> UnexpectedEnd
      [] c = Marker.True -> Read(Boolean(TRUE), next)
      [] c = Marker.False -> Read(Boolean(FALSE), next)
      [] c = Marker.Null -> Read(NullValue, next)
      [] c = Marker.Byte /\ bjdata -> GetByte(in, next)
      [] IsIntegerMarker(c, bjdata) -> GetUbjsonInteger(in, c, next, bjdata)
      [] c = Marker.Half /\ bjdata -> GetHalf(in, next)
      [] c \in {Marker.Single, Marker.Double} -> GetUbjsonFloat(in, c, next, bjdata)
      [] c = Marker.High -> GetHighPrecision(in, next, bjdata)
      [] c = Marker.Char -> GetChar(in, next)
      [] c = Marker.String -> GetUbjsonStringValue(in, next, bjdata)
      [] c = Marker.Array -> GetUbjsonArray(in, next, bjdata)
      [] c = Marker.Object -> GetUbjsonObject(in, next, bjdata)
      [] OTHER -> Error("parse_error.112")
=============================================================================
