------------------------------- MODULE MCConv -------------------------------
EXTENDS Conversions

Small(n) == Unsigned(EightBytes(n))
Below0(n) == Integer(Negated(EightBytes(n)))    \* -n
Pow(k) == [i \in 1 .. 8 |-> IF i = 8 - k \div 8 THEN 2 ^ (k % 8) ELSE 0]
LessOne(n) == Complement(Negated(n))
Wrapped(j) == Json("object", <<<<<<97>>, j>>>>)
Repeated(n, x) == [i \in 1 .. n |-> x]

Borders1 == <<Small(23), Small(24)>> \o
    [i \in 1 .. 14 |-> LET k == <<7, 8, 15, 16, 31, 32, 63>>[(i + 1) \div 2] IN
        Unsigned(IF i % 2 = 0 THEN Pow(k) ELSE LessOne(Pow(k)))] \o <<Unsigned(UnknownSize)>>
Negatives == <<Below0(1), Below0(24), Below0(25), Below0(32), Below0(33)>> \o
    [i \in 1 .. 14 |-> LET k == <<7, 8, 15, 16, 31, 32, 63>>[(i + 1) \div 2] IN
        Integer(IF i % 2 = 0 THEN Negated(Pow(k)) ELSE Complement(Pow(k)))]
Positives == [i \in 1 .. 16 |-> Integer(Content(Borders1[i]))]
Doubles == [i \in 1 .. 12 |-> Float(<<
    Zeros(8), <<128>> \o Zeros(7), <<63, 248>> \o Zeros(6), <<71, 239, 255, 255, 224, 0, 0, 0>>,
    <<71, 239, 255, 255, 240, 0, 0, 0>>, <<54, 160>> \o Zeros(6), <<54, 144>> \o Zeros(6),
    <<184, 15, 255, 255, 192, 0, 0, 0>>, <<63, 185, 153, 153, 153, 153, 153, 154>>,
    <<127, 240>> \o Zeros(6), <<255, 240>> \o Zeros(6), <<127, 248, 0, 0, 0, 0, 0, 1>> >>[i])]
Lengths1 == <<0, 1, 23, 24, 31, 32, 127, 128, 255, 256, 32767, 32768, 65535, 65536>>
Texts == [i \in 1 .. 14 |-> StringOf(Repeated(Lengths1[i], 90))]
Binaries == [i \in 1 .. 8 |-> Binary(<<>>, Repeated(<<0, 1, 2, 4, 8, 16, 17, 24>>[i], 7))]
Long == [i \in 1 .. 8 |-> Binary(IF i <= 4 THEN <<>> ELSE EightBytes(42), Repeated(<<255, 256, 65535, 65536>>[1 + (i % 4)], 7))]
Subtyped == [i \in 1 .. 8 |-> Binary(<<EightBytes(0), EightBytes(42), EightBytes(255), EightBytes(256), EightBytes(65535), EightBytes(65536), Pow(32), LessOne(Pow(32))>>[i], Repeated(<<0, 1, 2, 4, 8, 16, 17, 24>>[i], 7))]
Counted == [i \in 1 .. 6 |-> ArrayOf(Repeated(<<0, 15, 16, 23, 24, 40>>[i], Small(i)))]
Keyed(n) == Json("object", [i \in 1 .. n |-> <<<<96 + i>>, Boolean(i % 2 = 0)>>])
ObjectsOf == [i \in 1 .. 6 |-> Keyed(<<0, 15, 16, 23, 24, 40>>[i])]
Nd(type, size, data) == Json("object", <<<<ArrayData, ArrayOf(data)>>, <<ArraySize, ArrayOf(size)>>, <<ArrayType, type>>>>)
NdTypes == [i \in 1 .. 12 |-> LET c == <<66, 67, 68, 100, 105, 85, 73, 117, 108, 109, 76, 77>>[i] IN
    Nd(StringOf(<<c>>), <<Small(2), Small(1)>>, Repeated(2, IF c \in {68, 100} THEN Doubles[3] ELSE IF IsSigned(c) THEN Below0(7) ELSE Small(7)))]
NdOdd == <<Nd(StringOf(<<99>>), <<Small(1)>>, <<Small(1)>>), Nd(StringOf(<<85>>), <<Small(2), Small(2)>>, <<Small(1)>>),
    Nd(StringOf(<<85>>), <<Small(1), Small(2)>>, <<Small(1), Small(2)>>), Nd(StringOf(<<66>>), <<Small(2)>>, <<Small(1), Small(2)>>),
    Nd(StringOf(<<67>>), <<Small(2)>>, <<Small(1), Small(2)>>), Nd(StringOf(<<77>>), <<Small(2), Small(0)>>, <<>>),
    Nd(StringOf(<<77>>), <<>>, <<>>)>>

Big == {Wrapped(ArrayOf(s)) : s \in {Borders1, Negatives, Positives, Doubles, Texts, Binaries, Subtyped, Counted, ObjectsOf, NdTypes, NdOdd}}
Singles == {Borders1[i] : i \in DOMAIN Borders1} 
SameTyped == {Wrapped(ArrayOf(Repeated(2, x))) : x \in {NullValue, Boolean(TRUE), Small(1), Below0(1), Small(200), Unsigned(Pow(63)), StringOf(<<97>>), ArrayOf(<<>>), Json("object", <<>>), Binary(<<>>, <<1, 2>>), ArrayOf(<<Small(1)>>)}}
     \cup {Keyed(2), Json("object", <<<<<<97>>, Small(1)>>, <<<<98>>, Small(2)>>>>), NdTypes[6], NdTypes[3], NdOdd[3]}
Refusals == {NullValue, Nd(Small(1), <<Small(2)>>, <<Small(1)>>), Json("object", <<<<<<97, 0>>, Small(1)>>>>)}
Common == Big \cup SameTyped \cup Refusals
Samples == [f \in {"cbor", "msgpack", "bson", "ubjson", "bjdata"} |-> IF f \in {"ubjson", "bjdata"} THEN Common ELSE Common \cup {Wrapped(ArrayOf(Long))}]
Options == {<<FALSE, FALSE>>, <<TRUE, FALSE>>, <<TRUE, TRUE>>}
FormOf(format, o, d, t) == [format |-> format, use_count |-> o[1], use_type |-> o[2], draft3 |-> d, tag_handler |-> t]
Forms == {FormOf("cbor", <<FALSE, FALSE>>, FALSE, t) : t \in TagHandler}
    \cup {FormOf(x, <<FALSE, FALSE>>, FALSE, "error") : x \in {"msgpack", "bson"}}
    \cup {FormOf("ubjson", o, FALSE, "error") : o \in Options}
    \cup {FormOf("bjdata", o, d, "error") : o \in Options, d \in BOOLEAN}
DamageBytes == {0, 255, 72, 91, 36, 35, 78, 77, 67, 66, 191, 159, 127, 95, 216}
=============================================================================
