------------------------------- MODULE MCWire -------------------------------
(* Short texts of every kind the programs dump, and of what the library     *)
(* reads besides.                                                           *)
EXTENDS Wire

FieldKey == <<109>>

Leaf(type, text) == <<>> :> [type |-> type, text |-> text]
Number(n) == Leaf(IF n < 0 THEN "value_integer" ELSE "value_unsigned", <<n>>)
String(s) == Leaf("value_string", s)

Composed(type, size, parts) ==
    LET paths == {<<>>} \cup UNION {{<<k>> \o p : p \in DOMAIN parts[k]} : k \in DOMAIN parts}
    IN [p \in paths |-> IF p = <<>> THEN Container(type, size) ELSE parts[p[1]][Tail(p)]]
Object(members) == Composed("object", 0, members)
Array(seq) == Composed("array", Len(seq), [k \in {<<i>> : i \in DOMAIN seq} |-> seq[k[1]]])

\* {"m":n} and {"m":n,"s":v}
Short1(n) == Object(FieldKey :> Number(n))
With(n, v) == Object(FieldKey :> Number(n) @@ <<115>> :> v)

\* What a user types: quotes, control characters, every length of UTF-8, and
\* two bytes of GBK, which dump refuses.
Typed == With(1, String(<<Quote, Backslash, 10, 1>>))
Names == With(2, String(<<195, 169, 228, 189, 160, 240, 159, 152, 128>>))
Edges == With(3, String(<<224, 160, 128, 237, 159, 191, 238, 128, 128, 244, 143, 191, 191>>))
Gbk == With(4, String(<<196, 227>>))

\* The answer to a login: texts in an array of strings.
Nested == With(0, Array(<<String(Dump(Short1(1), FALSE)), String(<<>>)>>))

\* What no shipped sender dumps: containers in containers, literals.
Inner == Object(<<97>> :> Object(<<98>> :> Array(<<>>)) @@ FieldKey :> Number(-10)
                @@ <<122>> :> Array(<<Leaf("literal_true", <<>>), Leaf("literal_null", <<>>),
                                      Object(<< >>), Array(<<Number(0)>>)>>))

\* The first or the last byte of each range of scan_string and of decode.
BorderBytes == {127, 128, 143, 144, 159, 160, 191, 193, 194, 223, 224, 225, 236, 237, 238,
                239, 240, 241, 243, 244, 245}

Values == {Short1(7), Typed, Names, Edges, Gbk, Nested, Inner}
=============================================================================
