----------------------------- MODULE MCDocument -----------------------------
(* Keys that are positions, need escapes or are empty; an array with enough *)
(* elements for the order of their names to be another.                     *)
EXTENDS JsonDocument, TLC

One == Unsigned(EightBytes(1))
Minus1 == Integer(Negated(EightBytes(1)))
EmptyArray == Json("array", <<>>)
EmptyObject == Json("object", <<>>)
\* a  0  -  ~  /  ~1  0!  and the empty key
KeyA == <<97>>
KeysOf == {KeyA, <<48>>, <<45>>, <<Tilde>>, <<Slash>>, <<Tilde, 49>>, <<48, 33>>, <<>>}

RECURSIVE Sorted(_)
Sorted(keys) ==
    IF keys = {} THEN <<>>
    ELSE LET first == CHOOSE k \in keys : \A l \in keys : ~BytesLess(l, k)
         IN <<first>> \o Sorted(keys \ {first})
Keyed2(keys, v) == LET s == Sorted(keys) IN Json("object", [i \in DOMAIN s |-> <<s[i], v>>])

Twelve(v) == Json("array", [i \in 1 .. 12 |-> IF i \in {2, 11} THEN v ELSE Unsigned(EightBytes(i))])
Rich == Json("object", <<<<KeyA, Twelve(Keyed2(KeysOf, One))>>>>)

StartDocuments == {NullValue, Keyed2(KeysOf, EmptyArray), Keyed2(KeysOf \ {<<>>, <<45>>}, One), Twelve(EmptyObject), Rich}

Others == {NullValue, One, EmptyObject, Json("array", <<One, NullValue, Minus1>>), Twelve(EmptyArray),
           Keyed2(KeysOf, NullValue), Keyed2(KeysOf, Twelve(One)), Keyed2({KeyA, <<48>>}, EmptyArray),
           Keyed2({KeyA, <<Slash>>}, Keyed2({KeyA, <<48>>}, NullValue))}

Places == {<<>>, <<47>>, <<47, 97>>, <<47, 48>>, <<47, 49>>, <<47, 45>>, <<47, 126, 49>>, <<47, 126, 48>>,
           <<47, 126, 48, 49>>, <<47, 97, 47, 48>>, <<47, 48, 47, 97>>, <<47, 97, 47>>,
           <<47, 48, 49>>, <<47, 49, 49>>, <<47, 126>>, <<97>>, <<47, 43>>}
Things == {One, EmptyArray, EmptyObject}

PathMember == {[path |-> Json("string", p)] : p \in Places}
FromMember == {[from |-> Json("string", p)] : p \in Places}
ValueMember == {[value |-> v] : v \in Things}
Op(name) == [op |-> name]
Operations ==
    {Op(n) @@ p @@ v : n \in {"add", "replace", "test"}, p \in PathMember, v \in ValueMember}
    \cup {Op("remove") @@ p : p \in PathMember}
    \cup {Op(n) @@ p @@ f : n \in {"move", "copy"}, p \in PathMember, f \in FromMember}
    \cup {Op("add"), Op("other") @@ [path |-> Json("string", <<>>)], Op("add") @@ [path |-> One],
          Op("move") @@ [path |-> Json("string", <<>>)], [path |-> One]}
=============================================================================
