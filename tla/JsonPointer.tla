---------------------------- MODULE JsonPointer ----------------------------
(***************************************************************************)
(* json_pointer: from its text to its reference tokens, what it points to  *)
(* in a value, and flatten and unflatten, which name every element of a    *)
(* value by its pointer.  With them the element access of basic_json that  *)
(* they rest on.  A value is one of BinaryFormat; a token is a sequence of *)
(* bytes, as an object's key is.                                           *)
(***************************************************************************)
EXTENDS BinaryFormat

Slash == 47
Tilde == 126
Dash == <<45>>
Decimals == 48 .. 57

\* What a function returned, or the exception it threw.
Returned(v) == [value |-> v]
Given(r, Continue(_)) == IF Failed(r) THEN r ELSE Continue(r.value)

-----------------------------------------------------------------------------
(* The text of a pointer.                                                  *)

RECURSIVE ReplaceSubstring(_, _, _)
ReplaceSubstring(s, f, t) ==
    CASE Len(s) < Len(f) -> s
      [] Len(s) >= Len(f) /\ SubSeq(s, 1, Len(f)) = f ->
             t \o ReplaceSubstring(SubSeq(s, Len(f) + 1, Len(s)), f, t)
      [] OTHER -> <<s[1]>> \o ReplaceSubstring(Tail(s), f, t)

EscapeToken(s) ==
    ReplaceSubstring(ReplaceSubstring(s, <<Tilde>>, <<Tilde, 48>>), <<Slash>>, <<Tilde, 49>>)

\* A bug to catch: the wrong order, which takes ~01 for a slash.
UnescapeSwapped(s) ==
    ReplaceSubstring(ReplaceSubstring(s, <<Tilde, 48>>, <<Tilde>>), <<Tilde, 49>>, <<Slash>>)

UnescapeToken(s) ==
    ReplaceSubstring(ReplaceSubstring(s, <<Tilde, 49>>, <<Slash>>), <<Tilde, 48>>, <<Tilde>>)

\* The parts behind the slashes of a text that begins with one.
RECURSIVE BehindSlashes(_)
BehindSlashes(s) ==
    LET slashes == {i \in 2 .. Len(s) : s[i] = Slash}
        next == CHOOSE i \in slashes : \A k \in slashes : i <= k
    IN IF slashes = {} THEN <<Tail(s)>>
       ELSE <<SubSeq(s, 2, next - 1)>> \o BehindSlashes(SubSeq(s, next, Len(s)))

Misescaped(s) ==
    \E i \in DOMAIN s : s[i] = Tilde /\ (i = Len(s) \/ s[i + 1] \notin {48, 49})

\* split: the reference tokens of a text.
Split(s) ==
    LET parts == BehindSlashes(s) IN
    CASE s = <<>> -> Returned(<<>>)
      [] s # <<>> /\ s[1] # Slash -> Error("parse_error.107")
      [] s # <<>> /\ s[1] = Slash /\ \E i \in DOMAIN parts : Misescaped(parts[i]) -> Error("parse_error.108")
      [] OTHER -> Returned([i \in DOMAIN parts |-> UnescapeToken(parts[i])])

PointerText(tokens) == Concatenated([i \in DOMAIN tokens |-> <<Slash>> \o EscapeToken(tokens[i])])

\* A bug to catch: an index may begin with 0.
ArrayIndexLenient(token) ==
    LET digits == token # <<>> /\ \A i \in DOMAIN token : token[i] \in Decimals
        n == IF digits THEN FromDecimal(token) ELSE <<>>
    IN IF n = <<>> THEN Error("out_of_range.404") ELSE Returned(Count(n))

\* array_index: strtoull of the whole token; a number that does not fit is <<>>.
ArrayIndex(token) ==
    LET digits == token # <<>> /\ \A i \in DOMAIN token : token[i] \in Decimals
        n == IF digits THEN FromDecimal(token) ELSE <<>>
    IN CASE Len(token) > 1 /\ token[1] = 48 -> Error("parse_error.106")
         [] Len(token) > 1 /\ token[1] \notin Decimals -> Error("parse_error.109")
         [] OTHER -> IF n = <<>> THEN Error("out_of_range.404")
                     ELSE IF n = UnknownSize THEN Error("out_of_range.410") ELSE Returned(Count(n))

-----------------------------------------------------------------------------
(* Element access.                                                         *)

HasKey(j, key) == \E i \in DOMAIN Content(j) : Content(j)[i][1] = key
MemberOf(j, key) == Content(j)[CHOOSE i \in DOMAIN Content(j) : Content(j)[i][1] = key][2]

AtKey(j, key) == IF HasKey(j, key) THEN Returned(MemberOf(j, key)) ELSE Error("out_of_range.403")
AtIndex(j, i) == IF i < Len(Content(j)) THEN Returned(Content(j)[i + 1]) ELSE Error("out_of_range.401")

\* operator[] and an assignment: a null in the way becomes an array or an
\* object, an array is filled up with nulls.
SetIndex(j, i, v) ==
    LET size == Len(Content(j)) IN
    Json("array", [k \in 1 .. (IF i < size THEN size ELSE i + 1) |->
                      CASE k = i + 1 -> v [] k # i + 1 /\ k <= size -> Content(j)[k] [] OTHER -> NullValue])
SetKey(j, key, v) == Json("object", WithMember(Content(j), key, v))

ElementOrNull(j, i) == IF i < Len(Content(j)) THEN Content(j)[i + 1] ELSE NullValue
MemberOrNull(j, key) == IF HasKey(j, key) THEN MemberOf(j, key) ELSE NullValue

EraseIndex(j, i) ==
    IF i >= Len(Content(j)) THEN Error("out_of_range.401")
    ELSE Returned(Json("array", [k \in 1 .. Len(Content(j)) - 1 |->
                                     Content(j)[IF k <= i THEN k ELSE k + 1]]))
EraseKey(j, key) == Json("object", SelectSeq(Content(j), LAMBDA m : m[1] # key))

Insert(j, i, v) ==
    Json("array", SubSeq(Content(j), 1, i) \o <<v>> \o SubSeq(Content(j), i + 1, Len(Content(j))))
PushBack(j, v) == Json("array", Append(Content(j), v))

-----------------------------------------------------------------------------
(* What a pointer points to.                                               *)

\* get_checked.
RECURSIVE GetChecked(_, _)
GetChecked(j, tokens) ==
    LET Rest(v) == GetChecked(v, Tail(tokens))
        Index(i) == Given(AtIndex(j, i), Rest)
    IN CASE tokens = <<>> -> Returned(j)
         [] tokens # <<>> /\ TypeOf(j) = "object" -> Given(AtKey(j, Head(tokens)), Rest)
         [] tokens # <<>> /\ TypeOf(j) = "array" ->
                IF Head(tokens) = Dash THEN Error("out_of_range.402")
                ELSE Given(ArrayIndex(Head(tokens)), Index)
         [] OTHER -> Error("out_of_range.404")

\* contains: no index that it could not read, but for the empty one.
RECURSIVE ContainsPointer(_, _)
ContainsPointer(j, tokens) ==
    LET t == Head(tokens)
        index == /\ t # Dash
                 /\ Len(t) = 1 => t[1] \in Decimals
                 /\ Len(t) > 1 => t[1] \in 49 .. 57 /\ \A i \in 2 .. Len(t) : t[i] \in Decimals
        Index(i) == IF i >= Len(Content(j)) THEN Returned(FALSE)
                    ELSE ContainsPointer(Content(j)[i + 1], Tail(tokens))
    IN CASE tokens = <<>> -> Returned(TRUE)
         [] tokens # <<>> /\ TypeOf(j) = "object" ->
                IF HasKey(j, t) THEN ContainsPointer(MemberOf(j, t), Tail(tokens)) ELSE Returned(FALSE)
         [] tokens # <<>> /\ TypeOf(j) = "array" ->
                IF index THEN Given(ArrayIndex(t), Index) ELSE Returned(FALSE)
         [] OTHER -> Returned(FALSE)

\* get_unchecked of a value that may change, and the assignment of v to what it
\* returns.  A null becomes an array for a token of digits, or of none.
RECURSIVE Assigned(_, _, _)
Assigned(j, tokens, v) ==
    LET t == Head(tokens)
        numeric == t = Dash \/ \A i \in DOMAIN t : t[i] \in Decimals
        base == IF TypeOf(j) # "null" THEN j
                ELSE IF numeric THEN Json("array", <<>>) ELSE Json("object", <<>>)
        InIndex(i) ==
            LET Store(w) == Returned(SetIndex(base, i, w))
            IN Given(Assigned(ElementOrNull(base, i), Tail(tokens), v), Store)
        InKey(w) == Returned(SetKey(base, t, w))
    IN CASE tokens = <<>> -> Returned(v)
         [] tokens # <<>> /\ TypeOf(base) = "object" ->
                Given(Assigned(MemberOrNull(base, t), Tail(tokens), v), InKey)
         [] tokens # <<>> /\ TypeOf(base) = "array" ->
                IF t = Dash THEN InIndex(Len(Content(base))) ELSE Given(ArrayIndex(t), InIndex)
         [] OTHER -> Error("out_of_range.404")

-----------------------------------------------------------------------------
(* flatten and unflatten.                                                  *)

\* result[path] = ... for every element that is not a container, or is empty.
RECURSIVE Flattened(_, _)
Flattened(path, j) ==
    LET Below(name) == path \o <<Slash>> \o name IN
    CASE TypeOf(j) = "array" /\ Content(j) # <<>> ->
             Concatenated([i \in DOMAIN Content(j) |->
                               Flattened(Below(DecimalText(EightBytes(i - 1))), Content(j)[i])])
      [] TypeOf(j) = "object" /\ Content(j) # <<>> ->
             Concatenated([i \in DOMAIN Content(j) |->
                               Flattened(Below(EscapeToken(Content(j)[i][1])), Content(j)[i][2])])
      [] TypeOf(j) \in {"array", "object"} /\ Content(j) = <<>> -> <<<<path, NullValue>>>>
      [] OTHER -> <<<<path, j>>>>

RECURSIVE WithMembers(_, _)
WithMembers(members, new) ==
    IF new = <<>> THEN members
    ELSE WithMembers(WithMember(members, Head(new)[1], Head(new)[2]), Tail(new))

Flatten(j) == Json("object", WithMembers(<<>>, Flattened(<<>>, j)))

\* get_and_create, and the assignment: a null becomes an array for the token 0.
RECURSIVE Created(_, _, _)
Created(j, tokens, v) ==
    LET t == Head(tokens)
        base == IF TypeOf(j) # "null" THEN j
                ELSE IF t = <<48>> THEN Json("array", <<>>) ELSE Json("object", <<>>)
        InIndex(i) ==
            LET Store(w) == Returned(SetIndex(base, i, w))
            IN Given(Created(ElementOrNull(base, i), Tail(tokens), v), Store)
        InKey(w) == Returned(SetKey(base, t, w))
    IN CASE tokens = <<>> -> Returned(v)
         [] tokens # <<>> /\ TypeOf(base) = "object" ->
                Given(Created(MemberOrNull(base, t), Tail(tokens), v), InKey)
         [] tokens # <<>> /\ TypeOf(base) = "array" -> Given(ArrayIndex(t), InIndex)
         [] OTHER -> Error("type_error.313")

RECURSIVE UnflattenFrom(_, _)
UnflattenFrom(members, result) ==
    LET Create(tokens) == Created(result, tokens, Head(members)[2])
        More(j) == UnflattenFrom(Tail(members), j)
    IN CASE members = <<>> -> Returned(result)
         [] members # <<>> /\ TypeOf(Head(members)[2]) \in {"array", "object"} -> Error("type_error.315")
         [] OTHER -> Given(Given(Split(Head(members)[1]), Create), More)

Unflatten(j) ==
    IF TypeOf(j) # "object" THEN Error("type_error.314") ELSE UnflattenFrom(Content(j), NullValue)
=============================================================================
