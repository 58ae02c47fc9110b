----------------------------- MODULE JsonParser -----------------------------
(***************************************************************************)
(* nlohmann::json::parse, from the tokens the lexer returns to the value   *)
(* it builds: the loop of sax_parse_internal with its stack of containers, *)
(* and json_sax_dom_parser behind it, which keeps pointers into the value  *)
(* under construction.  A pointer is modelled by the path from the root to *)
(* the element: the keys and the positions on the way.                     *)
(*                                                                         *)
(* The parser does not recurse and does not check its pointers: that they  *)
(* point to what they should rests on the order of the calls alone.        *)
(* parse throws at the first error; what it had built is destroyed.        *)
(***************************************************************************)
EXTENDS Naturals, Sequences

CONSTANTS
    Text,       \* what a string or a number may be
    Infinite    \* the number that no double holds

\* The tokens that are a value by themselves, and all of them.
Scalar == {"literal_true", "literal_false", "literal_null", "value_string",
           "value_unsigned", "value_integer", "value_float"}
TokenType == Scalar \cup {"begin_array", "begin_object", "end_array", "end_object",
                          "name_separator", "value_separator", "parse_error",
                          "end_of_input"}
Token == [type: TokenType, text: Text \cup {<<>>}]

VARIABLES
    tokens,         \* what the lexer makes of the input
    at,             \* the position of last_token
    part,           \* where the loop is, and how parse has ended
    states,         \* the containers that are open
    ref_stack,      \* the pointers to them
    object_element, \* the pointer to the member whose value comes next
    root            \* the value under construction: a node for each path

parserVars == <<tokens, at, part, states, ref_stack, object_element, root>>

EndOfInput == [type |-> "end_of_input", text |-> <<>>]
LastToken(i) == IF i \in DOMAIN tokens THEN tokens[i] ELSE EndOfInput

Parts == {"value", "evaluate", "root", "parsed", "failed"}

\* An array carries the number of its elements.
Container(type, size) == [type |-> type, text |-> <<size>>]
Null == [type |-> "literal_null", text |-> <<>>]

Top(s) == s[Len(s)]
Pop(s) == SubSeq(s, 1, Len(s) - 1)

ParserStarts(text) ==
    /\ tokens' = text /\ at' = 1 /\ part' = "value"
    /\ states' = <<>> /\ ref_stack' = <<>> /\ object_element' = <<>>
    /\ root' = << >>

-----------------------------------------------------------------------------
(* json_sax_dom_parser.                                                    *)

Below(p, q) == Len(q) > Len(p) /\ SubSeq(q, 1, Len(p)) = p

\* *p = v: what was below p goes with the old value.
Assign(dom, p, v) ==
    [q \in {q \in DOMAIN dom : ~Below(p, q)} \cup {p} |-> IF q = p THEN v ELSE dom[q]]

\* The pointer to the new element, and the value with it: the root, the end of
\* the array that is open, or the member whose key was read last.
HandleValue(v) ==
    IF ref_stack = <<>> THEN <<<<>>, Assign(<< >>, <<>>, v)>>
    ELSE LET top == Top(ref_stack) IN
         IF root[top].type = "array"
         THEN LET size == root[top].text[1] + 1
                  new == Append(top, <<size>>)
              IN <<new, Assign([root EXCEPT ![top] = Container("array", size)], new, v)>>
         ELSE <<object_element, Assign(root, object_element, v)>>

\* operator[] of the std::map: the member is there already, or null now.
Key(dom, container, key) ==
    LET p == Append(container, key) IN
    IF p \in DOMAIN dom THEN dom ELSE Assign(dom, p, Null)

-----------------------------------------------------------------------------
(* sax_parse_internal: each action is one turn of the loop.                *)

Fail == part' = "failed" /\ UNCHANGED <<tokens, at, states, ref_stack, object_element, root>>

InValue == part = "value" /\ UNCHANGED tokens

\* A key and its separator at position i.
ReadsKey(i) ==
    LastToken(i).type = "value_string" /\ LastToken(i + 1).type = "name_separator"

BeginObject ==
    /\ InValue /\ LastToken(at).type = "begin_object"
    /\ LET new == HandleValue(Container("object", 0)) IN
       \/ /\ LastToken(at + 1).type = "end_object"
          /\ root' = new[2]
          /\ at' = at + 1 /\ part' = "evaluate"
          /\ UNCHANGED <<states, ref_stack, object_element>>
       \/ /\ ReadsKey(at + 1)
          /\ root' = Key(new[2], new[1], LastToken(at + 1).text)
          /\ object_element' = Append(new[1], LastToken(at + 1).text)
          /\ ref_stack' = Append(ref_stack, new[1])
          /\ states' = Append(states, "object")
          /\ at' = at + 3 /\ UNCHANGED part
       \/ /\ LastToken(at + 1).type # "end_object" /\ ~ReadsKey(at + 1)
          /\ Fail

BeginArray ==
    /\ InValue /\ LastToken(at).type = "begin_array"
    /\ LET new == HandleValue(Container("array", 0)) IN
       /\ root' = new[2] /\ at' = at + 1
       /\ \/ /\ LastToken(at + 1).type = "end_array"
             /\ part' = "evaluate" /\ UNCHANGED <<states, ref_stack>>
          \/ /\ LastToken(at + 1).type # "end_array"
             /\ states' = Append(states, "array")
             /\ ref_stack' = Append(ref_stack, new[1])
             /\ UNCHANGED part
    /\ UNCHANGED object_element

ScalarValue ==
    /\ InValue /\ LastToken(at).type \in Scalar
    /\ LastToken(at).type = "value_float" => LastToken(at).text # Infinite
    /\ root' = HandleValue(LastToken(at))[2]
    /\ part' = "evaluate"
    /\ UNCHANGED <<at, states, ref_stack, object_element>>

NoValue ==
    /\ InValue
    /\ \/ LastToken(at).type \notin Scalar \cup {"begin_object", "begin_array"}
       \/ LastToken(at).type = "value_float" /\ LastToken(at).text = Infinite
    /\ Fail

InEvaluate == part = "evaluate" /\ UNCHANGED tokens

\* The stack is empty: the value is complete.
Complete ==
    /\ InEvaluate /\ states = <<>>
    /\ part' = "root"
    /\ UNCHANGED <<at, states, ref_stack, object_element, root>>

\* The container that is open goes on, ends, or neither.
NextElement ==
    /\ InEvaluate /\ states # <<>> /\ Top(states) = "array"
    /\ LastToken(at + 1).type = "value_separator"
    /\ at' = at + 2 /\ part' = "value"
    /\ UNCHANGED <<states, ref_stack, object_element, root>>

NextMember ==
    /\ InEvaluate /\ states # <<>> /\ Top(states) = "object"
    /\ LastToken(at + 1).type = "value_separator"
    /\ \/ /\ ReadsKey(at + 2)
          /\ LET key == LastToken(at + 2).text IN
             /\ root' = Key(root, Top(ref_stack), key)
             /\ object_element' = Append(Top(ref_stack), key)
          /\ at' = at + 4 /\ part' = "value"
          /\ UNCHANGED <<states, ref_stack>>
       \/ ~ReadsKey(at + 2) /\ Fail

Closing == IF Top(states) = "array" THEN "end_array" ELSE "end_object"

\* A bug to catch: the container that ends for the loop and stays open for the
\* value.
EndKeepsPointer ==
    /\ InEvaluate /\ states # <<>> /\ LastToken(at + 1).type = Closing
    /\ states' = Pop(states) /\ at' = at + 1
    /\ UNCHANGED <<part, ref_stack, object_element, root>>

EndContainer ==
    /\ InEvaluate /\ states # <<>> /\ LastToken(at + 1).type = Closing
    /\ states' = Pop(states) /\ ref_stack' = Pop(ref_stack)
    /\ at' = at + 1
    /\ UNCHANGED <<part, object_element, root>>

NeitherNorEnd ==
    /\ InEvaluate /\ states # <<>>
    /\ LastToken(at + 1).type \notin {"value_separator", Closing}
    /\ Fail

\* parse with strict = true: nothing may follow the value.
EndStrict ==
    /\ part = "root"
    /\ part' = IF LastToken(at + 1).type = "end_of_input" THEN "parsed" ELSE "failed"
    /\ UNCHANGED <<tokens, at, states, ref_stack, object_element, root>>

ParserNext ==
    \/ BeginObject \/ BeginArray \/ ScalarValue \/ NoValue
    \/ Complete \/ NextElement \/ NextMember \/ EndContainer \/ NeitherNorEnd
    \/ EndStrict

ParserInit ==
    /\ tokens \in Seq(Token) /\ at = 1 /\ part = "value"
    /\ states = <<>> /\ ref_stack = <<>> /\ object_element = <<>>
    /\ root = << >>

ParserSpec == ParserInit /\ [][ParserNext]_parserVars

-----------------------------------------------------------------------------
(* What the parser asserts of itself (the JSON_ASSERTs of the two classes) *)
(* and what it does not check.                                             *)

\* Whenever a key is added or a container is closed, the pointer on top of
\* ref_stack is to a container of the kind the loop has on top of states, and
\* that is a container of the value: the two stacks, which different calls push
\* and pop, never come apart (sax_parse_internal and json_sax_dom_parser).
StacksAgree ==
    /\ Len(ref_stack) = Len(states)
    /\ \A i \in DOMAIN states :
           ref_stack[i] \in DOMAIN root /\ root[ref_stack[i]].type = states[i]

\* Each open container is an element of the one below it.  An array moves its
\* elements when it grows: because only the innermost container grows, no
\* pointer on ref_stack is to an element that moves (emplace_back in
\* handle_value).
PointersNest ==
    \A i \in DOMAIN ref_stack :
        /\ Len(ref_stack[i]) = i - 1
        /\ i > 1 => SubSeq(ref_stack[i], 1, i - 2) = ref_stack[i - 1]

\* When a value of a member is read, object_element is the pointer to a member
\* of the object on top of ref_stack, and not to one of an object that was
\* closed since: there is one such pointer for all the objects that are open
\* (object_element in handle_value).
ElementIsOwned ==
    part = "value" /\ states # <<>> /\ Top(states) = "object" =>
        /\ object_element \in DOMAIN root
        /\ Len(object_element) = Len(ref_stack)
        /\ SubSeq(object_element, 1, Len(object_element) - 1) = Top(ref_stack)

PointersHold == StacksAgree /\ PointersNest /\ ElementIsOwned
=============================================================================
