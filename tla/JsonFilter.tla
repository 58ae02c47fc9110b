----------------------------- MODULE JsonFilter -----------------------------
(***************************************************************************)
(* parse with a callback that says of each element whether it is kept:     *)
(* json_sax_dom_callback_parser, which json_sax_dom_parser stands for when *)
(* there is none.  Each action is one call that sax_parse_internal makes   *)
(* for a correct text, with what the callback answers; a pointer is a      *)
(* path, as in JsonParser, or null where the element is not kept.  Beside  *)
(* the value under construction the module keeps what it should come to,   *)
(* put together without pointers: each container when it ends.             *)
(***************************************************************************)
EXTENDS JsonParser

CONSTANTS
    Name,       \* the keys, of one byte each
    MaxEvents   \* bound: the calls for one text

ASSUME FilterAssumption == Name \subseteq {<<b>> : b \in 1 .. 127} /\ MaxEvents \in Nat

VARIABLES
    open,           \* where the text is: the containers that are open; "member" is an
                    \* object whose key was read
    events,         \* the number of calls
    filtered,       \* the value under construction
    refs,           \* ref_stack
    element,        \* object_element
    keep_stack,     \* the callback's answers for the containers that are open
    key_keep_stack, \* its answers for keys
    wanted          \* history: for each open container, what it comes to so far

filterVars == <<open, events, filtered, refs, element, keep_stack, key_keep_stack, wanted>>

DiscardedValue == [type |-> "discarded", text |-> <<>>]
NullPointer == <<<<0>>>>
Scalar1 == [type |-> "value_unsigned", text |-> <<1>>]

FilterInit ==
    /\ open = <<>> /\ events = 0
    /\ filtered = << >> /\ refs = <<>> /\ element = NullPointer
    /\ keep_stack = <<TRUE>> /\ key_keep_stack = <<>>
    /\ wanted = <<>>

-----------------------------------------------------------------------------
(* What the text should come to.  A frame is a container that has begun,   *)
(* the answer it got, and the key that was read last with its answer.      *)

Merged(f, g) == [p \in DOMAIN f \cup DOMAIN g |-> IF p \in DOMAIN g THEN g[p] ELSE f[p]]
Within(step, tree) == [p \in {<<step>> \o q : q \in DOMAIN tree} |-> tree[Tail(p)]]
Single(v) == [p \in {<<>>} |-> v]
Without(tree, p) == [q \in {q \in DOMAIN tree : q # p /\ ~Below(p, q)} |-> tree[q]]

Frame(type, kept) ==
    [tree |-> Single(Container(type, 0)), kept |-> kept, key |-> <<>>, keyKept |-> FALSE]

WithElement(tree, element_) ==
    LET size == tree[<<>>].text[1] + 1
    IN Merged([tree EXCEPT ![<<>>] = Container("array", size)], Within(<<size>>, element_))

\* The frames after a value that is kept, or not.
Took(frames, tree, kept) ==
    IF frames = <<>> THEN <<[Frame("array", kept) EXCEPT !.tree = IF kept THEN tree ELSE << >>]>>
    ELSE LET top == Top(frames)
             new == CASE ~kept -> top.tree
                      [] kept /\ top.tree[<<>>].type = "array" -> WithElement(top.tree, tree)
                      [] OTHER -> IF top.keyKept THEN Merged(top.tree, Within(top.key, tree))
                                  ELSE top.tree
         IN Append(Pop(frames), [top EXCEPT !.tree = new])

WantKey(key, kept) ==
    LET top == Top(wanted)
    IN Append(Pop(wanted),
              [top EXCEPT !.key = key, !.keyKept = kept,
                          !.tree = IF kept THEN Without(@, <<key>>) ELSE @])

WantEnd(kept) == Took(Pop(wanted), Top(wanted).tree, Top(wanted).kept /\ kept)

-----------------------------------------------------------------------------
(* json_sax_dom_callback_parser.                                           *)

\* What handle_value makes of the value, the pointer it returns, and the answers
\* for keys, of which it takes one.
Handled(dom, ref, keys) == [dom |-> dom, ref |-> ref, keys |-> keys]
FilterValue(v, kept) ==
    CASE ~kept -> Handled(filtered, NullPointer, key_keep_stack)
      [] kept ->
         IF refs = <<>> THEN Handled(Single(v), <<>>, key_keep_stack)
         ELSE LET top == Top(refs) IN
              IF top = NullPointer THEN Handled(filtered, NullPointer, key_keep_stack)
              ELSE IF filtered[top].type = "array"
              THEN LET size == filtered[top].text[1] + 1
                       new == Append(top, <<size>>)
                   IN Handled(Assign([filtered EXCEPT ![top] = Container("array", size)], new, v),
                           new, key_keep_stack)
              ELSE IF Top(key_keep_stack)
              THEN Handled(Assign(filtered, element, v), element, Pop(key_keep_stack))
              ELSE Handled(filtered, NullPointer, Pop(key_keep_stack))

\* The element on top goes from the array.
WithoutLast(dom, p) ==
    LET size == dom[p].text[1]
    IN [Without(dom, Append(p, <<size>>)) EXCEPT ![p] = Container("array", size - 1)]

\* The loop over the container: the first discarded element of it is erased,
\* and only that one.
EraseDiscarded(dom, p) ==
    LET found == {q \in DOMAIN dom : Len(q) = Len(p) + 1 /\ Below(p, q) /\ dom[q].type = "discarded"}
    IN CASE found = {} -> dom
         [] found # {} /\ dom[p].type = "array" -> WithoutLast(dom, p)
         [] OTHER -> Without(dom, CHOOSE q \in found : \A r \in found : Top(q)[1] <= Top(r)[1])

\* The value may come next: at the start, in an array, behind a key.
ValueComes == IF open = <<>> THEN events = 0 ELSE Top(open) \in {"array", "member"}
AfterValue(o) == IF o # <<>> /\ Top(o) = "member" THEN Append(Pop(o), "object") ELSE o

Call == events < MaxEvents /\ events' = events + 1

FilterScalar(kept) ==
    /\ ValueComes /\ Call
    /\ LET new == FilterValue(Scalar1, Top(keep_stack) /\ kept)
       IN filtered' = new.dom /\ key_keep_stack' = new.keys
    /\ open' = AfterValue(open)
    /\ wanted' = Took(wanted, Single(Scalar1), kept)
    /\ UNCHANGED <<refs, element, keep_stack>>

\* start_object and start_array: handle_value does not ask the callback again.
FilterStart(type, kept) ==
    /\ ValueComes /\ Call
    /\ keep_stack' = Append(keep_stack, kept)
    /\ LET new == FilterValue(Container(type, 0), kept)
       IN /\ filtered' = new.dom /\ key_keep_stack' = new.keys
          /\ refs' = Append(refs, new.ref)
    /\ open' = Append(AfterValue(open), type)
    /\ wanted' = Append(wanted, Frame(type, kept))
    /\ UNCHANGED element

FilterStartObject(kept) == FilterStart("object", kept)
FilterStartArray(kept) == FilterStart("array", kept)

\* A bug to catch: object_element stays on the member before.
FilterKeyLeavesPointer(key, kept) ==
    /\ open # <<>> /\ Top(open) = "object" /\ Call
    /\ key_keep_stack' = Append(key_keep_stack, kept)
    /\ filtered' = IF kept /\ Top(refs) # NullPointer
                   THEN Assign(filtered, Append(Top(refs), key), DiscardedValue) ELSE filtered
    /\ open' = Append(Pop(open), "member")
    /\ wanted' = WantKey(key, kept)
    /\ UNCHANGED <<refs, element, keep_stack>>

FilterKey(key, kept) ==
    /\ open # <<>> /\ Top(open) = "object" /\ Call
    /\ key_keep_stack' = Append(key_keep_stack, kept)
    /\ IF kept /\ Top(refs) # NullPointer
       THEN /\ element' = Append(Top(refs), key)
            /\ filtered' = Assign(filtered, Append(Top(refs), key), DiscardedValue)
       ELSE UNCHANGED <<element, filtered>>
    /\ open' = Append(Pop(open), "member")
    /\ wanted' = WantKey(key, kept)
    /\ UNCHANGED <<refs, keep_stack>>

\* Where the container that ends was kept, the callback is asked again.
Ended(kept) ==
    IF Top(refs) = NullPointer \/ kept THEN filtered
    ELSE Assign(filtered, Top(refs), DiscardedValue)

FilterEndObject(kept) ==
    /\ open # <<>> /\ Top(open) = "object" /\ Call
    /\ LET outer == Pop(refs)
       IN filtered' = IF outer # <<>> /\ Top(outer) # NullPointer
                      THEN EraseDiscarded(Ended(kept), Top(outer)) ELSE Ended(kept)
    /\ refs' = Pop(refs) /\ keep_stack' = Pop(keep_stack)
    /\ open' = Pop(open) /\ wanted' = WantEnd(kept)
    /\ UNCHANGED <<element, key_keep_stack>>

\* A bug to catch: the answer for the array stays in force behind it.
FilterEndArrayKeepsAnswer(kept) ==
    /\ open # <<>> /\ Top(open) = "array" /\ Call
    /\ LET outer == Pop(refs)
       IN filtered' = IF Ended(kept) # filtered /\ outer # <<>> /\ filtered[Top(outer)].type = "array"
                      THEN WithoutLast(Ended(kept), Top(outer)) ELSE Ended(kept)
    /\ refs' = Pop(refs)
    /\ open' = Pop(open) /\ wanted' = WantEnd(kept)
    /\ UNCHANGED <<element, keep_stack, key_keep_stack>>

FilterEndArray(kept) ==
    /\ open # <<>> /\ Top(open) = "array" /\ Call
    /\ LET outer == Pop(refs)
       IN filtered' = IF Ended(kept) # filtered /\ outer # <<>> /\ filtered[Top(outer)].type = "array"
                      THEN WithoutLast(Ended(kept), Top(outer)) ELSE Ended(kept)
    /\ refs' = Pop(refs) /\ keep_stack' = Pop(keep_stack)
    /\ open' = Pop(open) /\ wanted' = WantEnd(kept)
    /\ UNCHANGED <<element, key_keep_stack>>

FilterNext ==
    \E kept \in BOOLEAN :
        \/ FilterScalar(kept)
        \/ FilterStartObject(kept) \/ FilterEndObject(kept)
        \/ FilterStartArray(kept) \/ FilterEndArray(kept)
        \/ \E key \in Name : FilterKey(key, kept)

FilterSpec == FilterInit /\ [][FilterNext]_filterVars

-----------------------------------------------------------------------------
\* parse: a value that was discarded is null.
FilterParsed ==
    IF filtered = << >> \/ filtered[<<>>] = DiscardedValue THEN Single(Null) ELSE filtered

Members(dom) == {p \in DOMAIN dom : dom[p] = DiscardedValue}

\* Whatever the callback answers, to keys, to values, when a container begins
\* and when it ends, in any nesting, what parse returns is what is left when
\* each element that got a no is taken out with all it contains; but members of
\* an object whose key got a yes and whose value got a no may remain as
\* discarded values (only the first of them is erased, and only when a later
\* object in the same object ends), never elements of an array
\* (json_sax_dom_callback_parser, json.hpp:9123-9558).
FilterIsExact ==
    events > 0 /\ open = <<>> =>
        LET found == FilterParsed
            left == Members(found)
            result == Top(wanted).tree
        IN /\ [p \in DOMAIN found \ left |-> found[p]] = IF result = << >> THEN Single(Null) ELSE result
           /\ \A p \in left : p # <<>> /\ found[Pop(p)].type = "object"

\* The stacks and the pointers behind which the value is put together hold
\* whatever the callback answers, also while elements are erased: ref_stack and
\* keep_stack have an entry for every container that is open, a pointer that is
\* not null is to a container of that kind in the value, and where the value of
\* a member comes next its key's answer is on top and object_element, if the
\* answer was yes, is a member of the innermost object.  These are the
\* JSON_ASSERTs of json_sax_dom_callback_parser (json.hpp:9271-9272, 9356-9357,
\* 9472, 9511, 9521-9532), and what it does not assert: that no pointer dangles.
FilterPointersHold ==
    open # <<>> =>
        /\ Len(refs) = Len(open) /\ Len(keep_stack) = Len(open) + 1
        /\ \A i \in DOMAIN refs : refs[i] # NullPointer =>
               /\ refs[i] \in DOMAIN filtered
               /\ filtered[refs[i]].type = IF open[i] = "array" THEN "array" ELSE "object"
        /\ Top(open) = "member" /\ Top(refs) # NullPointer =>
               /\ key_keep_stack # <<>>
               /\ Top(key_keep_stack) => /\ element \in DOMAIN filtered
                                         /\ element # <<>> /\ Pop(element) = Top(refs)
=============================================================================
