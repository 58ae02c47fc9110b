----------------------------- MODULE JsonProofs -----------------------------
(***************************************************************************)
(* The two parsers that build a value, without a callback (JsonParser) and *)
(* with one (JsonFilter).                                                  *)
(*                                                                         *)
(* Without a callback the two stacks of the parser never come apart and    *)
(* its pointers never dangle, for every sequence of tokens.  The inductive *)
(* invariant PInv is PointersHold with the types it needs.  The argument   *)
(* is one of lengths: an element under construction has a longer path than *)
(* every container that is open, so that no assignment to it touches one   *)
(* of them.                                                                *)
(*                                                                         *)
(* parse with a callback returns what the callback left of the text, for   *)
(* texts of any length and depth and any answers.  Beside the value under  *)
(* construction, which is one function from paths to nodes that pointers   *)
(* change in place, the model keeps in wanted what each open container     *)
(* comes to, as a tree of its own.  The inductive invariant FilterInv says *)
(* that the value shows these trees, each at the pointer of its container  *)
(* and each with a hole where the next one is under construction; that the *)
(* pointers nest as the containers do, or are null from some level on; and *)
(* that what is discarded is a leaf and a member of an object, so that the *)
(* loop of end_object erases nothing else.  An action then changes the     *)
(* value inside one container only (Settled), and it remains to say what   *)
(* one handle_value, one key or one end does to the tree of that           *)
(* container.  Paths are joined there with Join, which is opaque to the    *)
(* provers: what they need of it is in the first lemmas of that part.      *)
(***************************************************************************)
EXTENDS JsonFilter, TLAPS, SequenceTheorems, WellFoundedInduction

-----------------------------------------------------------------------------
(* The parser without a callback.                                          *)

PathStep == Text \cup {<<>>} \cup {<<n>> : n \in Nat}
Path == Seq(PathStep)

\* An array has its size, which HandleValue counts on.
ArraysSized(dom) ==
    \A p \in DOMAIN dom : dom[p].type = "array" => \E n \in Nat : dom[p].text = <<n>>

PTypeOK ==
    /\ tokens \in Seq(Token) /\ at \in Nat /\ part \in Parts
    /\ states \in Seq({"array", "object"})
    /\ ref_stack \in Seq(Path) /\ object_element \in Path
    /\ DOMAIN root \subseteq Path
    /\ ArraysSized(root)

PInv == PTypeOK /\ PointersHold

\* The containers that are open are in dom, with their kinds.
KeepsOpen(dom) ==
    \A i \in DOMAIN ref_stack :
        ref_stack[i] \in DOMAIN dom /\ dom[ref_stack[i]].type = root[ref_stack[i]].type

Typed(dom) == DOMAIN dom \subseteq Path /\ ArraysSized(dom)

-----------------------------------------------------------------------------
LEMMA LastTokenType ==
    ASSUME tokens \in Seq(Token), NEW i
    PROVE  LastToken(i) \in Token
<1>1. EndOfInput \in Token
  BY DEF EndOfInput, Token, TokenType
<1>2. ASSUME i \in DOMAIN tokens PROVE tokens[i] \in Token
  BY <1>2
<1>3. QED
  BY <1>1, <1>2 DEF LastToken

\* What an assignment leaves alone: every path that is not longer.
LEMMA AssignKeeps ==
    ASSUME NEW dom, NEW p, NEW v, NEW D, D = Assign(dom, p, v)
    PROVE  /\ p \in DOMAIN D /\ D[p] = v
           /\ \A q \in DOMAIN dom : q # p /\ ~(Len(q) > Len(p)) => q \in DOMAIN D /\ D[q] = dom[q]
           /\ \A q \in DOMAIN D : q = p \/ (q \in DOMAIN dom /\ D[q] = dom[q])
BY DEF Assign, Below

LEMMA AppendPath ==
    ASSUME NEW p \in Path, NEW k \in PathStep
    PROVE  /\ Append(p, k) \in Path
           /\ Len(Append(p, k)) = Len(p) + 1
           /\ SubSeq(Append(p, k), 1, Len(p)) = p
<1> DEFINE S == PathStep
<1>1. p \in Seq(S) /\ k \in S
  BY DEF Path
<1> HIDE DEF S
<1>2. /\ Append(p, k) \in Seq(S)
      /\ Len(Append(p, k)) = Len(p) + 1
      /\ SubSeq(Append(p, k), 1, Len(p)) = p
  BY <1>1
<1>3. QED
  BY <1>2 DEF S, Path

LEMMA TopIsOpen ==
    ASSUME PInv, ref_stack # <<>>
    PROVE  /\ Len(ref_stack) \in Nat \ {0}
           /\ Len(ref_stack) = Len(states) /\ Len(ref_stack) \in DOMAIN ref_stack
           /\ Top(ref_stack) \in Path /\ Top(ref_stack) \in DOMAIN root
           /\ Len(Top(ref_stack)) = Len(ref_stack) - 1
           /\ root[Top(ref_stack)].type = Top(states)
           /\ Top(states) \in {"array", "object"}
<1>1. Len(ref_stack) \in Nat \ {0} /\ Len(ref_stack) = Len(states)
  BY DEF PInv, PTypeOK, PointersHold, StacksAgree
<1>2. Len(ref_stack) \in DOMAIN ref_stack /\ Len(ref_stack) \in DOMAIN states
  BY <1>1 DEF PInv, PTypeOK
<1>3. Top(ref_stack) \in Path /\ Top(states) \in {"array", "object"}
  BY <1>1, <1>2 DEF PInv, PTypeOK, Top
<1>4. QED
  BY <1>1, <1>2, <1>3 DEF PInv, PointersHold, StacksAgree, PointersNest, Top

\* Where a value goes, and what stays as it is.
LEMMA HandleValueFacts ==
    ASSUME PInv, part = "value", NEW v, v.type = "array" => v.text = << 0 >>
    PROVE  /\ HandleValue(v)[1] \in Path
           /\ Len(HandleValue(v)[1]) = Len(ref_stack)
           /\ ref_stack # <<>> =>
                  SubSeq(HandleValue(v)[1], 1, Len(ref_stack) - 1) = Top(ref_stack)
           /\ HandleValue(v)[1] \in DOMAIN HandleValue(v)[2]
           /\ HandleValue(v)[2][HandleValue(v)[1]] = v
           /\ Typed(HandleValue(v)[2]) /\ KeepsOpen(HandleValue(v)[2])
<1> DEFINE top == Top(ref_stack)
<1>1. CASE ref_stack = <<>>
  <2> DEFINE D == Assign(<< >>, <<>>, v)
  <2>1. HandleValue(v)[1] = <<>> /\ HandleValue(v)[2] = D
    BY <1>1 DEF HandleValue
  <2>2. <<>> \in Path /\ Len(<<>>) = 0 /\ DOMAIN << >> = {}
    BY DEF Path
  <2>3. DOMAIN D = {<<>>} /\ D[<<>>] = v
    BY <2>2 DEF Assign
  <2>4. Typed(D)
    BY <2>2, <2>3 DEF Typed, ArraysSized
  <2>5. QED
    BY <1>1, <2>1, <2>2, <2>3, <2>4 DEF KeepsOpen
<1>2. CASE ref_stack # <<>> /\ root[top].type = "array"
  <2>1. PICK n \in Nat : root[top].text = <<n>>
    BY <1>2, TopIsOpen DEF PInv, PTypeOK, ArraysSized
  <2> DEFINE step == <<n + 1>>
             new == Append(top, step)
             grown == [root EXCEPT ![top] = Container("array", n + 1)]
             D == Assign(grown, new, v)
  <2>2. root[top].text[1] + 1 = n + 1
    BY <2>1
  <2>3. HandleValue(v)[1] = new /\ HandleValue(v)[2] = D
    BY <1>2, <2>2 DEF HandleValue
  <2>4. step \in PathStep
    BY DEF PathStep
  <2>5. new \in Path /\ Len(new) = Len(ref_stack) /\ SubSeq(new, 1, Len(ref_stack) - 1) = top
    BY <1>2, <2>4, TopIsOpen, AppendPath
  <2>6. /\ DOMAIN grown = DOMAIN root
        /\ \A q \in DOMAIN root : q # top => grown[q] = root[q]
        /\ grown[top] = Container("array", n + 1)
    BY <1>2, TopIsOpen
  <2>7. /\ new \in DOMAIN D /\ D[new] = v
        /\ \A q \in DOMAIN grown : q # new /\ ~(Len(q) > Len(new)) => q \in DOMAIN D /\ D[q] = grown[q]
        /\ \A q \in DOMAIN D : q = new \/ (q \in DOMAIN grown /\ D[q] = grown[q])
    <3> HIDE DEF new, grown
    <3>1. QED
      BY AssignKeeps
  <2> HIDE DEF D, new, grown
  <2>8. Typed(D)
    <3>1. DOMAIN D \subseteq Path
      BY <2>5, <2>6, <2>7 DEF PInv, PTypeOK
    <3>2. ASSUME NEW p \in DOMAIN D, D[p].type = "array" PROVE \E k \in Nat : D[p].text = <<k>>
      <4>1. CASE p = new
        BY <3>2, <4>1, <2>7
      <4>2. CASE p # new /\ p = top
        BY <3>2, <4>2, <2>6, <2>7 DEF Container
      <4>3. CASE p # new /\ p # top
        BY <3>2, <4>3, <2>6, <2>7 DEF PInv, PTypeOK, ArraysSized
      <4>4. QED
        BY <4>1, <4>2, <4>3
    <3>3. QED
      BY <3>1, <3>2 DEF Typed, ArraysSized
  <2>9. KeepsOpen(D)
    <3> SUFFICES ASSUME NEW i \in DOMAIN ref_stack
                 PROVE  ref_stack[i] \in DOMAIN D /\ D[ref_stack[i]].type = root[ref_stack[i]].type
      BY DEF KeepsOpen
    <3>1. Len(ref_stack[i]) = i - 1 /\ ref_stack[i] \in DOMAIN root /\ i \in 1 .. Len(ref_stack)
      BY DEF PInv, PTypeOK, PointersHold, StacksAgree, PointersNest
    <3>2. ref_stack[i] # new /\ ~(Len(ref_stack[i]) > Len(new))
      BY <3>1, <2>5, TopIsOpen, <1>2
    <3>3. ref_stack[i] \in DOMAIN D /\ D[ref_stack[i]] = grown[ref_stack[i]]
      BY <3>1, <3>2, <2>6, <2>7
    <3>4. grown[ref_stack[i]].type = root[ref_stack[i]].type
      BY <1>2, <2>6, <3>1 DEF Container
    <3>5. QED
      BY <3>3, <3>4
  <2>10. QED
    BY <2>3, <2>5, <2>7, <2>8, <2>9
<1>3. CASE ref_stack # <<>> /\ root[top].type # "array"
  <2> DEFINE new == object_element
             D == Assign(root, new, v)
  <2>1. HandleValue(v)[1] = new /\ HandleValue(v)[2] = D
    BY <1>3 DEF HandleValue
  <2>2. states # <<>> /\ Top(states) = "object"
    BY <1>3, TopIsOpen
  <2>3. /\ new \in Path /\ Len(new) = Len(ref_stack)
        /\ SubSeq(new, 1, Len(ref_stack) - 1) = top
    BY <1>3, <2>2 DEF PInv, PTypeOK, PointersHold, ElementIsOwned
  <2>4. /\ new \in DOMAIN D /\ D[new] = v
        /\ \A q \in DOMAIN root : q # new /\ ~(Len(q) > Len(new)) => q \in DOMAIN D /\ D[q] = root[q]
        /\ \A q \in DOMAIN D : q = new \/ (q \in DOMAIN root /\ D[q] = root[q])
    <3> HIDE DEF new
    <3>1. QED
      BY AssignKeeps
  <2> HIDE DEF D, new
  <2>5. Typed(D)
    BY <2>3, <2>4 DEF Typed, ArraysSized, PInv, PTypeOK
  <2>6. KeepsOpen(D)
    <3> SUFFICES ASSUME NEW i \in DOMAIN ref_stack
                 PROVE  ref_stack[i] \in DOMAIN D /\ D[ref_stack[i]].type = root[ref_stack[i]].type
      BY DEF KeepsOpen
    <3>1. Len(ref_stack[i]) = i - 1 /\ ref_stack[i] \in DOMAIN root /\ i \in 1 .. Len(ref_stack)
      BY DEF PInv, PTypeOK, PointersHold, StacksAgree, PointersNest
    <3>2. ref_stack[i] # new /\ ~(Len(ref_stack[i]) > Len(new))
      BY <3>1, <2>3, TopIsOpen, <1>3
    <3>3. QED
      BY <3>1, <3>2, <2>4
  <2>7. QED
    BY <2>1, <2>3, <2>4, <2>5, <2>6
<1>4. QED
  BY <1>1, <1>2, <1>3

\* A key puts a member into its container and changes no path that is as short
\* as the container's.
LEMMA KeyFacts ==
    ASSUME NEW dom, Typed(dom), NEW c \in Path, c \in DOMAIN dom, NEW k \in PathStep,
           NEW D, D = Key(dom, c, k)
    PROVE  /\ Append(c, k) \in DOMAIN D /\ Typed(D)
           /\ \A q \in DOMAIN dom : ~(Len(q) > Len(c)) => q \in DOMAIN D /\ D[q] = dom[q]
<1> DEFINE p == Append(c, k)
<1>1. p \in Path /\ Len(p) = Len(c) + 1
  BY AppendPath
<1>2. CASE p \in DOMAIN dom
  BY <1>2 DEF Key
<1>3. CASE p \notin DOMAIN dom
  <2>1. D = Assign(dom, p, Null)
    BY <1>3 DEF Key
  <2> HIDE DEF p
  <2>2. /\ p \in DOMAIN D /\ D[p] = Null
        /\ \A q \in DOMAIN dom : q # p /\ ~(Len(q) > Len(p)) => q \in DOMAIN D /\ D[q] = dom[q]
        /\ \A q \in DOMAIN D : q = p \/ (q \in DOMAIN dom /\ D[q] = dom[q])
    BY <2>1, AssignKeeps
  <2>3. Typed(D)
    BY <1>1, <2>2 DEF Typed, ArraysSized, Null
  <2>4. ASSUME NEW q \in DOMAIN dom, ~(Len(q) > Len(c)) PROVE q \in DOMAIN D /\ D[q] = dom[q]
    <3>1. Len(q) \in Nat /\ Len(c) \in Nat
      BY DEF Typed, Path
    <3>2. QED
      BY <1>1, <1>3, <2>2, <2>4, <3>1
  <2>5. QED
    BY <2>2, <2>3, <2>4 DEF p
<1>4. QED
  BY <1>2, <1>3

-----------------------------------------------------------------------------
LEMMA ParserInitHolds == ParserInit => PInv
<1> SUFFICES ASSUME ParserInit PROVE PInv
  OBVIOUS
<1>1. states = <<>> /\ ref_stack = <<>> /\ object_element = <<>> /\ DOMAIN root = {}
  BY DEF ParserInit
<1>2. PTypeOK
  BY <1>1 DEF ParserInit, PTypeOK, Parts, Path, ArraysSized
<1>3. PointersHold
  BY <1>1 DEF PointersHold, StacksAgree, PointersNest, ElementIsOwned
<1>4. QED
  BY <1>2, <1>3 DEF PInv

\* A container is opened: both stacks grow.
LEMMA Opens ==
    ASSUME PInv, NEW kind \in {"array", "object"}, NEW new \in Path, NEW dom,
           Len(new) = Len(ref_stack),
           ref_stack # <<>> => SubSeq(new, 1, Len(ref_stack) - 1) = Top(ref_stack),
           new \in DOMAIN dom, dom[new].type = kind, KeepsOpen(dom),
           root' = dom, states' = Append(states, kind), ref_stack' = Append(ref_stack, new)
    PROVE  /\ StacksAgree' /\ PointersNest'
           /\ states' \in Seq({"array", "object"}) /\ ref_stack' \in Seq(Path)
           /\ Len(ref_stack') = Len(ref_stack) + 1 /\ Top(ref_stack') = new
           /\ Top(states') = kind
<1> DEFINE n == Len(ref_stack)
<1>1. n \in Nat /\ Len(states) = n /\ states \in Seq({"array", "object"}) /\ ref_stack \in Seq(Path)
  BY DEF PInv, PTypeOK, PointersHold, StacksAgree
<1> HIDE DEF Path
<1>2. /\ states' \in Seq({"array", "object"}) /\ ref_stack' \in Seq(Path)
      /\ Len(ref_stack') = n + 1 /\ Len(states') = n + 1
      /\ ref_stack'[n + 1] = new /\ states'[n + 1] = kind
      /\ \A i \in 1 .. n : ref_stack'[i] = ref_stack[i] /\ states'[i] = states[i]
  BY <1>1
<1>3. DOMAIN ref_stack = 1 .. n /\ DOMAIN states = 1 .. n
      /\ DOMAIN ref_stack' = 1 .. (n + 1) /\ DOMAIN states' = 1 .. (n + 1)
  BY <1>1, <1>2
<1>4. StacksAgree'
  <2> SUFFICES ASSUME NEW i \in 1 .. (n + 1)
               PROVE  ref_stack'[i] \in DOMAIN dom /\ dom[ref_stack'[i]].type = states'[i]
    BY <1>2, <1>3 DEF StacksAgree
  <2>1. CASE i = n + 1
    BY <2>1, <1>2
  <2>2. CASE i \in 1 .. n
    BY <2>2, <1>2, <1>3 DEF KeepsOpen, PInv, PointersHold, StacksAgree
  <2>3. QED
    BY <2>1, <2>2, <1>1
<1>5. PointersNest'
  <2> SUFFICES ASSUME NEW i \in 1 .. (n + 1)
               PROVE  /\ Len(ref_stack'[i]) = i - 1
                      /\ i > 1 => SubSeq(ref_stack'[i], 1, i - 2) = ref_stack'[i - 1]
    BY <1>3 DEF PointersNest
  <2>1. CASE i = n + 1
    <3>1. i > 1 => ref_stack'[i - 1] = ref_stack[n] /\ ref_stack # <<>> /\ i - 2 = n - 1
      BY <2>1, <1>1, <1>2
    <3>2. QED
      BY <2>1, <3>1, <1>1, <1>2 DEF Top
  <2>2. CASE i \in 1 .. n
    <3>1. i > 1 => ref_stack'[i - 1] = ref_stack[i - 1]
      BY <2>2, <1>1, <1>2
    <3>2. QED
      BY <2>2, <3>1, <1>2, <1>3 DEF PInv, PointersHold, PointersNest
  <2>3. QED
    BY <2>1, <2>2, <1>1
<1>6. QED
  BY <1>2, <1>4, <1>5 DEF Top

\* No container is opened or closed, and the value keeps those that are open.
LEMMA Stays ==
    ASSUME PInv, NEW dom, KeepsOpen(dom), root' = dom, UNCHANGED <<states, ref_stack>>
    PROVE  StacksAgree' /\ PointersNest'
<1>1. DOMAIN states = DOMAIN ref_stack
  BY DEF PInv, PTypeOK, PointersHold, StacksAgree
<1>2. StacksAgree'
  BY <1>1 DEF PInv, PointersHold, StacksAgree, KeepsOpen
<1>3. PointersNest'
  BY DEF PInv, PointersHold, PointersNest
<1>4. QED
  BY <1>2, <1>3

LEMMA KeepsRoot == KeepsOpen(root) <=> \A i \in DOMAIN ref_stack : ref_stack[i] \in DOMAIN root
BY DEF KeepsOpen

LEMMA FailKeeps == PInv /\ Fail => PInv'
<1> SUFFICES ASSUME PInv, Fail PROVE PInv'
  OBVIOUS
<1> USE DEF Fail
<1>1. PTypeOK'
  BY DEF PInv, PTypeOK, Parts, ArraysSized
<1>2. PointersHold'
  BY DEF PInv, PointersHold, StacksAgree, PointersNest, ElementIsOwned
<1>3. QED
  BY <1>1, <1>2 DEF PInv

LEMMA BeginObjectKeeps == PInv /\ BeginObject => PInv'
<1> SUFFICES ASSUME PInv, BeginObject PROVE PInv'
  OBVIOUS
<1> DEFINE v == Container("object", 0)
           new == HandleValue(v)[1]
           dom == HandleValue(v)[2]
<1>1. part = "value" /\ tokens' = tokens /\ at \in Nat
  BY DEF BeginObject, InValue, PInv, PTypeOK
<1>2. v.type = "object" /\ (v.type = "array" => v.text = <<0>>)
  BY DEF Container
<1>3. /\ new \in Path /\ Len(new) = Len(ref_stack)
      /\ ref_stack # <<>> => SubSeq(new, 1, Len(ref_stack) - 1) = Top(ref_stack)
      /\ new \in DOMAIN dom /\ dom[new] = v
      /\ Typed(dom) /\ KeepsOpen(dom)
  BY <1>1, <1>2, HandleValueFacts
<1>4. CASE /\ root' = dom /\ at' = at + 1 /\ part' = "evaluate"
           /\ UNCHANGED <<states, ref_stack, object_element>>
  <2> HIDE DEF dom, new
  <2>1. StacksAgree' /\ PointersNest'
    BY <1>3, <1>4, Stays
  <2>2. PTypeOK'
    BY <1>1, <1>3, <1>4 DEF PInv, PTypeOK, Typed, ArraysSized, Parts
  <2>3. ElementIsOwned'
    BY <1>4 DEF ElementIsOwned
  <2>4. QED
    BY <2>1, <2>2, <2>3 DEF PInv, PointersHold
<1>5. CASE /\ ReadsKey(at + 1)
           /\ root' = Key(dom, new, LastToken(at + 1).text)
           /\ object_element' = Append(new, LastToken(at + 1).text)
           /\ ref_stack' = Append(ref_stack, new)
           /\ states' = Append(states, "object")
           /\ at' = at + 3 /\ UNCHANGED part
  <2> DEFINE k == LastToken(at + 1).text
             D == Key(dom, new, k)
  <2>1. k \in PathStep
    BY LastTokenType DEF PInv, PTypeOK, Token, PathStep
  <2> HIDE DEF k, dom, new
  <2>2. /\ Append(new, k) \in DOMAIN D /\ Typed(D)
        /\ \A q \in DOMAIN dom : ~(Len(q) > Len(new)) => q \in DOMAIN D /\ D[q] = dom[q]
    BY <1>3, <2>1, KeyFacts
  <2> HIDE DEF D
  <2>3. KeepsOpen(D)
    <3> SUFFICES ASSUME NEW i \in DOMAIN ref_stack
                 PROVE  ref_stack[i] \in DOMAIN D /\ D[ref_stack[i]].type = root[ref_stack[i]].type
      BY DEF KeepsOpen
    <3>1. Len(ref_stack[i]) = i - 1 /\ i \in 1 .. Len(ref_stack) /\ Len(ref_stack) \in Nat
      BY DEF PInv, PTypeOK, PointersHold, PointersNest
    <3>2. ~(Len(ref_stack[i]) > Len(new))
      BY <3>1, <1>3
    <3>3. QED
      BY <3>2, <2>2, <1>3 DEF KeepsOpen
  <2>4. new \in DOMAIN D /\ D[new].type = "object"
    <3>1. Len(new) \in Nat
      BY <1>3 DEF Path
    <3>2. QED
      BY <3>1, <2>2, <1>2, <1>3
  <2>5. /\ root' = D /\ object_element' = Append(new, k)
        /\ ref_stack' = Append(ref_stack, new) /\ states' = Append(states, "object")
    BY <1>5 DEF D, k
  <2>6. /\ StacksAgree' /\ PointersNest'
        /\ states' \in Seq({"array", "object"}) /\ ref_stack' \in Seq(Path)
        /\ Len(ref_stack') = Len(ref_stack) + 1 /\ Top(ref_stack') = new
    BY <1>3, <2>3, <2>4, <2>5, Opens
  <2>7. /\ object_element' \in Path /\ Len(object_element') = Len(new) + 1
        /\ SubSeq(object_element', 1, Len(new)) = new
    BY <1>3, <2>1, <2>5, AppendPath
  <2>8. ElementIsOwned'
    <3>1. Len(new) \in Nat
      BY <1>3 DEF Path
    <3>2. Len(object_element') - 1 = Len(new)
      BY <2>7, <3>1
    <3>3. Len(object_element') = Len(ref_stack')
      BY <2>6, <2>7, <1>3
    <3>4. object_element' \in DOMAIN root'
      BY <2>2, <2>5
    <3>5. SubSeq(object_element', 1, Len(object_element') - 1) = Top(ref_stack')
      BY <2>6, <2>7, <3>2
    <3>6. QED
      BY <3>3, <3>4, <3>5 DEF ElementIsOwned
  <2>9. PTypeOK'
    <3>1. DOMAIN root' \subseteq Path /\ ArraysSized(root')
      BY <2>2, <2>5 DEF Typed, ArraysSized
    <3>2. /\ tokens' \in Seq(Token) /\ at' \in Nat /\ part' \in Parts
          /\ object_element' \in Path
      BY <1>1, <1>5, <2>7 DEF PInv, PTypeOK
    <3>3. QED
      BY <2>6, <3>1, <3>2 DEF PTypeOK
  <2>10. QED
    BY <2>6, <2>8, <2>9 DEF PInv, PointersHold
<1>6. CASE Fail
  BY <1>6, FailKeeps
<1>7. QED
  BY <1>4, <1>5, <1>6 DEF BeginObject

LEMMA BeginArrayKeeps == PInv /\ BeginArray => PInv'
<1> SUFFICES ASSUME PInv, BeginArray PROVE PInv'
  OBVIOUS
<1> DEFINE v == Container("array", 0)
           new == HandleValue(v)[1]
           dom == HandleValue(v)[2]
<1>1. part = "value" /\ tokens' = tokens /\ at \in Nat /\ at' = at + 1 /\ root' = dom
      /\ object_element' = object_element
  BY DEF BeginArray, InValue, PInv, PTypeOK
<1>2. v.type = "array" /\ v.text = <<0>>
  BY DEF Container
<1>3. /\ new \in Path /\ Len(new) = Len(ref_stack)
      /\ ref_stack # <<>> => SubSeq(new, 1, Len(ref_stack) - 1) = Top(ref_stack)
      /\ new \in DOMAIN dom /\ dom[new] = v
      /\ Typed(dom) /\ KeepsOpen(dom)
  BY <1>1, <1>2, HandleValueFacts
<1>4. CASE part' = "evaluate" /\ UNCHANGED <<states, ref_stack>>
  <2> HIDE DEF dom, new
  <2>1. StacksAgree' /\ PointersNest'
    BY <1>1, <1>3, <1>4, Stays
  <2>2. PTypeOK'
    BY <1>1, <1>3, <1>4 DEF PInv, PTypeOK, Typed, ArraysSized, Parts
  <2>3. ElementIsOwned'
    BY <1>4 DEF ElementIsOwned
  <2>4. QED
    BY <2>1, <2>2, <2>3 DEF PInv, PointersHold
<1>5. CASE /\ states' = Append(states, "array")
           /\ ref_stack' = Append(ref_stack, new)
           /\ UNCHANGED part
  <2> HIDE DEF dom, new
  <2>1. dom[new].type = "array"
    BY <1>2, <1>3
  <2>2. /\ StacksAgree' /\ PointersNest'
        /\ states' \in Seq({"array", "object"}) /\ ref_stack' \in Seq(Path)
        /\ Top(states') = "array"
    BY <1>1, <1>3, <1>5, <2>1, Opens
  <2>3. ElementIsOwned'
    BY <2>2 DEF ElementIsOwned
  <2>4. PTypeOK'
    BY <1>1, <1>3, <1>5, <2>2 DEF PInv, PTypeOK, Typed, ArraysSized
  <2>5. QED
    BY <2>2, <2>3, <2>4 DEF PInv, PointersHold
<1>6. QED
  BY <1>4, <1>5 DEF BeginArray

LEMMA ScalarValueKeeps == PInv /\ ScalarValue => PInv'
<1> SUFFICES ASSUME PInv, ScalarValue PROVE PInv'
  OBVIOUS
<1> DEFINE v == LastToken(at)
           dom == HandleValue(v)[2]
<1>1. /\ part = "value" /\ part' = "evaluate" /\ root' = dom
      /\ UNCHANGED <<tokens, at, states, ref_stack, object_element>>
  BY DEF ScalarValue, InValue
<1>2. v.type = "array" => v.text = <<0>>
  BY DEF ScalarValue, Scalar
<1>3. Typed(dom) /\ KeepsOpen(dom)
  BY <1>1, <1>2, HandleValueFacts
<1> HIDE DEF dom
<1>4. StacksAgree' /\ PointersNest'
  BY <1>1, <1>3, Stays
<1>5. PTypeOK'
  BY <1>1, <1>3 DEF PInv, PTypeOK, Typed, ArraysSized, Parts
<1>6. ElementIsOwned'
  BY <1>1 DEF ElementIsOwned
<1>7. QED
  BY <1>4, <1>5, <1>6 DEF PInv, PointersHold

LEMMA NextMemberKeeps == PInv /\ NextMember => PInv'
<1> SUFFICES ASSUME PInv, NextMember PROVE PInv'
  OBVIOUS
<1> DEFINE k == LastToken(at + 2).text
           top == Top(ref_stack)
           D == Key(root, top, k)
<1>1. states # <<>> /\ tokens' = tokens /\ at \in Nat
  BY DEF NextMember, InEvaluate, PInv, PTypeOK
<1>2. CASE Fail
  BY <1>2, FailKeeps
<1>3. CASE /\ root' = D /\ object_element' = Append(top, k)
           /\ at' = at + 4 /\ part' = "value"
           /\ UNCHANGED <<states, ref_stack>>
  <2>1. ref_stack # <<>>
    BY <1>1 DEF PInv, PTypeOK, PointersHold, StacksAgree
  <2>2. k \in PathStep
    BY LastTokenType DEF PInv, PTypeOK, Token, PathStep
  <2>3. top \in Path /\ top \in DOMAIN root /\ Len(top) = Len(ref_stack) - 1 /\ Len(ref_stack) \in Nat
    BY <2>1, TopIsOpen
  <2> HIDE DEF k, top
  <2>4. Typed(root)
    BY DEF PInv, PTypeOK, Typed
  <2>5. /\ Append(top, k) \in DOMAIN D /\ Typed(D)
        /\ \A q \in DOMAIN root : ~(Len(q) > Len(top)) => q \in DOMAIN D /\ D[q] = root[q]
    BY <2>2, <2>3, <2>4, KeyFacts
  <2> HIDE DEF D
  <2>6. KeepsOpen(D)
    <3> SUFFICES ASSUME NEW i \in DOMAIN ref_stack
                 PROVE  ref_stack[i] \in DOMAIN D /\ D[ref_stack[i]].type = root[ref_stack[i]].type
      BY DEF KeepsOpen
    <3>1. /\ Len(ref_stack[i]) = i - 1 /\ i \in 1 .. Len(ref_stack)
          /\ ref_stack[i] \in DOMAIN root
      BY DEF PInv, PTypeOK, PointersHold, PointersNest, StacksAgree
    <3>2. QED
      BY <3>1, <2>3, <2>5
  <2>7. StacksAgree' /\ PointersNest'
    BY <1>3, <2>6, Stays
  <2>8. /\ object_element' \in Path /\ Len(object_element') = Len(top) + 1
        /\ SubSeq(object_element', 1, Len(top)) = top
    BY <1>3, <2>2, <2>3, AppendPath
  <2>9. ElementIsOwned'
    <3>1. Len(object_element') - 1 = Len(top) /\ Len(object_element') = Len(ref_stack')
      BY <1>3, <2>3, <2>8
    <3>2. Top(ref_stack') = top
      BY <1>3 DEF top, Top
    <3>3. object_element' \in DOMAIN root'
      BY <1>3, <2>5
    <3>4. QED
      BY <3>1, <3>2, <3>3, <2>8 DEF ElementIsOwned
  <2>10. PTypeOK'
    BY <1>1, <1>3, <2>5, <2>8 DEF PInv, PTypeOK, Typed, ArraysSized, Parts
  <2>11. QED
    BY <2>7, <2>9, <2>10 DEF PInv, PointersHold
<1>4. QED
  BY <1>2, <1>3 DEF NextMember

LEMMA EndContainerKeeps == PInv /\ EndContainer => PInv'
<1> SUFFICES ASSUME PInv, EndContainer PROVE PInv'
  OBVIOUS
<1> DEFINE n == Len(ref_stack)
<1>1. /\ states # <<>> /\ part = "evaluate" /\ at' = at + 1
      /\ states' = SubSeq(states, 1, Len(states) - 1)
      /\ ref_stack' = SubSeq(ref_stack, 1, n - 1)
      /\ UNCHANGED <<tokens, part, object_element, root>>
  BY DEF EndContainer, InEvaluate, Pop
<1>2. n \in Nat /\ Len(states) = n /\ n # 0
      /\ states \in Seq({"array", "object"}) /\ ref_stack \in Seq(Path)
  BY <1>1 DEF PInv, PTypeOK, PointersHold, StacksAgree
<1> HIDE DEF Path
<1>3. /\ states' \in Seq({"array", "object"}) /\ ref_stack' \in Seq(Path)
      /\ Len(states') = n - 1 /\ Len(ref_stack') = n - 1
      /\ \A i \in 1 .. (n - 1) : ref_stack'[i] = ref_stack[i] /\ states'[i] = states[i]
  BY <1>1, <1>2
<1>4. /\ DOMAIN ref_stack = 1 .. n /\ DOMAIN states = 1 .. n
      /\ DOMAIN ref_stack' = 1 .. (n - 1) /\ DOMAIN states' = 1 .. (n - 1)
  BY <1>2, <1>3
<1>5. StacksAgree'
  BY <1>1, <1>2, <1>3, <1>4 DEF PInv, PointersHold, StacksAgree
<1>6. PointersNest'
  BY <1>2, <1>3, <1>4 DEF PInv, PointersHold, PointersNest
<1>7. ElementIsOwned'
  BY <1>1 DEF ElementIsOwned
<1>8. PTypeOK'
  BY <1>1, <1>3 DEF PInv, PTypeOK, ArraysSized
<1>9. QED
  BY <1>5, <1>6, <1>7, <1>8 DEF PInv, PointersHold

\* Comma in an array, the end of the value, and the steps that change nothing.
LEMMA MovesKeep ==
    ASSUME PInv, part' \in Parts, at' \in Nat,
           UNCHANGED <<tokens, states, ref_stack, object_element, root>>,
           part' = "value" => Top(states) = "array"
    PROVE  PInv'
<1>1. PTypeOK'
  BY DEF PInv, PTypeOK, ArraysSized
<1>2. StacksAgree' /\ PointersNest'
  BY DEF PInv, PointersHold, StacksAgree, PointersNest
<1>3. Top(states') = Top(states)
  OBVIOUS
<1>4. ElementIsOwned'
  BY <1>3 DEF ElementIsOwned
<1>5. QED
  BY <1>1, <1>2, <1>4 DEF PInv, PointersHold

LEMMA ParserStepKeeps == PInv /\ [ParserNext]_parserVars => PInv'
<1> SUFFICES ASSUME PInv, [ParserNext]_parserVars PROVE PInv'
  OBVIOUS
<1>0. at \in Nat /\ part \in Parts
  BY DEF PInv, PTypeOK
<1>1. CASE BeginObject
  BY <1>1, BeginObjectKeeps
<1>2. CASE BeginArray
  BY <1>2, BeginArrayKeeps
<1>3. CASE ScalarValue
  BY <1>3, ScalarValueKeeps
<1>4. CASE NoValue \/ NeitherNorEnd
  BY <1>4, FailKeeps DEF NoValue, NeitherNorEnd
<1>5. CASE Complete
  BY <1>0, <1>5, MovesKeep DEF Complete, InEvaluate, Parts
<1>6. CASE NextElement
  BY <1>0, <1>6, MovesKeep DEF NextElement, InEvaluate, Parts
<1>7. CASE NextMember
  BY <1>7, NextMemberKeeps
<1>8. CASE EndContainer
  BY <1>8, EndContainerKeeps
<1>9. CASE EndStrict
  BY <1>0, <1>9, MovesKeep DEF EndStrict, Parts
<1>10. CASE UNCHANGED parserVars
  BY <1>10 DEF parserVars, PInv, PTypeOK, ArraysSized, PointersHold, StacksAgree, PointersNest, ElementIsOwned
<1>11. QED
  BY <1>1, <1>2, <1>3, <1>4, <1>5, <1>6, <1>7, <1>8, <1>9, <1>10 DEF ParserNext

\* The pointers and the stacks of the parser hold for every text, of any length
\* and depth, valid or not: none of the JSON_ASSERTs of sax_parse_internal and
\* json_sax_dom_parser ever fails, and no value is put into another container
\* than the innermost that is open.
THEOREM ParserPointers == ParserSpec => []PointersHold
<1>1. PInv => PointersHold
  BY DEF PInv
<1>2. QED
  BY <1>1, ParserInitHolds, ParserStepKeeps, PTL DEF ParserSpec

-----------------------------------------------------------------------------
(* The parser with a callback.                                             *)

-----------------------------------------------------------------------------
(* Paths.                                                                  *)

\* The steps of a path: a key of one byte or a position.  NullPointer has another.
Step == {<<b>> : b \in Nat \ {0}}
Route == Seq(Step)
Join(p, s) == p \o s

\* The path of the root.
LEMMA EmptyRoute == <<>> \in Route
BY DEF Route

\* A path followed by another is a path.
LEMMA JoinRoute ==
    ASSUME NEW p \in Route, NEW s \in Route
    PROVE  /\ Join(p, s) \in Route /\ Join(p, <<>>) = p /\ Join(<<>>, p) = p
           /\ Join(p, s) = p => s = <<>>
BY ConcatProperties, ConcatEmptySeq, ConcatEqualIffEmpty DEF Route, Join

\* What comes behind a path is determined by the two together.
LEMMA JoinCancels ==
    ASSUME NEW p \in Route, NEW s \in Route, NEW u \in Route, Join(p, s) = Join(p, u)
    PROVE  s = u
BY ConcatSimplifications DEF Route, Join

\* Joining is associative.
LEMMA JoinJoin ==
    ASSUME NEW p \in Route, NEW s \in Route, NEW u \in Route
    PROVE  Join(Join(p, s), u) = Join(p, Join(s, u))
BY ConcatAssociative DEF Route, Join

\* A path that begins with a step, taken apart.
LEMMA StepJoin ==
    ASSUME NEW k \in Step, NEW s \in Route
    PROVE  /\ <<k>> \in Route /\ Join(<<k>>, s) \in Route /\ Join(<<k>>, s) # <<>>
           /\ Join(<<k>>, s)[1] = k /\ Tail(Join(<<k>>, s)) = s
<1> DEFINE S == Step
<1>1. s \in Seq(S) /\ k \in S
  BY DEF Route
<1> HIDE DEF S
<1>2. <<k>> \in Seq(S) /\ Len(<<k>>) = 1
  BY <1>1
<1>3. /\ <<k>> \o s \in Seq(S) /\ Len(<<k>> \o s) = 1 + Len(s) /\ Len(s) \in Nat
      /\ \A i \in 1 .. 1 + Len(s) : (<<k>> \o s)[i] = IF i <= 1 THEN <<k>>[i] ELSE s[i - 1]
  BY <1>1, <1>2, ConcatProperties
<1>4. <<k>> \o s # <<>> /\ (<<k>> \o s)[1] = k
  BY <1>3
<1>5. /\ Tail(<<k>> \o s) \in Seq(S) /\ Len(Tail(<<k>> \o s)) = Len(s)
      /\ \A i \in 1 .. Len(s) : Tail(<<k>> \o s)[i] = s[i]
  BY <1>3, <1>4, HeadTailProperties
<1>6. Tail(<<k>> \o s) = s
  BY <1>1, <1>5, SeqEqual
<1>7. QED
  BY <1>2, <1>3, <1>4, <1>6 DEF S, Route, Join

\* Every path but the empty one begins with a step.
LEMMA SplitRoute ==
    ASSUME NEW s \in Route, s # <<>>
    PROVE  s[1] \in Step /\ Tail(s) \in Route /\ s = Join(<<s[1]>>, Tail(s))
<1> DEFINE S == Step
<1>1. s \in Seq(S)
  BY DEF Route
<1> HIDE DEF S
<1>2. Len(s) \in Nat \ {0}
  BY <1>1
<1>3. s[1] \in S /\ Tail(s) \in Seq(S) /\ Len(Tail(s)) = Len(s) - 1
      /\ \A i \in 1 .. Len(Tail(s)) : Tail(s)[i] = s[i + 1]
  BY <1>1, <1>2, HeadTailProperties
<1>4. <<s[1]>> \in Seq(S) /\ Len(<<s[1]>>) = 1 /\ <<s[1]>>[1] = s[1]
  BY <1>3
<1>5. /\ <<s[1]>> \o Tail(s) \in Seq(S) /\ Len(<<s[1]>> \o Tail(s)) = Len(s)
      /\ \A i \in 1 .. Len(s) : (<<s[1]>> \o Tail(s))[i] = IF i <= 1 THEN <<s[1]>>[i] ELSE Tail(s)[i - 1]
  BY <1>2, <1>3, <1>4, ConcatProperties
<1>6. \A i \in 1 .. Len(s) : (<<s[1]>> \o Tail(s))[i] = s[i]
  BY <1>2, <1>3, <1>4, <1>5
<1>7. s = <<s[1]>> \o Tail(s)
  BY <1>1, <1>5, <1>6, SeqEqual
<1>8. QED
  BY <1>3, <1>7 DEF S, Route, Join

\* The path of an element, and its container.
LEMMA Child ==
    ASSUME NEW p \in Route, NEW k \in Step
    PROVE  /\ Append(p, k) \in Route /\ Append(p, k) = Join(p, <<k>>) /\ Append(p, k) # <<>>
           /\ Pop(Append(p, k)) = p /\ Top(Append(p, k)) = k
           /\ \A s \in Route : Join(Append(p, k), s) = Join(p, Join(<<k>>, s))
<1> DEFINE S == Step
<1>1. p \in Seq(S) /\ k \in S
  BY DEF Route
<1> HIDE DEF S
<1>2. /\ Append(p, k) \in Seq(S) /\ Append(p, k) # <<>> /\ Len(Append(p, k)) = Len(p) + 1
      /\ \A i \in 1 .. Len(p) : Append(p, k)[i] = p[i]
      /\ Append(p, k)[Len(p) + 1] = k /\ Len(p) \in Nat
  BY <1>1, AppendProperties
<1>3. Append(p, k) = Join(p, <<k>>)
  BY <1>1, AppendIsConcat DEF Join
<1>4. Pop(Append(p, k)) = p
  <2>1. /\ SubSeq(Append(p, k), 1, Len(p)) \in Seq(S) /\ Len(SubSeq(Append(p, k), 1, Len(p))) = Len(p)
        /\ \A i \in 1 .. Len(p) : SubSeq(Append(p, k), 1, Len(p))[i] = p[i]
    BY <1>1, <1>2
  <2>2. QED
    BY <2>1, <1>1, <1>2, SeqEqual DEF Pop
<1>5. Top(Append(p, k)) = k
  BY <1>2 DEF Top
<1>6. ASSUME NEW s \in Route PROVE Join(Append(p, k), s) = Join(p, Join(<<k>>, s))
  <2>1. <<k>> \in Route
    BY StepJoin
  <2>2. Join(Join(p, <<k>>), s) = Join(p, Join(<<k>>, s))
    BY <2>1, JoinJoin
  <2>3. QED
    BY <1>3, <2>2
<1>7. QED
  BY <1>2, <1>3, <1>4, <1>5, <1>6 DEF S, Route

\* Every path but the empty one is that of an element.
LEMMA Parent ==
    ASSUME NEW r \in Route, r # <<>>
    PROVE  Pop(r) \in Route /\ Top(r) \in Step /\ r = Append(Pop(r), Top(r))
<1>1. PICK p \in Route, k \in Step : r = Append(p, k)
  BY SequenceEmptyOrAppend DEF Route
<1>2. QED
  BY <1>1, Child

\* Below, which the model says with SubSeq, is that a path goes on.
LEMMA BelowJoins ==
    ASSUME NEW p \in Route, NEW r \in Route
    PROVE  Below(p, r) <=> \E s \in Route : s # <<>> /\ r = Join(p, s)
<1> DEFINE S == Step
<1>1. p \in Seq(S) /\ r \in Seq(S) /\ Len(p) \in Nat /\ Len(r) \in Nat
  BY DEF Route
<1> HIDE DEF S
<1>2. ASSUME Below(p, r) PROVE \E s \in Route : s # <<>> /\ r = Join(p, s)
  <2> DEFINE s == SubSeq(r, Len(p) + 1, Len(r))
  <2>1. SubSeq(r, 1, Len(p)) = p /\ Len(r) > Len(p)
    BY <1>2 DEF Below
  <2>2. s \in Seq(S) /\ Len(s) = Len(r) - Len(p)
    <3>1. \A i \in Len(p) + 1 .. Len(r) : r[i] \in S
      BY <1>1
    <3>2. Len(p) + 1 \in Int /\ Len(r) \in Int
      BY <1>1
    <3>3. s \in Seq(S) /\ Len(s) = IF Len(p) + 1 <= Len(r) THEN Len(r) - (Len(p) + 1) + 1 ELSE 0
      BY <3>1, <3>2, SubSeqProperties
    <3>4. QED
      BY <3>3, <2>1, <1>1
  <2>3. SubSeq(r, 1, Len(p)) \o s = SubSeq(r, 1, Len(r))
    <3>1. 1 \in 1 .. Len(r) + 1 /\ Len(p) \in 1 - 1 .. Len(r) /\ Len(r) \in Len(p) .. Len(r)
      BY <1>1, <2>1
    <3>2. QED
      BY <3>1, <1>1, ConcatAdjacentSubSeq
  <2>4. SubSeq(r, 1, Len(r)) = r
    BY <1>1, SubSeqFull
  <2>5. r = p \o s /\ s # <<>>
    <3>1. r = p \o s
      BY <2>1, <2>3, <2>4
    <3>2. Len(s) # 0
      BY <1>1, <2>1, <2>2
    <3> HIDE DEF s
    <3>3. QED
      BY <3>1, <3>2
  <2>6. QED
    BY <2>2, <2>5 DEF S, Route, Join
<1>3. ASSUME NEW s \in Route, s # <<>>, r = Join(p, s) PROVE Below(p, r)
  <2>1. s \in Seq(S) /\ Len(s) \in Nat \ {0}
    BY <1>3 DEF S, Route
  <2>2. /\ Len(r) = Len(p) + Len(s)
        /\ \A i \in 1 .. Len(p) + Len(s) : r[i] = IF i <= Len(p) THEN p[i] ELSE s[i - Len(p)]
    BY <1>1, <1>3, <2>1, ConcatProperties DEF Join
  <2>3. /\ SubSeq(r, 1, Len(p)) \in Seq(S) /\ Len(SubSeq(r, 1, Len(p))) = Len(p)
        /\ \A i \in 1 .. Len(p) : SubSeq(r, 1, Len(p))[i] = p[i]
    BY <1>1, <2>1, <2>2
  <2>4. SubSeq(r, 1, Len(p)) = p
    BY <1>1, <2>3, SeqEqual
  <2>5. QED
    BY <1>1, <2>1, <2>2, <2>4 DEF Below
<1>4. QED
  BY <1>2, <1>3

\* An element, or what is inside it.
Under(c, r) == r = c \/ Below(c, r)

\* The same where the path may end there.
LEMMA UnderJoins ==
    ASSUME NEW c \in Route, NEW r \in Route
    PROVE  Under(c, r) <=> \E s \in Route : r = Join(c, s)
<1>1. <<>> \in Route /\ Join(c, <<>>) = c
  BY EmptyRoute, JoinRoute
<1>2. QED
  BY <1>1, BelowJoins DEF Under

\* Which paths from a container lead through an element: by their first step.
LEMMA UnderChild ==
    ASSUME NEW p \in Route, NEW k \in Step, NEW s \in Route
    PROVE  /\ Under(Append(p, k), Join(p, s)) <=> s # <<>> /\ s[1] = k
           /\ Below(Append(p, k), Join(p, s)) <=> s # <<>> /\ s[1] = k /\ s # <<k>>
           /\ Join(p, s) = Append(p, k) <=> s = <<k>>
<1>1. /\ Append(p, k) \in Route /\ Append(p, k) = Join(p, <<k>>) /\ <<k>> \in Route
      /\ Join(p, s) \in Route
      /\ \A u \in Route : Join(Append(p, k), u) = Join(p, Join(<<k>>, u))
  BY Child, StepJoin, JoinRoute
<1>2. Join(p, s) = Append(p, k) <=> s = <<k>>
  BY <1>1, JoinCancels
<1>3. ASSUME NEW u \in Route, Join(p, s) = Join(Append(p, k), u)
      PROVE  s # <<>> /\ s[1] = k
  <2>1. s = Join(<<k>>, u)
    <3>1. Join(<<k>>, u) \in Route /\ Join(p, s) = Join(p, Join(<<k>>, u))
      BY <1>1, <1>3, StepJoin
    <3>2. QED
      BY <3>1, JoinCancels
  <2>2. QED
    BY <2>1, StepJoin
<1>4. ASSUME s # <<>>, s[1] = k
      PROVE  \E u \in Route : Join(p, s) = Join(Append(p, k), u)
  <2>1. Tail(s) \in Route /\ s = Join(<<k>>, Tail(s))
    BY <1>4, SplitRoute
  <2>2. Join(Append(p, k), Tail(s)) = Join(p, s)
    BY <1>1, <2>1
  <2>3. QED
    BY <2>1, <2>2
<1>5. Under(Append(p, k), Join(p, s)) <=> s # <<>> /\ s[1] = k
  BY <1>1, <1>3, <1>4, UnderJoins
<1>6. ~Below(Append(p, k), Append(p, k))
  BY <1>1, BelowJoins, JoinRoute
<1>7. QED
  BY <1>1, <1>2, <1>5, <1>6 DEF Under

\* A container is not inside its own element.
LEMMA ParentApart ==
    ASSUME NEW p \in Route, NEW k \in Step
    PROVE  ~Under(Append(p, k), p)
<1>1. <<>> \in Route /\ Join(p, <<>>) = p
  BY EmptyRoute, JoinRoute
<1>2. QED
  BY <1>1, UnderChild

\* What is inside is so transitively.
LEMMA UnderUnder ==
    ASSUME NEW a \in Route, NEW b \in Route, NEW c \in Route, Under(a, b), Under(b, c)
    PROVE  Under(a, c)
<1>1. PICK s \in Route : b = Join(a, s)
  BY UnderJoins
<1>2. PICK u \in Route : c = Join(b, u)
  BY UnderJoins
<1>3. c = Join(a, Join(s, u)) /\ Join(s, u) \in Route
  BY <1>1, <1>2, JoinJoin, JoinRoute
<1>4. QED
  BY <1>3, UnderJoins

\* What is below a path is so with what is below that.
LEMMA UnderParent ==
    ASSUME NEW c \in Route, NEW p \in Route, NEW k \in Step, Under(c, p)
    PROVE  Under(c, Append(p, k))
<1>1. Append(p, k) \in Route /\ Append(p, k) = Join(p, <<k>>) /\ <<k>> \in Route
  BY Child, StepJoin
<1>2. Under(p, Append(p, k))
  BY <1>1, UnderJoins
<1>3. QED
  BY <1>1, <1>2, UnderUnder

\* Whatever lies around an element and is not the element lies around its container.
LEMMA BelowParent ==
    ASSUME NEW r \in Route, NEW p \in Route, NEW k \in Step, Below(r, Append(p, k))
    PROVE  Under(r, p)
<1>1. Append(p, k) \in Route
  BY Child
<1>2. PICK s \in Route : s # <<>> /\ Append(p, k) = Join(r, s)
  BY <1>1, BelowJoins
<1>3. /\ Pop(s) \in Route /\ Top(s) \in Step /\ s = Append(Pop(s), Top(s))
  BY <1>2, Parent
<1>4. s = Join(Pop(s), <<Top(s)>>) /\ <<Top(s)>> \in Route
  BY <1>3, Child, StepJoin
<1>5. Join(r, s) = Join(Join(r, Pop(s)), <<Top(s)>>)
  BY <1>3, <1>4, JoinJoin
<1>6. Join(r, Pop(s)) \in Route
  BY <1>3, JoinRoute
<1>7. Join(r, s) = Append(Join(r, Pop(s)), Top(s))
  BY <1>3, <1>5, <1>6, Child
<1>8. p = Join(r, Pop(s))
  <2>1. Pop(Append(p, k)) = p
    BY Child
  <2>2. Pop(Append(Join(r, Pop(s)), Top(s))) = Join(r, Pop(s))
    BY <1>3, <1>6, Child
  <2>3. QED
    BY <2>1, <2>2, <1>2, <1>7
<1>9. QED
  BY <1>3, <1>8, UnderJoins

\* A set of numbers that is not empty has a smallest.
LEMMA HasSmallest ==
    ASSUME NEW N, N \subseteq Nat, N # {}
    PROVE  \E i \in N : \A j \in N : i <= j
<1> DEFINE Less == {q \in Nat \X Nat : q[1] < q[2]}
<1>1. PICK i \in N : \A j \in N : <<j, i>> \notin Less
  <2>1. IsWellFoundedOn(Less, Nat)
    BY NatLessThanWellFounded, Zenon DEF OpToRel
  <2> HIDE DEF Less
  <2>2. QED
    BY <2>1, WFMin
<1>2. ASSUME NEW j \in N PROVE i <= j
  <2>1. i \in Nat /\ j \in Nat /\ <<j, i>> \in Nat \X Nat
    BY <1>1, <1>2
  <2>2. ~(j < i)
    BY <1>1, <2>1 DEF Less
  <2>3. QED
    BY <2>1, <2>2
<1>3. QED
  BY <1>2

-----------------------------------------------------------------------------
(* Trees.                                                                  *)

\* What a tree is made of: the model's scalar, an object, an array with its size.
Node == {Scalar1, Container("object", 0)} \cup {Container("array", size) : size \in Nat}
Tree == UNION {[d -> Node] : d \in SUBSET Route}

\* The nodes are told from what is discarded; an array has its size.
LEMMA NodeFacts ==
    /\ \A v \in Node : /\ v # DiscardedValue
                       /\ v.type = "array" => v.text[1] \in Nat /\ v = Container("array", v.text[1])
    /\ \A size \in Nat : /\ Container("array", size) \in Node
                         /\ Container("array", size).type = "array"
                         /\ Container("array", size).text[1] = size
    /\ Container("object", 0) \in Node /\ Container("object", 0).type = "object"
    /\ Scalar1 \in Node
<1>1. /\ Scalar1 \in Node /\ Scalar1.type = "value_unsigned"
      /\ Container("object", 0) \in Node /\ Container("object", 0).type = "object"
  BY DEF Node, Scalar1, Container
<1>2. ASSUME NEW size \in Nat
      PROVE  /\ Container("array", size) \in Node /\ Container("array", size).type = "array"
             /\ Container("array", size).text[1] = size
  BY DEF Node, Container
<1>3. DiscardedValue.type = "discarded"
  BY DEF DiscardedValue
<1>4. ASSUME NEW v \in Node
      PROVE  \/ v = Scalar1 \/ v = Container("object", 0)
             \/ \E size \in Nat : v = Container("array", size)
  BY DEF Node
<1>5. ASSUME NEW v \in Node
      PROVE  /\ v # DiscardedValue
             /\ v.type = "array" => v.text[1] \in Nat /\ v = Container("array", v.text[1])
  BY <1>1, <1>2, <1>3, <1>4
<1>6. QED
  BY <1>1, <1>2, <1>5

\* A tree is a function from paths to nodes.
LEMMA TreeFacts ==
    ASSUME NEW t
    PROVE  t \in Tree <=> /\ DOMAIN t \subseteq Route
                          /\ t = [s \in DOMAIN t |-> t[s]]
                          /\ \A s \in DOMAIN t : t[s] \in Node
BY DEF Tree

\* Two values have the same at r.
Same(dom, new, r) ==
    (r \in DOMAIN new <=> r \in DOMAIN dom) /\ (r \in DOMAIN dom => new[r] = dom[r])

\* What an assignment changes: the place assigned to, and what was inside it.
LEMMA AssignFacts ==
    ASSUME NEW dom, DOMAIN dom \subseteq Route, NEW c \in Route, NEW v,
           NEW new, new = Assign(dom, c, v)
    PROVE  /\ DOMAIN new \subseteq Route
           /\ c \in DOMAIN new /\ new[c] = v
           /\ \A r \in DOMAIN new : ~Below(c, r)
           /\ \A r \in Route : ~Under(c, r) => Same(dom, new, r)
<1>1. ~Below(c, c)
  BY BelowJoins, JoinRoute
<1>2. QED
  BY <1>1 DEF Assign, Under, Same

\* What taking out changes.
LEMMA WithoutFacts ==
    ASSUME NEW dom, DOMAIN dom \subseteq Route, NEW c \in Route,
           NEW new, new = Without(dom, c)
    PROVE  /\ DOMAIN new \subseteq Route
           /\ \A r \in DOMAIN new : ~Under(c, r)
           /\ \A r \in Route : ~Under(c, r) => Same(dom, new, r)
BY DEF Without, Under, Same

-----------------------------------------------------------------------------
(* What a tree is worth in the value under construction.                   *)

\* The value has what the tree has, and otherwise only what is discarded.
Agree(dom, p, t, s) ==
    /\ s \in DOMAIN t => Join(p, s) \in DOMAIN dom /\ dom[Join(p, s)] = t[s]
    /\ Join(p, s) \in DOMAIN dom => s \in DOMAIN t \/ dom[Join(p, s)] = DiscardedValue

\* The container with the element that is under construction.
Grown(v) == IF v.type = "array" THEN Container("array", v.text[1] + 1) ELSE v

\* Below p the value is the tree, and discarded values, and nothing else; where
\* an element is under construction (its step is the hole) the tree has nothing
\* yet, the value whatever the element has come to, and an array counts it.
Shows(dom, p, t, hole) ==
    /\ p \in DOMAIN dom
    /\ dom[p] = IF hole = {} THEN t[<<>>] ELSE Grown(t[<<>>])
    /\ \A s \in Route : s # <<>> =>
           IF s[1] \in hole THEN s \notin DOMAIN t ELSE Agree(dom, p, t, s)

\* A tree with an element under construction is shown as long as nothing
\* outside of that element changes.
LEMMA ShowsOutside ==
    ASSUME NEW dom, NEW new, NEW p \in Route, NEW k \in Step, NEW c \in Route, NEW t,
           Shows(dom, p, t, {k}), Under(Append(p, k), c),
           \A r \in Route : ~Under(c, r) => Same(dom, new, r)
    PROVE  Shows(new, p, t, {k})
<1>0. Append(p, k) \in Route
  BY Child
<1>1. ASSUME NEW r \in Route, ~Under(Append(p, k), r) PROVE Same(dom, new, r)
  BY <1>0, <1>1, UnderUnder
<1>2. Same(dom, new, p)
  BY <1>1, ParentApart
<1>3. ASSUME NEW s \in Route, s # <<>>, s[1] # k PROVE Same(dom, new, Join(p, s))
  BY <1>1, <1>3, UnderChild, JoinRoute
<1>4. QED
  BY <1>2, <1>3 DEF Shows, Agree, Same

\* An element begins: the container has grown, and what is in the element is
\* not looked at.
LEMMA ShowsOpened ==
    ASSUME NEW dom, NEW new, NEW p \in Route, NEW k \in Step, NEW t,
           Shows(dom, p, t, {}), \A s \in DOMAIN t : s # <<>> => s[1] # k,
           p \in DOMAIN new, new[p] = Grown(t[<<>>]),
           \A r \in Route : r # p /\ ~Under(Append(p, k), r) => Same(dom, new, r)
    PROVE  Shows(new, p, t, {k})
<1>1. ASSUME NEW s \in Route, s # <<>>, s[1] # k PROVE Same(dom, new, Join(p, s))
  <2>1. Join(p, s) # p /\ Join(p, s) \in Route
    BY <1>1, JoinRoute
  <2>2. QED
    BY <1>1, <2>1, UnderChild
<1>2. ASSUME NEW s \in Route, s # <<>>, s[1] # k PROVE Agree(new, p, t, s)
  BY <1>1, <1>2 DEF Shows, Agree, Same
<1>3. QED
  BY <1>2 DEF Shows

\* A value that has just been put somewhere shows the tree of it alone.
LEMMA ShowsNew ==
    ASSUME NEW dom, NEW p \in Route, NEW v, p \in DOMAIN dom, dom[p] = v,
           \A r \in DOMAIN dom : ~Below(p, r)
    PROVE  Shows(dom, p, Single(v), {})
<1>1. ASSUME NEW s \in Route, s # <<>> PROVE Join(p, s) \notin DOMAIN dom
  BY <1>1, BelowJoins, JoinRoute
<1>2. QED
  BY <1>1 DEF Shows, Agree, Single

\* An element ends and is taken into the tree.
LEMMA ShowsClosed ==
    ASSUME NEW dom, NEW p \in Route, NEW k \in Step, NEW t, NEW u, NEW both,
           Shows(dom, p, t, {k}), Shows(dom, Append(p, k), u, {}), <<>> \in DOMAIN u,
           both[<<>>] = Grown(t[<<>>]),
           \A s \in Route : s # <<>> =>
               IF s[1] = k THEN /\ s \in DOMAIN both <=> Tail(s) \in DOMAIN u
                                /\ s \in DOMAIN both => both[s] = u[Tail(s)]
               ELSE Same(t, both, s)
    PROVE  Shows(dom, p, both, {})
<1>1. ASSUME NEW s \in Route, s # <<>>, s[1] # k PROVE Agree(dom, p, both, s)
  BY <1>1 DEF Shows, Agree, Same
<1>2. ASSUME NEW s \in Route, s # <<>>, s[1] = k PROVE Agree(dom, p, both, s)
  <2>1. Tail(s) \in Route /\ s = Join(<<k>>, Tail(s))
    BY <1>2, SplitRoute
  <2>2. Join(Append(p, k), Tail(s)) = Join(p, s)
    BY <2>1, Child
  <2>3. CASE Tail(s) # <<>>
    <3>1. Agree(dom, Append(p, k), u, Tail(s))
      BY <2>1, <2>3 DEF Shows
    <3>2. QED
      BY <1>2, <2>2, <3>1 DEF Agree
  <2>4. CASE Tail(s) = <<>>
    <3>1. Append(p, k) = Join(p, s)
      BY <2>1, <2>2, <2>4, JoinRoute, Child
    <3>2. Join(p, s) \in DOMAIN dom /\ dom[Join(p, s)] = u[<<>>]
      BY <3>1 DEF Shows
    <3>3. QED
      BY <1>2, <2>4, <3>2 DEF Agree
  <2>5. QED
    BY <2>3, <2>4
<1>3. QED
  BY <1>1, <1>2 DEF Shows

\* An element ends and leaves nothing, or only a discarded value.
LEMMA ShowsDropped ==
    ASSUME NEW dom, NEW new, NEW p \in Route, NEW k \in Step, NEW t,
           Shows(dom, p, t, {k}), p \in DOMAIN new, new[p] = t[<<>>],
           \A r \in Route : r # p /\ ~Under(Append(p, k), r) => Same(dom, new, r),
           \A r \in DOMAIN new : Under(Append(p, k), r) => new[r] = DiscardedValue
    PROVE  Shows(new, p, t, {})
<1>1. ASSUME NEW s \in Route, s # <<>>, s[1] # k PROVE Agree(new, p, t, s)
  <2>1. Join(p, s) # p /\ Join(p, s) \in Route
    BY <1>1, JoinRoute
  <2>2. Same(dom, new, Join(p, s))
    BY <1>1, <2>1, UnderChild
  <2>3. QED
    BY <1>1, <2>2 DEF Shows, Agree, Same
<1>2. ASSUME NEW s \in Route, s # <<>>, s[1] = k PROVE Agree(new, p, t, s)
  <2>1. Under(Append(p, k), Join(p, s)) /\ s \notin DOMAIN t
    BY <1>2, UnderChild DEF Shows
  <2>2. QED
    BY <2>1 DEF Agree
<1>3. QED
  BY <1>1, <1>2 DEF Shows

\* A key that is read a second time takes the member it had before.
LEMMA ShowsKey ==
    ASSUME NEW dom, NEW new, NEW p \in Route, NEW k \in Step, NEW t, NEW left,
           Shows(dom, p, t, {}), left[<<>>] = t[<<>>],
           \A s \in Route : s # <<>> => IF s[1] = k THEN s \notin DOMAIN left ELSE Same(t, left, s),
           \A r \in Route : ~Under(Append(p, k), r) => Same(dom, new, r),
           \A r \in DOMAIN new : Under(Append(p, k), r) => new[r] = DiscardedValue
    PROVE  Shows(new, p, left, {})
<1>1. Same(dom, new, p)
  BY ParentApart
<1>2. ASSUME NEW s \in Route, s # <<>>, s[1] # k PROVE Agree(new, p, left, s)
  <2>1. Same(dom, new, Join(p, s)) /\ Same(t, left, s)
    BY <1>2, UnderChild, JoinRoute
  <2>2. QED
    BY <1>2, <2>1 DEF Shows, Agree, Same
<1>3. ASSUME NEW s \in Route, s # <<>>, s[1] = k PROVE Agree(new, p, left, s)
  <2>1. Under(Append(p, k), Join(p, s)) /\ s \notin DOMAIN left
    BY <1>3, UnderChild
  <2>2. QED
    BY <2>1 DEF Agree
<1>4. QED
  BY <1>1, <1>2, <1>3 DEF Shows, Same

\* A discarded value is erased: no tree has it.
LEMMA ShowsErased ==
    ASSUME NEW dom, DOMAIN dom \subseteq Route, NEW p \in Route, NEW t \in Tree, NEW q \in DOMAIN dom,
           Shows(dom, p, t, {}), dom[q] = DiscardedValue, q # p,
           NEW new, \A r \in Route : r # q => Same(dom, new, r), q \notin DOMAIN new
    PROVE  Shows(new, p, t, {})
<1>1. ASSUME NEW s \in Route, s # <<>>, Join(p, s) # q PROVE Agree(new, p, t, s)
  BY <1>1, JoinRoute DEF Shows, Agree, Same
<1>2. ASSUME NEW s \in Route, s # <<>>, Join(p, s) = q PROVE Agree(new, p, t, s)
  <2>1. s \notin DOMAIN t
    BY <1>2, TreeFacts, NodeFacts DEF Shows, Agree
  <2>2. QED
    BY <1>2, <2>1 DEF Agree
<1>3. QED
  BY <1>1, <1>2 DEF Shows, Same

\* A discarded value is a member of an object, and a leaf.
Loose(dom) ==
    \A r \in DOMAIN dom : dom[r] = DiscardedValue =>
        /\ r # <<>> /\ Pop(r) \in DOMAIN dom /\ dom[Pop(r)].type = "object"
        /\ \A s \in DOMAIN dom : ~Below(r, s)

\* A step that puts a value into a container, a discarded one only into an object.
LEMMA LooseKept ==
    ASSUME NEW dom, DOMAIN dom \subseteq Route, NEW new, DOMAIN new \subseteq Route,
           NEW p \in Route, NEW k \in Step, Loose(dom),
           p \in DOMAIN dom, dom[p] # DiscardedValue,
           p \in DOMAIN new, new[p] # DiscardedValue, new[p].type = dom[p].type,
           \A r \in Route : r # p /\ ~Under(Append(p, k), r) => Same(dom, new, r),
           \A r \in DOMAIN new : ~Below(Append(p, k), r),
           Append(p, k) \in DOMAIN new /\ new[Append(p, k)] = DiscardedValue => dom[p].type = "object"
    PROVE  Loose(new)
<1> DEFINE c == Append(p, k)
<1>0. c \in Route /\ c # <<>> /\ Pop(c) = p /\ ~Under(c, p)
  BY Child, ParentApart
<1> SUFFICES ASSUME NEW r \in DOMAIN new, new[r] = DiscardedValue
             PROVE  /\ r # <<>> /\ Pop(r) \in DOMAIN new /\ new[Pop(r)].type = "object"
                    /\ \A s \in DOMAIN new : ~Below(r, s)
  BY DEF Loose
<1>1. CASE r = c
  BY <1>0, <1>1
<1>2. CASE r # c
  <2>1. ~Under(c, r) /\ r # p /\ r \in Route
    BY <1>2 DEF Under
  <2>2. r \in DOMAIN dom /\ dom[r] = DiscardedValue
    BY <2>1 DEF Same
  <2>3. /\ r # <<>> /\ Pop(r) \in DOMAIN dom /\ dom[Pop(r)].type = "object"
        /\ \A s \in DOMAIN dom : ~Below(r, s)
    BY <2>2 DEF Loose
  <2>4. Pop(r) \in Route /\ Top(r) \in Step /\ r = Append(Pop(r), Top(r))
    BY <2>1, <2>3, Parent
  <2>5. ~Under(c, Pop(r))
    BY <1>0, <2>1, <2>4, UnderParent
  <2>6. Pop(r) \in DOMAIN new /\ new[Pop(r)].type = "object"
    BY <2>3, <2>4, <2>5 DEF Same
  <2>7. ASSUME NEW s \in DOMAIN new, Below(r, s) PROVE FALSE
    <3>1. s = p \/ s = c
      BY <2>1, <2>3, <2>7 DEF Same, Under
    <3>2. CASE s = p
      BY <3>2, <2>3, <2>7
    <3>3. CASE s = c
      <4>1. Under(r, p)
        BY <2>1, <2>7, <3>3, BelowParent
      <4>2. QED
        BY <4>1, <2>1, <2>3 DEF Under
    <3>4. QED
      BY <3>1, <3>2, <3>3
  <2>8. QED
    BY <2>3, <2>6, <2>7
<1>3. QED
  BY <1>1, <1>2

-----------------------------------------------------------------------------
(* What a frame comes to.                                                  *)

\* The frames of wanted.
FrameType == [tree : Tree, kept : BOOLEAN, key : Name \cup {<<>>}, keyKept : BOOLEAN]

\* An open object is one whose key was read, too.
Kind(o) == IF o = "array" THEN "array" ELSE "object"

\* Where the next element goes.
Inner(o, f) == IF o = "array" THEN <<f.tree[<<>>].text[1] + 1>> ELSE f.key

\* A frame is of its container: the kind, the positions up to the size, the key.
FrameFits(o, f) ==
    /\ <<>> \in DOMAIN f.tree /\ f.tree[<<>>].type = Kind(o)
    /\ o = "array" => \A s \in DOMAIN f.tree : s # <<>> => s[1][1] <= f.tree[<<>>].text[1]
    /\ f.keyKept => f.key \in Name

\* A key is a step of a path.
LEMMA NamesAreSteps == Name \subseteq Step
BY FilterAssumption DEF Step

\* The tree of a frame is closed with what an element comes to.
Closes(t, k, u, both) ==
    /\ both \in Tree /\ <<>> \in DOMAIN both /\ both[<<>>] = Grown(t[<<>>])
    /\ \A s \in Route : s # <<>> =>
           IF s[1] = k THEN /\ s \in DOMAIN both <=> Tail(s) \in DOMAIN u
                            /\ s \in DOMAIN both => both[s] = u[Tail(s)]
           ELSE Same(t, both, s)

\* A tree moved below a step.
LEMMA WithinFacts ==
    ASSUME NEW k \in Step, NEW u \in Tree
    PROVE  /\ DOMAIN Within(k, u) \subseteq Route /\ <<>> \notin DOMAIN Within(k, u)
           /\ \A s \in Route : s # <<>> =>
                  /\ s \in DOMAIN Within(k, u) <=> s[1] = k /\ Tail(s) \in DOMAIN u
                  /\ s \in DOMAIN Within(k, u) => Within(k, u)[s] = u[Tail(s)]
<1>1. DOMAIN u \subseteq Route
  BY TreeFacts
<1>2. Within(k, u) = [s \in {Join(<<k>>, q) : q \in DOMAIN u} |-> u[Tail(s)]]
  BY DEF Within, Join
<1>3. \A s \in DOMAIN Within(k, u) :
          s \in Route /\ s # <<>> /\ s[1] = k /\ Tail(s) \in DOMAIN u /\ Within(k, u)[s] = u[Tail(s)]
  <2> SUFFICES ASSUME NEW s \in DOMAIN Within(k, u)
               PROVE  /\ s \in Route /\ s # <<>> /\ s[1] = k /\ Tail(s) \in DOMAIN u
                      /\ Within(k, u)[s] = u[Tail(s)]
    OBVIOUS
  <2>1. PICK q \in DOMAIN u : s = Join(<<k>>, q)
    BY <1>2
  <2>2. s \in Route /\ s # <<>> /\ s[1] = k /\ Tail(s) = q
    BY <1>1, <2>1, StepJoin
  <2>3. Within(k, u)[s] = u[Tail(s)]
    BY <1>2
  <2>4. QED
    BY <2>2, <2>3
<1>4. ASSUME NEW s \in Route, s # <<>>, s[1] = k, Tail(s) \in DOMAIN u
      PROVE  s \in DOMAIN Within(k, u)
  BY <1>2, <1>4, SplitRoute
<1>5. QED
  BY <1>3, <1>4

\* A tree with a member more.
LEMMA MergedFacts ==
    ASSUME NEW t \in Tree, NEW k \in Step, NEW u \in Tree, <<>> \in DOMAIN t,
           t[<<>>].type # "array"
    PROVE  LET both == Merged(t, Within(k, u))
           IN  /\ both \in Tree /\ <<>> \in DOMAIN both /\ both[<<>>] = t[<<>>]
               /\ (\A s \in DOMAIN t : s # <<>> => s[1] # k) => Closes(t, k, u, both)
<1> DEFINE w == Within(k, u)
           both == Merged(t, w)
<1>1. /\ DOMAIN w \subseteq Route /\ <<>> \notin DOMAIN w
      /\ \A s \in Route : s # <<>> =>
             /\ s \in DOMAIN w <=> s[1] = k /\ Tail(s) \in DOMAIN u
             /\ s \in DOMAIN w => w[s] = u[Tail(s)]
  BY WithinFacts
<1>2. /\ DOMAIN t \subseteq Route /\ \A s \in DOMAIN t : t[s] \in Node
      /\ \A s \in DOMAIN u : u[s] \in Node
  BY TreeFacts
<1> HIDE DEF w
<1>3. /\ both = [s \in DOMAIN both |-> both[s]]
      /\ DOMAIN both = DOMAIN t \cup DOMAIN w
      /\ \A s \in DOMAIN both : both[s] = IF s \in DOMAIN w THEN w[s] ELSE t[s]
  BY DEF Merged
<1> HIDE DEF both
<1>4. ASSUME NEW s \in DOMAIN both PROVE both[s] \in Node
  BY <1>1, <1>2, <1>3, <1>4
<1>5. both \in Tree
  BY <1>1, <1>2, <1>3, <1>4, TreeFacts
<1>6. <<>> \in DOMAIN both /\ both[<<>>] = t[<<>>]
  BY <1>1, <1>3
<1>7. ASSUME \A s \in DOMAIN t : s # <<>> => s[1] # k, NEW s \in Route, s # <<>>
      PROVE  IF s[1] = k THEN /\ s \in DOMAIN both <=> Tail(s) \in DOMAIN u
                              /\ s \in DOMAIN both => both[s] = u[Tail(s)]
             ELSE Same(t, both, s)
  BY <1>1, <1>3, <1>7 DEF Same
<1>8. (\A s \in DOMAIN t : s # <<>> => s[1] # k) => Closes(t, k, u, both)
  BY <1>5, <1>6, <1>7 DEF Closes, Grown
<1>9. QED
  BY <1>5, <1>6, <1>8 DEF both, w

\* A tree with an element more at the end of its array.
LEMMA ElementFacts ==
    ASSUME NEW t \in Tree, NEW u \in Tree, <<>> \in DOMAIN t, t[<<>>].type = "array",
           \A s \in DOMAIN t : s # <<>> => s[1][1] <= t[<<>>].text[1]
    PROVE  LET size == t[<<>>].text[1]
               both == WithElement(t, u)
           IN  /\ size \in Nat /\ <<size + 1>> \in Step
               /\ \A s \in DOMAIN t : s # <<>> => s[1] # <<size + 1>>
               /\ Closes(t, <<size + 1>>, u, both)
               /\ both[<<>>] = Container("array", size + 1)
               /\ \A s \in DOMAIN both : s # <<>> => s[1][1] <= size + 1
<1> DEFINE size == t[<<>>].text[1]
           k == <<size + 1>>
           grown == [t EXCEPT ![<<>>] = Container("array", size + 1)]
           both == Merged(grown, Within(k, u))
<1>1. size \in Nat /\ k \in Step /\ k[1] = size + 1
  BY TreeFacts, NodeFacts DEF Step
<1>2. \A s \in DOMAIN t : s # <<>> => s[1] # k
  BY <1>1
<1>3. WithElement(t, u) = both
  BY DEF WithElement
<1>4. /\ DOMAIN t \subseteq Route /\ t = [s \in DOMAIN t |-> t[s]]
      /\ \A s \in DOMAIN t : t[s] \in Node
  BY TreeFacts
<1>5. /\ DOMAIN grown = DOMAIN t /\ grown = [s \in DOMAIN grown |-> grown[s]]
      /\ grown[<<>>] = Container("array", size + 1)
      /\ \A s \in DOMAIN t : s # <<>> => grown[s] = t[s]
  BY <1>4
<1>6. Container("array", size + 1) \in Node
  BY <1>1, NodeFacts
<1> HIDE DEF grown, k
<1>7. grown \in Tree
  BY <1>4, <1>5, <1>6, TreeFacts
<1>8. /\ DOMAIN Within(k, u) \subseteq Route /\ <<>> \notin DOMAIN Within(k, u)
      /\ \A s \in Route : s # <<>> =>
             /\ s \in DOMAIN Within(k, u) <=> s[1] = k /\ Tail(s) \in DOMAIN u
             /\ s \in DOMAIN Within(k, u) => Within(k, u)[s] = u[Tail(s)]
  BY <1>1, WithinFacts
<1>9. /\ both = [s \in DOMAIN both |-> both[s]]
      /\ DOMAIN both = DOMAIN t \cup DOMAIN Within(k, u)
      /\ \A s \in DOMAIN both : both[s] = IF s \in DOMAIN Within(k, u) THEN Within(k, u)[s] ELSE grown[s]
  BY <1>5 DEF Merged
<1> HIDE DEF both
<1>10. \A s \in DOMAIN u : u[s] \in Node
  BY TreeFacts
<1>11. ASSUME NEW s \in DOMAIN both PROVE both[s] \in Node
  <2>1. CASE s \in DOMAIN Within(k, u)
    BY <2>1, <1>8, <1>9, <1>10
  <2>2. CASE s \notin DOMAIN Within(k, u)
    BY <2>2, <1>4, <1>5, <1>6, <1>9
  <2>3. QED
    BY <2>1, <2>2
<1>12. both \in Tree
  BY <1>4, <1>8, <1>9, <1>11, TreeFacts
<1>13. <<>> \in DOMAIN both /\ both[<<>>] = Container("array", size + 1)
  BY <1>5, <1>8, <1>9
<1>14. Grown(t[<<>>]) = Container("array", size + 1)
  BY DEF Grown
<1>15. ASSUME NEW s \in Route, s # <<>>
      PROVE  IF s[1] = k THEN /\ s \in DOMAIN both <=> Tail(s) \in DOMAIN u
                              /\ s \in DOMAIN both => both[s] = u[Tail(s)]
             ELSE Same(t, both, s)
  BY <1>2, <1>5, <1>8, <1>9, <1>15 DEF Same
<1>16. Closes(t, k, u, both)
  BY <1>12, <1>13, <1>14, <1>15 DEF Closes
<1>17. ASSUME NEW s \in DOMAIN both, s # <<>> PROVE s[1][1] <= size + 1
  <2>1. CASE s[1] = k
    BY <2>1, <1>1
  <2>2. CASE s[1] # k
    <3>1. s \in DOMAIN t /\ s \in Route
      BY <2>2, <1>4, <1>8, <1>9, <1>17
    <3>2. s[1] \in Step
      BY <3>1, <1>17, SplitRoute
    <3>3. s[1][1] \in Nat
      BY <3>2 DEF Step
    <3>4. QED
      BY <1>1, <1>17, <3>1, <3>3
  <2>3. QED
    BY <2>1, <2>2
<1>18. QED
  BY <1>1, <1>2, <1>3, <1>13, <1>16, <1>17 DEF k

\* The stack with another entry in place of the top.
LEMMA Topped ==
    ASSUME NEW S, NEW frames \in Seq(S), Len(frames) # 0, NEW x \in S
    PROVE  LET new == Append(Pop(frames), x)
           IN  /\ new \in Seq(S) /\ Len(new) = Len(frames) /\ new[Len(frames)] = x
               /\ \A i \in 1 .. Len(frames) - 1 : new[i] = frames[i]
<1> DEFINE m == Len(frames)
<1>1. m \in Nat \ {0} /\ DOMAIN frames = 1 .. m
  OBVIOUS
<1>2. /\ Pop(frames) \in Seq(S) /\ Len(Pop(frames)) = m - 1
      /\ \A i \in 1 .. m - 1 : Pop(frames)[i] = frames[i]
  BY <1>1 DEF Pop
<1> HIDE DEF m
<1>3. /\ Append(Pop(frames), x) \in Seq(S) /\ Len(Append(Pop(frames), x)) = m
      /\ Append(Pop(frames), x)[m] = x
      /\ \A i \in 1 .. m - 1 : Append(Pop(frames), x)[i] = frames[i]
  BY <1>1, <1>2, AppendProperties
<1>4. QED
  BY <1>3 DEF m

\* The frame on top after an element that is kept, or not.
LEMMA TookFacts ==
    ASSUME NEW frames \in Seq(FrameType), Len(frames) # 0,
           NEW o, FrameFits(o, frames[Len(frames)]), NEW u \in Tree, NEW kept \in BOOLEAN
    PROVE  LET m == Len(frames)
               f == frames[m]
               new == Took(frames, u, kept)
               k == Inner(o, f)
               taken == kept /\ (o # "array" => f.keyKept)
           IN  /\ new \in Seq(FrameType) /\ Len(new) = m
               /\ \A i \in 1 .. m - 1 : new[i] = frames[i]
               /\ new[m].kept = f.kept /\ new[m].key = f.key /\ new[m].keyKept = f.keyKept
               /\ FrameFits(o, new[m])
               /\ ~taken => new[m].tree = f.tree
               /\ taken /\ (\A s \in DOMAIN f.tree : s # <<>> => s[1] # k) =>
                      Closes(f.tree, k, u, new[m].tree)
<1> DEFINE m == Len(frames)
           f == frames[m]
           new == Took(frames, u, kept)
           t == f.tree
           k == Inner(o, f)
           taken == kept /\ (o # "array" => f.keyKept)
           tree == CASE ~kept -> t
                     [] kept /\ t[<<>>].type = "array" -> WithElement(t, u)
                     [] OTHER -> IF f.keyKept THEN Merged(t, Within(f.key, u)) ELSE t
           x == [f EXCEPT !.tree = tree]
<1>1. /\ frames # <<>> /\ Top(frames) = f /\ f \in FrameType
  BY ElementOfSeq DEF Top
<1>2. new = Append(Pop(frames), x)
  BY <1>1 DEF Took
<1>3. /\ t \in Tree /\ <<>> \in DOMAIN t
      /\ t[<<>>].type = Kind(o)
  BY <1>1 DEF FrameType, FrameFits
<1> HIDE DEF t
<1>4. /\ tree \in Tree /\ <<>> \in DOMAIN tree /\ tree[<<>>].type = Kind(o)
      /\ o = "array" => \A s \in DOMAIN tree : s # <<>> => s[1][1] <= tree[<<>>].text[1]
      /\ ~taken => tree = t
      /\ taken /\ (\A s \in DOMAIN t : s # <<>> => s[1] # k) => Closes(t, k, u, tree)
  <2>1. CASE ~kept
    <3>1. tree = t
      BY <2>1
    <3>2. QED
      BY <2>1, <3>1, <1>3 DEF FrameFits, t
  <2>2. CASE kept /\ o = "array"
    <3>1. t[<<>>].type = "array" /\ \A s \in DOMAIN t : s # <<>> => s[1][1] <= t[<<>>].text[1]
      BY <2>2, <1>3 DEF Kind, FrameFits, t
    <3>2. tree = WithElement(t, u)
      BY <2>2, <3>1
    <3>3. k = <<t[<<>>].text[1] + 1>>
      BY <2>2 DEF Inner, t
    <3> DEFINE size == t[<<>>].text[1]
    <3>4. /\ size \in Nat /\ Closes(t, k, u, tree) /\ tree[<<>>] = Container("array", size + 1)
          /\ \A s \in DOMAIN tree : s # <<>> => s[1][1] <= size + 1
      BY <1>3, <3>1, <3>2, <3>3, ElementFacts
    <3> HIDE DEF tree
    <3>5. tree[<<>>].type = "array" /\ tree[<<>>].text[1] = size + 1
      BY <3>4, NodeFacts
    <3>6. tree \in Tree /\ <<>> \in DOMAIN tree
      BY <3>4 DEF Closes
    <3>7. QED
      BY <2>2, <3>4, <3>5, <3>6 DEF Kind
  <2>3. CASE kept /\ o # "array" /\ f.keyKept
    <3>1. t[<<>>].type # "array"
      BY <2>3, <1>3 DEF Kind
    <3>2. tree = Merged(t, Within(f.key, u))
      BY <2>3, <3>1
    <3>3. k = f.key /\ k \in Step
      BY <2>3, NamesAreSteps DEF Inner, FrameFits
    <3> HIDE DEF tree, k
    <3>4. /\ tree \in Tree /\ <<>> \in DOMAIN tree /\ tree[<<>>] = t[<<>>]
          /\ (\A s \in DOMAIN t : s # <<>> => s[1] # k) => Closes(t, k, u, tree)
      BY <1>3, <3>1, <3>2, <3>3, MergedFacts
    <3>5. QED
      BY <1>3, <2>3, <3>4
  <2>4. CASE kept /\ o # "array" /\ ~f.keyKept
    <3>1. t[<<>>].type # "array"
      BY <2>4, <1>3 DEF Kind
    <3>2. tree = t
      BY <2>4, <3>1
    <3>3. QED
      BY <2>4, <3>2, <1>3
  <2>5. QED
    BY <2>1, <2>2, <2>3, <2>4
<1> HIDE DEF tree
<1>5. /\ x \in FrameType /\ x.tree = tree
      /\ x.kept = f.kept /\ x.key = f.key /\ x.keyKept = f.keyKept
  BY <1>1, <1>4 DEF FrameType
<1> HIDE DEF x
<1> DEFINE S == FrameType
<1>6. /\ new \in Seq(S) /\ Len(new) = m /\ new[m] = x
      /\ \A i \in 1 .. m - 1 : new[i] = frames[i]
  <2>1. frames \in Seq(S) /\ x \in S
    BY <1>5
  <2> HIDE DEF S
  <2>2. QED
    BY <2>1, <1>2, Topped
<1>7. FrameFits(o, new[m])
  BY <1>4, <1>5, <1>6 DEF FrameFits
<1>8. QED
  BY <1>4, <1>5, <1>6, <1>7 DEF t, k, taken

-----------------------------------------------------------------------------
(* The invariant.                                                          *)

\* The types of the variables while the text is inside a container.
FilterTypes ==
    /\ open \in Seq({"array", "object", "member"}) /\ events \in Nat
    /\ DOMAIN filtered \subseteq Route
    /\ refs \in Seq(Route \cup {NullPointer})
    /\ keep_stack \in Seq(BOOLEAN) /\ key_keep_stack \in Seq(BOOLEAN)
    /\ wanted \in Seq(FrameType)

\* Level i is the i-th open container: the pointer to it is not null, where its
\* next element goes, whether it can go there, and whether it is under way.
Depth == Len(open)
Placed(i) == refs[i] # NullPointer
InnerOf(i) == Inner(open[i], wanted[i])
Placeable(i) == Placed(i) /\ (open[i] # "array" => wanted[i].keyKept)
Hole(i) == IF i < Depth /\ Placed(i + 1) THEN {InnerOf(i)} ELSE {}

\* The stacks have the same depth; keep_stack has the entry it began with, too.
Lengths == Len(refs) = Depth /\ Len(wanted) = Depth /\ Len(keep_stack) = Depth + 1

\* keep_stack has the answers, and a container around another waits for no value.
Frames ==
    \A i \in 1 .. Depth :
        /\ keep_stack[i + 1] = wanted[i].kept
        /\ FrameFits(open[i], wanted[i])
        /\ i < Depth => open[i] # "member"

\* The outermost container is the root, or nothing is built at all.
RootPlaced ==
    IF wanted[1].kept THEN refs[1] = <<>> ELSE refs[1] = NullPointer /\ filtered = << >>

\* A container is built if its answer was yes and there is a place for it in the
\* one around; otherwise its pointer is null.
Chain ==
    \A i \in 1 .. Depth - 1 :
        refs[i + 1] = IF wanted[i + 1].kept /\ Placeable(i) THEN Append(refs[i], InnerOf(i))
                      ELSE NullPointer

\* Around a container that is built all are, and it lies inside each one's element
\* that is under way.
Nest ==
    \A j \in 1 .. Depth : \A i \in 1 .. j - 1 :
        Placed(j) => Placed(i) /\ InnerOf(i) \in Step /\ Under(Append(refs[i], InnerOf(i)), refs[j])

\* The value shows what each container that is built comes to so far.
Levels == \A i \in 1 .. Depth : Placed(i) => Shows(filtered, refs[i], wanted[i].tree, Hole(i))

\* Where the value of a member comes next: its key's answer is on top of
\* key_keep_stack, object_element is the member, and the tree has none of that key.
Member ==
    Top(open) = "member" /\ Placed(Depth) =>
        /\ key_keep_stack # <<>> /\ Top(key_keep_stack) = wanted[Depth].keyKept
        /\ wanted[Depth].keyKept =>
               /\ element = Append(refs[Depth], wanted[Depth].key)
               /\ element \in DOMAIN filtered
               /\ \A s \in DOMAIN wanted[Depth].tree : s # <<>> => s[1] # wanted[Depth].key

FilterNested ==
    /\ events > 0 /\ Lengths /\ Frames /\ RootPlaced /\ Chain /\ Nest /\ Levels /\ Member
    /\ Loose(filtered)

\* The null pointer is not the path of an element.
LEMMA NullIsNoRoute == NullPointer \notin Route
<1>1. SUFFICES ASSUME NullPointer \in Route PROVE FALSE
  OBVIOUS
<1>2. NullPointer # <<>> /\ NullPointer[1] = <<0>>
  BY DEF NullPointer
<1>3. <<0>> \in Step
  BY <1>1, <1>2, SplitRoute
<1>4. QED
  BY <1>3 DEF Step

\* The container that is innermost.
LEMMA TopFacts ==
    ASSUME FilterTypes, FilterNested, open # <<>>, NEW n, n = Depth
    PROVE  /\ n \in Nat \ {0} /\ n \in 1 .. n
           /\ Top(open) = open[n] /\ Top(refs) = refs[n] /\ Top(wanted) = wanted[n]
           /\ Top(keep_stack) = wanted[n].kept
           /\ refs # <<>> /\ wanted # <<>>
           /\ wanted[n] \in FrameType /\ FrameFits(open[n], wanted[n])
           /\ open[n] \in {"array", "object", "member"}
           /\ Placed(n) => /\ refs[n] \in Route /\ wanted[n].kept
                           /\ Shows(filtered, refs[n], wanted[n].tree, {})
                           /\ refs[n] \in DOMAIN filtered
                           /\ filtered[refs[n]] = wanted[n].tree[<<>>]
                           /\ filtered[refs[n]] \in Node
<1>1. n \in Nat \ {0} /\ n \in 1 .. n /\ Len(open) = n /\ Len(refs) = n /\ Len(wanted) = n
      /\ Len(keep_stack) = n + 1
  BY DEF FilterTypes, FilterNested, Lengths, Depth
<1>2. /\ Top(open) = open[n] /\ Top(refs) = refs[n] /\ Top(wanted) = wanted[n]
      /\ refs # <<>> /\ wanted # <<>> /\ Top(keep_stack) = keep_stack[n + 1]
  BY <1>1 DEF Top
<1>3. keep_stack[n + 1] = wanted[n].kept /\ FrameFits(open[n], wanted[n])
  BY <1>1 DEF FilterNested, Frames
<1>4. /\ wanted[n] \in FrameType /\ open[n] \in {"array", "object", "member"}
      /\ refs[n] \in Route \cup {NullPointer}
  BY <1>1, ElementOfSeq DEF FilterTypes
<1>5. ASSUME Placed(n)
      PROVE  /\ refs[n] \in Route /\ wanted[n].kept
             /\ Shows(filtered, refs[n], wanted[n].tree, {})
             /\ refs[n] \in DOMAIN filtered
             /\ filtered[refs[n]] = wanted[n].tree[<<>>]
             /\ filtered[refs[n]] \in Node
  <2>1. refs[n] \in Route
    BY <1>4, <1>5 DEF Placed
  <2>2. Hole(n) = {}
    BY <1>1 DEF Hole
  <2>3. Shows(filtered, refs[n], wanted[n].tree, {})
    BY <1>1, <1>5, <2>2 DEF FilterNested, Levels
  <2>4. wanted[n].tree \in Tree /\ <<>> \in DOMAIN wanted[n].tree
    BY <1>3, <1>4 DEF FrameType, FrameFits
  <2>5. wanted[n].tree[<<>>] \in Node
    BY <2>4, TreeFacts
  <2>6. wanted[n].kept
    <3>1. CASE n = 1
      BY <3>1, <1>5 DEF FilterNested, RootPlaced, Placed
    <3>2. CASE n # 1
      <4>1. n - 1 \in 1 .. Depth - 1 /\ (n - 1) + 1 = n
        BY <1>1, <3>2
      <4>2. QED
        BY <4>1, <1>5 DEF FilterNested, Chain, Placed
    <3>3. QED
      BY <3>1, <3>2
  <2>7. QED
    BY <2>1, <2>3, <2>5, <2>6 DEF Shows
<1>6. QED
  BY <1>1, <1>2, <1>3, <1>4, <1>5

\* A container around one that is placed shows its tree in every value that
\* differs from this one below the inner one only.
LEMMA LowerLevels ==
    ASSUME FilterTypes, FilterNested, NEW m \in 1 .. Depth, Placed(m), NEW i \in 1 .. m - 1,
           NEW new, \A r \in Route : ~Under(refs[m], r) => Same(filtered, new, r)
    PROVE  /\ Placed(i) /\ Placed(i + 1) /\ refs[i] \in Route /\ InnerOf(i) \in Step
           /\ Shows(new, refs[i], wanted[i].tree, {InnerOf(i)})
<1>1. Depth \in Nat /\ i \in 1 .. Depth /\ i < Depth /\ m \in Nat
  BY DEF FilterTypes, Depth
<1>2. Placed(i) /\ InnerOf(i) \in Step /\ Under(Append(refs[i], InnerOf(i)), refs[m])
  BY <1>1 DEF FilterNested, Nest
<1>3. Placed(i + 1)
  <2>1. CASE i + 1 = m
    BY <2>1
  <2>2. CASE i + 1 # m
    <3>1. i + 1 \in 1 .. m - 1
      BY <2>2, <1>1
    <3>2. QED
      BY <3>1, <1>1 DEF FilterNested, Nest
  <2>3. QED
    BY <2>1, <2>2
<1>4. Hole(i) = {InnerOf(i)}
  BY <1>1, <1>3 DEF Hole
<1>5. refs[i] \in Route \cup {NullPointer} /\ refs[m] \in Route \cup {NullPointer}
  <2>1. Len(refs) = Depth
    BY DEF FilterNested, Lengths
  <2>2. QED
    BY <1>1, <2>1, ElementOfSeq DEF FilterTypes
<1>6. refs[i] \in Route /\ refs[m] \in Route
  BY <1>2, <1>5 DEF Placed
<1>7. Shows(filtered, refs[i], wanted[i].tree, {InnerOf(i)})
  BY <1>1, <1>2, <1>4 DEF FilterNested, Levels
<1>8. QED
  BY <1>2, <1>3, <1>6, <1>7, ShowsOutside

-----------------------------------------------------------------------------
(* handle_value.                                                           *)

\* Where a value that is kept goes.
LEMMA InnerFacts ==
    ASSUME FilterTypes, FilterNested, open # <<>>, NEW n, n = Depth,
           open[n] \in {"array", "member"}, Placeable(n)
    PROVE  /\ InnerOf(n) \in Step
           /\ \A s \in DOMAIN wanted[n].tree : s # <<>> => s[1] # InnerOf(n)
<1> DEFINE f == wanted[n]
<1>1. /\ n \in 1 .. n /\ Top(open) = open[n] /\ f \in FrameType /\ FrameFits(open[n], f) /\ Placed(n)
  BY TopFacts DEF Placeable
<1>2. f.tree \in Tree /\ <<>> \in DOMAIN f.tree
  BY <1>1 DEF FrameType, FrameFits
<1> HIDE DEF f
<1>3. CASE open[n] = "array"
  <2>1. InnerOf(n) = <<f.tree[<<>>].text[1] + 1>>
    BY <1>3 DEF InnerOf, Inner, f
  <2>2. f.tree[<<>>].type = "array" /\ \A s \in DOMAIN f.tree : s # <<>> => s[1][1] <= f.tree[<<>>].text[1]
    BY <1>1, <1>3 DEF FrameFits, Kind
  <2>3. QED
    BY <1>2, <2>1, <2>2, ElementFacts DEF f
<1>4. CASE open[n] = "member"
  <2>1. InnerOf(n) = f.key /\ f.keyKept
    BY <1>4 DEF InnerOf, Inner, Placeable, f
  <2>2. f.key \in Step
    BY <2>1, <1>1, NamesAreSteps DEF FrameFits
  <2>3. \A s \in DOMAIN f.tree : s # <<>> => s[1] # f.key
    BY <1>1, <1>4, <2>1 DEF FilterNested, Member, f
  <2>4. QED
    BY <2>1, <2>2, <2>3 DEF f
<1>5. QED
  BY <1>3, <1>4

\* A value that is put where the next element goes opens it there.
LEMMA PlacedValue ==
    ASSUME FilterTypes, FilterNested, open # <<>>, NEW n, n = Depth,
           open[n] \in {"array", "member"}, NEW v \in Node, Placeable(n),
           NEW c, c = Append(refs[n], InnerOf(n)), NEW new, DOMAIN new \subseteq Route,
           c \in DOMAIN new, new[c] = v, \A r \in DOMAIN new : ~Below(c, r),
           refs[n] \in DOMAIN new, new[refs[n]] = Grown(filtered[refs[n]]),
           \A r \in Route : r # refs[n] /\ ~Under(c, r) => Same(filtered, new, r)
    PROVE  /\ Shows(new, refs[n], wanted[n].tree, {InnerOf(n)})
           /\ Shows(new, c, Single(v), {})
           /\ Loose(new)
           /\ \A r \in Route : ~Under(refs[n], r) => Same(filtered, new, r)
<1> DEFINE p == refs[n]
           k == InnerOf(n)
           t == wanted[n].tree
<1>1. /\ p \in Route /\ Shows(filtered, p, t, {}) /\ p \in DOMAIN filtered /\ filtered[p] = t[<<>>]
      /\ filtered[p] \in Node
  BY TopFacts DEF Placeable
<1>2. k \in Step /\ \A s \in DOMAIN t : s # <<>> => s[1] # k
  BY InnerFacts
<1>3. c \in Route /\ c = Append(p, k)
  BY <1>1, <1>2, Child
<1> HIDE DEF p, k, t
<1>4. Shows(new, p, t, {k})
  BY <1>1, <1>2, <1>3, ShowsOpened DEF p, k
<1>5. Shows(new, c, Single(v), {})
  BY <1>3, ShowsNew
<1>6. Loose(new)
  <2>1. Grown(filtered[p]).type = filtered[p].type /\ Grown(filtered[p]) # DiscardedValue
    <3>1. filtered[p].type = "array" => filtered[p].text[1] \in Nat /\ filtered[p].text[1] + 1 \in Nat
      BY <1>1, NodeFacts
    <3>2. QED
      BY <1>1, <3>1, NodeFacts DEF Grown
  <2>2. Loose(filtered) /\ DOMAIN filtered \subseteq Route
    BY DEF FilterNested, FilterTypes
  <2>3. filtered[p] # DiscardedValue /\ v # DiscardedValue
    BY <1>1, NodeFacts
  <2>4. QED
    BY <1>1, <1>2, <1>3, <2>1, <2>2, <2>3, LooseKept DEF p
<1>7. ASSUME NEW r \in Route, ~Under(p, r) PROVE Same(filtered, new, r)
  <2>1. Under(p, c)
    BY <1>1, <1>2, <1>3, UnderParent DEF Under
  <2>2. r # p /\ ~Under(c, r)
    BY <1>1, <1>3, <1>7, <2>1, UnderUnder DEF Under
  <2>3. QED
    BY <2>2 DEF p
<1>8. QED
  BY <1>4, <1>5, <1>6, <1>7 DEF p, k, t

\* handle_value: the value goes there exactly where it is kept and there is such
\* a place, and nothing outside of the innermost container changes.
LEMMA ValueFacts ==
    ASSUME FilterTypes, FilterNested, open # <<>>, NEW n, n = Depth,
           open[n] \in {"array", "member"}, NEW v \in Node, NEW kept \in BOOLEAN,
           NEW new, new = FilterValue(v, kept)
    PROVE  /\ DOMAIN new.dom \subseteq Route /\ new.keys \in Seq(BOOLEAN)
           /\ ~(kept /\ Placeable(n)) => new.dom = filtered /\ new.ref = NullPointer
           /\ kept /\ Placeable(n) =>
                  /\ new.ref = Append(refs[n], InnerOf(n))
                  /\ Shows(new.dom, refs[n], wanted[n].tree, {InnerOf(n)})
                  /\ Shows(new.dom, new.ref, Single(v), {})
                  /\ Loose(new.dom)
                  /\ \A r \in Route : ~Under(refs[n], r) => Same(filtered, new.dom, r)
<1> DEFINE p == refs[n]
           k == InnerOf(n)
           f == wanted[n]
           c == Append(p, k)
<1>1. /\ Top(open) = open[n] /\ Top(refs) = p /\ refs # <<>> /\ FrameFits(open[n], f)
      /\ f \in FrameType /\ n = Depth
      /\ Placed(n) => /\ p \in Route /\ Shows(filtered, p, f.tree, {}) /\ p \in DOMAIN filtered
                      /\ filtered[p] = f.tree[<<>>] /\ filtered[p] \in Node
  BY TopFacts
<1>2. DOMAIN filtered \subseteq Route /\ key_keep_stack \in Seq(BOOLEAN)
  BY DEF FilterTypes
<1>3. key_keep_stack # <<>> => Pop(key_keep_stack) \in Seq(BOOLEAN)
  BY <1>2 DEF Pop
<1>4. CASE ~kept
  <2>1. new = Handled(filtered, NullPointer, key_keep_stack)
    BY <1>4 DEF FilterValue
  <2>2. QED
    BY <1>2, <1>4, <2>1 DEF Handled
<1>5. CASE kept /\ ~Placed(n)
  <2>1. new = Handled(filtered, NullPointer, key_keep_stack)
    BY <1>1, <1>5 DEF FilterValue, Placed
  <2>2. new.dom = filtered /\ new.ref = NullPointer /\ new.keys = key_keep_stack
    BY <2>1 DEF Handled
  <2>3. ~Placeable(n)
    BY <1>5 DEF Placeable
  <2>4. QED
    BY <1>2, <2>2, <2>3
<1>6. CASE kept /\ Placed(n) /\ open[n] = "array"
  <2> DEFINE size == filtered[p].text[1] + 1
             grown == [filtered EXCEPT ![p] = Container("array", size)]
             dom == Assign(grown, c, v)
  <2>1. filtered[p].type = "array"
    BY <1>1, <1>6 DEF FrameFits, Kind
  <2>2. Placeable(n) /\ k = <<size>>
    BY <1>1, <1>6 DEF Placeable, InnerOf, Inner
  <2>3. new = Handled(dom, c, key_keep_stack)
    BY <1>1, <1>6, <2>1, <2>2 DEF FilterValue, Placed
  <2>4. k \in Step /\ c \in Route
    BY <1>1, <1>6, <2>2, InnerFacts, Child
  <2>5. p \in Route /\ p \in DOMAIN filtered
    BY <1>1, <1>6
  <2> HIDE DEF k, p, f
  <2>6. /\ DOMAIN grown = DOMAIN filtered /\ grown[p] = Container("array", size)
        /\ \A r \in Route : r # p => Same(filtered, grown, r)
    BY <2>5 DEF Same
  <2> HIDE DEF grown
  <2> HIDE DEF c
  <2>7. /\ DOMAIN dom \subseteq Route /\ c \in DOMAIN dom /\ dom[c] = v
        /\ \A r \in DOMAIN dom : ~Below(c, r)
        /\ \A r \in Route : ~Under(c, r) => Same(grown, dom, r)
    BY <1>2, <2>4, <2>6, AssignFacts
  <2> HIDE DEF dom
  <2>8. ~Under(c, p)
    BY <2>4, <2>5, ParentApart DEF c
  <2>9. p \in DOMAIN dom /\ dom[p] = Grown(filtered[p])
    BY <2>1, <2>5, <2>6, <2>7, <2>8 DEF Same, Grown
  <2>10. \A r \in Route : r # p /\ ~Under(c, r) => Same(filtered, dom, r)
    BY <2>6, <2>7 DEF Same
  <2>11. /\ Shows(dom, refs[n], wanted[n].tree, {InnerOf(n)})
         /\ Shows(dom, c, Single(v), {}) /\ Loose(dom)
         /\ \A r \in Route : ~Under(refs[n], r) => Same(filtered, dom, r)
    BY <2>2, <2>7, <2>9, <2>10, PlacedValue DEF c, p, k
  <2>12. new.dom = dom /\ new.ref = c /\ new.keys = key_keep_stack
    BY <2>3 DEF Handled
  <2>13. QED
    BY <1>2, <1>6, <2>2, <2>7, <2>11, <2>12 DEF c, p, k
<1>7. CASE kept /\ Placed(n) /\ open[n] = "member"
  <2>1. filtered[p].type = "object"
    BY <1>1, <1>7 DEF FrameFits, Kind
  <2>2. key_keep_stack # <<>> /\ Top(key_keep_stack) = f.keyKept
    BY <1>1, <1>7 DEF FilterNested, Member
  <2>3. CASE ~f.keyKept
    <3>1. new = Handled(filtered, NullPointer, Pop(key_keep_stack))
      BY <1>1, <1>7, <2>1, <2>2, <2>3 DEF FilterValue, Placed
    <3>2. new.dom = filtered /\ new.ref = NullPointer /\ new.keys = Pop(key_keep_stack)
      BY <3>1 DEF Handled
    <3>3. ~Placeable(n)
      BY <1>7, <2>3 DEF Placeable
    <3>4. QED
      BY <1>2, <1>3, <2>2, <3>2, <3>3
  <2>4. CASE f.keyKept
    <3> DEFINE dom == Assign(filtered, c, v)
    <3>1. Placeable(n) /\ k = f.key
      BY <1>7, <2>4 DEF Placeable, InnerOf, Inner
    <3>2. element = c
      BY <1>1, <1>7, <2>4, <3>1 DEF FilterNested, Member
    <3>3. new = Handled(dom, c, Pop(key_keep_stack))
      BY <1>1, <1>7, <2>1, <2>2, <2>4, <3>2 DEF FilterValue, Placed
    <3>4. k \in Step /\ c \in Route /\ p \in Route /\ p \in DOMAIN filtered
      BY <1>1, <1>7, <3>1, InnerFacts, Child
    <3> HIDE DEF k, p, f
    <3> HIDE DEF c
    <3>5. /\ DOMAIN dom \subseteq Route /\ c \in DOMAIN dom /\ dom[c] = v
          /\ \A r \in DOMAIN dom : ~Below(c, r)
          /\ \A r \in Route : ~Under(c, r) => Same(filtered, dom, r)
      BY <1>2, <3>4, AssignFacts
    <3> HIDE DEF dom
    <3>6. ~Under(c, p)
      BY <3>4, ParentApart DEF c
    <3>7. p \in DOMAIN dom /\ dom[p] = Grown(filtered[p])
      BY <2>1, <3>4, <3>5, <3>6 DEF Same, Grown
    <3>8. /\ Shows(dom, refs[n], wanted[n].tree, {InnerOf(n)})
          /\ Shows(dom, c, Single(v), {}) /\ Loose(dom)
          /\ \A r \in Route : ~Under(refs[n], r) => Same(filtered, dom, r)
      BY <3>1, <3>5, <3>7, PlacedValue DEF c, p, k
    <3>9. new.dom = dom /\ new.ref = c /\ new.keys = Pop(key_keep_stack)
      BY <3>3 DEF Handled
    <3>10. QED
      BY <1>3, <1>7, <2>2, <3>1, <3>5, <3>8, <3>9 DEF c, p, k
  <2>5. QED
    BY <2>3, <2>4
<1>8. QED
  BY <1>4, <1>5, <1>6, <1>7

-----------------------------------------------------------------------------
(* The steps.                                                              *)

\* A step that leaves the text in the container at level m, and changes of it
\* and of what is inside only.
LEMMA Settled ==
    ASSUME FilterTypes, FilterNested, NEW m \in 1 .. Depth, events' = events + 1,
           Len(open') = m, Len(refs') = m, Len(wanted') = m, Len(keep_stack') = m + 1,
           \A i \in 1 .. m - 1 : open'[i] = open[i] /\ wanted'[i] = wanted[i],
           \A i \in 1 .. m : refs'[i] = refs[i],
           \A i \in 1 .. m + 1 : keep_stack'[i] = keep_stack[i],
           wanted'[m].kept = wanted[m].kept, FrameFits(open'[m], wanted'[m]),
           ~Placed(m) => filtered' = filtered,
           Placed(m) => /\ Shows(filtered', refs[m], wanted'[m].tree, {})
                        /\ \A r \in Route : ~Under(refs[m], r) => Same(filtered, filtered', r),
           Loose(filtered'), Member'
    PROVE  FilterNested'
<1>1. /\ Depth \in Nat /\ m \in Nat /\ m <= Depth /\ events' > 0 /\ Depth' = m
      /\ Lengths'
  BY DEF FilterTypes, FilterNested, Depth, Lengths
<1>2. Frames'
  <2> SUFFICES ASSUME NEW i \in 1 .. m
               PROVE  /\ keep_stack'[i + 1] = wanted'[i].kept
                      /\ FrameFits(open'[i], wanted'[i])
                      /\ i < m => open'[i] # "member"
    BY <1>1 DEF Frames
  <2>1. /\ keep_stack[i + 1] = wanted[i].kept /\ FrameFits(open[i], wanted[i])
        /\ i < Depth => open[i] # "member"
    BY <1>1 DEF FilterNested, Frames
  <2>2. i + 1 \in 1 .. m + 1 /\ (i # m => i \in 1 .. m - 1)
    BY <1>1
  <2>3. QED
    BY <1>1, <2>1, <2>2
<1>3. \A i \in 1 .. m : Placed(i)' <=> Placed(i)
  BY DEF Placed
<1>4. \A i \in 1 .. m - 1 : InnerOf(i)' = InnerOf(i) /\ (Placeable(i)' <=> Placeable(i))
  <2> SUFFICES ASSUME NEW i \in 1 .. m - 1
               PROVE  InnerOf(i)' = InnerOf(i) /\ (Placeable(i)' <=> Placeable(i))
    OBVIOUS
  <2>1. i \in 1 .. m
    BY <1>1
  <2>2. QED
    BY <1>3, <2>1 DEF InnerOf, Placeable
<1>5. Chain'
  <2> SUFFICES ASSUME NEW i \in 1 .. m - 1
               PROVE  refs'[i + 1] = IF wanted'[i + 1].kept /\ Placeable(i)'
                                     THEN Append(refs'[i], InnerOf(i)') ELSE NullPointer
    BY <1>1 DEF Chain
  <2>1. /\ i \in 1 .. Depth - 1 /\ i \in 1 .. m /\ i + 1 \in 1 .. m
        /\ i + 1 # m => i + 1 \in 1 .. m - 1
    BY <1>1
  <2>2. wanted'[i + 1].kept = wanted[i + 1].kept
    BY <2>1
  <2>3. QED
    BY <1>4, <2>1, <2>2 DEF FilterNested, Chain
<1>6. Nest'
  <2> SUFFICES ASSUME NEW j \in 1 .. m, NEW i \in 1 .. j - 1, Placed(j)'
               PROVE  /\ Placed(i)' /\ InnerOf(i)' \in Step
                      /\ Under(Append(refs'[i], InnerOf(i)'), refs'[j])
    BY <1>1 DEF Nest
  <2>1. j \in 1 .. Depth /\ i \in 1 .. m - 1 /\ i \in 1 .. m
    BY <1>1
  <2>2. Placed(i) /\ InnerOf(i) \in Step /\ Under(Append(refs[i], InnerOf(i)), refs[j])
    BY <1>3, <2>1 DEF FilterNested, Nest
  <2>3. QED
    BY <1>3, <1>4, <2>1, <2>2
<1>7. RootPlaced'
  <2>1. 1 \in 1 .. m /\ refs'[1] = refs[1] /\ wanted'[1].kept = wanted[1].kept
    BY <1>1
  <2>2. ~Placed(1) => ~Placed(m)
    <3>1. m = 1 \/ 1 \in 1 .. m - 1
      BY <1>1
    <3>2. QED
      BY <3>1 DEF FilterNested, Nest
  <2>3. QED
    BY <2>1, <2>2 DEF FilterNested, RootPlaced, Placed
<1>8. Levels'
  <2> SUFFICES ASSUME NEW i \in 1 .. m, Placed(i)
               PROVE  Shows(filtered', refs[i], wanted'[i].tree, Hole(i)')
    BY <1>1, <1>3 DEF Levels
  <2>1. CASE i = m
    <3>1. Hole(i)' = {}
      BY <1>1, <2>1 DEF Hole
    <3>2. QED
      BY <2>1, <3>1
  <2>2. CASE i # m
    <3>1. i \in 1 .. m - 1 /\ i + 1 \in 1 .. m /\ i \in 1 .. Depth /\ i < m /\ i < Depth
      BY <1>1, <2>2
    <3>2. wanted'[i] = wanted[i] /\ Hole(i)' = IF Placed(i + 1) THEN {InnerOf(i)} ELSE {}
      BY <1>1, <1>3, <1>4, <3>1 DEF Hole
    <3>3. CASE Placed(m)
      <4>1. Placed(i + 1) /\ Shows(filtered', refs[i], wanted[i].tree, {InnerOf(i)})
        BY <3>1, <3>3, LowerLevels
      <4>2. QED
        BY <3>2, <4>1
    <3>4. CASE ~Placed(m)
      <4>1. Hole(i) = IF Placed(i + 1) THEN {InnerOf(i)} ELSE {}
        BY <3>1 DEF Hole
      <4>2. Shows(filtered, refs[i], wanted[i].tree, Hole(i))
        BY <3>1 DEF FilterNested, Levels
      <4>3. QED
        BY <3>2, <3>4, <4>1, <4>2
    <3>5. QED
      BY <3>3, <3>4
  <2>3. QED
    BY <2>1, <2>2
<1>9. QED
  BY <1>1, <1>2, <1>5, <1>6, <1>7, <1>8 DEF FilterNested

\* The tree of one value.
LEMMA SingleTree ==
    ASSUME NEW v \in Node
    PROVE  Single(v) \in Tree /\ DOMAIN Single(v) = {<<>>} /\ Single(v)[<<>>] = v
<1>1. DOMAIN Single(v) = {<<>>} /\ Single(v)[<<>>] = v /\ Single(v) = [s \in {<<>>} |-> Single(v)[s]]
  BY DEF Single
<1>2. QED
  BY <1>1, EmptyRoute, TreeFacts

\* A value leaves the array open, and the object without its key.
LEMMA AfterFacts ==
    ASSUME FilterTypes, open # <<>>
    PROVE  LET after == AfterValue(open)
               n == Depth
           IN  /\ after \in Seq({"array", "object", "member"}) /\ Len(after) = n
               /\ \A i \in 1 .. n - 1 : after[i] = open[i]
               /\ after[n] # "member" /\ (after[n] = "array" <=> open[n] = "array")
               /\ \A f : FrameFits(after[n], f) <=> FrameFits(open[n], f)
<1> DEFINE S == {"array", "object", "member"}
           n == Depth
           after == AfterValue(open)
<1>1. open \in Seq(S) /\ Len(open) # 0 /\ "object" \in S /\ Len(open) = n /\ Top(open) = open[n]
  BY DEF FilterTypes, Depth, Top
<1> HIDE DEF S, n
<1>2. CASE open[n] = "member"
  <2>1. after = Append(Pop(open), "object")
    BY <1>1, <1>2 DEF AfterValue
  <2>2. /\ after \in Seq(S) /\ Len(after) = n /\ after[n] = "object"
        /\ \A i \in 1 .. n - 1 : after[i] = open[i]
    BY <1>1, <2>1, Topped
  <2> HIDE DEF after
  <2>3. QED
    BY <1>2, <2>2 DEF FrameFits, Kind, S, n, after
<1>3. CASE open[n] # "member"
  <2>1. after = open
    BY <1>1, <1>3 DEF AfterValue
  <2>2. QED
    BY <1>1, <1>3, <2>1 DEF S, n
<1>4. QED
  BY <1>2, <1>3

\* A value in a container: null, boolean, number, string.
LEMMA ScalarStep ==
    ASSUME FilterTypes, FilterNested, open # <<>>, NEW kept \in BOOLEAN, FilterScalar(kept)
    PROVE  FilterTypes' /\ FilterNested'
<1> DEFINE n == Depth
           f == wanted[n]
           k == Inner(open[n], f)
           answer == Top(keep_stack) /\ kept
           new == FilterValue(Scalar1, answer)
           u == Single(Scalar1)
           taken == kept /\ (open[n] # "array" => f.keyKept)
<1>1. /\ events' = events + 1 /\ filtered' = new.dom /\ key_keep_stack' = new.keys
      /\ open' = AfterValue(open) /\ wanted' = Took(wanted, u, kept)
      /\ refs' = refs /\ keep_stack' = keep_stack /\ element' = element
      /\ Top(open) \in {"array", "member"}
  BY DEF FilterScalar, Call, ValueComes
<1>2. /\ n \in Nat \ {0} /\ n \in 1 .. n /\ Top(open) = open[n] /\ FrameFits(open[n], f)
      /\ f \in FrameType /\ Top(keep_stack) = f.kept
      /\ Placed(n) => /\ refs[n] \in Route /\ f.kept /\ Shows(filtered, refs[n], f.tree, {})
  BY TopFacts
<1>3. /\ Len(refs) = n /\ Len(wanted) = n /\ Len(keep_stack) = n + 1 /\ events \in Nat
      /\ wanted \in Seq(FrameType) /\ Loose(filtered)
  BY DEF FilterNested, Lengths, FilterTypes
<1>4. Scalar1 \in Node /\ u \in Tree /\ <<>> \in DOMAIN u /\ answer \in BOOLEAN
  BY <1>2, NodeFacts, SingleTree DEF FrameType
<1> HIDE DEF answer, u
<1>5. /\ DOMAIN filtered' \subseteq Route /\ key_keep_stack' \in Seq(BOOLEAN)
      /\ ~(answer /\ Placeable(n)) => filtered' = filtered
      /\ answer /\ Placeable(n) =>
             /\ Shows(filtered', refs[n], f.tree, {k})
             /\ Shows(filtered', Append(refs[n], k), u, {})
             /\ Loose(filtered')
             /\ \A r \in Route : ~Under(refs[n], r) => Same(filtered, filtered', r)
  BY <1>1, <1>2, <1>4, ValueFacts DEF InnerOf, u
<1>6. /\ wanted' \in Seq(FrameType) /\ Len(wanted') = n
      /\ \A i \in 1 .. n - 1 : wanted'[i] = wanted[i]
      /\ wanted'[n].kept = f.kept /\ FrameFits(open[n], wanted'[n])
      /\ ~taken => wanted'[n].tree = f.tree
      /\ taken /\ (\A s \in DOMAIN f.tree : s # <<>> => s[1] # k) => Closes(f.tree, k, u, wanted'[n].tree)
  <2>1. wanted \in Seq(FrameType) /\ Len(wanted) # 0 /\ Len(wanted) = n
    BY <1>2, <1>3
  <2>2. FrameFits(open[n], wanted[Len(wanted)]) /\ wanted[Len(wanted)] = f
    BY <1>2, <1>3
  <2> DEFINE w == Took(wanted, u, kept)
             m == Len(wanted)
             g == wanted[m]
             l == Inner(open[n], g)
  <2>3. /\ w \in Seq(FrameType) /\ Len(w) = m
        /\ \A i \in 1 .. m - 1 : w[i] = wanted[i]
        /\ w[m].kept = g.kept /\ FrameFits(open[n], w[m])
        /\ ~(kept /\ (open[n] # "array" => g.keyKept)) => w[m].tree = g.tree
        /\ kept /\ (open[n] # "array" => g.keyKept) /\ (\A s \in DOMAIN g.tree : s # <<>> => s[1] # l) =>
               Closes(g.tree, l, u, w[m].tree)
    <3> HIDE DEF n
    <3>1. QED
      BY <1>4, <2>1, <2>2, TookFacts
  <2>4. w = wanted' /\ m = n /\ g = f /\ l = k
    BY <1>1, <2>1, <2>2
  <2> HIDE DEF w, m, g, l, f, k, n
  <2>5. QED
    BY <2>3, <2>4
<1>7. /\ open' \in Seq({"array", "object", "member"}) /\ Len(open') = n
      /\ \A i \in 1 .. n - 1 : open'[i] = open[i]
      /\ open'[n] # "member" /\ FrameFits(open'[n], wanted'[n])
  BY <1>1, <1>6, AfterFacts
<1> HIDE DEF new
<1>8. FilterTypes'
  BY <1>1, <1>3, <1>5, <1>6, <1>7 DEF FilterTypes
<1>9. ASSUME Placed(n)
      PROVE  /\ Shows(filtered', refs[n], wanted'[n].tree, {})
             /\ \A r \in Route : ~Under(refs[n], r) => Same(filtered, filtered', r)
             /\ Loose(filtered')
  <2>1. (answer /\ Placeable(n)) <=> taken
    BY <1>2, <1>9 DEF answer, Placeable
  <2>2. CASE taken
    <3>1. k \in Step /\ \A s \in DOMAIN f.tree : s # <<>> => s[1] # k
      BY <1>1, <1>2, <1>9, <2>2, InnerFacts DEF Placeable, InnerOf
    <3>2. Closes(f.tree, k, u, wanted'[n].tree)
      BY <1>6, <2>2, <3>1
    <3> HIDE DEF k, f
    <3>3. Shows(filtered', refs[n], wanted'[n].tree, {})
      BY <1>2, <1>4, <1>5, <1>9, <2>1, <2>2, <3>1, <3>2, ShowsClosed DEF Closes
    <3>4. QED
      BY <1>5, <2>1, <2>2, <3>3
  <2>3. CASE ~taken
    <3>1. filtered' = filtered /\ wanted'[n].tree = f.tree
      BY <1>5, <1>6, <2>1, <2>3
    <3>2. QED
      BY <1>2, <1>3, <1>9, <3>1 DEF Same
  <2>4. QED
    BY <2>2, <2>3
<1>10. ~Placed(n) => filtered' = filtered /\ Loose(filtered')
  BY <1>3, <1>5 DEF Placeable
<1>11. Member'
  <2>1. Top(open') # "member"
    BY <1>7 DEF Top
  <2>2. QED
    BY <2>1 DEF Member
<1>12. FilterNested'
  BY <1>1, <1>2, <1>3, <1>6, <1>7, <1>9, <1>10, <1>11, Settled
<1>13. QED
  BY <1>8, <1>12

\* start_object and start_array in a container.
LEMMA StartStep ==
    ASSUME FilterTypes, FilterNested, open # <<>>, NEW kept \in BOOLEAN,
           NEW type \in {"array", "object"}, FilterStart(type, kept)
    PROVE  FilterTypes' /\ FilterNested'
<1> DEFINE n == Depth
           f == wanted[n]
           k == InnerOf(n)
           v == Container(type, 0)
           new == FilterValue(v, kept)
           c == Append(refs[n], k)
           placed == kept /\ Placeable(n)
           after == AfterValue(open)
           frame == Frame(type, kept)
<1>1. /\ events' = events + 1 /\ filtered' = new.dom /\ key_keep_stack' = new.keys
      /\ refs' = Append(refs, new.ref) /\ keep_stack' = Append(keep_stack, kept)
      /\ open' = Append(after, type) /\ wanted' = Append(wanted, frame) /\ element' = element
      /\ Top(open) \in {"array", "member"}
  BY DEF FilterStart, Call, ValueComes
<1>2. /\ n \in Nat \ {0} /\ n \in 1 .. n /\ Top(open) = open[n] /\ FrameFits(open[n], f)
      /\ f \in FrameType
      /\ Placed(n) => refs[n] \in Route /\ Shows(filtered, refs[n], f.tree, {})
  BY TopFacts
<1>3. /\ Len(refs) = n /\ Len(wanted) = n /\ Len(keep_stack) = n + 1 /\ events \in Nat
      /\ wanted \in Seq(FrameType) /\ Loose(filtered) /\ keep_stack \in Seq(BOOLEAN)
      /\ refs \in Seq(Route \cup {NullPointer}) /\ events > 0
  BY DEF FilterNested, Lengths, FilterTypes
<1>4. /\ v \in Node /\ v.type = type /\ v = Container(type, 0)
      /\ Single(v) \in Tree /\ DOMAIN Single(v) = {<<>>} /\ Single(v)[<<>>] = v
  BY NodeFacts, SingleTree
<1>5. /\ frame \in FrameType /\ frame.tree = Single(v) /\ frame.kept = kept /\ FrameFits(type, frame)
  BY <1>4 DEF Frame, FrameType, FrameFits, Kind
<1>6. /\ DOMAIN filtered' \subseteq Route /\ key_keep_stack' \in Seq(BOOLEAN)
      /\ ~placed => filtered' = filtered /\ new.ref = NullPointer
      /\ placed =>
             /\ new.ref = c
             /\ Shows(filtered', refs[n], f.tree, {k}) /\ Shows(filtered', c, Single(v), {})
             /\ Loose(filtered')
             /\ \A r \in Route : ~Under(refs[n], r) => Same(filtered, filtered', r)
  <2> HIDE DEF v
  <2>1. open[n] \in {"array", "member"} /\ v \in Node
    BY <1>1, <1>2, <1>4
  <2>2. QED
    BY <1>1, <2>1, ValueFacts
<1>7. placed => Placed(n) /\ k \in Step /\ c \in Route /\ c # NullPointer
  <2> SUFFICES ASSUME placed PROVE Placed(n) /\ k \in Step /\ c \in Route /\ c # NullPointer
    OBVIOUS
  <2>1. Placed(n) /\ refs[n] \in Route
    BY <1>2 DEF Placeable
  <2>2. k \in Step
    BY <1>1, <1>2, InnerFacts
  <2> HIDE DEF n, k
  <2>3. c \in Route
    BY <2>1, <2>2, Child
  <2> HIDE DEF c
  <2>4. QED
    BY <2>1, <2>2, <2>3, NullIsNoRoute
<1>8. /\ after \in Seq({"array", "object", "member"}) /\ Len(after) = n
      /\ \A i \in 1 .. n - 1 : after[i] = open[i]
      /\ after[n] # "member" /\ (after[n] = "array" <=> open[n] = "array")
      /\ \A g : FrameFits(after[n], g) <=> FrameFits(open[n], g)
  BY AfterFacts
<1> HIDE DEF new, v, after, frame
<1>9. /\ wanted' \in Seq(FrameType) /\ Len(wanted') = n + 1 /\ wanted'[n + 1] = frame
      /\ \A i \in 1 .. n : wanted'[i] = wanted[i]
  BY <1>1, <1>3, <1>5, AppendProperties
<1>10. /\ refs' \in Seq(Route \cup {NullPointer}) /\ Len(refs') = n + 1 /\ refs'[n + 1] = new.ref
       /\ \A i \in 1 .. n : refs'[i] = refs[i]
  <2>1. new.ref \in Route \cup {NullPointer}
    BY <1>6, <1>7
  <2>2. QED
    BY <1>1, <1>3, <2>1, AppendProperties
<1>11. /\ keep_stack' \in Seq(BOOLEAN) /\ Len(keep_stack') = n + 2 /\ keep_stack'[n + 2] = kept
       /\ \A i \in 1 .. n + 1 : keep_stack'[i] = keep_stack[i]
  BY <1>1, <1>2, <1>3, AppendProperties
<1>12. /\ open' \in Seq({"array", "object", "member"}) /\ Len(open') = n + 1 /\ open'[n + 1] = type
       /\ \A i \in 1 .. n : open'[i] = after[i]
  BY <1>1, <1>8, AppendProperties
<1>13. FilterTypes'
  BY <1>1, <1>3, <1>6, <1>9, <1>10, <1>11, <1>12 DEF FilterTypes
<1>14. Depth' = n + 1 /\ Lengths' /\ events' > 0 /\ Depth = n
  <2>1. Depth' = n + 1
    BY <1>12 DEF Depth
  <2>2. Lengths'
    BY <2>1, <1>9, <1>10, <1>11, <1>2 DEF Lengths
  <2>3. QED
    BY <1>1, <1>3, <2>1, <2>2
<1>15. /\ \A i \in 1 .. n + 1 : Placed(i)' <=> IF i = n + 1 THEN placed ELSE Placed(i)
       /\ \A i \in 1 .. n : Placed(i)' <=> Placed(i)
  <2> HIDE DEF placed, c
  <2>1. refs'[n + 1] # NullPointer <=> placed
    BY <1>6, <1>7, <1>10
  <2>2. \A i \in 1 .. n + 1 : i # n + 1 => refs'[i] = refs[i]
    BY <1>2, <1>10
  <2>3. \A i \in 1 .. n : i \in 1 .. n + 1 /\ i # n + 1
    BY <1>2
  <2>4. QED
    BY <2>1, <2>2, <2>3 DEF Placed
<1>16. \A i \in 1 .. n : InnerOf(i)' = InnerOf(i) /\ (Placeable(i)' <=> Placeable(i))
  <2> SUFFICES ASSUME NEW i \in 1 .. n
               PROVE  InnerOf(i)' = InnerOf(i) /\ (Placeable(i)' <=> Placeable(i))
    OBVIOUS
  <2>1. open'[i] = "array" <=> open[i] = "array"
    <3>1. CASE i = n
      BY <1>2, <1>8, <1>12, <3>1
    <3>2. CASE i # n
      <4>1. i \in 1 .. n - 1
        BY <1>2, <3>2
      <4>2. QED
        BY <1>8, <1>12, <4>1
    <3>3. QED
      BY <3>1, <3>2
  <2>2. QED
    BY <1>9, <1>15, <2>1 DEF InnerOf, Inner, Placeable
<1> HIDE DEF n, placed, f, c
<1>17. Frames'
  <2> SUFFICES ASSUME NEW i \in 1 .. n + 1
               PROVE  /\ keep_stack'[i + 1] = wanted'[i].kept
                      /\ FrameFits(open'[i], wanted'[i])
                      /\ i < n + 1 => open'[i] # "member"
    BY <1>14 DEF Frames
  <2>1. CASE i = n + 1
    BY <1>2, <1>5, <1>9, <1>11, <1>12, <2>1
  <2>2. CASE i # n + 1
    <3>1. i \in 1 .. n /\ i + 1 \in 1 .. n + 1 /\ (i # n => i \in 1 .. n - 1 /\ i < n)
      BY <1>2, <2>2
    <3>2. /\ keep_stack[i + 1] = wanted[i].kept /\ FrameFits(open[i], wanted[i])
          /\ i < n => open[i] # "member"
      BY <1>14, <3>1 DEF FilterNested, Frames
    <3>3. CASE i = n
      BY <1>8, <1>9, <1>11, <1>12, <3>1, <3>2, <3>3
    <3>4. CASE i # n
      BY <1>8, <1>9, <1>11, <1>12, <3>1, <3>2, <3>4
    <3>5. QED
      BY <3>3, <3>4
  <2>3. QED
    BY <2>1, <2>2
<1>18. RootPlaced'
  <2>1. 1 \in 1 .. n /\ refs'[1] = refs[1] /\ wanted'[1] = wanted[1]
    BY <1>2, <1>9, <1>10
  <2>2. ~Placed(1) => ~Placed(n)
    <3>1. n = 1 \/ 1 \in 1 .. n - 1
      BY <1>2
    <3>2. QED
      BY <1>2, <1>14, <3>1 DEF FilterNested, Nest
  <2>3. ~Placed(1) => filtered' = filtered
    BY <1>6, <2>2 DEF Placeable, placed
  <2>4. QED
    BY <2>1, <2>3 DEF FilterNested, RootPlaced, Placed
<1>19. Chain'
  <2> SUFFICES ASSUME NEW i \in 1 .. n
               PROVE  refs'[i + 1] = IF wanted'[i + 1].kept /\ Placeable(i)'
                                     THEN Append(refs'[i], InnerOf(i)') ELSE NullPointer
    BY <1>2, <1>14 DEF Chain
  <2>1. CASE i = n
    <3>1. wanted'[i + 1].kept = kept /\ refs'[i + 1] = new.ref /\ refs'[i] = refs[n]
      BY <1>2, <1>5, <1>9, <1>10, <2>1
    <3>2. InnerOf(i)' = k /\ (Placeable(i)' <=> Placeable(n))
      BY <1>2, <1>16, <2>1
    <3>3. QED
      BY <1>6, <3>1, <3>2 DEF placed, c
  <2>2. CASE i # n
    <3>1. i \in 1 .. n - 1 /\ i + 1 \in 1 .. n
      BY <1>2, <2>2
    <3>2. QED
      BY <1>9, <1>10, <1>14, <1>16, <3>1 DEF FilterNested, Chain
  <2>3. QED
    BY <2>1, <2>2
<1>20. Nest'
  <2> SUFFICES ASSUME NEW j \in 1 .. n + 1, NEW i \in 1 .. j - 1, Placed(j)'
               PROVE  /\ Placed(i)' /\ InnerOf(i)' \in Step
                      /\ Under(Append(refs'[i], InnerOf(i)'), refs'[j])
    BY <1>14 DEF Nest
  <2>1. i \in 1 .. n
    BY <1>2
  <2>2. CASE j # n + 1
    <3>1. j \in 1 .. n
      BY <1>2, <2>2
    <3>2. Placed(i) /\ InnerOf(i) \in Step /\ Under(Append(refs[i], InnerOf(i)), refs[j])
      BY <1>14, <1>15, <3>1 DEF FilterNested, Nest
    <3>3. refs'[i] = refs[i] /\ refs'[j] = refs[j] /\ InnerOf(i)' = InnerOf(i) /\ Placed(i)'
      BY <1>10, <1>15, <1>16, <2>1, <3>1, <3>2
    <3>4. QED
      BY <3>2, <3>3
  <2>3. CASE j = n + 1
    <3>1. placed /\ refs'[j] = c
      BY <1>6, <1>10, <1>15, <2>3
    <3>2. CASE i = n
      <4>1. Under(c, c)
        BY DEF Under
      <4>2. Placed(i)' /\ refs'[i] = refs[n] /\ InnerOf(i)' = k
        BY <1>7, <1>10, <1>15, <1>16, <2>1, <3>1, <3>2
      <4>3. QED
        BY <1>7, <3>1, <4>1, <4>2 DEF c
    <3>3. CASE i # n
      <4>1. i \in 1 .. n - 1
        BY <1>2, <2>1, <3>3
      <4>2. Placed(i) /\ InnerOf(i) \in Step /\ Under(Append(refs[i], InnerOf(i)), refs[n])
        BY <1>2, <1>7, <1>14, <3>1, <4>1 DEF FilterNested, Nest
      <4>3. refs[i] \in Route
        BY <1>3, <2>1, <4>2, ElementOfSeq DEF Placed
      <4>4. Under(Append(refs[i], InnerOf(i)), c)
        <5>1. Append(refs[i], InnerOf(i)) \in Route
          BY <4>2, <4>3, Child
        <5>2. refs[n] \in Route /\ k \in Step
          BY <1>2, <1>7, <3>1
        <5>3. QED
          BY <4>2, <5>1, <5>2, UnderParent DEF c
      <4>5. QED
        BY <1>10, <1>15, <1>16, <2>1, <3>1, <4>2, <4>4
    <3>4. QED
      BY <3>2, <3>3
  <2>4. QED
    BY <2>2, <2>3
<1>21. Levels'
  <2> SUFFICES ASSUME NEW i \in 1 .. n + 1, Placed(i)'
               PROVE  Shows(filtered', refs'[i], wanted'[i].tree, Hole(i)')
    BY <1>14, Zenon DEF Levels
  <2>1. CASE i = n + 1
    <3>1. placed /\ refs'[i] = c /\ wanted'[i].tree = Single(v)
      BY <1>5, <1>6, <1>9, <1>10, <1>15, <2>1
    <3> HIDE DEF c
    <3>2. Hole(i)' = {}
      BY <1>2, <1>14, <2>1 DEF Hole
    <3>3. QED
      BY <1>6, <3>1, <3>2 DEF c
  <2>2. CASE i = n
    <3>1. Placed(n) /\ refs'[i] = refs[n] /\ wanted'[i] = f
      BY <1>2, <1>9, <1>10, <1>15, <2>2 DEF f
    <3>2. /\ i + 1 \in 1 .. n + 1 /\ i + 1 = n + 1 /\ i < n + 1 /\ InnerOf(i)' = k
      BY <1>2, <1>16, <2>2
    <3>3. Hole(i)' = IF placed THEN {k} ELSE {}
      BY <1>14, <1>15, <3>2 DEF Hole
    <3>4. QED
      BY <1>2, <1>6, <3>1, <3>3 DEF placed, f, c
  <2>3. CASE i # n + 1 /\ i # n
    <3>1. /\ i \in 1 .. n /\ i + 1 \in 1 .. n /\ i \in 1 .. n - 1 /\ i < n /\ i < n + 1
      BY <1>2, <2>3
    <3>2. /\ Placed(i) /\ refs'[i] = refs[i] /\ wanted'[i] = wanted[i]
          /\ Hole(i)' = IF Placed(i + 1) THEN {InnerOf(i)} ELSE {}
      <4>1. /\ Placed(i) /\ refs'[i] = refs[i] /\ wanted'[i] = wanted[i]
            /\ InnerOf(i)' = InnerOf(i) /\ (Placed(i + 1)' <=> Placed(i + 1))
        BY <1>9, <1>10, <1>15, <1>16, <3>1
      <4>2. QED
        BY <1>14, <3>1, <4>1 DEF Hole
    <3>3. CASE Placed(n)
      <4>1. \A r \in Route : ~Under(refs[n], r) => Same(filtered, filtered', r)
        BY <1>6 DEF Same
      <4>2. Placed(i + 1) /\ Shows(filtered', refs[i], wanted[i].tree, {InnerOf(i)})
        BY <1>2, <1>14, <3>1, <3>3, <4>1, LowerLevels
      <4>3. QED
        BY <3>2, <4>2
    <3>4. CASE ~Placed(n)
      <4>1. Hole(i) = IF Placed(i + 1) THEN {InnerOf(i)} ELSE {}
        BY <1>14, <3>1 DEF Hole
      <4>2. Shows(filtered, refs[i], wanted[i].tree, Hole(i))
        BY <1>14, <3>1, <3>2 DEF FilterNested, Levels
      <4>3. filtered' = filtered
        BY <1>6, <3>4 DEF Placeable, placed
      <4>4. QED
        BY <3>2, <4>1, <4>2, <4>3
    <3>5. QED
      BY <3>3, <3>4
  <2>4. QED
    BY <2>1, <2>2, <2>3
<1>22. Member'
  <2>1. Top(open') # "member"
    BY <1>12 DEF Top
  <2>2. QED
    BY <2>1 DEF Member
<1>23. Loose(filtered')
  BY <1>3, <1>6
<1>24. QED
  BY <1>13, <1>14, <1>17, <1>18, <1>19, <1>20, <1>21, <1>22, <1>23 DEF FilterNested

\* What was under the key goes from the tree.
LEMMA KeyTree ==
    ASSUME NEW t \in Tree, <<>> \in DOMAIN t, NEW k \in Step
    PROVE  LET left == Without(t, <<k>>)
           IN  /\ left \in Tree /\ <<>> \in DOMAIN left /\ left[<<>>] = t[<<>>]
               /\ \A s \in Route : s # <<>> =>
                      IF s[1] = k THEN s \notin DOMAIN left ELSE Same(t, left, s)
<1> DEFINE left == Without(t, <<k>>)
<1>1. /\ DOMAIN t \subseteq Route /\ t = [s \in DOMAIN t |-> t[s]]
      /\ \A s \in DOMAIN t : t[s] \in Node
  BY TreeFacts
<1>2. <<k>> \in Route /\ <<>> \in Route
  BY StepJoin, EmptyRoute
<1>3. \A s \in Route : Under(<<k>>, s) <=> s # <<>> /\ s[1] = k
  <2>1. Append(<<>>, k) = <<k>>
    BY <1>2, Child, JoinRoute, StepJoin
  <2>2. \A s \in Route : Join(<<>>, s) = s
    BY <1>2, JoinRoute
  <2>3. \A s \in Route : Under(Append(<<>>, k), Join(<<>>, s)) <=> s # <<>> /\ s[1] = k
    BY <1>2, UnderChild
  <2>4. QED
    BY <2>1, <2>2, <2>3
<1>4. /\ left = [s \in DOMAIN left |-> left[s]] /\ DOMAIN left \subseteq DOMAIN t
      /\ \A s \in DOMAIN left : left[s] = t[s]
  BY DEF Without
<1>5. /\ \A s \in DOMAIN left : ~Under(<<k>>, s)
      /\ \A s \in Route : ~Under(<<k>>, s) => Same(t, left, s)
  BY <1>1, <1>2, WithoutFacts
<1> HIDE DEF left
<1>6. left \in Tree
  BY <1>1, <1>4, TreeFacts
<1>7. <<>> \in DOMAIN left /\ left[<<>>] = t[<<>>]
  BY <1>2, <1>3, <1>5 DEF Same
<1>8. QED
  BY <1>3, <1>5, <1>6, <1>7 DEF left

\* key.
LEMMA KeyStep ==
    ASSUME FilterTypes, FilterNested, open # <<>>, NEW kept \in BOOLEAN,
           NEW key \in Name, FilterKey(key, kept)
    PROVE  FilterTypes' /\ FilterNested'
<1> DEFINE n == Depth
           f == wanted[n]
           t == f.tree
           left == Without(t, <<key>>)
           p == refs[n]
           c == Append(p, key)
           x == [f EXCEPT !.key = key, !.keyKept = kept, !.tree = IF kept THEN left ELSE t]
<1>1. /\ events' = events + 1 /\ Top(open) = "object"
      /\ key_keep_stack' = Append(key_keep_stack, kept)
      /\ open' = Append(Pop(open), "member") /\ wanted' = WantKey(key, kept)
      /\ refs' = refs /\ keep_stack' = keep_stack
      /\ kept /\ Top(refs) # NullPointer =>
             element' = Append(Top(refs), key) /\ filtered' = Assign(filtered, Append(Top(refs), key), DiscardedValue)
      /\ ~(kept /\ Top(refs) # NullPointer) => element' = element /\ filtered' = filtered
  BY DEF FilterKey, Call
<1>2. /\ n \in Nat \ {0} /\ n \in 1 .. n /\ open[n] = "object" /\ FrameFits("object", f)
      /\ f \in FrameType /\ Top(refs) = p /\ Top(wanted) = f
      /\ Placed(n) => /\ p \in Route /\ Shows(filtered, p, t, {})
                      /\ p \in DOMAIN filtered /\ filtered[p] = t[<<>>] /\ filtered[p] \in Node
  BY <1>1, TopFacts
<1>3. /\ Len(refs) = n /\ Len(wanted) = n /\ Len(keep_stack) = n + 1 /\ events \in Nat
      /\ wanted \in Seq(FrameType) /\ Loose(filtered) /\ Len(open) = n
      /\ DOMAIN filtered \subseteq Route /\ key_keep_stack \in Seq(BOOLEAN)
      /\ keep_stack \in Seq(BOOLEAN) /\ refs \in Seq(Route \cup {NullPointer})
      /\ open \in Seq({"array", "object", "member"})
  BY DEF FilterNested, Lengths, FilterTypes, Depth
<1>4. t \in Tree /\ <<>> \in DOMAIN t /\ t[<<>>].type = "object" /\ key \in Step
  BY <1>2, NamesAreSteps DEF FrameFits, FrameType, Kind
<1>5. /\ left \in Tree /\ <<>> \in DOMAIN left /\ left[<<>>] = t[<<>>]
      /\ \A s \in Route : s # <<>> => IF s[1] = key THEN s \notin DOMAIN left ELSE Same(t, left, s)
  BY <1>4, KeyTree
<1> HIDE DEF left
<1>6. /\ x \in FrameType /\ x.kept = f.kept /\ x.key = key /\ x.keyKept = kept
      /\ x.tree = IF kept THEN left ELSE t
  BY <1>2, <1>4, <1>5 DEF FrameType
<1>7. wanted' = Append(Pop(wanted), x)
  BY <1>1, <1>2 DEF WantKey, left
<1> HIDE DEF x
<1>8. FrameFits("member", x)
  BY <1>4, <1>5, <1>6 DEF FrameFits, Kind
<1>9. /\ wanted' \in Seq(FrameType) /\ Len(wanted') = n /\ wanted'[n] = x
      /\ \A i \in 1 .. n - 1 : wanted'[i] = wanted[i]
  <2> DEFINE S == FrameType
  <2> HIDE DEF S, n
  <2>1. wanted \in Seq(S) /\ x \in S /\ Len(wanted) # 0 /\ Len(wanted) = n
    BY <1>2, <1>3, <1>6 DEF S
  <2>2. /\ wanted' \in Seq(S) /\ Len(wanted') = n /\ wanted'[n] = x
        /\ \A i \in 1 .. n - 1 : wanted'[i] = wanted[i]
    BY <1>7, <2>1, Topped
  <2>3. QED
    BY <2>2 DEF S
<1>10. /\ open' \in Seq({"array", "object", "member"}) /\ Len(open') = n /\ open'[n] = "member"
       /\ \A i \in 1 .. n - 1 : open'[i] = open[i]
  <2> DEFINE S == {"array", "object", "member"}
             x2 == "member"
  <2>1. open \in Seq(S) /\ x2 \in S /\ Len(open) # 0 /\ Len(open) = n /\ open' = Append(Pop(open), x2)
    BY <1>1, <1>2, <1>3
  <2> HIDE DEF S, n, x2
  <2>2. /\ open' \in Seq(S) /\ Len(open') = n /\ open'[n] = x2
        /\ \A i \in 1 .. n - 1 : open'[i] = open[i]
    BY <2>1, Topped
  <2>3. QED
    BY <2>2 DEF S, x2
<1>11. /\ key_keep_stack' \in Seq(BOOLEAN) /\ key_keep_stack' # <<>> /\ Top(key_keep_stack') = kept
  <2> DEFINE keys == Append(key_keep_stack, kept)
  <2>1. /\ keys \in Seq(BOOLEAN) /\ Len(keys) = Len(key_keep_stack) + 1
        /\ keys[Len(key_keep_stack) + 1] = kept /\ Len(key_keep_stack) \in Nat
    BY <1>3, AppendProperties
  <2>2. key_keep_stack' = keys
    BY <1>1
  <2> HIDE DEF keys
  <2>3. QED
    BY <2>1, <2>2 DEF Top
<1>12. Depth' = n /\ n = Depth
  BY <1>10 DEF Depth
<1> HIDE DEF n
<1>13. ASSUME Placed(n), kept
       PROVE  /\ DOMAIN filtered' \subseteq Route
              /\ Shows(filtered', p, left, {})
              /\ \A r \in Route : ~Under(p, r) => Same(filtered, filtered', r)
              /\ Loose(filtered') /\ element' = c /\ c \in DOMAIN filtered'
  <2>1. element' = c /\ filtered' = Assign(filtered, c, DiscardedValue)
    BY <1>1, <1>2, <1>13 DEF Placed
  <2>2. p \in Route /\ c \in Route /\ Under(p, c) /\ ~Under(c, p)
    BY <1>2, <1>4, <1>13, Child, ParentApart, UnderParent DEF Under
  <2> HIDE DEF p
  <2>3. /\ DOMAIN filtered' \subseteq Route /\ c \in DOMAIN filtered' /\ filtered'[c] = DiscardedValue
        /\ \A r \in DOMAIN filtered' : ~Below(c, r)
        /\ \A r \in Route : ~Under(c, r) => Same(filtered, filtered', r)
    <3> HIDE DEF c
    <3>1. QED
      BY <1>3, <2>1, <2>2, AssignFacts
  <2>4. Shows(filtered', p, left, {})
    <3>1. \A r \in DOMAIN filtered' : Under(c, r) => filtered'[r] = DiscardedValue
      BY <2>3 DEF Under
    <3>2. Shows(filtered, p, t, {})
      BY <1>2, <1>13
    <3> HIDE DEF t
    <3>3. QED
      BY <1>4, <1>5, <2>2, <2>3, <3>1, <3>2, ShowsKey
  <2>5. \A r \in Route : ~Under(p, r) => Same(filtered, filtered', r)
    BY <2>2, <2>3, UnderUnder
  <2>6. Loose(filtered')
    <3>1. /\ p \in DOMAIN filtered /\ filtered[p] # DiscardedValue /\ filtered[p].type = "object"
      BY <1>2, <1>4, <1>13, NodeFacts
    <3>2. p \in DOMAIN filtered' /\ filtered'[p] = filtered[p]
      BY <2>2, <2>3, <3>1 DEF Same
    <3>3. QED
      BY <1>3, <1>4, <2>2, <2>3, <3>1, <3>2, LooseKept
  <2>7. QED
    BY <2>1, <2>3, <2>4, <2>5, <2>6
<1>14. ~(Placed(n) /\ kept) => filtered' = filtered
  BY <1>1, <1>2 DEF Placed
<1>15. FilterTypes'
  BY <1>1, <1>3, <1>9, <1>10, <1>11, <1>13, <1>14 DEF FilterTypes
<1>16. Member'
  <2> SUFFICES ASSUME Placed(Depth)'
               PROVE  /\ key_keep_stack' # <<>> /\ Top(key_keep_stack') = wanted'[n].keyKept
                      /\ wanted'[n].keyKept =>
                             /\ element' = Append(refs'[n], wanted'[n].key)
                             /\ element' \in DOMAIN filtered'
                             /\ \A s \in DOMAIN wanted'[n].tree : s # <<>> => s[1] # wanted'[n].key
    BY <1>12 DEF Member
  <2>1. Placed(n)
    BY <1>1, <1>12 DEF Placed
  <2>2. ASSUME kept PROVE \A s \in DOMAIN left : s # <<>> => s[1] # key
    <3>1. DOMAIN left \subseteq Route
      BY <1>5, TreeFacts
    <3>2. QED
      BY <1>5, <3>1
  <2>3. QED
    BY <1>1, <1>6, <1>9, <1>11, <1>13, <2>1, <2>2
<1>17. Placed(n) => /\ Shows(filtered', refs[n], wanted'[n].tree, {})
                    /\ \A r \in Route : ~Under(refs[n], r) => Same(filtered, filtered', r)
  <2>1. CASE kept
    BY <1>6, <1>9, <1>13, <2>1
  <2>2. CASE ~kept
    BY <1>2, <1>6, <1>9, <1>14, <2>2 DEF Same
  <2>3. QED
    BY <2>1, <2>2
<1>18. ~Placed(n) => filtered' = filtered
  BY <1>14
<1>19. Loose(filtered')
  BY <1>3, <1>13, <1>14
<1>20. FilterNested'
  <2>1. n \in 1 .. Depth
    BY <1>2, <1>12
  <2>2. /\ Len(open') = n /\ Len(refs') = n /\ Len(wanted') = n /\ Len(keep_stack') = n + 1
        /\ wanted'[n].kept = wanted[n].kept /\ FrameFits(open'[n], wanted'[n])
    BY <1>1, <1>3, <1>6, <1>8, <1>9, <1>10
  <2>3. /\ \A i \in 1 .. n - 1 : open'[i] = open[i] /\ wanted'[i] = wanted[i]
        /\ \A i \in 1 .. n : refs'[i] = refs[i]
        /\ \A i \in 1 .. n + 1 : keep_stack'[i] = keep_stack[i]
    BY <1>1, <1>9, <1>10
  <2>4. QED
    BY <1>1, <1>16, <1>17, <1>18, <1>19, <2>1, <2>2, <2>3, Settled
<1>21. QED
  BY <1>15, <1>20

\* Erasing a discarded value leaves the others members of an object, and leaves.
LEMMA LooseErased ==
    ASSUME NEW dom, DOMAIN dom \subseteq Route, Loose(dom), NEW q \in DOMAIN dom, dom[q] = DiscardedValue,
           NEW new, DOMAIN new \subseteq Route, \A r \in Route : r # q => Same(dom, new, r), q \notin DOMAIN new
    PROVE  Loose(new)
<1> SUFFICES ASSUME NEW r \in DOMAIN new, new[r] = DiscardedValue
             PROVE  /\ r # <<>> /\ Pop(r) \in DOMAIN new /\ new[Pop(r)].type = "object"
                    /\ \A s \in DOMAIN new : ~Below(r, s)
  BY DEF Loose
<1>1. r \in DOMAIN dom /\ dom[r] = DiscardedValue
  BY DEF Same
<1>2. /\ r # <<>> /\ Pop(r) \in DOMAIN dom /\ dom[Pop(r)].type = "object"
      /\ \A s \in DOMAIN dom : ~Below(r, s)
  BY <1>1 DEF Loose
<1>3. dom[q].type # "object"
  BY DEF DiscardedValue
<1>4. Pop(r) \in DOMAIN new /\ new[Pop(r)].type = "object"
  BY <1>2, <1>3 DEF Same
<1>5. \A s \in DOMAIN new : s \in DOMAIN dom
  BY DEF Same
<1>6. QED
  BY <1>2, <1>4, <1>5

\* The paths that EraseDiscarded looks at are those of the elements.
LEMMA Elements ==
    ASSUME NEW p \in Route, NEW q \in Route, Len(q) = Len(p) + 1, Below(p, q)
    PROVE  q # p /\ Top(q) \in Step /\ Pop(q) = p
<1> DEFINE S == Step
<1>1. p \in Seq(S) /\ q \in Seq(S)
  BY DEF Route
<1> HIDE DEF S
<1>2. Len(p) \in Nat /\ q # <<>> /\ q # p
  BY <1>1
<1>3. Pop(q) = p
  BY <1>2 DEF Below, Pop
<1>4. QED
  BY <1>2, <1>3, Parent

\* The loop over a container that shows its tree takes nothing of it.
LEMMA EraseFacts ==
    ASSUME NEW dom, DOMAIN dom \subseteq Route, Loose(dom), NEW p \in Route, NEW t \in Tree,
           Shows(dom, p, t, {})
    PROVE  LET new == EraseDiscarded(dom, p)
           IN  /\ DOMAIN new \subseteq Route /\ Loose(new) /\ Shows(new, p, t, {})
               /\ \A r \in Route : ~Under(p, r) => Same(dom, new, r)
<1> DEFINE found == {q \in DOMAIN dom : Len(q) = Len(p) + 1 /\ Below(p, q) /\ dom[q].type = "discarded"}
           first == CHOOSE q \in found : \A r \in found : Top(q)[1] <= Top(r)[1]
           new == EraseDiscarded(dom, p)
<1>1. new = CASE found = {} -> dom
              [] found # {} /\ dom[p].type = "array" -> WithoutLast(dom, p)
              [] OTHER -> Without(dom, first)
  BY DEF EraseDiscarded
<1>2. ASSUME NEW q \in found
      PROVE  /\ q \in DOMAIN dom /\ q \in Route /\ q # p /\ Under(p, q)
             /\ Top(q) \in Step /\ Pop(q) = p
  <2>1. q \in DOMAIN dom /\ q \in Route /\ Len(q) = Len(p) + 1 /\ Below(p, q)
    OBVIOUS
  <2> HIDE DEF found
  <2>2. QED
    BY <2>1, Elements DEF Under
<1>3. \A q \in found : dom[q] = DiscardedValue
  <2> SUFFICES ASSUME NEW q \in found PROVE dom[q] = DiscardedValue
    OBVIOUS
  <2>1. PICK s \in Route : s # <<>> /\ q = Join(p, s)
    BY <1>2, BelowJoins DEF Under
  <2>2. Join(p, s) \in DOMAIN dom
    BY <2>1
  <2>3. (s \in DOMAIN t /\ dom[q] = t[s]) \/ dom[q] = DiscardedValue
    BY <2>1, <2>2 DEF Shows, Agree
  <2>4. s \in DOMAIN t => t[s] \in Node /\ t[s].type # "discarded"
    <3>1. s \in DOMAIN t => t[s] \in Node
      BY TreeFacts
    <3>2. \A v \in Node : v.type # "discarded"
      BY DEF Node, Scalar1, Container
    <3>3. QED
      BY <3>1, <3>2
  <2>5. dom[q].type = "discarded"
    OBVIOUS
  <2>6. QED
    BY <2>3, <2>4, <2>5
<1> HIDE DEF found
<1>4. CASE found = {}
  <2>1. new = dom
    BY <1>1, <1>4
  <2>2. QED
    BY <2>1 DEF Same
<1>5. CASE found # {} /\ dom[p].type = "array"
  <2>1. PICK q \in found : TRUE
    BY <1>5
  <2>2. dom[Pop(q)].type = "object" /\ Pop(q) = p
    BY <1>2, <1>3 DEF Loose
  <2>3. QED
    BY <1>5, <2>2
<1>6. CASE found # {} /\ dom[p].type # "array"
  <2>1. new = Without(dom, first)
    BY <1>1, <1>6
  <2>2. first \in found
    <3> DEFINE N == {Top(q)[1] : q \in found}
    <3>1. N \subseteq Nat
      <4>1. \A q \in found : Top(q)[1] \in Nat
        BY <1>2 DEF Step
      <4>2. QED
        BY <4>1
    <3>2. N # {}
      BY <1>6
    <3>3. PICK i \in N : \A j \in N : i <= j
      <4> HIDE DEF N
      <4>1. QED
        BY <3>1, <3>2, HasSmallest
    <3>4. \E q \in found : \A r \in found : Top(q)[1] <= Top(r)[1]
      BY <3>3
    <3>5. QED
      BY <3>4
  <2> HIDE DEF first
  <2>3. /\ first \in DOMAIN dom /\ first \in Route /\ first # p /\ Under(p, first)
        /\ dom[first] = DiscardedValue /\ \A s \in DOMAIN dom : ~Below(first, s)
    BY <1>2, <1>3, <2>2 DEF Loose
  <2>4. /\ DOMAIN new \subseteq Route /\ first \notin DOMAIN new
        /\ \A r \in Route : r # first => Same(dom, new, r)
    BY <2>1, <2>3 DEF Without, Same
  <2> HIDE DEF new
  <2>5. Shows(new, p, t, {})
    BY <2>3, <2>4, ShowsErased
  <2>6. Loose(new)
    BY <2>3, <2>4, LooseErased
  <2>7. \A r \in Route : ~Under(p, r) => Same(dom, new, r)
    BY <2>3, <2>4
  <2>8. QED
    BY <2>4, <2>5, <2>6, <2>7 DEF new
<1>7. QED
  BY <1>4, <1>5, <1>6

\* The container that ended, in an object, is discarded.
LEMMA DroppedFromObject ==
    ASSUME NEW dom, DOMAIN dom \subseteq Route, Loose(dom), NEW p \in Route, NEW k \in Step, NEW t \in Tree,
           <<>> \in DOMAIN t, t[<<>>].type = "object", Shows(dom, p, t, {k})
    PROVE  LET new == Assign(dom, Append(p, k), DiscardedValue)
           IN  /\ DOMAIN new \subseteq Route /\ Loose(new) /\ Shows(new, p, t, {})
               /\ \A r \in Route : ~Under(p, r) => Same(dom, new, r)
<1> DEFINE c == Append(p, k)
           new == Assign(dom, c, DiscardedValue)
<1>1. c \in Route /\ Under(p, c) /\ ~Under(c, p)
  BY Child, ParentApart, UnderParent DEF Under
<1>2. t[<<>>] \in Node /\ Grown(t[<<>>]) = t[<<>>]
  BY TreeFacts DEF Grown
<1>3. p \in DOMAIN dom /\ dom[p] = t[<<>>]
  BY <1>2 DEF Shows
<1> HIDE DEF c
<1>4. /\ DOMAIN new \subseteq Route /\ c \in DOMAIN new /\ new[c] = DiscardedValue
      /\ \A r \in DOMAIN new : ~Below(c, r)
      /\ \A r \in Route : ~Under(c, r) => Same(dom, new, r)
  BY <1>1, AssignFacts
<1> HIDE DEF new
<1>5. p \in DOMAIN new /\ new[p] = t[<<>>]
  BY <1>1, <1>3, <1>4 DEF Same
<1>6. Shows(new, p, t, {})
  <2>1. \A r \in DOMAIN new : Under(c, r) => new[r] = DiscardedValue
    BY <1>4 DEF Under
  <2>2. QED
    BY <1>4, <1>5, <2>1, ShowsDropped DEF c
<1>7. Loose(new)
  <2>1. dom[p] # DiscardedValue /\ new[p] # DiscardedValue
    BY <1>2, <1>3, <1>5, NodeFacts
  <2>2. QED
    BY <1>3, <1>4, <1>5, <2>1, LooseKept DEF c
<1>8. \A r \in Route : ~Under(p, r) => Same(dom, new, r)
  BY <1>1, <1>4, UnderUnder
<1>9. QED
  BY <1>4, <1>6, <1>7, <1>8 DEF new, c

\* The container that ended goes from the array.
LEMMA DroppedFromArray ==
    ASSUME NEW dom, DOMAIN dom \subseteq Route, Loose(dom), NEW p \in Route, NEW t \in Tree,
           <<>> \in DOMAIN t, t[<<>>].type = "array", NEW k, k = <<t[<<>>].text[1] + 1>>,
           Shows(dom, p, t, {k})
    PROVE  LET gone == Assign(dom, Append(p, k), DiscardedValue)
               new == WithoutLast(gone, p)
           IN  /\ p \in DOMAIN gone /\ gone[p].type = "array"
               /\ DOMAIN new \subseteq Route /\ Loose(new) /\ Shows(new, p, t, {})
               /\ \A r \in Route : ~Under(p, r) => Same(dom, new, r)
<1> DEFINE c == Append(p, k)
           gone == Assign(dom, c, DiscardedValue)
           new == WithoutLast(gone, p)
           size == t[<<>>].text[1]
           left == Without(gone, c)
<1>1. size \in Nat /\ t[<<>>] = Container("array", size) /\ t[<<>>] \in Node
  BY TreeFacts, NodeFacts
<1>2. k = <<size + 1>> /\ k \in Step
  BY <1>1 DEF Step
<1>3. c \in Route /\ Under(p, c) /\ ~Under(c, p)
  BY <1>2, Child, ParentApart, UnderParent DEF Under
<1>4. p \in DOMAIN dom /\ dom[p] = Container("array", size + 1)
  BY <1>1 DEF Shows, Grown
<1> HIDE DEF c, size
<1>5. /\ DOMAIN gone \subseteq Route
      /\ \A r \in Route : ~Under(c, r) => Same(dom, gone, r)
  BY <1>3, AssignFacts
<1> HIDE DEF gone
<1>6. p \in DOMAIN gone /\ gone[p] = Container("array", size + 1)
  BY <1>3, <1>4, <1>5 DEF Same
<1>7. gone[p].type = "array" /\ gone[p].text[1] = size + 1 /\ (size + 1) - 1 = size
  BY <1>1, <1>6, NodeFacts
<1>8. new = [left EXCEPT ![p] = Container("array", size)]
  BY <1>2, <1>7 DEF WithoutLast, c
<1>9. /\ DOMAIN left \subseteq Route
      /\ \A r \in DOMAIN left : ~Under(c, r)
      /\ \A r \in Route : ~Under(c, r) => Same(gone, left, r)
  BY <1>3, <1>5, WithoutFacts
<1> HIDE DEF left
<1>10. p \in DOMAIN left
  BY <1>3, <1>6, <1>9 DEF Same
<1>11. DOMAIN new = DOMAIN left /\ new[p] = t[<<>>] /\ \A r \in DOMAIN left : r # p => new[r] = left[r]
  BY <1>1, <1>8, <1>10
<1> HIDE DEF new
<1>12. \A r \in Route : r # p /\ ~Under(c, r) => Same(dom, new, r)
  BY <1>5, <1>9, <1>11 DEF Same
<1>13. \A r \in DOMAIN new : ~Under(c, r)
  BY <1>9, <1>11
<1>14. Shows(new, p, t, {})
  BY <1>2, <1>10, <1>11, <1>12, <1>13, ShowsDropped DEF c
<1>15. Loose(new)
  <2>1. dom[p] # DiscardedValue /\ new[p] # DiscardedValue /\ new[p].type = dom[p].type
    BY <1>1, <1>4, <1>11, NodeFacts
  <2>2. c \notin DOMAIN new /\ \A r \in DOMAIN new : ~Below(c, r)
    BY <1>13 DEF Under
  <2>3. QED
    BY <1>2, <1>4, <1>9, <1>10, <1>11, <1>12, <2>1, <2>2, LooseKept DEF c
<1>16. \A r \in Route : ~Under(p, r) => Same(dom, new, r)
  <2> SUFFICES ASSUME NEW r \in Route, ~Under(p, r) PROVE Same(dom, new, r)
    OBVIOUS
  <2>1. r # p /\ ~Under(c, r)
    BY <1>3, UnderUnder DEF Under
  <2>2. QED
    BY <1>12, <2>1
<1>17. QED
  BY <1>6, <1>7, <1>9, <1>11, <1>14, <1>15, <1>16 DEF new, gone, c

\* The stack without its top.
LEMMA PopFacts ==
    ASSUME NEW S, NEW s \in Seq(S), Len(s) # 0
    PROVE  /\ Pop(s) \in Seq(S) /\ Len(Pop(s)) = Len(s) - 1
           /\ \A i \in 1 .. Len(s) - 1 : Pop(s)[i] = s[i]
<1>1. Len(s) \in Nat \ {0} /\ DOMAIN s = 1 .. Len(s)
  OBVIOUS
<1>2. QED
  BY <1>1 DEF Pop

\* Where the next element goes is a step of a path.
LEMMA InnerIsStep ==
    ASSUME NEW f \in FrameType, NEW o, FrameFits(o, f), o # "array" => f.keyKept
    PROVE  Inner(o, f) \in Step
<1>1. CASE o = "array"
  <2>1. f.tree \in Tree /\ <<>> \in DOMAIN f.tree /\ f.tree[<<>>].type = "array"
    BY <1>1 DEF FrameFits, FrameType, Kind
  <2>2. f.tree[<<>>].text[1] \in Nat
    BY <2>1, TreeFacts, NodeFacts
  <2>3. QED
    BY <1>1, <2>2 DEF Inner, Step
<1>2. CASE o # "array"
  BY <1>2, NamesAreSteps DEF Inner, FrameFits
<1>3. QED
  BY <1>1, <1>2

\* What the container around the one that ends comes to.
LEMMA EndFacts ==
    ASSUME FilterTypes, FilterNested, Depth > 1, NEW kept \in BOOLEAN
    PROVE  LET n == Depth
               m == n - 1
               w == WantEnd(kept)
               p == refs[m]
               t == wanted[m].tree
               k == InnerOf(m)
           IN  /\ w \in Seq(FrameType) /\ Len(w) = m /\ \A i \in 1 .. m - 1 : w[i] = wanted[i]
               /\ w[m].kept = wanted[m].kept /\ FrameFits(open[m], w[m])
               /\ t \in Tree /\ <<>> \in DOMAIN t /\ t[<<>>].type = Kind(open[m])
               /\ Placed(m) => p \in Route
               /\ Placed(n) => Placed(m)
               /\ Placed(m) /\ (Placed(n) => kept) => Shows(filtered, p, w[m].tree, {})
               /\ Placed(n) /\ ~kept =>
                      /\ w[m].tree = t /\ k \in Step /\ refs[n] = Append(p, k)
                      /\ Shows(filtered, p, t, {k})
                      /\ refs[n] \in DOMAIN filtered /\ filtered[refs[n]] # DiscardedValue
<1> DEFINE n == Depth
           m == n - 1
           f == wanted[n]
           g == wanted[m]
           u == f.tree
           t == g.tree
           p == refs[m]
           k == InnerOf(m)
           frames == Pop(wanted)
           yes == f.kept /\ kept
           w == Took(frames, u, yes)
           taken == yes /\ (open[m] # "array" => g.keyKept)
<1>1. n \in Nat /\ m \in Nat \ {0} /\ n = m + 1 /\ m \in 1 .. Depth /\ n \in 1 .. Depth /\ m < Depth
  <2>1. Depth \in Nat
    BY DEF FilterTypes, Depth
  <2>2. QED
    BY <2>1
<1>2. /\ Len(open) = n /\ Len(refs) = n /\ Len(wanted) = n /\ wanted \in Seq(FrameType)
      /\ refs \in Seq(Route \cup {NullPointer}) /\ open # <<>>
  BY <1>1 DEF FilterNested, Lengths, FilterTypes, Depth
<1>3. /\ f \in FrameType /\ g \in FrameType /\ FrameFits(open[m], g) /\ FrameFits(open[n], f)
      /\ refs[m] \in Route \cup {NullPointer}
  BY <1>1, <1>2, ElementOfSeq DEF FilterNested, Frames
<1>4. /\ t \in Tree /\ <<>> \in DOMAIN t /\ t[<<>>].type = Kind(open[m])
      /\ u \in Tree /\ <<>> \in DOMAIN u /\ yes \in BOOLEAN
  BY <1>3 DEF FrameType, FrameFits
<1>5. WantEnd(kept) = w
  BY <1>2 DEF WantEnd, Top
<1>6. frames \in Seq(FrameType) /\ Len(frames) = m /\ \A i \in 1 .. m : frames[i] = wanted[i]
  <2> DEFINE S == FrameType
  <2>1. wanted \in Seq(S) /\ Len(wanted) # 0 /\ Len(wanted) = n
    BY <1>1, <1>2
  <2> HIDE DEF S, n
  <2>2. QED
    BY <1>1, <2>1, PopFacts DEF S
<1> HIDE DEF frames, yes, w
<1>7. /\ w \in Seq(FrameType) /\ Len(w) = m /\ \A i \in 1 .. m - 1 : w[i] = wanted[i]
      /\ w[m].kept = g.kept /\ FrameFits(open[m], w[m])
      /\ ~taken => w[m].tree = t
      /\ taken /\ (\A s \in DOMAIN t : s # <<>> => s[1] # k) => Closes(t, k, u, w[m].tree)
  <2> DEFINE o == open[m]
             mm == Len(frames)
             gg == frames[mm]
             l == Inner(o, gg)
  <2>1. Len(frames) # 0 /\ FrameFits(o, frames[Len(frames)]) /\ frames[Len(frames)] = g
    BY <1>1, <1>3, <1>6
  <2>2. /\ w \in Seq(FrameType) /\ Len(w) = mm
        /\ \A i \in 1 .. mm - 1 : w[i] = frames[i]
        /\ w[mm].kept = gg.kept /\ FrameFits(o, w[mm])
        /\ ~(yes /\ (o # "array" => gg.keyKept)) => w[mm].tree = gg.tree
        /\ yes /\ (o # "array" => gg.keyKept) /\ (\A s \in DOMAIN gg.tree : s # <<>> => s[1] # l) =>
               Closes(gg.tree, l, u, w[mm].tree)
    <3> HIDE DEF o, u
    <3>1. QED
      BY <1>4, <1>6, <2>1, TookFacts DEF w
  <2>3. mm = m /\ gg = g /\ l = k
    BY <1>6, <2>1 DEF InnerOf
  <2>4. \A i \in 1 .. m - 1 : frames[i] = wanted[i]
    BY <1>1, <1>6
  <2> HIDE DEF mm, gg, l, k, g, m
  <2>5. QED
    BY <2>2, <2>3, <2>4
<1>8. Placed(m) => p \in Route
  BY <1>3 DEF Placed
<1>9. /\ Placed(m) => Shows(filtered, p, t, Hole(m))
      /\ Hole(m) = IF Placed(n) THEN {k} ELSE {}
  BY <1>1 DEF FilterNested, Levels, Hole
<1>10. refs[n] = IF f.kept /\ Placeable(m) THEN Append(p, k) ELSE NullPointer
  <2>1. m \in 1 .. Depth - 1
    BY <1>1
  <2>2. QED
    BY <1>1, <2>1 DEF FilterNested, Chain
<1>11. ASSUME Placed(n)
       PROVE  /\ f.kept /\ Placeable(m) /\ Placed(m) /\ refs[n] = Append(p, k) /\ k \in Step
              /\ Shows(filtered, p, t, {k}) /\ Shows(filtered, refs[n], u, {})
              /\ refs[n] \in DOMAIN filtered /\ filtered[refs[n]] # DiscardedValue
  <2>1. f.kept /\ Placeable(m) /\ refs[n] = Append(p, k)
    BY <1>10, <1>11 DEF Placed
  <2>2. Placed(m) /\ k \in Step
    <3>1. m \in 1 .. n - 1
      BY <1>1
    <3>2. QED
      BY <1>1, <1>11, <3>1 DEF FilterNested, Nest
  <2>3. Shows(filtered, p, t, {k})
    BY <1>9, <1>11, <2>2
  <2>4. Shows(filtered, refs[n], u, {}) /\ refs[n] \in DOMAIN filtered /\ filtered[refs[n]] \in Node
    BY <1>2, <1>11, TopFacts
  <2>5. QED
    BY <2>1, <2>2, <2>3, <2>4, NodeFacts
<1>12. ASSUME Placed(n), kept PROVE Shows(filtered, p, w[m].tree, {})
  <2>1. taken
    BY <1>11, <1>12 DEF yes, Placeable
  <2>2. \A s \in DOMAIN t : s # <<>> => s[1] # k
    <3>1. DOMAIN t \subseteq Route
      BY <1>4, TreeFacts
    <3>2. QED
      BY <1>11, <1>12, <3>1 DEF Shows
  <2>3. Closes(t, k, u, w[m].tree)
    BY <1>7, <2>1, <2>2
  <2>4. p \in Route /\ Shows(filtered, Append(p, k), u, {})
    BY <1>8, <1>11, <1>12
  <2> HIDE DEF k, t, u, p, m
  <2>5. QED
    BY <1>4, <1>11, <1>12, <2>3, <2>4, ShowsClosed DEF Closes
<1>13. ASSUME Placed(n), ~kept PROVE w[m].tree = t
  BY <1>7, <1>13 DEF yes
<1>14. ASSUME Placed(m), ~Placed(n) PROVE Shows(filtered, p, w[m].tree, {})
  <2>1. ~(f.kept /\ Placeable(m))
    <3>1. SUFFICES ASSUME f.kept /\ Placeable(m) PROVE FALSE
      OBVIOUS
    <3>2. k \in Step
      BY <1>3, <3>1, InnerIsStep DEF InnerOf, Placeable
    <3>3. refs[n] = NullPointer /\ refs[n] = Append(p, k)
      BY <1>10, <1>14, <3>1 DEF Placed
    <3>4. Append(p, k) \in Route
      BY <1>8, <1>14, <3>2, Child
    <3>5. QED
      BY <3>3, <3>4, NullIsNoRoute
  <2>2. ~taken
    BY <1>14, <2>1 DEF yes, Placeable
  <2>3. QED
    BY <1>7, <1>9, <1>14, <2>2
<1>15. QED
  BY <1>4, <1>5, <1>7, <1>8, <1>11, <1>12, <1>13, <1>14

\* A container ends in another one that shows, after the step, what it comes to.
LEMMA CloseStep ==
    ASSUME FilterTypes, FilterNested, Depth > 1, NEW kept \in BOOLEAN, Top(open) # "member",
           events' = events + 1, open' = Pop(open), refs' = Pop(refs), keep_stack' = Pop(keep_stack),
           wanted' = WantEnd(kept), key_keep_stack' = key_keep_stack,
           DOMAIN filtered' \subseteq Route, Loose(filtered'),
           ~Placed(Depth - 1) => filtered' = filtered,
           Placed(Depth - 1) =>
               /\ Shows(filtered', refs[Depth - 1], WantEnd(kept)[Depth - 1].tree, {})
               /\ \A r \in Route : ~Under(refs[Depth - 1], r) => Same(filtered, filtered', r)
    PROVE  FilterTypes' /\ FilterNested' /\ open' # <<>>
<1> DEFINE n == Depth
           m == n - 1
           S == {"array", "object", "member"}
           U == Route \cup {NullPointer}
<1>1. n \in Nat /\ m \in Nat \ {0} /\ n = m + 1 /\ m \in 1 .. Depth /\ m < Depth
  <2>1. Depth \in Nat
    BY DEF FilterTypes, Depth
  <2>2. QED
    BY <2>1
<1>2. /\ Len(open) = n /\ Len(refs) = n /\ Len(wanted) = n /\ Len(keep_stack) = n + 1
      /\ open \in Seq(S) /\ refs \in Seq(U) /\ keep_stack \in Seq(BOOLEAN) /\ events \in Nat
      /\ key_keep_stack \in Seq(BOOLEAN)
  BY DEF FilterNested, Lengths, FilterTypes, Depth
<1>3. /\ wanted' \in Seq(FrameType) /\ Len(wanted') = m /\ \A i \in 1 .. m - 1 : wanted'[i] = wanted[i]
      /\ wanted'[m].kept = wanted[m].kept /\ FrameFits(open[m], wanted'[m])
  BY EndFacts
<1> HIDE DEF S, U, n
<1>4. open' \in Seq(S) /\ Len(open') = m /\ \A i \in 1 .. m : open'[i] = open[i]
  <2>1. Len(open) # 0
    BY <1>1, <1>2
  <2>2. QED
    BY <1>1, <1>2, <2>1, PopFacts
<1>5. refs' \in Seq(U) /\ Len(refs') = m /\ \A i \in 1 .. m : refs'[i] = refs[i]
  <2>1. Len(refs) # 0
    BY <1>1, <1>2
  <2>2. QED
    BY <1>1, <1>2, <2>1, PopFacts
<1>6. /\ keep_stack' \in Seq(BOOLEAN) /\ Len(keep_stack') = m + 1
      /\ \A i \in 1 .. m + 1 : keep_stack'[i] = keep_stack[i]
  <2>1. Len(keep_stack) # 0 /\ Len(keep_stack) - 1 = m + 1
    BY <1>1, <1>2
  <2>2. QED
    BY <1>2, <2>1, PopFacts
<1>7. FilterTypes'
  BY <1>2, <1>3, <1>4, <1>5, <1>6 DEF FilterTypes, S, U
<1>8. Member'
  <2>1. open[m] # "member"
    BY <1>1 DEF FilterNested, Frames
  <2>2. Top(open') # "member"
    BY <1>1, <1>4, <2>1 DEF Top
  <2>3. QED
    BY <2>2 DEF Member
<1>9. FilterNested'
  <2>1. /\ FrameFits(open'[m], wanted'[m])
        /\ \A i \in 1 .. m - 1 : open'[i] = open[i] /\ wanted'[i] = wanted[i]
    BY <1>1, <1>3, <1>4
  <2>2. /\ ~Placed(m) => filtered' = filtered
        /\ Placed(m) => /\ Shows(filtered', refs[m], wanted'[m].tree, {})
                        /\ \A r \in Route : ~Under(refs[m], r) => Same(filtered, filtered', r)
    BY DEF n
  <2> HIDE DEF m
  <2>3. QED
    BY <1>1, <1>3, <1>4, <1>5, <1>6, <1>8, <2>1, <2>2, Settled
<1>10. QED
  BY <1>1, <1>4, <1>7, <1>9

\* What the end makes of the container that is placed.
LEMMA EndedFacts ==
    ASSUME FilterTypes, FilterNested, open # <<>>, NEW kept \in BOOLEAN
    PROVE  /\ ~Placed(Depth) \/ kept => Ended(kept) = filtered
           /\ Placed(Depth) /\ ~kept => Ended(kept) = Assign(filtered, refs[Depth], DiscardedValue)
<1>1. Top(refs) = refs[Depth]
  BY TopFacts
<1>2. QED
  BY <1>1 DEF Ended, Placed

\* end_object in a container.
LEMMA EndObjectStep ==
    ASSUME FilterTypes, FilterNested, Depth > 1, NEW kept \in BOOLEAN, FilterEndObject(kept)
    PROVE  FilterTypes' /\ FilterNested' /\ open' # <<>>
<1> DEFINE n == Depth
           m == n - 1
           p == refs[m]
           t == wanted[m].tree
           k == InnerOf(m)
           tree == WantEnd(kept)[m].tree
           ended == Ended(kept)
<1>1. /\ open # <<>> /\ Top(open) = "object" /\ events' = events + 1
      /\ filtered' = IF Pop(refs) # <<>> /\ Top(Pop(refs)) # NullPointer
                     THEN EraseDiscarded(ended, Top(Pop(refs))) ELSE ended
      /\ open' = Pop(open) /\ refs' = Pop(refs) /\ keep_stack' = Pop(keep_stack)
      /\ wanted' = WantEnd(kept) /\ key_keep_stack' = key_keep_stack
  BY DEF FilterEndObject, Call
<1>2. /\ WantEnd(kept) \in Seq(FrameType) /\ Len(WantEnd(kept)) = m
      /\ t \in Tree /\ <<>> \in DOMAIN t /\ t[<<>>].type = Kind(open[m])
      /\ Placed(m) => p \in Route
      /\ Placed(n) => Placed(m)
      /\ Placed(m) /\ (Placed(n) => kept) => Shows(filtered, p, tree, {})
      /\ Placed(n) /\ ~kept =>
             tree = t /\ k \in Step /\ refs[n] = Append(p, k) /\ Shows(filtered, p, t, {k})
  BY EndFacts
<1>3. n \in Nat /\ n > 1 /\ m \in Nat \ {0} /\ m \in 1 .. m /\ Len(refs) = n /\ refs \in Seq(Route \cup {NullPointer})
      /\ DOMAIN filtered \subseteq Route /\ Loose(filtered)
  <2>1. Depth \in Nat
    BY DEF FilterTypes, Depth
  <2>2. QED
    BY <2>1 DEF FilterNested, FilterTypes, Lengths
<1>4. Pop(refs) # <<>> /\ Top(Pop(refs)) = p
  <2> DEFINE S == Route \cup {NullPointer}
  <2> HIDE DEF S
  <2>1. refs \in Seq(S) /\ Len(refs) # 0
    BY <1>3 DEF S
  <2>2. /\ Pop(refs) \in Seq(S) /\ Len(Pop(refs)) = Len(refs) - 1
        /\ \A i \in 1 .. Len(refs) - 1 : Pop(refs)[i] = refs[i]
    BY <2>1, PopFacts
  <2> HIDE DEF n
  <2>3. Len(Pop(refs)) = m /\ Pop(refs)[m] = refs[m] /\ Pop(refs) # <<>>
    BY <1>3, <2>2
  <2>4. QED
    BY <2>3 DEF Top
<1>5. tree \in Tree
  <2>1. WantEnd(kept)[m] \in FrameType
    BY <1>2, <1>3, ElementOfSeq
  <2>2. QED
    BY <2>1 DEF FrameType
<1>6. /\ ~Placed(n) \/ kept => ended = filtered
      /\ Placed(n) /\ ~kept => ended = Assign(filtered, Append(p, k), DiscardedValue)
  BY <1>1, <1>2, EndedFacts
<1>7. filtered' = IF Placed(m) THEN EraseDiscarded(ended, p) ELSE ended
  BY <1>1, <1>4 DEF Placed
<1> HIDE DEF n, tree, t, k, ended
<1>8. ASSUME ~Placed(m) PROVE filtered' = filtered
  BY <1>2, <1>6, <1>7, <1>8
<1>9. ASSUME Placed(m)
      PROVE  /\ DOMAIN filtered' \subseteq Route /\ Loose(filtered') /\ Shows(filtered', p, tree, {})
             /\ \A r \in Route : ~Under(p, r) => Same(filtered, filtered', r)
  <2>1. p \in Route /\ filtered' = EraseDiscarded(ended, p)
    BY <1>2, <1>7, <1>9
  <2>2. CASE Placed(n) => kept
    <3>1. ended = filtered /\ Shows(filtered, p, tree, {})
      BY <1>2, <1>6, <1>9, <2>2
    <3> HIDE DEF p
    <3>2. QED
      BY <1>3, <1>5, <2>1, <3>1, EraseFacts
  <2>3. CASE Placed(n) /\ ~kept /\ t[<<>>].type = "object"
    <3>1. ended = Assign(filtered, Append(p, k), DiscardedValue) /\ tree = t /\ k \in Step
          /\ Shows(filtered, p, t, {k})
      BY <1>2, <1>6, <2>3
    <3> HIDE DEF p
    <3>2. /\ DOMAIN ended \subseteq Route /\ Loose(ended) /\ Shows(ended, p, t, {})
          /\ \A r \in Route : ~Under(p, r) => Same(filtered, ended, r)
      BY <1>2, <1>3, <2>1, <2>3, <3>1, DroppedFromObject
    <3>3. /\ DOMAIN filtered' \subseteq Route /\ Loose(filtered') /\ Shows(filtered', p, t, {})
          /\ \A r \in Route : ~Under(p, r) => Same(ended, filtered', r)
      BY <1>2, <2>1, <3>2, EraseFacts
    <3>4. QED
      BY <3>1, <3>2, <3>3 DEF Same
  <2>4. CASE Placed(n) /\ ~kept /\ t[<<>>].type = "array"
    <3> DEFINE l == <<t[<<>>].text[1] + 1>>
               c == Append(p, l)
    <3>1. ended = Assign(filtered, Append(p, k), DiscardedValue) /\ tree = t /\ k \in Step
          /\ Shows(filtered, p, t, {k})
      BY <1>2, <1>6, <2>4
    <3>2. k = l
      <4>1. open[m] = "array"
        BY <1>2, <2>4 DEF Kind
      <4>2. QED
        BY <4>1 DEF k, t, InnerOf, Inner
    <3>3. ended = Assign(filtered, c, DiscardedValue) /\ Shows(filtered, p, t, {l})
      BY <3>1, <3>2
    <3>4. c \in DOMAIN ended /\ ended[c] = DiscardedValue
      BY <3>3 DEF Assign
    <3>5. Len(c) = Len(p) + 1 /\ Below(p, c)
      <4> HIDE DEF l
      <4>1. c = Join(p, <<l>>) /\ <<l>> \in Route /\ c \in Route /\ <<l>> # <<>>
        BY <2>1, <3>1, <3>2, Child, StepJoin
      <4>2. Below(p, c)
        <5> HIDE DEF c
        <5>1. QED
          BY <2>1, <4>1, BelowJoins
      <4>3. Len(c) = Len(p) + 1
        <5> DEFINE S == Step
        <5>1. p \in Seq(S)
          BY <2>1 DEF Route
        <5> HIDE DEF S
        <5>2. QED
          BY <5>1
      <4>4. QED
        BY <4>2, <4>3
    <3> HIDE DEF p, c, l
    <3>6. /\ p \in DOMAIN ended /\ ended[p].type = "array"
          /\ DOMAIN WithoutLast(ended, p) \subseteq Route /\ Loose(WithoutLast(ended, p))
          /\ Shows(WithoutLast(ended, p), p, t, {})
          /\ \A r \in Route : ~Under(p, r) => Same(filtered, WithoutLast(ended, p), r)
      BY <1>2, <1>3, <2>1, <2>4, <3>3, DroppedFromArray DEF c, l
    <3>7. EraseDiscarded(ended, p) = WithoutLast(ended, p)
      <4> DEFINE found == {q \in DOMAIN ended : Len(q) = Len(p) + 1 /\ Below(p, q) /\ ended[q].type = "discarded"}
      <4>1. c \in found
        BY <3>4, <3>5 DEF DiscardedValue
      <4>2. EraseDiscarded(ended, p) =
                CASE found = {} -> ended
                  [] found # {} /\ ended[p].type = "array" -> WithoutLast(ended, p)
                  [] OTHER -> Without(ended, CHOOSE q \in found : \A r \in found : Top(q)[1] <= Top(r)[1])
        BY DEF EraseDiscarded
      <4> HIDE DEF found
      <4>3. QED
        BY <3>6, <4>1, <4>2
    <3>8. QED
      BY <2>1, <3>1, <3>6, <3>7
  <2>5. t[<<>>].type \in {"array", "object"}
    BY <1>2 DEF Kind
  <2>6. QED
    BY <2>2, <2>3, <2>4, <2>5
<1>10. DOMAIN filtered' \subseteq Route /\ Loose(filtered')
  BY <1>3, <1>8, <1>9
<1>11. QED
  BY <1>1, <1>8, <1>9, <1>10, CloseStep DEF n, tree

\* end_array in a container.
LEMMA EndArrayStep ==
    ASSUME FilterTypes, FilterNested, Depth > 1, NEW kept \in BOOLEAN, FilterEndArray(kept)
    PROVE  FilterTypes' /\ FilterNested' /\ open' # <<>>
<1> DEFINE n == Depth
           m == n - 1
           p == refs[m]
           t == wanted[m].tree
           k == InnerOf(m)
           tree == WantEnd(kept)[m].tree
           ended == Ended(kept)
<1>1. /\ open # <<>> /\ Top(open) = "array" /\ events' = events + 1
      /\ filtered' = IF ended # filtered /\ Pop(refs) # <<>> /\ filtered[Top(Pop(refs))].type = "array"
                     THEN WithoutLast(ended, Top(Pop(refs))) ELSE ended
      /\ open' = Pop(open) /\ refs' = Pop(refs) /\ keep_stack' = Pop(keep_stack)
      /\ wanted' = WantEnd(kept) /\ key_keep_stack' = key_keep_stack
  BY DEF FilterEndArray, Call
<1>2. /\ WantEnd(kept) \in Seq(FrameType) /\ Len(WantEnd(kept)) = m
      /\ t \in Tree /\ <<>> \in DOMAIN t /\ t[<<>>].type = Kind(open[m])
      /\ Placed(m) => p \in Route
      /\ Placed(n) => Placed(m)
      /\ Placed(m) /\ (Placed(n) => kept) => Shows(filtered, p, tree, {})
      /\ Placed(n) /\ ~kept =>
             /\ tree = t /\ k \in Step /\ refs[n] = Append(p, k) /\ Shows(filtered, p, t, {k})
             /\ refs[n] \in DOMAIN filtered /\ filtered[refs[n]] # DiscardedValue
  BY EndFacts
<1>3. n \in Nat /\ n > 1 /\ m \in Nat \ {0} /\ Len(refs) = n /\ refs \in Seq(Route \cup {NullPointer})
      /\ DOMAIN filtered \subseteq Route /\ Loose(filtered)
  <2>1. Depth \in Nat
    BY DEF FilterTypes, Depth
  <2>2. QED
    BY <2>1 DEF FilterNested, FilterTypes, Lengths
<1>4. Pop(refs) # <<>> /\ Top(Pop(refs)) = p
  <2> DEFINE S == Route \cup {NullPointer}
  <2> HIDE DEF S
  <2>1. refs \in Seq(S) /\ Len(refs) # 0
    BY <1>3 DEF S
  <2>2. /\ Pop(refs) \in Seq(S) /\ Len(Pop(refs)) = Len(refs) - 1
        /\ \A i \in 1 .. Len(refs) - 1 : Pop(refs)[i] = refs[i]
    BY <2>1, PopFacts
  <2> HIDE DEF n
  <2>3. Len(Pop(refs)) = m /\ Pop(refs)[m] = refs[m] /\ Pop(refs) # <<>>
    BY <1>3, <2>2
  <2>4. QED
    BY <2>3 DEF Top
<1>5. /\ ~Placed(n) \/ kept => ended = filtered
      /\ Placed(n) /\ ~kept => ended = Assign(filtered, Append(p, k), DiscardedValue)
  BY <1>1, <1>2, EndedFacts
<1>6. filtered' = IF ended # filtered /\ filtered[p].type = "array" THEN WithoutLast(ended, p) ELSE ended
  BY <1>1, <1>4
<1> HIDE DEF n, tree, t, k, ended
<1>7. CASE Placed(n) => kept
  <2>1. filtered' = filtered
    BY <1>5, <1>6, <1>7
  <2>2. QED
    BY <1>1, <1>2, <1>3, <1>7, <2>1, CloseStep DEF n, tree, Same
<1>8. CASE Placed(n) /\ ~kept
  <2>1. /\ Placed(m) /\ p \in Route /\ k \in Step /\ Shows(filtered, p, t, {k}) /\ tree = t
        /\ ended = Assign(filtered, Append(p, k), DiscardedValue)
    BY <1>2, <1>5, <1>8
  <2>2. ended # filtered
    BY <1>2, <1>8, <2>1 DEF Assign
  <2>3. filtered[p].type = t[<<>>].type
    <3>1. t[<<>>] \in Node
      BY <1>2, TreeFacts
    <3>2. filtered[p] = Grown(t[<<>>])
      BY <2>1 DEF Shows
    <3>3. t[<<>>].type = "array" => Grown(t[<<>>]).type = "array"
      BY <3>1, NodeFacts DEF Grown
    <3>4. QED
      BY <3>2, <3>3 DEF Grown
  <2>4. /\ DOMAIN filtered' \subseteq Route /\ Loose(filtered') /\ Shows(filtered', p, tree, {})
        /\ \A r \in Route : ~Under(p, r) => Same(filtered, filtered', r)
    <3>1. CASE t[<<>>].type = "object"
      <4>1. filtered' = ended
        BY <1>6, <2>3, <3>1
      <4> HIDE DEF p
      <4>2. QED
        BY <1>2, <1>3, <2>1, <3>1, <4>1, DroppedFromObject
    <3>2. CASE t[<<>>].type = "array"
      <4> DEFINE l == <<t[<<>>].text[1] + 1>>
      <4>1. k = l
        <5>1. open[m] = "array"
          BY <1>2, <3>2 DEF Kind
        <5>2. QED
          BY <5>1 DEF k, t, InnerOf, Inner
      <4>2. /\ filtered' = WithoutLast(ended, p) /\ Shows(filtered, p, t, {l})
            /\ ended = Assign(filtered, Append(p, l), DiscardedValue)
        BY <1>6, <2>1, <2>2, <2>3, <3>2, <4>1
      <4> HIDE DEF p
      <4>3. QED
        BY <1>2, <1>3, <2>1, <3>2, <4>2, DroppedFromArray
    <3>3. t[<<>>].type \in {"array", "object"}
      BY <1>2 DEF Kind
    <3>4. QED
      BY <3>1, <3>2, <3>3
  <2>5. QED
    BY <1>1, <2>1, <2>4, CloseStep DEF n, tree
<1>9. QED
  BY <1>7, <1>8

-----------------------------------------------------------------------------
(* The first call and the last.                                            *)

\* A value that shows its tree at the root is that tree, when what was
\* discarded is left out.
LEMMA WholeFacts ==
    ASSUME NEW dom, DOMAIN dom \subseteq Route, Loose(dom), NEW u \in Tree, <<>> \in DOMAIN u,
           Shows(dom, <<>>, u, {})
    PROVE  /\ dom # << >> /\ dom[<<>>] # DiscardedValue /\ u # << >>
           /\ [p \in DOMAIN dom \ Members(dom) |-> dom[p]] = u
           /\ \A p \in Members(dom) : p # <<>> /\ dom[Pop(p)].type = "object"
<1>1. /\ DOMAIN u \subseteq Route /\ u = [s \in DOMAIN u |-> u[s]]
      /\ \A s \in DOMAIN u : u[s] \in Node /\ u[s] # DiscardedValue
  BY TreeFacts, NodeFacts
<1>2. <<>> \in DOMAIN dom /\ dom[<<>>] = u[<<>>]
  BY DEF Shows
<1>3. \A s \in Route : Join(<<>>, s) = s
  BY JoinRoute, EmptyRoute
<1>4. ASSUME NEW s \in Route
      PROVE  /\ s \in DOMAIN u => s \in DOMAIN dom /\ dom[s] = u[s]
             /\ s \in DOMAIN dom => s \in DOMAIN u \/ dom[s] = DiscardedValue
  <2>1. CASE s = <<>>
    BY <1>2, <2>1
  <2>2. CASE s # <<>>
    BY <1>3, <2>2 DEF Shows, Agree
  <2>3. QED
    BY <2>1, <2>2
<1>5. DOMAIN dom \ Members(dom) = DOMAIN u
  BY <1>1, <1>4 DEF Members
<1>6. [p \in DOMAIN dom \ Members(dom) |-> dom[p]] = u
  BY <1>1, <1>4, <1>5
<1>7. dom # << >> /\ u # << >>
  BY <1>2
<1>8. \A p \in Members(dom) : p # <<>> /\ dom[Pop(p)].type = "object"
  BY DEF Loose, Members
<1>9. QED
  BY <1>1, <1>2, <1>6, <1>7, <1>8

\* What parse makes of nothing, and of a value that is discarded.
LEMMA NullFacts ==
    /\ [p \in DOMAIN Single(Null) \ Members(Single(Null)) |-> Single(Null)[p]] = Single(Null)
    /\ Members(Single(Null)) = {}
<1>1. DOMAIN Single(Null) = {<<>>} /\ Single(Null)[<<>>] = Null /\ Null # DiscardedValue
  BY DEF Single, Null, DiscardedValue
<1>2. Members(Single(Null)) = {}
  BY <1>1 DEF Members
<1>3. DOMAIN Single(Null) \ Members(Single(Null)) = {<<>>}
  BY <1>1, <1>2
<1>4. QED
  BY <1>1, <1>2, <1>3 DEF Single

\* The text ended with a value that shows its tree.
LEMMA ExactTree ==
    ASSUME DOMAIN filtered' \subseteq Route, Loose(filtered'), NEW u \in Tree, <<>> \in DOMAIN u,
           Shows(filtered', <<>>, u, {}), Top(wanted').tree = u
    PROVE  FilterIsExact'
<1>1. /\ filtered' # << >> /\ filtered'[<<>>] # DiscardedValue /\ u # << >>
      /\ [p \in DOMAIN filtered' \ Members(filtered') |-> filtered'[p]] = u
      /\ \A p \in Members(filtered') : p # <<>> /\ filtered'[Pop(p)].type = "object"
  BY WholeFacts
<1>2. FilterParsed' = filtered'
  BY <1>1 DEF FilterParsed
<1>3. QED
  BY <1>1, <1>2 DEF FilterIsExact

\* The text ended with nothing, or with a value that is discarded.
LEMMA ExactNull ==
    ASSUME filtered' = << >> \/ filtered'[<<>>] = DiscardedValue, Top(wanted').tree = << >>
    PROVE  FilterIsExact'
<1>1. FilterParsed' = Single(Null)
  BY DEF FilterParsed
<1>2. QED
  BY <1>1, NullFacts DEF FilterIsExact

\* What the outermost value comes to.
LEMMA FirstTook ==
    ASSUME NEW u, NEW kept \in BOOLEAN
    PROVE  /\ Len(Took(<<>>, u, kept)) = 1
           /\ Top(Took(<<>>, u, kept)).tree = IF kept THEN u ELSE << >>
BY DEF Took, Top, Frame

\* The text is one value.
LEMMA FirstScalar ==
    ASSUME FilterInit, NEW kept \in BOOLEAN, FilterScalar(kept)
    PROVE  open' = <<>> /\ events' = 1 /\ FilterIsExact'
<1> DEFINE u == Single(Scalar1)
<1>1. /\ open = <<>> /\ events = 0 /\ filtered = << >> /\ refs = <<>> /\ wanted = <<>>
      /\ Top(keep_stack) = TRUE
  BY DEF FilterInit, Top
<1>2. /\ open' = <<>> /\ events' = 1 /\ wanted' = Took(<<>>, u, kept)
      /\ filtered' = FilterValue(Scalar1, kept).dom
  BY <1>1 DEF FilterScalar, Call, AfterValue
<1>3. Top(wanted').tree = IF kept THEN u ELSE << >>
  BY <1>2, FirstTook
<1>4. CASE kept
  <2>1. filtered' = u
    BY <1>1, <1>2, <1>4 DEF FilterValue, Handled
  <2>2. u \in Tree /\ DOMAIN u = {<<>>} /\ u[<<>>] = Scalar1 /\ Scalar1 # DiscardedValue
    BY SingleTree, NodeFacts
  <2>3. <<>> \in Route /\ ~Below(<<>>, <<>>)
    BY EmptyRoute, BelowJoins, JoinRoute
  <2>4. Shows(u, <<>>, u, {})
    <3>1. \A r \in DOMAIN u : ~Below(<<>>, r)
      BY <2>2, <2>3
    <3>2. QED
      BY <2>2, <2>3, <3>1, ShowsNew
  <2>5. Loose(u)
    BY <2>2 DEF Loose
  <2> HIDE DEF u
  <2>6. QED
    BY <1>2, <1>3, <1>4, <2>1, <2>2, <2>3, <2>4, <2>5, ExactTree
<1>5. CASE ~kept
  <2>1. filtered' = << >>
    BY <1>1, <1>2, <1>5 DEF FilterValue, Handled
  <2>2. QED
    BY <1>2, <1>3, <1>5, <2>1, ExactNull
<1>6. QED
  BY <1>4, <1>5

\* Stacks of one and of two entries.
LEMMA SmallStacks ==
    ASSUME NEW a, NEW b
    PROVE  Append(<<>>, b) = <<b>> /\ Append(<<a>>, b) = <<a, b>>
<1> DEFINE S == {a, b}
<1>1. <<>> \in Seq(S) /\ <<a>> \in Seq(S) /\ <<a, b>> \in Seq(S) /\ <<b>> \in Seq(S) /\ b \in S
  OBVIOUS
<1> HIDE DEF S
<1>2. Append(<<>>, b) = <<b>>
  <2>1. /\ Append(<<>>, b) \in Seq(S) /\ Len(Append(<<>>, b)) = 1 /\ Append(<<>>, b)[1] = b
    BY <1>1, AppendProperties
  <2>2. QED
    BY <1>1, <2>1, SeqEqual
<1>3. Append(<<a>>, b) = <<a, b>>
  <2>1. /\ Append(<<a>>, b) \in Seq(S) /\ Len(Append(<<a>>, b)) = 2
        /\ Append(<<a>>, b)[1] = a /\ Append(<<a>>, b)[2] = b
    BY <1>1, AppendProperties
  <2>2. Len(<<a, b>>) = 2 /\ <<a, b>>[1] = a /\ <<a, b>>[2] = b
    OBVIOUS
  <2>3. \A i \in 1 .. 2 : Append(<<a>>, b)[i] = <<a, b>>[i]
    BY <2>1, <2>2
  <2>4. QED
    BY <1>1, <2>1, <2>2, <2>3, SeqEqual
<1>4. QED
  BY <1>2, <1>3

\* The text begins with a container.
LEMMA FirstStart ==
    ASSUME FilterInit, NEW kept \in BOOLEAN, NEW type \in {"array", "object"}, FilterStart(type, kept)
    PROVE  open' # <<>> /\ FilterTypes' /\ FilterNested'
<1> DEFINE v == Container(type, 0)
           frame == Frame(type, kept)
           ref == IF kept THEN <<>> ELSE NullPointer
<1>1. /\ open = <<>> /\ events = 0 /\ filtered = << >> /\ refs = <<>> /\ wanted = <<>>
      /\ keep_stack = <<TRUE>> /\ key_keep_stack = <<>>
  BY DEF FilterInit
<1>2. v \in Node /\ v.type = type /\ Single(v) \in Tree /\ DOMAIN Single(v) = {<<>>} /\ Single(v)[<<>>] = v
  BY NodeFacts, SingleTree
<1>3. /\ frame \in FrameType /\ frame.tree = Single(v) /\ frame.kept = kept /\ FrameFits(type, frame)
  BY <1>2 DEF Frame, FrameType, FrameFits, Kind
<1>4. FilterValue(v, kept) = Handled(IF kept THEN Single(v) ELSE << >>, ref, <<>>)
  BY <1>1 DEF FilterValue, Handled
<1> HIDE DEF v, frame
<1>5. /\ open' = <<type>> /\ events' = 1 /\ wanted' = <<frame>> /\ refs' = <<ref>>
      /\ keep_stack' = <<TRUE, kept>> /\ key_keep_stack' = <<>>
      /\ filtered' = IF kept THEN Single(v) ELSE << >>
  <2>1. /\ open' = Append(AfterValue(<<>>), type) /\ events' = 0 + 1 /\ wanted' = Append(<<>>, frame)
        /\ refs' = Append(<<>>, FilterValue(v, kept).ref) /\ keep_stack' = Append(<<TRUE>>, kept)
        /\ key_keep_stack' = FilterValue(v, kept).keys /\ filtered' = FilterValue(v, kept).dom
    BY <1>1 DEF FilterStart, Call, v, frame
  <2>2. AfterValue(<<>>) = <<>>
    BY DEF AfterValue
  <2>3. /\ FilterValue(v, kept).ref = ref /\ FilterValue(v, kept).keys = <<>>
        /\ FilterValue(v, kept).dom = IF kept THEN Single(v) ELSE << >>
    BY <1>4 DEF Handled
  <2> HIDE DEF ref
  <2>4. keep_stack' = <<TRUE, kept>>
    BY <2>1, SmallStacks, Zenon
  <2>5. open' = <<type>> /\ wanted' = <<frame>> /\ refs' = <<ref>>
    BY <2>1, <2>2, <2>3, SmallStacks, Zenon
  <2>6. events' = 1
    BY <2>1
  <2>7. key_keep_stack' = <<>> /\ filtered' = IF kept THEN Single(v) ELSE << >>
    BY <2>1, <2>3, Zenon
  <2>8. QED
    BY <2>4, <2>5, <2>6, <2>7, Zenon
<1>6. <<>> \in Route /\ ~Below(<<>>, <<>>) /\ <<>> # NullPointer
  BY EmptyRoute, BelowJoins, JoinRoute, NullIsNoRoute
<1>7. DOMAIN filtered' \subseteq Route /\ ref \in Route \cup {NullPointer}
  BY <1>2, <1>5, <1>6
<1>8. FilterTypes'
  <2>1. /\ <<type>> \in Seq({"array", "object", "member"}) /\ <<TRUE, kept>> \in Seq(BOOLEAN)
        /\ <<>> \in Seq(BOOLEAN)
    OBVIOUS
  <2> DEFINE S == FrameType
             U == Route \cup {NullPointer}
  <2>2. frame \in S /\ ref \in U
    BY <1>3, <1>7
  <2> HIDE DEF S, U, ref
  <2>3. <<frame>> \in Seq(S) /\ <<ref>> \in Seq(U)
    BY <2>2
  <2>4. QED
    BY <1>5, <1>7, <2>1, <2>3 DEF FilterTypes, S, U
<1>9. /\ Len(open') = 1 /\ Len(refs') = 1 /\ Len(wanted') = 1 /\ Len(keep_stack') = 2
      /\ open'[1] = type /\ refs'[1] = ref /\ wanted'[1] = frame /\ keep_stack'[2] = kept
      /\ Depth' = 1
  <2> HIDE DEF ref
  <2>1. QED
    BY <1>5 DEF Depth
<1>10. Lengths' /\ events' > 0 /\ open' # <<>>
  BY <1>5, <1>9 DEF Lengths
<1>11. Frames'
  BY <1>3, <1>9 DEF Frames
<1>12. RootPlaced'
  BY <1>3, <1>5, <1>9 DEF RootPlaced
<1>13. Chain' /\ Nest'
  BY <1>9 DEF Chain, Nest
<1>14. Levels'
  <2> SUFFICES ASSUME refs'[1] # NullPointer
               PROVE  Shows(filtered', <<>>, Single(v), {})
    <3>1. \A i \in 1 .. 1 : Hole(i)' = {}
      BY <1>9 DEF Hole
    <3>2. ASSUME refs'[1] # NullPointer PROVE refs'[1] = <<>> /\ wanted'[1].tree = Single(v)
      BY <1>3, <1>9, <3>2
    <3> HIDE DEF ref
    <3>3. ASSUME NEW i \in 1 .. 1, refs'[i] # NullPointer
          PROVE  Shows(filtered', refs'[i], wanted'[i].tree, Hole(i)')
      <4>1. i = 1
        OBVIOUS
      <4>2. QED
        BY <3>1, <3>2, <3>3, <4>1
    <3>4. QED
      BY <1>9, <3>3 DEF Levels, Placed
  <2>1. kept
    BY <1>9
  <2>2. filtered' = Single(v)
    BY <1>5, <2>1
  <2>3. QED
    BY <1>2, <1>6, <2>2, ShowsNew
<1>15. Member'
  BY <1>9 DEF Member, Top
<1>16. Loose(filtered')
  <2>1. v # DiscardedValue
    BY <1>2, NodeFacts
  <2>2. QED
    BY <1>2, <1>5, <2>1 DEF Loose
<1>17. QED
  BY <1>8, <1>10, <1>11, <1>12, <1>13, <1>14, <1>15, <1>16 DEF FilterNested

\* The end of the outermost container.
LEMMA LastEnd ==
    ASSUME FilterTypes, FilterNested, open # <<>>, Depth = 1, NEW kept \in BOOLEAN,
           events' = events + 1, open' = Pop(open), wanted' = WantEnd(kept), filtered' = Ended(kept)
    PROVE  open' = <<>> /\ events' > 0 /\ FilterIsExact'
<1> DEFINE f == wanted[1]
           u == f.tree
<1>1. /\ Len(open) = 1 /\ Len(wanted) = 1 /\ events \in Nat /\ DOMAIN filtered \subseteq Route
      /\ Loose(filtered) /\ 1 \in 1 .. Depth
  BY DEF FilterTypes, FilterNested, Lengths, Depth
<1>2. /\ Top(wanted) = f /\ f \in FrameType /\ FrameFits(open[1], f)
      /\ Placed(1) => refs[1] \in Route /\ Shows(filtered, refs[1], u, {})
  BY TopFacts
<1>3. u \in Tree /\ <<>> \in DOMAIN u /\ f.kept \in BOOLEAN
  BY <1>2 DEF FrameType, FrameFits
<1>4. Pop(open) = <<>> /\ Pop(wanted) = <<>>
  <2>1. open \in Seq({"array", "object", "member"}) /\ wanted \in Seq(FrameType)
    BY DEF FilterTypes
  <2> DEFINE S == FrameType
  <2>2. wanted \in Seq(S) /\ Len(wanted) # 0
    BY <1>1, <2>1
  <2> HIDE DEF S
  <2>3. Pop(wanted) \in Seq(S) /\ Len(Pop(wanted)) = Len(wanted) - 1
    BY <2>2, PopFacts
  <2>4. Len(Pop(open)) = Len(open) - 1 /\ Pop(open) \in Seq({"array", "object", "member"})
    BY <1>1, <2>1, PopFacts
  <2>5. QED
    BY <1>1, <2>3, <2>4
<1>5. wanted' = Took(<<>>, u, f.kept /\ kept)
  BY <1>2, <1>4 DEF WantEnd
<1>6. Top(wanted').tree = IF f.kept /\ kept THEN u ELSE << >>
  BY <1>3, <1>5, FirstTook
<1>7. /\ ~Placed(1) \/ kept => filtered' = filtered
      /\ Placed(1) /\ ~kept => filtered' = Assign(filtered, refs[1], DiscardedValue)
  BY EndedFacts
<1>8. IF f.kept THEN refs[1] = <<>> /\ Placed(1) ELSE ~Placed(1) /\ filtered = << >>
  BY EmptyRoute, NullIsNoRoute DEF FilterNested, RootPlaced, Placed
<1> HIDE DEF u, f
<1>9. FilterIsExact'
  <2>1. CASE f.kept /\ kept
    <3>1. filtered' = filtered /\ Shows(filtered', <<>>, u, {}) /\ Top(wanted').tree = u
      BY <1>2, <1>6, <1>7, <1>8, <2>1
    <3>2. QED
      BY <1>1, <1>3, <3>1, ExactTree
  <2>2. CASE f.kept /\ ~kept
    <3>1. filtered'[<<>>] = DiscardedValue
      BY <1>7, <1>8, <2>2 DEF Assign
    <3>2. QED
      BY <1>6, <2>2, <3>1, ExactNull
  <2>3. CASE ~f.kept
    BY <1>6, <1>7, <1>8, <2>3, ExactNull
  <2>4. QED
    BY <2>1, <2>2, <2>3
<1>10. QED
  BY <1>1, <1>4, <1>9

\* end_object and end_array, at the end of the text and before.
LEMMA EndStep ==
    ASSUME FilterTypes, FilterNested, open # <<>>, NEW kept \in BOOLEAN,
           FilterEndObject(kept) \/ FilterEndArray(kept)
    PROVE  IF open' # <<>> THEN FilterTypes' /\ FilterNested' ELSE events' > 0 /\ FilterIsExact'
<1>1. Depth \in Nat \ {0} /\ Len(refs) = Depth /\ refs \in Seq(Route \cup {NullPointer})
  BY DEF FilterTypes, FilterNested, Lengths, Depth
<1>2. CASE Depth > 1
  BY <1>2, EndObjectStep, EndArrayStep
<1>3. CASE Depth = 1
  <2>1. Pop(refs) = <<>>
    <3> DEFINE U == Route \cup {NullPointer}
    <3>1. refs \in Seq(U) /\ Len(refs) # 0 /\ Len(refs) - 1 = 0
      BY <1>1, <1>3
    <3> HIDE DEF U
    <3>2. Pop(refs) \in Seq(U) /\ Len(Pop(refs)) = 0
      BY <3>1, PopFacts
    <3>3. QED
      BY <3>2
  <2>2. /\ events' = events + 1 /\ open' = Pop(open) /\ wanted' = WantEnd(kept)
        /\ filtered' = Ended(kept)
    <3>1. CASE FilterEndObject(kept)
      BY <2>1, <3>1 DEF FilterEndObject, Call
    <3>2. CASE FilterEndArray(kept)
      BY <2>1, <3>2 DEF FilterEndArray, Call
    <3>3. QED
      BY <3>1, <3>2
  <2>3. QED
    BY <1>3, <2>2, LastEnd
<1>4. QED
  BY <1>1, <1>2, <1>3

-----------------------------------------------------------------------------
\* Before the text, inside it, and behind it.
FilterInv ==
    IF open # <<>> THEN FilterTypes /\ FilterNested
    ELSE IF events = 0 THEN FilterInit ELSE FilterIsExact

\* No step leaves the invariant.
LEMMA FilterKeeps == FilterInv /\ [FilterNext]_filterVars => FilterInv'
<1> SUFFICES ASSUME FilterInv, [FilterNext]_filterVars PROVE FilterInv'
  OBVIOUS
<1>1. CASE UNCHANGED filterVars
  <2>1. /\ open' = open /\ events' = events /\ filtered' = filtered /\ refs' = refs
        /\ element' = element /\ keep_stack' = keep_stack /\ key_keep_stack' = key_keep_stack
        /\ wanted' = wanted
    BY <1>1 DEF filterVars
  <2>2. (FilterTypes <=> FilterTypes') /\ (FilterInit => FilterInit')
    BY <2>1 DEF FilterTypes, FilterInit
  <2>3. FilterIsExact <=> FilterIsExact'
    BY <2>1 DEF FilterIsExact, FilterParsed
  <2>4. Depth' = Depth
    BY <2>1 DEF Depth
  <2>5. \A i : /\ Placed(i)' <=> Placed(i)
              /\ InnerOf(i)' = InnerOf(i)
    BY <2>1 DEF Placed, InnerOf
  <2>6. \A i : (Placeable(i)' <=> Placeable(i)) /\ Hole(i)' = Hole(i)
    BY <2>1, <2>4, <2>5 DEF Placeable, Hole
  <2>7. FilterNested => Lengths' /\ Frames' /\ RootPlaced' /\ Member'
    BY <2>1, <2>4, <2>5 DEF FilterNested, Lengths, Frames, RootPlaced, Member
  <2>8. FilterNested => Chain' /\ Nest' /\ Levels'
    BY <2>1, <2>4, <2>5, <2>6 DEF FilterNested, Chain, Nest, Levels
  <2>9. FilterNested => FilterNested'
    BY <2>1, <2>7, <2>8 DEF FilterNested
  <2>10. QED
    BY <2>1, <2>2, <2>3, <2>9 DEF FilterInv
<1>2. CASE FilterNext
  <2>1. PICK kept \in BOOLEAN :
            \/ FilterScalar(kept)
            \/ FilterStartObject(kept) \/ FilterEndObject(kept)
            \/ FilterStartArray(kept) \/ FilterEndArray(kept)
            \/ \E key \in Name : FilterKey(key, kept)
    BY <1>2 DEF FilterNext
  <2>2. CASE open # <<>>
    <3>1. FilterTypes /\ FilterNested /\ events \in Nat
      BY <2>2 DEF FilterInv, FilterTypes
    <3>2. CASE FilterScalar(kept)
      <4>1. FilterTypes' /\ FilterNested' /\ Depth # 0
        BY <2>2, <3>1, <3>2, ScalarStep, TopFacts
      <4>2. open' # <<>>
        BY <2>2, <3>1, <3>2, AfterFacts, <4>1 DEF FilterScalar, Depth
      <4>3. QED
        BY <4>1, <4>2 DEF FilterInv
    <3>3. ASSUME NEW type \in {"array", "object"}, FilterStart(type, kept) PROVE FilterInv'
      <4>1. FilterTypes' /\ FilterNested'
        BY <2>2, <3>1, <3>3, StartStep
      <4>2. AfterValue(open) \in Seq({"array", "object", "member"})
        BY <2>2, <3>1, AfterFacts
      <4>3. open' # <<>>
        BY <3>3, <4>2 DEF FilterStart
      <4>4. QED
        BY <4>1, <4>3 DEF FilterInv
    <3>4. ASSUME NEW key \in Name, FilterKey(key, kept) PROVE FilterInv'
      <4>1. FilterTypes' /\ FilterNested'
        BY <2>2, <3>1, <3>4, KeyStep
      <4>2. Pop(open) \in Seq({"array", "object", "member"})
        BY <2>2, <3>1, PopFacts DEF FilterTypes
      <4>3. open' # <<>>
        BY <3>4, <4>2 DEF FilterKey
      <4>4. QED
        BY <4>1, <4>3 DEF FilterInv
    <3>5. CASE FilterEndObject(kept) \/ FilterEndArray(kept)
      BY <2>2, <3>1, <3>5, EndStep DEF FilterInv
    <3>6. QED
      BY <2>1, <3>2, <3>3, <3>4, <3>5 DEF FilterStartObject, FilterStartArray
  <2>3. CASE open = <<>>
    <3>1. events = 0 /\ FilterInit
      BY <2>1, <2>3 DEF FilterInv, FilterScalar, FilterStartObject, FilterStartArray, FilterStart, ValueComes,
                        FilterEndObject, FilterEndArray, FilterKey
    <3>2. CASE FilterScalar(kept)
      BY <3>1, <3>2, FirstScalar DEF FilterInv
    <3>3. ASSUME NEW type \in {"array", "object"}, FilterStart(type, kept) PROVE FilterInv'
      BY <3>1, <3>3, FirstStart DEF FilterInv
    <3>4. QED
      BY <2>1, <2>3, <3>2, <3>3 DEF FilterStartObject, FilterStartArray, FilterEndObject, FilterEndArray, FilterKey
  <2>4. QED
    BY <2>2, <2>3
<1>3. QED
  BY <1>1, <1>2

\* However deep a text nests and whatever the callback answers, to every key,
\* value, beginning and end, parse returns what is left of the text when each
\* element that got a no is taken out with all it contains, but for members that
\* remain as discarded values.
THEOREM FilterKeepsExactly == FilterSpec => []FilterIsExact
<1>1. FilterInit => FilterInv
  BY DEF FilterInit, FilterInv
<1>2. FilterInv => FilterIsExact
  <2> SUFFICES ASSUME FilterInv, events > 0, open = <<>> PROVE FilterIsExact
    BY DEF FilterIsExact
  <2>1. QED
    BY DEF FilterInv
<1>3. QED
  BY <1>1, <1>2, FilterKeeps, PTL DEF FilterSpec

\* The pointers the invariant speaks of are to containers of the right kind, and
\* object_element is to a member of the innermost.
LEMMA PointersFollow ==
    ASSUME FilterTypes, FilterNested, open # <<>>
    PROVE  FilterPointersHold
<1> DEFINE n == Depth
<1>1. Len(open) = n /\ Len(refs) = n /\ Len(keep_stack) = n + 1 /\ DOMAIN refs = 1 .. n
  BY DEF FilterTypes, FilterNested, Lengths, Depth
<1>2. ASSUME NEW i \in 1 .. n, Placed(i)
      PROVE  /\ refs[i] \in DOMAIN filtered
             /\ filtered[refs[i]].type = IF open[i] = "array" THEN "array" ELSE "object"
  <2>1. Shows(filtered, refs[i], wanted[i].tree, Hole(i)) /\ FrameFits(open[i], wanted[i])
    BY <1>2 DEF FilterNested, Levels, Frames
  <2>2. wanted[i].tree \in Tree
    <3>1. wanted[i] \in FrameType
      BY <1>1, <1>2, ElementOfSeq DEF FilterTypes, FilterNested, Lengths
    <3>2. QED
      BY <3>1 DEF FrameType
  <2> DEFINE v == wanted[i].tree[<<>>]
  <2>3. v \in Node /\ v.type = Kind(open[i])
    BY <2>1, <2>2, TreeFacts DEF FrameFits
  <2>4. refs[i] \in DOMAIN filtered /\ filtered[refs[i]] \in {v, Grown(v)}
    BY <2>1 DEF Shows
  <2> HIDE DEF v
  <2>5. Grown(v).type = v.type
    <3>1. v.type = "array" => v.text[1] \in Nat /\ v.text[1] + 1 \in Nat
      BY <2>3, NodeFacts
    <3>2. QED
      BY <3>1, NodeFacts DEF Grown
  <2>6. QED
    BY <2>3, <2>4, <2>5 DEF Kind
<1>3. ASSUME Top(open) = "member", Top(refs) # NullPointer
      PROVE  /\ key_keep_stack # <<>>
             /\ Top(key_keep_stack) => /\ element \in DOMAIN filtered
                                       /\ element # <<>> /\ Pop(element) = Top(refs)
  <2>1. Top(refs) = refs[n] /\ refs[n] \in Route /\ Placed(n) /\ FrameFits(open[n], wanted[n])
    BY <1>3, TopFacts DEF Placed
  <2>2. /\ key_keep_stack # <<>> /\ Top(key_keep_stack) = wanted[n].keyKept
        /\ wanted[n].keyKept => element = Append(refs[n], wanted[n].key) /\ element \in DOMAIN filtered
    BY <1>3, <2>1 DEF FilterNested, Member
  <2>3. wanted[n].keyKept => wanted[n].key \in Step
    BY <2>1, NamesAreSteps DEF FrameFits
  <2>4. ASSUME Top(key_keep_stack)
        PROVE  element \in DOMAIN filtered /\ element # <<>> /\ Pop(element) = Top(refs)
    <3>1. wanted[n].keyKept
      BY <2>2, <2>4, Zenon
    <3>2. element = Append(refs[n], wanted[n].key) /\ element \in DOMAIN filtered
      BY <2>2, <3>1, Zenon
    <3>3. Append(refs[n], wanted[n].key) # <<>> /\ Pop(Append(refs[n], wanted[n].key)) = refs[n]
      BY <2>1, <2>3, <3>1, Child, Zenon
    <3>4. QED
      BY <2>1, <3>2, <3>3, Zenon
  <2>5. QED
    BY <2>2, <2>4
<1>4. QED
  BY <1>1, <1>2, <1>3 DEF FilterPointersHold, Placed

\* Of the stacks and the pointers of the parser with a callback, which it uses
\* behind JSON_ASSERTs that are compiled away, and partly unchecked: they are
\* right for every text and every answer, also while elements are erased.
THEOREM FilterPointers == FilterSpec => []FilterPointersHold
<1>1. FilterInit => FilterInv
  BY DEF FilterInit, FilterInv
<1>2. FilterInv => FilterPointersHold
  <2>1. CASE open # <<>>
    BY <2>1, PointersFollow DEF FilterInv
  <2>2. CASE open = <<>>
    BY <2>2 DEF FilterPointersHold
  <2>3. QED
    BY <2>1, <2>2
<1>3. QED
  BY <1>1, <1>2, FilterKeeps, PTL DEF FilterSpec
=============================================================================
