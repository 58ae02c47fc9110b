--------------------------- MODULE JsonSerializer ---------------------------
(***************************************************************************)
(* json::dump: from a value, as JsonParser builds it, to the bytes of its  *)
(* text.  dump throws type_error 316 when a string of the value is no      *)
(* UTF-8 (the error handler is strict); its text is then Refused.  Left    *)
(* out: indentation, binary values, doubles and the text of the exception; *)
(* nothing in the program dumps any of these.                              *)
(***************************************************************************)
EXTENDS JsonLexer, SequencesExt

Refused == <<EOF>>

-----------------------------------------------------------------------------
(* decode, the automaton of dump_escaped, by its two tables: the class of  *)
(* a byte, and the state a class leads to.                                 *)

UTF8_ACCEPT == 0
UTF8_REJECT == 1

ByteClass(b) ==
    CASE b < 128 -> 0 [] b \in 128 .. 143 -> 1 [] b \in 144 .. 159 -> 9
      [] b \in 160 .. 191 -> 7 [] b \in {192, 193} \cup 245 .. 255 -> 8
      [] b \in 194 .. 223 -> 2 [] b = 224 -> 10 [] b = 237 -> 4
      [] b \in 225 .. 239 -> 3 [] b = 240 -> 11 [] b \in 241 .. 243 -> 6
      [] OTHER -> 5

FromAccept == <<0, 1, 2, 3, 5, 8, 7, 1, 1, 1, 4, 6>>
Continues == << <<>>, {1, 7, 9}, {1, 7, 9}, {7}, {1, 9}, {7, 9}, {1, 7, 9}, {1} >>

Decode(state, b) ==
    LET class == ByteClass(b) IN
    CASE state = UTF8_ACCEPT -> FromAccept[class + 1]
      [] state = UTF8_REJECT -> UTF8_REJECT
      [] class \notin Continues[state] -> UTF8_REJECT
      [] state = 2 -> UTF8_ACCEPT
      [] state \in {3, 4, 5} -> 2
      [] OTHER -> 3

RECURSIVE Accepts(_, _)
Accepts(str, state) ==
    IF str = <<>> THEN state = UTF8_ACCEPT
    ELSE Accepts(Tail(str), Decode(state, Head(str)))

IsUtf8(str) == Accepts(str, UTF8_ACCEPT)

\* The code point that starts at the head of a valid string, and its length.
CharLength(b) == CASE b < 128 -> 1 [] b < 224 -> 2 [] b < 240 -> 3 [] OTHER -> 4
CodepointOf(char) ==
    FoldLeft(LAMBDA code, b : code * 64 + (b % 64),
             char[1] % (CASE Len(char) = 1 -> 128 [] Len(char) = 2 -> 32
                          [] Len(char) = 3 -> 16 [] OTHER -> 8),
             Tail(char))

-----------------------------------------------------------------------------
(* dump_escaped.                                                           *)

Hex(n) == IF n < 10 THEN 48 + n ELSE 87 + n
UEscape(c) ==
    <<Backslash, LowerU, Hex(c \div 4096), Hex((c \div 256) % 16), Hex((c \div 16) % 16), Hex(c % 16)>>

\* The letters behind a backslash, as Escape has them, except the solidus.
EscapeLetter(c) == CHOOSE l \in DOMAIN Escape \ {47} : Escape[l] = c
Short == {8, 9, 10, 12, 13, Quote, Backslash}

DumpChar(char, ensure_ascii) ==
    LET c == CodepointOf(char) IN
    CASE c \in Short -> <<Backslash, EscapeLetter(c)>>
      [] c <= 31 \/ (ensure_ascii /\ c \in 127 .. 65535) -> UEscape(c)
      [] ensure_ascii /\ c > 65535 ->
             UEscape(55232 + c \div 1024) \o UEscape(56320 + (c % 1024))
      [] OTHER -> char

RECURSIVE DumpChars(_, _)
DumpChars(str, ensure_ascii) ==
    IF str = <<>> THEN <<>>
    ELSE LET n == CharLength(Head(str)) IN
         DumpChar(SubSeq(str, 1, n), ensure_ascii)
         \o DumpChars(SubSeq(str, n + 1, Len(str)), ensure_ascii)

DumpEscaped(str, ensure_ascii) == <<Quote>> \o DumpChars(str, ensure_ascii) \o <<Quote>>

-----------------------------------------------------------------------------
(* dump.                                                                   *)

RECURSIVE Decimal(_)
Decimal(n) == IF n < 10 THEN <<Zero + n>> ELSE Decimal(n \div 10) \o <<Zero + (n % 10)>>

DumpInteger(n) == IF n < 0 THEN <<Minus>> \o Decimal(-n) ELSE Decimal(n)

\* The order of std::map<std::string, ...>: by bytes.
Less(k, l) ==
    \E i \in 1 .. Len(l) :
        /\ \A j \in 1 .. i - 1 : j \in DOMAIN k /\ k[j] = l[j]
        /\ i > Len(k) \/ k[i] < l[i]

\* The elements of the container at path p, in their order.
Elements(dom, p) ==
    SetToSortSeq({q[Len(q)] : q \in {q \in DOMAIN dom : Len(q) = Len(p) + 1 /\ SubSeq(q, 1, Len(p)) = p}}, Less)

Separated(texts) ==
    IF texts = <<>> THEN <<>>
    ELSE FoldLeft(LAMBDA all, text : all \o <<Comma>> \o text, Head(texts), Tail(texts))

RECURSIVE DumpAt(_, _, _)
DumpAt(dom, p, ensure_ascii) ==
    LET node == dom[p]
        elements == Elements(dom, p)
        Element(k) == DumpAt(dom, Append(p, k), ensure_ascii)
        Member(k) == DumpEscaped(k, ensure_ascii) \o <<Colon>> \o Element(k)
    IN CASE node.type = "object" ->
                <<OpenBrace>> \o Separated([i \in DOMAIN elements |-> Member(elements[i])])
                \o <<CloseBrace>>
         [] node.type = "array" ->
                <<OpenBracket>> \o Separated([i \in DOMAIN elements |-> Element(elements[i])])
                \o <<CloseBracket>>
         [] node.type = "value_string" -> DumpEscaped(node.text, ensure_ascii)
         [] node.type \in DOMAIN Literal -> Literal[node.type]
         [] OTHER -> DumpInteger(node.text[1])

\* Every string of the value, keys included.
Strings(dom) ==
    {dom[p].text : p \in {p \in DOMAIN dom : dom[p].type = "value_string"}}
    \cup UNION {{p[i] : i \in {i \in DOMAIN p : dom[SubSeq(p, 1, i - 1)].type = "object"}} : p \in DOMAIN dom}

Dump(dom, ensure_ascii) ==
    IF \A str \in Strings(dom) : IsUtf8(str) THEN DumpAt(dom, <<>>, ensure_ascii) ELSE Refused
=============================================================================
