------------------------------ MODULE JsonLexer ------------------------------
(***************************************************************************)
(* The lexer of nlohmann::json: from the bytes of a text to the tokens of  *)
(* JsonParser.  A text is a sequence of bytes; what get() returns behind   *)
(* its end is EOF.  A token has the position at which the next scan goes   *)
(* on; unget() is the position of the byte that was read too far.          *)
(* Left out: comments (ignore_comments is false everywhere) and what is    *)
(* kept for error messages only (token_string, lines, columns).            *)
(***************************************************************************)
EXTENDS Integers, Sequences, FiniteSets, TLC

EOF == -1
Get(s, i) == IF i \in DOMAIN s THEN s[i] ELSE EOF

\* The bytes that the code names.
Quote == 34
Plus == 43
Comma == 44
Minus == 45
Dot == 46
Zero == 48
Colon == 58
OpenBracket == 91
Backslash == 92
CloseBracket == 93
OpenBrace == 123
CloseBrace == 125
LowerU == 117

Digits == 48 .. 57
Exponents == {69, 101}
Whitespace == {32, 9, 10, 13}
Continuation == 128 .. 191

Scanned(type, text, next) == [type |-> type, text |-> text, next |-> next]
ScanError(i) == Scanned("parse_error", <<>>, i)

-----------------------------------------------------------------------------
(* scan_string.                                                            *)

\* What follows a backslash, without \u.
Escape == [c \in {34, 92, 47, 98, 102, 110, 114, 116} |->
    CASE c = 98 -> 8 [] c = 102 -> 12 [] c = 110 -> 10 [] c = 114 -> 13
      [] c = 116 -> 9 [] OTHER -> c]

HexDigit(c) ==
    CASE c \in 48 .. 57 -> c - 48 [] c \in 65 .. 70 -> c - 55
      [] c \in 97 .. 102 -> c - 87 [] OTHER -> -1

\* Four hex digits from position i, or -1.
Codepoint(s, i) ==
    IF \A k \in 0 .. 3 : HexDigit(Get(s, i + k)) # -1
    THEN HexDigit(s[i]) * 4096 + HexDigit(s[i + 1]) * 256
         + HexDigit(s[i + 2]) * 16 + HexDigit(s[i + 3])
    ELSE -1

HighSurrogate == 55296 .. 56319
LowSurrogate == 56320 .. 57343

\* The code point of \uxxxx at position i (of its first digit) and where it
\* ends; a high surrogate takes the low one behind it.
Escaped(s, i) ==
    LET first == Codepoint(s, i)
        second == Codepoint(s, i + 6)
    IN CASE first \in HighSurrogate ->
                IF /\ Get(s, i + 4) = Backslash /\ Get(s, i + 5) = LowerU
                   /\ second \in LowSurrogate
                THEN [codepoint |-> first * 1024 + second - 56613888, next |-> i + 10]
                ELSE [codepoint |-> -1, next |-> i]
         [] first \in LowSurrogate -> [codepoint |-> -1, next |-> i]
         [] OTHER -> [codepoint |-> first, next |-> i + 4]

Utf8(c) ==
    LET Tail6(n) == 128 + ((c \div n) % 64) IN
    CASE c < 128 -> <<c>>
      [] c \in 128 .. 2047 -> <<192 + c \div 64, Tail6(1)>>
      [] c \in 2048 .. 65535 -> <<224 + c \div 4096, Tail6(64), Tail6(1)>>
      [] OTHER -> <<240 + c \div 262144, Tail6(4096), Tail6(64), Tail6(1)>>

\* The characters that stand for themselves, and those that must be escaped.
Plain == (32 .. 127) \ {Quote, Backslash}
Control == 0 .. 31

\* A bug to catch: the bytes of a character, each in the range of any.
NextBytesLoose(c) ==
    CASE c \in 192 .. 223 -> <<Continuation>>
      [] c \in 224 .. 239 -> <<Continuation, Continuation>>
      [] c \in 240 .. 247 -> <<Continuation, Continuation, Continuation>>
      [] OTHER -> <<>>

\* The ranges of next_byte_in_range, by the first byte.
NextBytes(c) ==
    CASE c \in 194 .. 223 -> <<Continuation>>
      [] c = 224 -> <<160 .. 191, Continuation>>
      [] c \in (225 .. 239) \ {237} -> <<Continuation, Continuation>>
      [] c = 237 -> <<128 .. 159, Continuation>>
      [] c = 240 -> <<144 .. 191, Continuation, Continuation>>
      [] c \in 241 .. 243 -> <<Continuation, Continuation, Continuation>>
      [] c = 244 -> <<128 .. 143, Continuation, Continuation>>
      [] OTHER -> <<>>

\* From position i, with what has been read of the string.
RECURSIVE ScanString(_, _, _)
ScanString(s, i, read) ==
    LET c == Get(s, i)
        more == NextBytes(c)
        escaped == Escaped(s, i + 2)
    IN CASE c = Quote -> Scanned("value_string", read, i + 1)
         [] c = Backslash /\ Get(s, i + 1) = LowerU ->
                IF escaped.codepoint = -1 THEN ScanError(i)
                ELSE ScanString(s, escaped.next, read \o Utf8(escaped.codepoint))
         [] c = Backslash /\ Get(s, i + 1) \in DOMAIN Escape ->
                ScanString(s, i + 2, Append(read, Escape[s[i + 1]]))
         [] c \in Control -> ScanError(i)
         [] c \in Plain -> ScanString(s, i + 1, Append(read, c))
         [] more # <<>> /\ \A k \in DOMAIN more : Get(s, i + k) \in more[k] ->
                ScanString(s, i + 1 + Len(more), read \o SubSeq(s, i, i + Len(more)))
         [] OTHER -> ScanError(i)   \* the end, or ill-formed UTF-8

-----------------------------------------------------------------------------
(* scan_number and scan_literal.                                           *)

\* The labels of scan_number and the bytes that lead on from them.
NumberGoesOn(label, c) ==
    CASE label = "minus" /\ c = Zero -> "zero"
      [] label = "minus" /\ c \in Digits \ {Zero} -> "any1"
      [] label = "any1" /\ c \in Digits -> "any1"
      [] label \in {"zero", "any1"} /\ c = Dot -> "decimal1"
      [] label \in {"zero", "any1", "decimal2"} /\ c \in Exponents -> "exponent"
      [] label \in {"decimal1", "decimal2"} /\ c \in Digits -> "decimal2"
      [] label = "exponent" /\ c \in {Plus, Minus} -> "sign"
      [] label \in {"exponent", "sign", "any2"} /\ c \in Digits -> "any2"
      [] label \in {"minus", "decimal1", "exponent", "sign"} -> "error"
      [] OTHER -> "done"

\* Where the number that starts at position i ends, and the label it ends at.
RECURSIVE NumberEnd(_, _, _)
NumberEnd(s, i, label) ==
    LET next == NumberGoesOn(label, Get(s, i)) IN
    IF next \in {"done", "error"} THEN [at |-> i, label |-> label, ends |-> next]
    ELSE NumberEnd(s, i + 1, next)

\* strtoull and strtoll on the digits that were read.
RECURSIVE Converted(_)
Converted(digits) ==
    IF digits = <<>> THEN 0
    ELSE Converted(SubSeq(digits, 1, Len(digits) - 1)) * 10 + digits[Len(digits)] - Zero

\* Integers are converted; of a number with a fraction or an exponent the bytes
\* stand for the double.  No number is too large for its type.
ScanNumber(s, i) ==
    LET first == s[i]
        end == NumberEnd(s, i + 1, CASE first = Minus -> "minus" [] first = Zero -> "zero"
                                     [] OTHER -> "any1")
    IN CASE end.ends = "error" -> ScanError(i)
         [] end.label \in {"decimal2", "any2"} ->
                Scanned("value_float", SubSeq(s, i, end.at - 1), end.at)
         [] first = Minus ->
                Scanned("value_integer", <<-Converted(SubSeq(s, i + 1, end.at - 1))>>, end.at)
         [] OTHER -> Scanned("value_unsigned", <<Converted(SubSeq(s, i, end.at - 1))>>, end.at)

Literal == "literal_true" :> <<116, 114, 117, 101>> @@
           "literal_false" :> <<102, 97, 108, 115, 101>> @@
           "literal_null" :> <<110, 117, 108, 108>>

ScanLiteral(s, i, type) ==
    LET end == i + Len(Literal[type]) IN
    IF \A k \in DOMAIN Literal[type] : Get(s, i + k - 1) = Literal[type][k]
    THEN Scanned(type, <<>>, end) ELSE ScanError(i)

-----------------------------------------------------------------------------
(* scan.                                                                   *)

RECURSIVE SkipWhitespace(_, _)
SkipWhitespace(s, i) ==
    IF Get(s, i) \in Whitespace THEN SkipWhitespace(s, i + 1) ELSE i

Structural == OpenBracket :> "begin_array" @@ CloseBracket :> "end_array" @@
              OpenBrace :> "begin_object" @@ CloseBrace :> "end_object" @@
              Colon :> "name_separator" @@ Comma :> "value_separator"

\* A bug to catch: the NUL behind a request is no end.
ScanPastNul(s, from) ==
    LET i == SkipWhitespace(s, from)
        c == Get(s, i)
        literals == {type \in DOMAIN Literal : Literal[type][1] = c}
    IN CASE c \in DOMAIN Structural -> Scanned(Structural[c], <<>>, i + 1)
         [] literals # {} -> ScanLiteral(s, i, CHOOSE type \in literals : TRUE)
         [] c = Quote -> ScanString(s, i + 1, <<>>)
         [] c \in {Minus} \cup Digits -> ScanNumber(s, i)
         [] c = EOF -> Scanned("end_of_input", <<>>, i)
         [] OTHER -> ScanError(i)

\* The NUL ends the input as its end does.
Scan(s, from) ==
    LET i == SkipWhitespace(s, from)
        c == Get(s, i)
        literals == {type \in DOMAIN Literal : Literal[type][1] = c}
    IN CASE c \in DOMAIN Structural -> Scanned(Structural[c], <<>>, i + 1)
         [] literals # {} -> ScanLiteral(s, i, CHOOSE type \in literals : TRUE)
         [] c = Quote -> ScanString(s, i + 1, <<>>)
         [] c \in {Minus} \cup Digits -> ScanNumber(s, i)
         [] c \in {0, EOF} -> Scanned("end_of_input", <<>>, i)
         [] OTHER -> ScanError(i)

\* Every token from position i to the first that ends the parser's work.
RECURSIVE TokensFrom(_, _)
TokensFrom(s, i) ==
    LET scanned == Scan(s, i)
        token == [type |-> scanned.type, text |-> scanned.text]
    IN IF scanned.type \in {"parse_error", "end_of_input"} THEN <<token>>
       ELSE <<token>> \o TokensFrom(s, scanned.next)

\* skip_bom, at the first scan only.
ByteOrderMark == <<239, 187, 191>>
HasByteOrderMark(s) == \A k \in 1 .. 3 : Get(s, k) = ByteOrderMark[k]
Tokens(s) ==
    CASE Get(s, 1) # 239 -> TokensFrom(s, 1)
      [] HasByteOrderMark(s) -> TokensFrom(s, 4)
      [] OTHER -> <<[type |-> "parse_error", text |-> <<>>]>>
=============================================================================
