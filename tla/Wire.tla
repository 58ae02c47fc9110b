-------------------------------- MODULE Wire --------------------------------
(***************************************************************************)
(* A sender, a TCP stream and a receiver.  The sender dumps values and     *)
(* sends the texts (the client with the NUL of its c_str, the server       *)
(* without); TCP hands any part of what is under way to the receiver,      *)
(* which parses that part as one JSON text and looks at a field of it.     *)
(* The receiver is onMessage of the server, a menu of the client, or the   *)
(* client's reader thread.                                                 *)
(***************************************************************************)
EXTENDS JsonParser, JsonSerializer

CONSTANTS
    Value,      \* the values that are sent
    Field,      \* the key of the number the receiver looks at
    Limit,      \* the size of the client's buffer
    MaxTexts,   \* bound: texts sent
    Borders     \* bytes to make strings of that the sender would not dump

ASSUME WireAssumption == Limit \in Nat \ {0} /\ MaxTexts \in Nat

Receiver == {"onMessage", "menu", "readTask"}

VARIABLES
    receiver,   \* the loop that reads
    stream,     \* the bytes that were sent
    sent,       \* history: the texts and their places in the stream
    from, to,   \* the part of the stream that is being parsed; from = to: none
    taken,      \* history: the values that were dispatched, and where their reads began
    over,       \* the receiver's process has ended
    sending     \* the sender's process has not

wireVars == <<receiver, stream, sent, from, to, taken, over, sending>>
wvars == <<wireVars, parserVars>>

WInit ==
    /\ receiver \in Receiver
    /\ stream = <<>> /\ sent = <<>> /\ from = 0 /\ to = 0
    /\ taken = <<>> /\ over = FALSE /\ sending = TRUE
    /\ tokens = <<>> /\ at = 1 /\ part = "failed"
    /\ states = <<>> /\ ref_stack = <<>> /\ object_element = <<>> /\ root = << >>

Terminator == IF receiver = "onMessage" THEN <<0>> ELSE <<>>

\* dump throws for a string that is no UTF-8, and nothing catches that.
\* Other writers than the shipped client may escape what is not ASCII.
SendText(v, ensure_ascii) ==
    /\ sending /\ Len(sent) < MaxTexts
    /\ LET text == Dump(v, ensure_ascii)
           body == Len(stream) + Len(text)
       IN IF text = Refused
          THEN sending' = FALSE /\ UNCHANGED <<stream, sent>>
          ELSE /\ stream' = stream \o text \o Terminator
               /\ sent' = Append(sent, [value |-> v, start |-> Len(stream), body |-> body,
                                        end |-> body + Len(Terminator)])
               /\ UNCHANGED sending
    /\ UNCHANGED <<receiver, from, to, taken, over, parserVars>>

\* retrieveAllAsString takes all that has arrived, recv as much as the buffer
\* holds; the constructor of the parser starts.
Receive ==
    /\ ~over /\ from = to
    /\ to' \in from + 1 .. Len(stream)
    /\ receiver # "onMessage" => to' <= from + Limit
    /\ ParserStarts(Tokens(SubSeq(stream, from + 1, to')))
    /\ UNCHANGED <<receiver, stream, sent, from, taken, over, sending>>

ParserStep == from # to /\ ParserNext /\ UNCHANGED wireVars

\* js["msgid"].get<int>(), or responsejs["errno"].get<int>(): operator[] throws
\* for what is no object, get for what is no number.
Dispatches ==
    /\ root[<<>>].type = "object"
    /\ <<Field>> \in DOMAIN root
    /\ root[<<Field>>].type \in {"value_unsigned", "value_integer", "value_float"}

Dispatch ==
    /\ from # to /\ part = "parsed" /\ Dispatches
    /\ taken' = Append(taken, [at |-> from, value |-> root])
    /\ from' = to
    /\ UNCHANGED <<receiver, stream, sent, to, over, sending, parserVars>>

\* accept returns false in the reader thread, which prints the buffer.
NotAccepted ==
    /\ from # to /\ part = "failed" /\ receiver = "readTask"
    /\ from' = to
    /\ UNCHANGED <<receiver, stream, sent, to, taken, over, sending, parserVars>>

\* The parse_error and the type_error that nothing catches.
Uncaught ==
    /\ from # to
    /\ \/ part = "failed" /\ receiver # "readTask"
       \/ part = "parsed" /\ ~Dispatches
    /\ over' = TRUE /\ from' = to
    /\ UNCHANGED <<receiver, stream, sent, to, taken, sending, parserVars>>

WNext ==
    \/ \E v \in Value, ensure_ascii \in BOOLEAN : SendText(v, ensure_ascii)
    \/ Receive \/ ParserStep \/ Dispatch \/ NotAccepted \/ Uncaught

WSpec == WInit /\ [][WNext]_wvars

-----------------------------------------------------------------------------
\* However TCP cuts and joins the texts, the lexer and the parser come to what
\* Framing says: a request is taken when the read begins with the whole of it,
\* an answer when the read is that answer; no fragment, and no value inside a
\* text, is ever taken for another text, and no other read ends a process
\* (ChatServer.cpp:45-50, main.cpp:112-128 and 295-335).
Lengths == {Len(Dump(v, ensure_ascii)) : v \in Value, ensure_ascii \in BOOLEAN}
F == INSTANCE Framing WITH Length <- Lengths
IsFraming == F!FSpec

\* The lexer lets into a string what the serializer can dump, and nothing else:
\* the handlers dump the strings of a request again, into a reply, a stored or a
\* forwarded message, and the exception for ill-formed UTF-8 would end the
\* server.  The two check UTF-8 with different code, the switch of scan_string
\* and the automaton of decode.  Checked for every string of up to four bytes
\* that are first or last of a range in one of them, at the start of onMessage.
LexerAgreesWithDecode ==
    receiver = "onMessage" /\ stream = <<>> /\ sending =>
    \A str \in UNION {[1 .. n -> Borders] : n \in 1 .. 4} :
        (ScanString(Append(str, Quote), 1, <<>>).type = "value_string") = IsUtf8(str)
=============================================================================
