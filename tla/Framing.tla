------------------------------- MODULE Framing -------------------------------
(***************************************************************************)
(* What a receiver makes of a stream of texts, said without any bytes: a   *)
(* text is a length, a read is a part of the stream.  A request ends in a  *)
(* NUL, an answer in nothing.                                              *)
(*   onMessage takes a read that begins with a whole request for that      *)
(*   request, whatever comes behind it; any other read ends the process.   *)
(*   A menu takes a read that is one answer; any other ends the client.    *)
(*   readTaskHandler takes a read that is one answer and leaves out any    *)
(*   other; one that begins inside an answer may end the client.           *)
(* Module Wire shows that the lexer, the parser and the serializer of the  *)
(* JSON library come to this.                                              *)
(***************************************************************************)
EXTENDS Naturals, Sequences

CONSTANTS
    Value,      \* what the texts say
    Length,     \* how long a text may be, in bytes
    Limit       \* the client reads this many bytes at a time

Receiver == {"onMessage", "menu", "readTask"}

VARIABLES
    receiver,   \* the loop that reads
    sent,       \* the texts, each with its place in the stream
    from, to,   \* the part of the stream that was read last and is not dealt with
    taken,      \* what the receiver took, with the place where that read began
    over        \* the receiver's process has ended

framingVars == <<receiver, sent, from, to, taken, over>>

StreamEnd == IF sent = <<>> THEN 0 ELSE sent[Len(sent)].end

FInit ==
    /\ receiver \in Receiver
    /\ sent = <<>> /\ from = 0 /\ to = 0 /\ taken = <<>> /\ over = FALSE

Send(v) ==
    /\ \E length \in Length :
           LET body == StreamEnd + length IN
           sent' = Append(sent, [value |-> v, start |-> StreamEnd, body |-> body,
                                 end |-> IF receiver = "onMessage" THEN body + 1 ELSE body])
    /\ UNCHANGED <<receiver, from, to, taken, over>>

Read ==
    /\ ~over /\ from = to
    /\ to' \in from + 1 .. StreamEnd
    /\ receiver # "onMessage" => to' <= from + Limit
    /\ UNCHANGED <<receiver, sent, from, taken, over>>

\* The read stands for text i.
Frames(i) ==
    /\ sent[i].start = from
    /\ IF receiver = "onMessage" THEN to >= sent[i].body ELSE to = sent[i].body

Framed == \E i \in DOMAIN sent : Frames(i)

Take ==
    /\ from # to
    /\ \E i \in DOMAIN sent :
           Frames(i) /\ taken' = Append(taken, [at |-> from, value |-> sent[i].value])
    /\ from' = to
    /\ UNCHANGED <<receiver, sent, to, over>>

LeaveOut ==
    /\ from # to /\ receiver = "readTask" /\ ~Framed
    /\ from' = to
    /\ UNCHANGED <<receiver, sent, to, taken, over>>

End ==
    /\ from # to /\ ~Framed
    /\ receiver = "readTask" => \A i \in DOMAIN sent : sent[i].start # from
    /\ over' = TRUE /\ from' = to
    /\ UNCHANGED <<receiver, sent, to, taken>>

FNext == (\E v \in Value : Send(v)) \/ Read \/ Take \/ LeaveOut \/ End

FSpec == FInit /\ [][FNext]_framingVars

-----------------------------------------------------------------------------
\* What a receiver has taken is what was sent, each text once and in order,
\* though texts are dropped and cut.
TakenInOrder ==
    /\ \A i \in DOMAIN taken : \E j \in DOMAIN sent :
           sent[j].start = taken[i].at /\ sent[j].value = taken[i].value
    /\ \A i, j \in DOMAIN taken : i < j => taken[i].at < taken[j].at
=============================================================================
