---------------------------- MODULE FramingProofs ----------------------------
(***************************************************************************)
(* What a receiver takes is what was sent, once and in order, for streams  *)
(* and reads of any number and length.                                     *)
(***************************************************************************)
EXTENDS Framing, Integers, TLAPS

Place == [value : Value, start : Nat, body : Nat, end : Nat]
Taken == [at : Nat, value : Value]

\* Every read that was taken began before the one that is being dealt with.
FInv ==
    /\ sent \in Seq(Place) /\ taken \in Seq(Taken)
    /\ from \in Nat /\ to \in Nat /\ from <= to
    /\ \A i \in DOMAIN taken : taken[i].at < from
    /\ TakenInOrder

LEMMA TakenBefore ==
    ASSUME FInv, NEW i \in DOMAIN taken PROVE taken[i].at \in Nat /\ taken[i].at < from
<1>1. taken \in Seq(Taken) /\ taken[i].at < from
  BY DEF FInv
<1> HIDE DEF Taken
<1>2. taken[i] \in Taken
  BY <1>1
<1>3. QED
  BY <1>1, <1>2 DEF Taken

LEMMA FInitHolds == FInit => FInv
<1> SUFFICES ASSUME FInit PROVE FInv
  OBVIOUS
<1>1. sent = <<>> /\ taken = <<>> /\ from = 0 /\ to = 0
  BY DEF FInit
<1>2. QED
  BY <1>1 DEF FInv, TakenInOrder

LEMMA SendKeeps ==
    ASSUME Length \subseteq Nat, FInv, NEW v \in Value, Send(v)
    PROVE  FInv'
<1> DEFINE new(length) == [value |-> v, start |-> StreamEnd, body |-> StreamEnd + length,
                           end |-> IF receiver = "onMessage" THEN StreamEnd + length + 1
                                   ELSE StreamEnd + length]
<1>1. PICK length \in Length : sent' = Append(sent, new(length))
  BY DEF Send
<1>2. length \in Nat
  OBVIOUS
<1>3. StreamEnd \in Nat
  <2>1. CASE sent = <<>>
    BY <2>1 DEF StreamEnd
  <2>2. CASE sent # <<>>
    <3>1. sent[Len(sent)] \in Place
      BY <2>2 DEF FInv
    <3>2. QED
      BY <2>2, <3>1 DEF StreamEnd, Place
  <2>3. QED
    BY <2>1, <2>2
<1>4. new(length) \in Place
  BY <1>2, <1>3 DEF Place
<1> DEFINE p == new(length)
<1> HIDE DEF new, Place
<1>5. sent' \in Seq(Place) /\ DOMAIN sent \subseteq DOMAIN sent'
      /\ \A j \in DOMAIN sent : sent'[j] = sent[j]
  BY <1>1, <1>4 DEF FInv
<1>6. UNCHANGED <<from, to, taken>>
  BY DEF Send
<1>7. TakenInOrder'
  BY <1>5, <1>6 DEF FInv, TakenInOrder
<1>8. QED
  BY <1>5, <1>6, <1>7 DEF FInv

LEMMA TakeKeeps == ASSUME FInv, Take PROVE FInv'
<1>1. PICK j \in DOMAIN sent : Frames(j) /\ taken' = Append(taken, [at |-> from, value |-> sent[j].value])
  BY DEF Take
<1> DEFINE last == [at |-> from, value |-> sent[j].value]
           n == Len(taken)
<1>2. sent[j] \in Place /\ sent[j].start = from
  BY <1>1 DEF FInv, Frames
<1>3. last \in Taken
  BY <1>2 DEF FInv, Place, Taken
<1>4. last.at = from /\ last.value = sent[j].value /\ taken' = Append(taken, last)
  BY <1>1
<1> HIDE DEF last, Taken, Place
<1>5. n \in Nat /\ taken \in Seq(Taken)
  BY DEF FInv
<1>6. /\ taken' \in Seq(Taken) /\ DOMAIN taken' = 1 .. (n + 1) /\ DOMAIN taken = 1 .. n
      /\ taken'[n + 1] = last /\ \A i \in 1 .. n : taken'[i] = taken[i]
  BY <1>3, <1>4, <1>5
<1>7. from' = to /\ to' = to /\ sent' = sent /\ from < to /\ from \in Nat /\ to \in Nat
  BY DEF Take, FInv
<1>8. \A i \in 1 .. (n + 1) : i \in 1 .. n \/ i = n + 1
  BY <1>5
<1>9. \A i \in 1 .. n : taken[i].at < from /\ taken[i].at \in Nat
  BY <1>6, TakenBefore
<1>10. \A i \in DOMAIN taken' : taken'[i].at < from'
  <2>1. \A i \in 1 .. n : taken'[i].at < to
    BY <1>6, <1>7, <1>9
  <2>2. taken'[n + 1].at < to
    BY <1>4, <1>6, <1>7
  <2>3. QED
    BY <1>6, <1>7, <1>8, <2>1, <2>2
<1>11. TakenInOrder'
  <2>1. \A i \in DOMAIN taken' : \E k \in DOMAIN sent' :
            sent'[k].start = taken'[i].at /\ sent'[k].value = taken'[i].value
    BY <1>2, <1>4, <1>6, <1>7, <1>8 DEF FInv, TakenInOrder
  <2>2. ASSUME NEW i \in 1 .. (n + 1), NEW k \in 1 .. (n + 1), i < k
        PROVE  taken'[i].at < taken'[k].at
    <3>1. i \in 1 .. n
      BY <2>2, <1>5
    <3>2. CASE k = n + 1
      BY <3>1, <3>2, <1>4, <1>6, <1>9
    <3>3. CASE k \in 1 .. n
      BY <2>2, <3>1, <3>3, <1>6 DEF FInv, TakenInOrder
    <3>4. QED
      BY <3>2, <3>3, <1>8
  <2>3. QED
    BY <1>6, <2>1, <2>2 DEF TakenInOrder
<1>12. QED
  BY <1>6, <1>7, <1>10, <1>11 DEF FInv

LEMMA FStepKeeps ==
    ASSUME Length \subseteq Nat
    PROVE  FInv /\ [FNext]_framingVars => FInv'
<1> SUFFICES ASSUME FInv, [FNext]_framingVars PROVE FInv'
  OBVIOUS
<1>1. CASE \E v \in Value : Send(v)
  BY <1>1, SendKeeps
<1>2. CASE Take
  BY <1>2, TakeKeeps
<1>3. CASE Read
  <2>1. UNCHANGED <<sent, from, taken>> /\ to' \in Nat /\ from <= to'
    <3>1. to' \in from + 1 .. StreamEnd /\ UNCHANGED <<sent, from, taken>> /\ from \in Nat
      BY <1>3 DEF Read, FInv
    <3>2. to' \in Int /\ to' >= from + 1
      BY <3>1
    <3>3. QED
      BY <3>1, <3>2
  <2>2. QED
    BY <2>1 DEF FInv, TakenInOrder
<1>4. CASE LeaveOut \/ End
  <2>1. UNCHANGED <<sent, to, taken>> /\ from' = to
    BY <1>4 DEF LeaveOut, End
  <2>2. \A i \in DOMAIN taken : taken[i].at \in Nat /\ taken[i].at < from
    BY TakenBefore
  <2>3. \A i \in DOMAIN taken' : taken'[i].at < from'
    <3>1. from \in Nat /\ to \in Nat /\ from <= to
      BY DEF FInv
    <3>2. QED
      BY <2>1, <2>2, <3>1
  <2>4. TakenInOrder'
    BY <2>1 DEF FInv, TakenInOrder
  <2>5. QED
    BY <2>1, <2>3, <2>4 DEF FInv
<1>5. CASE UNCHANGED framingVars
  BY <1>5 DEF framingVars, FInv, TakenInOrder
<1>6. QED
  BY <1>1, <1>2, <1>3, <1>4, <1>5 DEF FNext

\* Of the texts on a stream a receiver takes some, each once, in the order in
\* which they were sent, wherever the reads begin and end.
THEOREM TakenOnce ==
    ASSUME Length \subseteq Nat
    PROVE  FSpec => []TakenInOrder
<1>1. FInv => TakenInOrder
  BY DEF FInv
<1>2. FInv /\ [FNext]_framingVars => FInv'
  BY FStepKeeps
<1>3. QED
  BY <1>1, <1>2, FInitHolds, PTL DEF FSpec
=============================================================================
