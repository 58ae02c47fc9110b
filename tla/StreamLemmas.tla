---------------------------- MODULE StreamLemmas ----------------------------
(***************************************************************************)
(* What the streams of Client and Lists have in common: a read takes the   *)
(* first n texts of a stream, and a send puts texts behind it.  Which      *)
(* texts of a kind are in a stream, and in which order, is said with sets  *)
(* of texts, so that the lemmas serve every kind.                          *)
(***************************************************************************)
EXTENDS Naturals, Sequences, SequenceTheorems, TLAPS

\* A text of a kind is in the stream; one kind comes before another.
Has(q, A) == \E i \in DOMAIN q : q[i] \in A
Before(q, A, B) == \E i, j \in DOMAIN q : i < j /\ q[i] \in A /\ q[j] \in B

\* A text of a kind is among the first n.
Among(q, n, A) == \E i \in 1 .. n : q[i] \in A

-----------------------------------------------------------------------------
(* Reads.                                                                  *)

LEMMA Remains ==
    ASSUME NEW l \in Nat, NEW n \in 0 .. l
    PROVE  (IF n + 1 <= l THEN l - (n + 1) + 1 ELSE 0) = l - n
OBVIOUS

\* What is left of a stream when a read has taken its first n texts.
LEMMA Dropped ==
    ASSUME NEW S, NEW q \in Seq(S), NEW n \in 0 .. Len(q), NEW r,
           r = SubSeq(q, n + 1, Len(q))
    PROVE  /\ r \in Seq(S) /\ Len(r) = Len(q) - n
           /\ \A i \in DOMAIN r : i + n \in DOMAIN q /\ r[i] = q[i + n]
           /\ \A i \in DOMAIN q : i > n => i - n \in DOMAIN r /\ r[i - n] = q[i]
<1>1. Len(q) \in Nat /\ DOMAIN q = 1 .. Len(q)
  OBVIOUS
<1>2. r \in Seq(S) /\ Len(r) = Len(q) - n
  <2>1. \A i \in n + 1 .. Len(q) : q[i] \in S
    BY <1>1
  <2>2. n + 1 \in Int /\ Len(q) \in Int
    BY <1>1
  <2>3. /\ SubSeq(q, n + 1, Len(q)) \in Seq(S)
        /\ Len(SubSeq(q, n + 1, Len(q))) = IF n + 1 <= Len(q) THEN Len(q) - (n + 1) + 1 ELSE 0
    BY <2>1, <2>2, SubSeqProperties
  <2> QED
    BY <1>1, <2>3, Remains
<1>3. DOMAIN r = 1 .. Len(q) - n
  BY <1>2
<1>4. \A i \in 1 .. Len(q) - n : r[i] = q[i + n]
  BY <1>1
<1>5. \A i \in DOMAIN q : i > n => i - n \in 1 .. Len(q) - n /\ (i - n) + n = i
  BY <1>1
<1>6. \A i \in DOMAIN q : i > n => r[i - n] = q[i]
  BY <1>4, <1>5
<1>7. \A i \in 1 .. Len(q) - n : i + n \in DOMAIN q
  BY <1>1
<1> QED
  BY <1>2, <1>3, <1>4, <1>5, <1>6, <1>7

\* A read changes no order.
LEMMA DropBefore ==
    ASSUME NEW S, NEW q \in Seq(S), NEW n \in 0 .. Len(q), NEW r,
           r = SubSeq(q, n + 1, Len(q)), NEW A, NEW B, Before(r, A, B)
    PROVE  Before(q, A, B)
<1>1. DOMAIN q = 1 .. Len(q) /\ Len(q) \in Nat /\ n \in Nat
  OBVIOUS
<1>2. /\ \A i \in DOMAIN r : i + n \in DOMAIN q /\ r[i] = q[i + n]
      /\ DOMAIN r = 1 .. Len(q) - n
  BY Dropped
<1>3. PICK i \in DOMAIN r, j \in DOMAIN r : i < j /\ r[i] \in A /\ r[j] \in B
  BY DEF Before
<1>4. i + n < j + n
  BY <1>1, <1>2, <1>3
<1> QED
  BY <1>2, <1>3, <1>4 DEF Before

\* A read brings nothing up and takes what is among the
\* first n; what is behind those was behind them before.
LEMMA DropHas ==
    ASSUME NEW S, NEW q \in Seq(S), NEW n \in 0 .. Len(q), NEW r,
           r = SubSeq(q, n + 1, Len(q)), NEW A, NEW B
    PROVE  /\ Has(r, A) => Has(q, A)
           /\ Has(q, A) => Has(r, A) \/ Among(q, n, A)
           /\ Among(q, n, A) => Has(q, A)
           /\ Among(q, n, A) /\ Has(r, B) => Before(q, A, B)
<1>1. DOMAIN q = 1 .. Len(q) /\ Len(q) \in Nat /\ n \in Nat /\ 1 .. n \subseteq DOMAIN q
  OBVIOUS
<1>2. /\ \A i \in DOMAIN r : i + n \in DOMAIN q /\ r[i] = q[i + n]
      /\ \A i \in DOMAIN q : i > n => i - n \in DOMAIN r /\ r[i - n] = q[i]
      /\ DOMAIN r = 1 .. Len(q) - n
  BY Dropped
<1>3. Has(r, A) => Has(q, A)
  BY <1>2 DEF Has
<1>4. ASSUME Has(q, A), ~Among(q, n, A) PROVE Has(r, A)
  <2>1. PICK i \in DOMAIN q : q[i] \in A
    BY <1>4 DEF Has
  <2>2. i > n
    BY <1>1, <1>4, <2>1 DEF Among
  <2> QED
    BY <1>2, <2>1, <2>2 DEF Has
<1>5. Among(q, n, A) => Has(q, A)
  BY <1>1 DEF Among, Has
<1>6. ASSUME Among(q, n, A), Has(r, B) PROVE Before(q, A, B)
  <2>1. PICK i \in 1 .. n : q[i] \in A
    BY <1>6 DEF Among
  <2>2. PICK j \in DOMAIN r : r[j] \in B
    BY <1>6 DEF Has
  <2>3. i < j + n
    BY <1>1, <1>2, <2>1, <2>2
  <2> QED
    BY <1>1, <1>2, <2>1, <2>2, <2>3 DEF Before
<1> QED
  BY <1>3, <1>4, <1>5, <1>6

\* Texts that are in what was read of a stream.
LEMMA ReadHas ==
    ASSUME NEW S, NEW q \in Seq(S), NEW m \in 1 .. 2, NEW n \in 1 .. Len(q), NEW i \in m .. n
    PROVE  \E j \in DOMAIN SubSeq(q, m, n) : SubSeq(q, m, n)[j] = q[i]
<1>1. /\ m \in Int /\ n \in Int /\ i \in Int /\ m <= i /\ i <= n /\ n - m + 1 \in Nat
      /\ (i - m + 1) \in 1 .. n - m + 1 /\ m + (i - m + 1) - 1 = i
  OBVIOUS
<1>2. \A k \in m .. n : q[k] \in S
  OBVIOUS
<1>3. /\ SubSeq(q, m, n) \in Seq(S)
      /\ Len(SubSeq(q, m, n)) = IF m <= n THEN n - m + 1 ELSE 0
      /\ \A k \in 1 .. n - m + 1 : SubSeq(q, m, n)[k] = q[m + k - 1]
  BY <1>1, <1>2, SubSeqProperties
<1>4. DOMAIN SubSeq(q, m, n) = 1 .. Len(SubSeq(q, m, n))
  BY <1>3, LenProperties
<1>5. m <= n
  BY <1>1
<1>6. SubSeq(q, m, n)[i - m + 1] = q[m + (i - m + 1) - 1]
  BY <1>1, <1>3
<1>7. (i - m + 1) \in DOMAIN SubSeq(q, m, n)
  BY <1>1, <1>3, <1>4, <1>5
<1> QED
  BY <1>1, <1>6, <1>7

-----------------------------------------------------------------------------
(* Sends.                                                                  *)

\* A stream with texts put behind it.
LEMMA Joined ==
    ASSUME NEW S, NEW q \in Seq(S), NEW t \in Seq(S), NEW r, r = q \o t
    PROVE  /\ r \in Seq(S) /\ Len(r) = Len(q) + Len(t)
           /\ \A i \in DOMAIN q : i \in DOMAIN r /\ r[i] = q[i]
           /\ \A i \in DOMAIN r : i \in DOMAIN q \/ (i - Len(q) \in DOMAIN t /\ r[i] = t[i - Len(q)])
           /\ \A i \in DOMAIN t : i + Len(q) \in DOMAIN r /\ r[i + Len(q)] = t[i]
<1>1. /\ Len(q) \in Nat /\ DOMAIN q = 1 .. Len(q)
      /\ Len(t) \in Nat /\ DOMAIN t = 1 .. Len(t)
  OBVIOUS
<1>2. r \in Seq(S) /\ Len(r) = Len(q) + Len(t) /\ DOMAIN r = 1 .. Len(q) + Len(t)
  BY <1>1
<1>3. \A i \in DOMAIN q : r[i] = q[i]
  BY <1>1
<1>4. \A i \in DOMAIN r : i > Len(q) => r[i] = t[i - Len(q)]
  BY <1>1, <1>2
<1>5. \A i \in DOMAIN t : i + Len(q) \in DOMAIN r /\ r[i + Len(q)] = t[i]
  <2> SUFFICES ASSUME NEW i \in DOMAIN t
               PROVE  i + Len(q) \in DOMAIN r /\ r[i + Len(q)] = t[i]
    OBVIOUS
  <2>1. i + Len(q) \in DOMAIN r /\ i + Len(q) > Len(q) /\ (i + Len(q)) - Len(q) = i
    BY <1>1, <1>2
  <2> QED
    BY <1>4, <2>1
<1> QED
  BY <1>1, <1>2, <1>3, <1>4, <1>5

LEMMA JoinHas ==
    ASSUME NEW S, NEW q \in Seq(S), NEW t \in Seq(S), NEW r, r = q \o t, NEW A, NEW B
    PROVE  /\ Has(r, A) <=> Has(q, A) \/ Has(t, A)
           /\ Before(r, A, B) <=> \/ Before(q, A, B) \/ Before(t, A, B)
                                  \/ Has(q, A) /\ Has(t, B)
<1>1. /\ Len(q) \in Nat /\ DOMAIN q = 1 .. Len(q)
      /\ Len(t) \in Nat /\ DOMAIN t = 1 .. Len(t)
  OBVIOUS
<1>2. /\ \A i \in DOMAIN q : i \in DOMAIN r /\ r[i] = q[i]
      /\ \A i \in DOMAIN r : i \in DOMAIN q \/ (i - Len(q) \in DOMAIN t /\ r[i] = t[i - Len(q)])
      /\ \A i \in DOMAIN t : i + Len(q) \in DOMAIN r /\ r[i + Len(q)] = t[i]
      /\ DOMAIN r = 1 .. Len(q) + Len(t)
  BY Joined
<1>3. Has(r, A) <=> Has(q, A) \/ Has(t, A)
  BY <1>2 DEF Has
<1>4. ASSUME Before(r, A, B), ~Before(q, A, B), ~Before(t, A, B)
      PROVE  Has(q, A) /\ Has(t, B)
  <2>1. PICK i \in DOMAIN r, j \in DOMAIN r : i < j /\ r[i] \in A /\ r[j] \in B
    BY <1>4 DEF Before
  <2>2. j \notin DOMAIN q
    <3>1. j \in DOMAIN q => i \in DOMAIN q
      BY <1>1, <1>2, <2>1
    <3> QED
      BY <1>2, <1>4, <2>1, <3>1 DEF Before
  <2>3. j - Len(q) \in DOMAIN t /\ r[j] = t[j - Len(q)]
    BY <1>2, <2>2
  <2>4. i \in DOMAIN q
    <3>1. ASSUME i \notin DOMAIN q PROVE FALSE
      <4>1. i - Len(q) \in DOMAIN t /\ r[i] = t[i - Len(q)]
        BY <1>2, <3>1
      <4>2. i - Len(q) < j - Len(q)
        BY <1>1, <1>2, <2>1
      <4> QED
        BY <1>4, <2>1, <2>3, <4>1, <4>2 DEF Before
    <3> QED
      BY <3>1
  <2> QED
    BY <1>2, <2>1, <2>3, <2>4 DEF Has
<1>5. Before(q, A, B) => Before(r, A, B)
  BY <1>2 DEF Before
<1>6. ASSUME Before(t, A, B) PROVE Before(r, A, B)
  <2>1. PICK i \in DOMAIN t, j \in DOMAIN t : i < j /\ t[i] \in A /\ t[j] \in B
    BY <1>6 DEF Before
  <2>2. i + Len(q) < j + Len(q)
    BY <1>1, <2>1
  <2> QED
    BY <1>2, <2>1, <2>2 DEF Before
<1>7. ASSUME Has(q, A), Has(t, B) PROVE Before(r, A, B)
  <2>1. PICK i \in DOMAIN q : q[i] \in A
    BY <1>7 DEF Has
  <2>2. PICK j \in DOMAIN t : t[j] \in B
    BY <1>7 DEF Has
  <2>3. i < j + Len(q)
    BY <1>1, <2>1, <2>2
  <2> QED
    BY <1>2, <2>1, <2>2, <2>3 DEF Before
<1> QED
  BY <1>3, <1>4, <1>5, <1>6, <1>7

LEMMA OneHas ==
    ASSUME NEW text, NEW A, NEW B
    PROVE  /\ Has(<<text>>, A) <=> text \in A
           /\ ~Before(<<text>>, A, B)
BY DEF Has, Before

\* Append is one text put behind a stream.
LEMMA Appended ==
    ASSUME NEW S, NEW q \in Seq(S), NEW text \in S
    PROVE  Append(q, text) = q \o <<text>>
OBVIOUS

=============================================================================
