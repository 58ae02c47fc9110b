---------------------------- MODULE ClientProofs ----------------------------
(***************************************************************************)
(* Proofs about module Client, for any number of users who share the       *)
(* client and streams of any length:                                       *)
(*    ClientTypes      CSpec => []CTypeOK                                  *)
(*    ClientIsServed   CSpec => []LoggedInIsServed                         *)
(*    ServerIsKnown    CSpec => []ServedIsKnown                            *)
(*    TurnsAreTaken    CSpec => []InTurns                                  *)
(* The inductive invariant is CInv.  It says in which menus there is a     *)
(* user (Screen), that a closed connection holds nothing (Fresh), that a   *)
(* login and the success of one name a user (the element sets of the       *)
(* streams in Streams), what is under way before the first login (Turn)    *)
(* and, for each user, that there is at most one thing that entitles the   *)
(* client to a session, and one exactly when the server has the session    *)
(* (Session).                                                              *)
(***************************************************************************)
EXTENDS Client, StreamLemmas, FiniteSetTheorems

-----------------------------------------------------------------------------
(* Streams.                                                                *)

In(stream, text) == Has(stream, {text})
Once(stream, text) == ~Before(stream, {text}, {text})
Taken(stream, n, text) == Among(stream, n, {text})
AnswersIn(texts) == {i \in DOMAIN texts : texts[i].errno # "absent"}

LEMMA OnceMeans ==
    ASSUME NEW S, NEW q \in Seq(S), NEW text
    PROVE  Once(q, text) <=> \A i, j \in DOMAIN q : q[i] = text /\ q[j] = text => i = j
<1>1. \A i, j \in DOMAIN q : i < j \/ j < i \/ i = j
  OBVIOUS
<1>2. \A i \in DOMAIN q : ~(i < i)
  OBVIOUS
<1> QED
  BY <1>1, <1>2 DEF Once, Before

\* A read makes no text come up, and takes away one that is not repeated.
LEMMA DropKeeps ==
    ASSUME NEW S, NEW q \in Seq(S), NEW n \in 0 .. Len(q), NEW r, NEW text,
           r = SubSeq(q, n + 1, Len(q))
    PROVE  /\ In(r, text) => In(q, text)
           /\ Once(q, text) => Once(r, text)
           /\ In(q, text) => In(r, text) \/ Taken(q, n, text)
           /\ Once(q, text) /\ Taken(q, n, text) => ~In(r, text)
BY DropHas, DropBefore DEF In, Once, Taken

\* Texts of another kind put behind a stream.
LEMMA JoinKeeps ==
    ASSUME NEW S, NEW q \in Seq(S), NEW t \in Seq(S), NEW r, NEW text, r = q \o t,
           ~In(t, text)
    PROVE  /\ In(r, text) <=> In(q, text)
           /\ Once(q, text) => Once(r, text)
<1>1. ~Before(t, {text}, {text})
  BY DEF In, Has, Before
<1> QED
  BY <1>1, JoinHas DEF In, Once

\* One text put behind a stream that does not have it yet.
LEMMA JoinAdds ==
    ASSUME NEW S, NEW q \in Seq(S), NEW text \in S, NEW r, r = q \o <<text>>,
           ~In(q, text)
    PROVE  In(r, text) /\ Once(r, text)
<1> DEFINE A == {text}
<1>1. text \in A /\ ~Has(q, A) /\ ~Before(q, A, A)
  BY DEF In, Has, Before
<1>2. In(r, text) <=> Has(r, A)
  BY DEF In
<1>3. Once(r, text) <=> ~Before(r, A, A)
  BY DEF Once
<1> HIDE DEF A
<1>4. <<text>> \in Seq(S)
  OBVIOUS
<1>5. Has(<<text>>, A) /\ ~Before(<<text>>, A, A)
  BY <1>1, OneHas
<1>6. Has(r, A) /\ ~Before(r, A, A)
  BY <1>1, <1>4, <1>5, JoinHas
<1> QED
  BY <1>2, <1>3, <1>6

-----------------------------------------------------------------------------
(* The invariant.                                                          *)

\* A login, and the success of one, name a user.
GoodRequest == {r \in Request : r.msgid = "LOGIN_MSG" => r.id \in User}
GoodText == {t \in Text : t.errno = "ok" /\ t.msgid = "LOGIN_MSG_ACK" => t.id \in User}
Streams == requests \in Seq(GoodRequest) /\ replies \in Seq(GoodText)

Types ==
    /\ menu \in Menu \cup Awaited
    /\ current \in User \cup {NoUser}
    /\ reader \in BOOLEAN
    /\ connected \in BOOLEAN
    /\ serving \in User \cup {NoUser}
    /\ served \subseteq User
    /\ stale \subseteq User
    /\ swallowed \subseteq User

\* The menus of a client nobody is logged in with.
Outside == {"startMenu", "LOGIN_MSG", "REG_MSG", "over"}
Screen ==
    /\ menu \in Outside => current = NoUser
    /\ ~reader => menu \in Outside
    /\ menu = "over" => ~reader

\* Once the server has closed the connection nothing of it is left.
Fresh ==
    ~connected => /\ menu = "over" /\ requests = <<>> /\ replies = <<>>
                  /\ serving = NoUser /\ served = {} /\ swallowed = {}

\* Before the first login one text is under way while the menu waits: the
\* request, the login that is being answered, or the answer.
Ack(msgid) == IF msgid = "LOGIN_MSG" THEN "LOGIN_MSG_ACK" ELSE "REG_MSG_ACK"
NothingAsked ==
    menu = "startMenu" /\ requests = <<>> /\ serving = NoUser /\ AnswersIn(replies) = {}
RequestSent ==
    /\ menu \in {"LOGIN_MSG", "REG_MSG"} /\ serving = NoUser /\ AnswersIn(replies) = {}
    /\ Len(requests) = 1 /\ requests[1].msgid = menu
LoginServed ==
    menu = "LOGIN_MSG" /\ requests = <<>> /\ serving # NoUser /\ AnswersIn(replies) = {}
AnswerSent ==
    /\ menu \in {"LOGIN_MSG", "REG_MSG"} /\ requests = <<>> /\ serving = NoUser
    /\ \E i \in DOMAIN replies :
           AnswersIn(replies) = {i} /\ replies[i].msgid = Ack(menu)
Turn ==
    ~reader /\ menu # "over" => NothingAsked \/ RequestSent \/ LoginServed \/ AnswerSent

\* What Claims says, without the set.
HasClaim(u) ==
    In(replies, LoginOk(u)) \/ In(requests, Logout(u)) \/ serving = u \/ current = u
OneClaim(u) ==
    /\ Once(replies, LoginOk(u)) /\ Once(requests, Logout(u))
    /\ In(replies, LoginOk(u)) => ~In(requests, Logout(u)) /\ serving # u /\ current # u
    /\ In(requests, Logout(u)) => serving # u /\ current # u
    /\ ~(serving = u /\ current = u)
Session(u) ==
    /\ OneClaim(u)
    /\ HasClaim(u) => u \in served
    /\ u \in served \ swallowed => HasClaim(u)
Sessions == menu # "over" => \A u \in User : Session(u)

CInv == Types /\ Streams /\ Screen /\ Fresh /\ Turn /\ Sessions

LEMMA ClaimsCounted ==
    ASSUME Streams, NEW u \in User
    PROVE  /\ Claims(u) # {} <=> HasClaim(u)
           /\ (\A x, y \in Claims(u) : x = y) <=> OneClaim(u)
<1> DEFINE A == {<<"reply", i>> : i \in {j \in DOMAIN replies : replies[j] = LoginOk(u)}}
           B == {<<"request", i>> : i \in {j \in DOMAIN requests : requests[j] = Logout(u)}}
           C == IF serving = u THEN {<<"serving", 0>>} ELSE {}
           D == IF current = u THEN {<<"current", 0>>} ELSE {}
<1>0. /\ Once(replies, LoginOk(u)) <=>
             \A i, j \in DOMAIN replies : replies[i] = LoginOk(u) /\ replies[j] = LoginOk(u) => i = j
      /\ Once(requests, Logout(u)) <=>
             \A i, j \in DOMAIN requests : requests[i] = Logout(u) /\ requests[j] = Logout(u) => i = j
  BY OnceMeans DEF Streams
<1>1. Claims(u) = A \cup B \cup C \cup D
  BY DEF Claims
<1>2. /\ A # {} <=> In(replies, LoginOk(u))
      /\ B # {} <=> In(requests, Logout(u))
      /\ C # {} <=> serving = u
      /\ D # {} <=> current = u
  BY DEF In, Has
<1>3. /\ (\A x, y \in A : x = y) <=> Once(replies, LoginOk(u))
      /\ (\A x, y \in B : x = y) <=> Once(requests, Logout(u))
      /\ \A x, y \in C : x = y
      /\ \A x, y \in D : x = y
  <2>1. /\ \A x \in A : \E i \in DOMAIN replies : x = <<"reply", i>> /\ replies[i] = LoginOk(u)
        /\ \A i \in DOMAIN replies : replies[i] = LoginOk(u) => <<"reply", i>> \in A
    OBVIOUS
  <2>2. /\ \A x \in B : \E i \in DOMAIN requests : x = <<"request", i>> /\ requests[i] = Logout(u)
        /\ \A i \in DOMAIN requests : requests[i] = Logout(u) => <<"request", i>> \in B
    OBVIOUS
  <2>3. /\ \A i, j : <<"reply", i>> = <<"reply", j>> => i = j
        /\ \A i, j : <<"request", i>> = <<"request", j>> => i = j
    OBVIOUS
  <2>4. (\A x, y \in C : x = y) /\ (\A x, y \in D : x = y)
    OBVIOUS
  <2> HIDE DEF A, B, C, D
  <2>5. ASSUME \A x, y \in A : x = y PROVE Once(replies, LoginOk(u))
    <3> SUFFICES ASSUME NEW i \in DOMAIN replies, NEW j \in DOMAIN replies,
                        replies[i] = LoginOk(u), replies[j] = LoginOk(u)
                 PROVE  i = j
      BY <1>0
    <3>1. <<"reply", i>> \in A /\ <<"reply", j>> \in A
      BY <2>1
    <3>2. <<"reply", i>> = <<"reply", j>>
      BY <2>5, <3>1
    <3> QED
      BY <2>3, <3>2
  <2>6. ASSUME \A x, y \in B : x = y PROVE Once(requests, Logout(u))
    <3> SUFFICES ASSUME NEW i \in DOMAIN requests, NEW j \in DOMAIN requests,
                        requests[i] = Logout(u), requests[j] = Logout(u)
                 PROVE  i = j
      BY <1>0
    <3>1. <<"request", i>> \in B /\ <<"request", j>> \in B
      BY <2>2
    <3>2. <<"request", i>> = <<"request", j>>
      BY <2>6, <3>1
    <3> QED
      BY <2>3, <3>2
  <2>7. Once(replies, LoginOk(u)) => \A x, y \in A : x = y
    BY <1>0, <2>1
  <2>8. Once(requests, Logout(u)) => \A x, y \in B : x = y
    BY <1>0, <2>2
  <2> QED
    BY <2>4, <2>5, <2>6, <2>7, <2>8
<1>4. /\ \A x \in A : x[1] = "reply"
      /\ \A x \in B : x[1] = "request"
      /\ \A x \in C : x[1] = "serving"
      /\ \A x \in D : x[1] = "current"
  OBVIOUS
<1> HIDE DEF A, B, C, D
<1>5. (\A x, y \in Claims(u) : x = y) <=>
          /\ \A x, y \in A : x = y
          /\ \A x, y \in B : x = y
          /\ A # {} => B = {} /\ C = {} /\ D = {}
          /\ B # {} => C = {} /\ D = {}
          /\ C = {} \/ D = {}
  <2>1. \A x \in A, y \in B \cup C \cup D : x # y
    BY <1>4
  <2>2. \A x \in B, y \in C \cup D : x # y
    BY <1>4
  <2>3. \A x \in C, y \in D : x # y
    BY <1>4
  <2>4. ASSUME \A x, y \in Claims(u) : x = y
        PROVE  /\ \A x, y \in A : x = y
               /\ \A x, y \in B : x = y
               /\ A # {} => B = {} /\ C = {} /\ D = {}
               /\ B # {} => C = {} /\ D = {}
               /\ C = {} \/ D = {}
    BY <1>1, <2>1, <2>2, <2>3, <2>4
  <2>5. ASSUME /\ \A x, y \in A : x = y
               /\ \A x, y \in B : x = y
               /\ A # {} => B = {} /\ C = {} /\ D = {}
               /\ B # {} => C = {} /\ D = {}
               /\ C = {} \/ D = {},
               NEW x \in Claims(u), NEW y \in Claims(u)
        PROVE  x = y
    BY <1>1, <1>3, <2>5
  <2> QED
    BY <2>4, <2>5
<1>6. Claims(u) # {} <=> A # {} \/ B # {} \/ C # {} \/ D # {}
  BY <1>1
<1> QED
  BY <1>2, <1>3, <1>5, <1>6 DEF HasClaim, OneClaim

-----------------------------------------------------------------------------
(* What a step does to the streams.                                        *)

\* The answers among the replies when others are put behind them.
LEMMA AnswersJoined ==
    ASSUME NEW S, NEW q \in Seq(S), NEW t \in Seq(S), NEW r, r = q \o t,
           AnswersIn(t) = {}
    PROVE  AnswersIn(r) = AnswersIn(q)
<1>1. /\ \A i \in DOMAIN q : i \in DOMAIN r /\ r[i] = q[i]
      /\ \A i \in DOMAIN r : i \in DOMAIN q \/ (i - Len(q) \in DOMAIN t /\ r[i] = t[i - Len(q)])
  BY Joined
<1> QED
  BY <1>1 DEF AnswersIn

LEMMA AnswerJoined ==
    ASSUME NEW S, NEW q \in Seq(S), NEW text \in S, NEW r, r = q \o <<text>>,
           AnswersIn(q) = {}, text.errno # "absent"
    PROVE  /\ Len(q) + 1 \in DOMAIN r
           /\ AnswersIn(r) = {Len(q) + 1} /\ r[Len(q) + 1] = text
<1>1. /\ Len(q) \in Nat /\ DOMAIN q = 1 .. Len(q)
      /\ <<text>> \in Seq(S) /\ Len(<<text>>) = 1
  OBVIOUS
<1>2. /\ r \in Seq(S) /\ Len(r) = Len(q) + 1
      /\ \A i \in DOMAIN q : r[i] = q[i]
  BY <1>1, Joined
<1>3. DOMAIN r = 1 .. Len(q) + 1
  BY <1>1, <1>2
<1>4. r[Len(q) + 1] = text
  BY <1>1
<1>5. \A i \in DOMAIN r : i = Len(q) + 1 \/ i \in DOMAIN q
  BY <1>1, <1>3
<1>6. Len(q) + 1 \in DOMAIN r
  BY <1>1, <1>3
<1>7. \A i \in DOMAIN q : q[i].errno = "absent"
  BY DEF AnswersIn
<1>8. AnswersIn(r) = {Len(q) + 1}
  BY <1>2, <1>4, <1>5, <1>6, <1>7 DEF AnswersIn
<1> QED
  BY <1>4, <1>6, <1>8

\* A request goes behind the others.
LEMMA SendsOne ==
    ASSUME Streams, NEW msgid \in MsgId, NEW id \in User \cup {NoUser},
           msgid = "LOGIN_MSG" => id \in User, Send(msgid, id)
    PROVE  /\ Streams'
           /\ requests' = requests \o <<[msgid |-> msgid, id |-> id]>>
           /\ \A u \in User :
                  IF msgid = "LOGIN_OUT_MSG" /\ id = u
                  THEN ~In(requests, Logout(u)) =>
                           In(requests', Logout(u)) /\ Once(requests', Logout(u))
                  ELSE /\ In(requests', Logout(u)) <=> In(requests, Logout(u))
                       /\ Once(requests, Logout(u)) => Once(requests', Logout(u))
<1> DEFINE r == [msgid |-> msgid, id |-> id]
<1>1. r \in GoodRequest
  BY DEF GoodRequest, Request
<1>2. requests \in Seq(GoodRequest) /\ replies \in Seq(GoodText)
  BY DEF Streams
<1>3. requests' = Append(requests, r) /\ replies' = replies
  BY DEF Send
<1>4. \A u \in User : r = Logout(u) <=> msgid = "LOGIN_OUT_MSG" /\ id = u
  BY DEF Logout
<1>5. requests' = requests \o <<r>>
  BY <1>1, <1>2, <1>3, Appended
<1>6. <<r>> \in Seq(GoodRequest)
  BY <1>1
<1> HIDE DEF r
<1>7. requests' \in Seq(GoodRequest)
  BY <1>2, <1>5, <1>6, Joined
<1>8. ASSUME NEW u \in User, msgid = "LOGIN_OUT_MSG" /\ id = u, ~In(requests, Logout(u))
      PROVE  In(requests', Logout(u)) /\ Once(requests', Logout(u))
  <2>1. r = Logout(u)
    BY <1>4, <1>8
  <2> QED
    BY <1>1, <1>2, <1>5, <1>8, <2>1, JoinAdds
<1>9. ASSUME NEW u \in User, ~(msgid = "LOGIN_OUT_MSG" /\ id = u)
      PROVE  /\ In(requests', Logout(u)) <=> In(requests, Logout(u))
             /\ Once(requests, Logout(u)) => Once(requests', Logout(u))
  <2>1. ~In(<<r>>, Logout(u))
    BY <1>4, <1>9 DEF In, Has
  <2> QED
    BY <1>2, <1>5, <1>6, <2>1, JoinKeeps
<1> QED
  BY <1>2, <1>3, <1>5, <1>7, <1>8, <1>9 DEF Streams, r

\* The server sends texts none of which is the success of a login.
LEMMA SendsTexts ==
    ASSUME Streams, NEW texts \in Seq(GoodText), Sends(texts),
           \A i \in DOMAIN texts : \A u \in User : texts[i] # LoginOk(u)
    PROVE  /\ replies' \in Seq(GoodText)
           /\ \A u \in User : /\ In(replies', LoginOk(u)) <=> In(replies, LoginOk(u))
                              /\ Once(replies, LoginOk(u)) => Once(replies', LoginOk(u))
<1>1. replies \in Seq(GoodText)
  BY DEF Streams
<1>2. CASE replies' = replies
  BY <1>1, <1>2
<1>3. CASE replies' = replies \o texts
  <2>1. replies' \in Seq(GoodText)
    BY <1>1, <1>3, Joined
  <2>2. ASSUME NEW u \in User
        PROVE  /\ In(replies', LoginOk(u)) <=> In(replies, LoginOk(u))
               /\ Once(replies, LoginOk(u)) => Once(replies', LoginOk(u))
    <3>1. ~In(texts, LoginOk(u))
      BY DEF In, Has
    <3> QED
      BY <1>1, <1>3, <3>1, JoinKeeps
  <2> QED
    BY <2>1, <2>2
<1> QED
  BY <1>2, <1>3 DEF Sends

\* A session is kept by a step that changes nothing of it.
LEMMA SessionKept ==
    ASSUME NEW u \in User, Session(u), UNCHANGED <<serving, current, served, swallowed>>,
           In(replies', LoginOk(u)) <=> In(replies, LoginOk(u)),
           Once(replies, LoginOk(u)) => Once(replies', LoginOk(u)),
           In(requests', Logout(u)) <=> In(requests, Logout(u)),
           Once(requests, Logout(u)) => Once(requests', Logout(u))
    PROVE  Session(u)'
BY DEF Session, OneClaim, HasClaim

LEMMA CInvInit == ASSUME CInit PROVE CInv
<1> USE ClientAssumption DEF CInit
<1>1. Types /\ Screen /\ Fresh
  BY DEF Types, Menu, Screen, Fresh, Outside
<1>2. Streams
  BY DEF Streams
<1>3. Turn
  BY DEF Turn, NothingAsked, AnswersIn
<1>4. Sessions
  BY DEF Sessions, Session, OneClaim, HasClaim, In, Has, Once, Before
<1> QED
  BY <1>1, <1>2, <1>3, <1>4 DEF CInv

LEMMA Stutters == ASSUME CInv, UNCHANGED cvars PROVE CInv'
<1> USE DEF cvars, clientVars, streamVars, serverVars
<1>1. Types' /\ Screen' /\ Fresh' /\ Streams' /\ Turn'
  BY DEF CInv, Types, Screen, Fresh, Streams, Turn, NothingAsked, RequestSent, LoginServed,
         AnswerSent, AnswersIn
<1>2. Sessions'
  BY SessionKept DEF CInv, Sessions
<1> QED
  BY <1>1, <1>2 DEF CInv

-----------------------------------------------------------------------------
(* The menu thread sends.                                                  *)

\* A menu that has something to send is one of a client with a connection.
LEMMA StartMenuKeeps == ASSUME CInv, StartMenu PROVE CInv'
<1> USE DEF CInv
<1>1. PICK msgid \in {"LOGIN_MSG", "REG_MSG"} : \E v \in User \cup {NoUser} :
          Send(msgid, v) /\ menu' = msgid /\ (msgid = "LOGIN_MSG" => v \in User)
  BY DEF StartMenu
<1>2. PICK id \in User \cup {NoUser} :
          Send(msgid, id) /\ menu' = msgid /\ (msgid = "LOGIN_MSG" => id \in User)
  BY <1>1
<1>3. msgid \in MsgId
  BY DEF MsgId, Awaited
<1> DEFINE r == [msgid |-> msgid, id |-> id]
<1>4. /\ Streams' /\ requests' = requests \o <<r>>
      /\ \A u \in User : /\ In(requests', Logout(u)) <=> In(requests, Logout(u))
                         /\ Once(requests, Logout(u)) => Once(requests', Logout(u))
  <2>1. msgid # "LOGIN_OUT_MSG"
    OBVIOUS
  <2> QED
    BY <1>2, <1>3, <2>1, SendsOne
<1>5. menu = "startMenu" /\ connected
  BY <1>2 DEF StartMenu, Send
<1>6. UNCHANGED <<current, reader, replies, connected, serving, served, stale, swallowed>>
  BY <1>2 DEF StartMenu, Send, serverVars
<1>7. Types' /\ Screen' /\ Fresh'
  BY <1>2, <1>5, <1>6 DEF Types, Screen, Fresh, Awaited, Outside
<1>8. Turn'
  <2> SUFFICES ASSUME ~reader PROVE RequestSent'
    BY <1>6 DEF Turn
  <2>1. requests = <<>> /\ serving = NoUser /\ AnswersIn(replies) = {}
    BY <1>5 DEF Turn, NothingAsked, RequestSent, LoginServed, AnswerSent
  <2>2. requests' = <<r>>
    BY <1>4, <2>1
  <2>3. Len(requests') = 1 /\ requests'[1].msgid = msgid
    BY <2>2
  <2>4. AnswersIn(replies') = {}
    BY <1>6, <2>1
  <2> QED
    BY <1>2, <1>6, <2>1, <2>3, <2>4 DEF RequestSent
<1>9. Sessions'
  <2> SUFFICES ASSUME NEW u \in User PROVE Session(u)'
    BY DEF Sessions
  <2>1. Session(u)
    BY <1>5 DEF Sessions
  <2> QED
    BY <1>4, <1>6, <2>1, SessionKept
<1> QED
  BY <1>4, <1>7, <1>8, <1>9

\* Requests of a client with a user; no turns are to be taken any more.
LEMMA InsideSendKeeps ==
    ASSUME CInv, menu \notin Outside, menu' \in (Menu \cup Awaited) \ Outside,
           UNCHANGED <<current, reader>>,
           \/ \E msgid \in MsgId \ {"LOGIN_MSG", "LOGIN_OUT_MSG"} : Send(msgid, NoUser)
           \/ UNCHANGED <<streamVars, serverVars, swallowed>>
    PROVE  CInv'
<1> USE DEF CInv
<1>1. /\ Streams'
      /\ \A u \in User : /\ In(requests', Logout(u)) <=> In(requests, Logout(u))
                         /\ Once(requests, Logout(u)) => Once(requests', Logout(u))
  <2>1. CASE \E msgid \in MsgId \ {"LOGIN_MSG", "LOGIN_OUT_MSG"} : Send(msgid, NoUser)
    BY <2>1, SendsOne
  <2>2. CASE UNCHANGED <<streamVars, serverVars, swallowed>>
    BY <2>2 DEF streamVars, Streams
  <2> QED
    BY <2>1, <2>2
<1>2. UNCHANGED <<replies, connected, serving, served, stale, swallowed>>
  BY DEF Send, streamVars, serverVars
<1>3. reader /\ reader' /\ menu # "over" /\ connected
  BY DEF Screen, Outside, Fresh, Types
<1>4. Types' /\ Screen' /\ Fresh' /\ Turn'
  BY <1>2, <1>3 DEF Types, Screen, Fresh, Turn, Outside
<1>5. Sessions'
  BY <1>1, <1>2, <1>3, SessionKept DEF Sessions
<1> QED
  BY <1>1, <1>4, <1>5

LEMMA AskKeeps == ASSUME CInv, Ask \/ Chat \/ Join PROVE CInv'
<1>1. CASE Ask
  <2>1. PICK msgid \in {"ADD_FRIEND_MSG", "CREATE_GROUP_MSG", "SEARCH_GROUP_DATA_MSG"} :
            Send(msgid, NoUser) /\ menu' = msgid
    BY <1>1 DEF Ask, Awaited
  <2>2. menu \in {"mainMenu", "createGroup", "addGroup"}
    BY <1>1 DEF Ask
  <2>3. UNCHANGED <<current, reader>>
    BY <1>1 DEF Ask
  <2>4. msgid \in MsgId \ {"LOGIN_MSG", "LOGIN_OUT_MSG"}
    BY DEF MsgId, Awaited
  <2>5. menu \notin Outside /\ menu' \in (Menu \cup Awaited) \ Outside
    BY <2>1, <2>2 DEF Outside, Awaited
  <2> QED
    BY <2>1, <2>3, <2>4, <2>5, InsideSendKeeps
<1>2. CASE Chat
  <2>1. menu = "mainMenu" /\ UNCHANGED <<menu, current, reader>>
    BY <1>2 DEF Chat, clientVars
  <2>2. Send("ONE_CHAT_MSG", NoUser) \/ Send("GROUP_CHAT_MSG", NoUser)
    BY <1>2 DEF Chat
  <2>3. {"ONE_CHAT_MSG", "GROUP_CHAT_MSG"} \subseteq MsgId \ {"LOGIN_MSG", "LOGIN_OUT_MSG"}
    BY DEF MsgId, Awaited
  <2>4. menu \notin Outside /\ menu' \in (Menu \cup Awaited) \ Outside
    BY <2>1 DEF Outside, Menu
  <2> QED
    BY <2>1, <2>2, <2>3, <2>4, InsideSendKeeps
<1>3. CASE Join
  <2>1. menu = "join" /\ menu' = "mainMenu" /\ UNCHANGED <<current, reader>>
    BY <1>3 DEF Join
  <2>2. Send("ADD_GROUP_MSG", NoUser) \/ UNCHANGED <<streamVars, serverVars, swallowed>>
    BY <1>3 DEF Join
  <2>3. "ADD_GROUP_MSG" \in MsgId \ {"LOGIN_MSG", "LOGIN_OUT_MSG"}
    BY DEF MsgId, Awaited
  <2>4. menu \notin Outside /\ menu' \in (Menu \cup Awaited) \ Outside
    BY <2>1 DEF Outside, Menu
  <2> QED
    BY <2>1, <2>2, <2>3, <2>4, InsideSendKeeps
<1> QED
  BY <1>1, <1>2, <1>3

\* The claim of the client moves from current_User to the logout.
LEMMA LoginoutKeeps == ASSUME CInv, Loginout PROVE CInv'
<1> USE DEF CInv
<1>1. /\ menu = "mainMenu" /\ menu' = "startMenu" /\ current' = NoUser
      /\ Send("LOGIN_OUT_MSG", current) /\ reader' = reader
  BY DEF Loginout
<1>2. UNCHANGED <<replies, connected, serving, served, stale, swallowed>> /\ connected
  BY <1>1 DEF Send, serverVars
<1>3. reader
  BY <1>1 DEF Screen, Outside, Types
<1>4. "LOGIN_OUT_MSG" \in MsgId /\ current \in User \cup {NoUser}
  BY DEF MsgId, Types
<1>5. /\ Streams'
      /\ \A u \in User :
             IF current = u
             THEN ~In(requests, Logout(u)) =>
                      In(requests', Logout(u)) /\ Once(requests', Logout(u))
             ELSE /\ In(requests', Logout(u)) <=> In(requests, Logout(u))
                  /\ Once(requests, Logout(u)) => Once(requests', Logout(u))
  BY <1>1, <1>4, SendsOne
<1>6. Types' /\ Screen' /\ Fresh' /\ Turn'
  BY <1>1, <1>2, <1>3 DEF Types, Menu, Screen, Fresh, Turn
<1>7. Sessions'
  <2> SUFFICES ASSUME NEW u \in User PROVE Session(u)'
    BY DEF Sessions
  <2>1. Session(u) /\ u # NoUser
    BY <1>1, ClientAssumption DEF Sessions
  <2>2. CASE current = u
    <3>1. ~In(requests, Logout(u)) /\ ~In(replies, LoginOk(u)) /\ serving # u /\ u \in served
      BY <2>1, <2>2 DEF Session, OneClaim, HasClaim
    <3> QED
      BY <1>1, <1>2, <1>5, <2>1, <2>2, <3>1 DEF Session, OneClaim, HasClaim
  <2>3. CASE current # u
    BY <1>1, <1>2, <1>5, <2>1, <2>3 DEF Session, OneClaim, HasClaim
  <2> QED
    BY <2>2, <2>3
<1> QED
  BY <1>5, <1>6, <1>7

-----------------------------------------------------------------------------
(* The client ends or receives.                                            *)

LEMMA EndsKeeps ==
    ASSUME CInv, Ends, connected, Streams', UNCHANGED <<serverVars, swallowed>>
    PROVE  CInv'
<1>1. menu' = "over" /\ current' = NoUser /\ reader' = FALSE
  BY DEF Ends
<1>2. UNCHANGED <<connected, serving, served, stale, swallowed>>
  BY DEF serverVars
<1>3. Types'
  BY <1>1, <1>2 DEF CInv, Types, Menu
<1>4. Screen' /\ Fresh' /\ Turn' /\ Sessions'
  BY <1>1, <1>2 DEF Screen, Outside, Fresh, Turn, Sessions
<1> QED
  BY <1>3, <1>4 DEF CInv

LEMMA ClientEndsKeeps == ASSUME CInv, ClientEnds PROVE CInv'
<1>1. connected
  BY DEF CInv, Fresh, ClientEnds
<1>2. Streams'
  BY DEF CInv, Streams, ClientEnds, streamVars
<1> QED
  BY <1>1, <1>2, EndsKeeps DEF ClientEnds

\* What a read of n texts leaves.
LEMMA RepliesRead ==
    ASSUME Streams, NEW n \in 1 .. Len(replies), UNCHANGED requests,
           replies' = SubSeq(replies, n + 1, Len(replies))
    PROVE  /\ Streams'
           /\ replies[1] \in GoodText /\ 1 \in DOMAIN replies
           /\ \A u \in User :
                  /\ In(replies', LoginOk(u)) => In(replies, LoginOk(u))
                  /\ Once(replies, LoginOk(u)) => Once(replies', LoginOk(u))
                  /\ In(replies, LoginOk(u)) =>
                         In(replies', LoginOk(u)) \/ Taken(replies, n, LoginOk(u))
                  /\ Once(replies, LoginOk(u)) /\ Taken(replies, n, LoginOk(u)) =>
                         ~In(replies', LoginOk(u))
<1>1. replies \in Seq(GoodText) /\ n \in 0 .. Len(replies) /\ 1 \in 1 .. Len(replies)
  BY DEF Streams
<1>2. replies[1] \in GoodText /\ 1 \in DOMAIN replies
  BY <1>1
<1>3. replies' \in Seq(GoodText)
  BY <1>1, Dropped
<1>4. ASSUME NEW u \in User
      PROVE  /\ In(replies', LoginOk(u)) => In(replies, LoginOk(u))
             /\ Once(replies, LoginOk(u)) => Once(replies', LoginOk(u))
             /\ In(replies, LoginOk(u)) =>
                    In(replies', LoginOk(u)) \/ Taken(replies, n, LoginOk(u))
             /\ Once(replies, LoginOk(u)) /\ Taken(replies, n, LoginOk(u)) =>
                    ~In(replies', LoginOk(u))
  BY <1>1, DropKeeps
<1> QED
  BY <1>2, <1>3, <1>4 DEF Streams

\* The only answer under way is the one that is read.
LEMMA AnswerRead ==
    ASSUME Streams, replies # <<>>, replies[1].errno # "absent",
           replies' = SubSeq(replies, 2, Len(replies)),
           NEW i \in DOMAIN replies, AnswersIn(replies) = {i}
    PROVE  i = 1 /\ AnswersIn(replies') = {}
<1>1. /\ replies \in Seq(GoodText) /\ 1 \in 0 .. Len(replies) /\ 1 \in DOMAIN replies
      /\ replies' = SubSeq(replies, 1 + 1, Len(replies)) /\ 1 + 1 = 2
  BY DEF Streams
<1>2. i = 1
  BY <1>1 DEF AnswersIn
<1>3. /\ replies' \in Seq(GoodText)
      /\ \A j \in DOMAIN replies' : j + 1 \in DOMAIN replies /\ replies'[j] = replies[j + 1]
  BY <1>1, Dropped
<1>4. \A j \in DOMAIN replies' : j + 1 # 1
  BY <1>3
<1>5. \A j \in DOMAIN replies' : replies'[j].errno = "absent"
  BY <1>2, <1>3, <1>4 DEF AnswersIn
<1> QED
  BY <1>2, <1>5 DEF AnswersIn

\* The successes a text may be the answer of a login for.
LEMMA LoginText ==
    ASSUME NEW text \in GoodText, text.errno = "ok", text.msgid = "LOGIN_MSG_ACK"
    PROVE  text.id \in User /\ text = LoginOk(text.id)
BY DEF GoodText, Text, LoginOk

LEMMA LoggedInByOne ==
    ASSUME NEW text, NEW u \in User
    PROVE  u \in LoggedInBy(<<text>>) <=> text = LoginOk(u)
BY DEF LoggedInBy

\* A text taken for an answer that ends no turn but that of the call.
LEMMA MenuReceivesKeeps == ASSUME CInv, MenuReceives PROVE CInv'
<1> USE DEF CInv
<1>1. PICK n \in 1 .. Len(replies) :
          /\ replies' = SubSeq(replies, n + 1, Len(replies))
          /\ IF n = 1
             THEN TakesRefusal(replies[1]) \/ TakesSuccess(replies[1]) \/ Throws(replies[1])
             ELSE Ends /\ UNCHANGED swallowed
  BY DEF MenuReceives
<1>2. /\ menu \in Awaited /\ UNCHANGED <<requests, connected, serving, served, stale>>
      /\ UNCHANGED serverVars
  BY DEF MenuReceives, serverVars
<1>3. menu # "over" /\ connected
  BY <1>2 DEF Awaited, Fresh
<1>4. /\ Streams' /\ replies[1] \in GoodText /\ 1 \in DOMAIN replies
      /\ \A u \in User :
             /\ In(replies', LoginOk(u)) => In(replies, LoginOk(u))
             /\ Once(replies, LoginOk(u)) => Once(replies', LoginOk(u))
             /\ In(replies, LoginOk(u)) =>
                    In(replies', LoginOk(u)) \/ Taken(replies, n, LoginOk(u))
             /\ Once(replies, LoginOk(u)) /\ Taken(replies, n, LoginOk(u)) =>
                    ~In(replies', LoginOk(u))
  BY <1>1, <1>2, RepliesRead
<1> DEFINE text == replies[1]
<1>5. CASE Ends /\ UNCHANGED swallowed
  BY <1>2, <1>3, <1>4, <1>5, EndsKeeps
\* Whichever way the text is taken, the turn of the call is over.
<1>6. ASSUME n = 1, text.errno # "absent", reader' = reader, ~reader
      PROVE  /\ menu \in {"LOGIN_MSG", "REG_MSG"}
             /\ requests' = <<>> /\ serving' = NoUser /\ AnswersIn(replies') = {}
             /\ text.msgid = Ack(menu)
  <2>1. 1 \in AnswersIn(replies)
    BY <1>4, <1>6 DEF AnswersIn
  <2>2. AnswerSent
    BY <1>2, <1>3, <1>6, <2>1
       DEF Turn, NothingAsked, RequestSent, LoginServed, AnswerSent
  <2>3. PICK i \in DOMAIN replies : AnswersIn(replies) = {i} /\ replies[i].msgid = Ack(menu)
    BY <2>2 DEF AnswerSent
  <2>4. i = 1 /\ AnswersIn(replies') = {}
    <3>1. replies # <<>> /\ replies' = SubSeq(replies, 2, Len(replies))
      BY <1>1, <1>4, <1>6
    <3> QED
      BY <1>6, <2>3, <3>1, AnswerRead
  <2> QED
    BY <1>2, <2>2, <2>3, <2>4 DEF AnswerSent
<1>7. ASSUME n = 1, TakesRefusal(text) PROVE CInv'
  <2>1. /\ text.errno = "refused" /\ menu' = AfterRefusal(menu)
        /\ UNCHANGED <<current, reader, swallowed>>
    BY <1>7 DEF TakesRefusal
  <2>2. /\ menu \in {"LOGIN_MSG", "REG_MSG"} => menu' = "startMenu"
        /\ menu \notin {"LOGIN_MSG", "REG_MSG"} =>
               menu \notin Outside /\ menu' \in Menu \ Outside
    BY <1>2, <2>1 DEF AfterRefusal, Awaited, Menu, Outside
  <2>3. Types' /\ Screen' /\ Fresh'
    BY <1>2, <1>3, <2>1, <2>2 DEF Types, Screen, Fresh, Menu, Outside
  <2>4. Turn'
    <3> SUFFICES ASSUME ~reader PROVE NothingAsked'
      BY <2>1 DEF Turn
    <3> QED
      BY <1>6, <1>7, <2>1, <2>2 DEF NothingAsked
  <2>5. Sessions'
    <3> SUFFICES ASSUME NEW u \in User PROVE Session(u)'
      BY DEF Sessions
    <3>1. text # LoginOk(u)
      BY <2>1 DEF LoginOk
    <3>2. ~Taken(replies, n, LoginOk(u))
      BY <1>7, <3>1 DEF Taken, Among
    <3>3. Session(u)
      BY <1>3 DEF Sessions
    <3>4. In(replies', LoginOk(u)) <=> In(replies, LoginOk(u))
      BY <1>4, <3>2
    <3> QED
      BY <1>2, <1>4, <2>1, <3>3, <3>4, SessionKept
  <2> QED
    BY <1>4, <2>3, <2>4, <2>5
<1>8. ASSUME n = 1, TakesSuccess(text), menu = "LOGIN_MSG" PROVE CInv'
  <2>1. /\ text.errno = "ok" /\ text.msgid = "LOGIN_MSG_ACK" /\ menu' = "mainMenu"
        /\ current' = text.id /\ reader' = TRUE /\ UNCHANGED swallowed
    BY <1>8 DEF TakesSuccess, HasFields, AfterSuccess
  <2>2. text.id \in User /\ text = LoginOk(text.id)
    BY <1>4, <2>1, LoginText
  <2>3. Types' /\ Screen' /\ Fresh' /\ Turn'
    BY <1>2, <1>3, <2>1, <2>2 DEF Types, Screen, Fresh, Turn, Menu, Outside
  <2>4. Sessions'
    <3> SUFFICES ASSUME NEW u \in User PROVE Session(u)'
      BY DEF Sessions
    <3>1. Session(u) /\ u # NoUser /\ current = NoUser
      BY <1>3, <1>8, ClientAssumption DEF Sessions, Screen, Outside
    <3>2. CASE text.id = u
      <4>1. In(replies, LoginOk(u)) /\ ~In(replies', LoginOk(u))
        BY <1>1, <1>4, <1>8, <2>2, <3>1, <3>2 DEF Session, OneClaim, In, Has, Taken, Among
      <4> QED
        BY <1>2, <1>4, <2>1, <3>1, <3>2, <4>1 DEF Session, OneClaim, HasClaim
    <3>3. CASE text.id # u
      <4>1. text # LoginOk(u)
        BY <3>3 DEF LoginOk
      <4>2. In(replies', LoginOk(u)) <=> In(replies, LoginOk(u))
        BY <1>4, <1>8, <4>1 DEF Taken, Among
      <4> QED
        BY <1>2, <1>4, <2>1, <3>1, <3>3, <4>2 DEF Session, OneClaim, HasClaim
    <3> QED
      BY <3>2, <3>3
  <2> QED
    BY <1>4, <2>3, <2>4
<1>9. ASSUME n = 1, TakesSuccess(text), menu # "LOGIN_MSG" PROVE CInv'
  <2>1. /\ text.errno = "ok" /\ menu' = AfterSuccess(menu)
        /\ UNCHANGED <<current, reader>>
        /\ swallowed' = swallowed \cup LoggedInBy(<<text>>)
    BY <1>9 DEF TakesSuccess
  <2>2. /\ menu = "REG_MSG" => menu' = "startMenu"
        /\ menu # "REG_MSG" => menu \notin Outside /\ menu' \in Menu \ Outside
    BY <1>2, <1>9, <2>1 DEF AfterSuccess, Awaited, Menu, Outside
  <2>3. LoggedInBy(<<text>>) \subseteq User
    BY DEF LoggedInBy
  <2>4. Types' /\ Screen' /\ Fresh'
    BY <1>2, <1>3, <2>1, <2>2, <2>3 DEF Types, Screen, Fresh, Menu, Outside
  <2>5. Turn'
    <3> SUFFICES ASSUME ~reader PROVE NothingAsked'
      BY <2>1 DEF Turn
    <3> QED
      BY <1>6, <1>9, <2>1, <2>2 DEF NothingAsked
  <2>6. Sessions'
    <3> SUFFICES ASSUME NEW u \in User PROVE Session(u)'
      BY DEF Sessions
    <3>1. Session(u)
      BY <1>3 DEF Sessions
    <3>2. \/ u \in swallowed'
          \/ In(replies, LoginOk(u)) => In(replies', LoginOk(u))
      <4>1. text = LoginOk(u) => u \in swallowed'
        BY <2>1, LoggedInByOne
      <4>2. text # LoginOk(u) => ~Taken(replies, n, LoginOk(u))
        BY <1>9 DEF Taken, Among
      <4> QED
        BY <1>4, <4>1, <4>2
    <3>3. swallowed \subseteq swallowed'
      BY <2>1
    <3> QED
      BY <1>2, <1>4, <2>1, <3>1, <3>2, <3>3 DEF Session, OneClaim, HasClaim
  <2> QED
    BY <1>4, <2>4, <2>5, <2>6
<1> QED
  BY <1>1, <1>5, <1>7, <1>8, <1>9 DEF Throws

LEMMA ReaderReceivesKeeps == ASSUME CInv, ReaderReceives PROVE CInv'
<1> USE DEF CInv
<1>1. PICK n \in 1 .. Len(replies) :
          /\ replies' = SubSeq(replies, n + 1, Len(replies))
          /\ swallowed' = swallowed \cup LoggedInBy(SubSeq(replies, 1, n))
  BY DEF ReaderReceives
<1>2. /\ reader /\ UNCHANGED <<menu, current, reader, requests, connected, serving, served, stale>>
  BY DEF ReaderReceives, clientVars, serverVars
<1>3. menu # "over" /\ connected
  BY <1>2 DEF Screen, Fresh
<1>4. /\ Streams'
      /\ \A u \in User :
             /\ In(replies', LoginOk(u)) => In(replies, LoginOk(u))
             /\ Once(replies, LoginOk(u)) => Once(replies', LoginOk(u))
             /\ In(replies, LoginOk(u)) =>
                    In(replies', LoginOk(u)) \/ Taken(replies, n, LoginOk(u))
  BY <1>1, <1>2, RepliesRead
<1>5. LoggedInBy(SubSeq(replies, 1, n)) \subseteq User
  BY DEF LoggedInBy
<1>6. Types' /\ Screen' /\ Fresh' /\ Turn'
  BY <1>1, <1>2, <1>3, <1>5 DEF Types, Screen, Fresh, Turn
<1>7. Sessions'
  <2> SUFFICES ASSUME NEW u \in User PROVE Session(u)'
    BY DEF Sessions
  <2>1. Session(u)
    BY <1>3 DEF Sessions
  <2>2. ASSUME NEW i \in 1 .. n, replies[i] = LoginOk(u)
        PROVE  u \in swallowed'
    <3>1. replies \in Seq(GoodText) /\ 1 \in 1 .. 2
      BY DEF Streams
    <3>2. \E j \in DOMAIN SubSeq(replies, 1, n) : SubSeq(replies, 1, n)[j] = replies[i]
      BY <3>1, ReadHas
    <3> QED
      BY <1>1, <2>2, <3>2 DEF LoggedInBy
  <2>3. swallowed \subseteq swallowed'
    BY <1>1
  <2> QED
    BY <1>2, <1>4, <2>1, <2>2, <2>3 DEF Session, OneClaim, HasClaim, Taken, Among
<1> QED
  BY <1>4, <1>6, <1>7

-----------------------------------------------------------------------------
(* The server.                                                             *)

\* What the server sends back to a request without a session, and what it
\* pushes, is never the success of a login.
LEMMA AnswersAreTexts ==
    ASSUME NEW msgid \in MsgId \ {"LOGIN_MSG", "LOGIN_OUT_MSG"}, NEW texts \in Answers(msgid)
    PROVE  /\ texts \in Seq(GoodText)
           /\ \A i \in DOMAIN texts : \A u \in User : texts[i] # LoginOk(u)
<1> DEFINE Plain == {Answer(m, e) : m \in (MsgId \cup {"REG_MSG_ACK"}), e \in {"ok", "refused"}}
<1>1. \A text \in Plain : text \in GoodText /\ \A u \in User : text # LoginOk(u)
  BY DEF Answer, GoodText, Text, LoginOk, MsgId, Awaited
<1>2. texts \in {<<>>} \cup {<<a>> : a \in Plain} \cup {<<a, b>> : a \in Plain, b \in Plain}
  <2>1. msgid \in {"REG_MSG", "ADD_FRIEND_MSG", "CREATE_GROUP_MSG", "SEARCH_GROUP_DATA_MSG",
                   "ADD_GROUP_MSG", "ONE_CHAT_MSG", "GROUP_CHAT_MSG"}
    BY DEF MsgId, Awaited
  <2>2. /\ \A e \in {"ok", "refused"} : Answer("REG_MSG_ACK", e) \in Plain
        /\ \A e \in {"ok", "refused"} : Answer(msgid, e) \in Plain
    OBVIOUS
  <2> HIDE DEF Plain
  <2>3. CASE msgid = "REG_MSG"
    BY <2>2, <2>3 DEF Answers
  <2>4. CASE msgid \in {"ADD_FRIEND_MSG", "CREATE_GROUP_MSG"}
    BY <2>2, <2>4 DEF Answers
  <2>5. CASE msgid = "SEARCH_GROUP_DATA_MSG"
    BY <2>2, <2>5 DEF Answers
  <2>6. CASE msgid = "ADD_GROUP_MSG"
    BY <2>2, <2>6 DEF Answers
  <2>7. CASE msgid \in {"ONE_CHAT_MSG", "GROUP_CHAT_MSG"}
    BY <2>2, <2>7 DEF Answers
  <2> QED
    BY <2>1, <2>3, <2>4, <2>5, <2>6, <2>7
<1> HIDE DEF Plain
<1>3. CASE texts = <<>>
  BY <1>3
<1>4. ASSUME NEW a \in Plain, texts = <<a>>
      PROVE  /\ texts \in Seq(GoodText)
             /\ \A i \in DOMAIN texts : \A u \in User : texts[i] # LoginOk(u)
  BY <1>1, <1>4
<1>5. ASSUME NEW a \in Plain, NEW b \in Plain, texts = <<a, b>>
      PROVE  /\ texts \in Seq(GoodText)
             /\ \A i \in DOMAIN texts : \A u \in User : texts[i] # LoginOk(u)
  BY <1>1, <1>5
<1> QED
  BY <1>2, <1>3, <1>4, <1>5

\* What a read of n requests leaves: of the logouts in it only the first
\* request is handled, the others are swallowed.
LEMMA RequestsRead ==
    ASSUME Streams, NEW n \in 1 .. Len(requests),
           requests' = SubSeq(requests, n + 1, Len(requests))
    PROVE  /\ requests' \in Seq(GoodRequest)
           /\ Head(requests) \in GoodRequest /\ Head(requests) = requests[1]
           /\ Len(requests) = 1 => requests' = <<>>
           /\ \A u \in User :
                  /\ In(requests', Logout(u)) => In(requests, Logout(u))
                  /\ Once(requests, Logout(u)) => Once(requests', Logout(u))
                  /\ In(requests, Logout(u)) =>
                         \/ In(requests', Logout(u))
                         \/ Head(requests) = Logout(u)
                         \/ u \in LoggedOutBy(SubSeq(requests, 2, n))
                  /\ Once(requests, Logout(u)) /\ Head(requests) = Logout(u) =>
                         ~In(requests', Logout(u))
<1>1. requests \in Seq(GoodRequest) /\ n \in 0 .. Len(requests) /\ 1 \in 1 .. Len(requests)
  BY DEF Streams
<1>2. Head(requests) \in GoodRequest /\ Head(requests) = requests[1]
  BY <1>1
<1>3. requests' \in Seq(GoodRequest) /\ Len(requests') = Len(requests) - n
  BY <1>1, Dropped
<1>4. Len(requests) = 1 => requests' = <<>>
  <2> SUFFICES ASSUME Len(requests) = 1 PROVE requests' = <<>>
    OBVIOUS
  <2>1. n = 1
    OBVIOUS
  <2>2. Len(requests') = 0
    BY <1>3, <2>1
  <2> QED
    BY <1>3, <2>2, EmptySeq
<1>5. ASSUME NEW u \in User
      PROVE  /\ In(requests', Logout(u)) => In(requests, Logout(u))
             /\ Once(requests, Logout(u)) => Once(requests', Logout(u))
             /\ In(requests, Logout(u)) => In(requests', Logout(u)) \/ Taken(requests, n, Logout(u))
             /\ Once(requests, Logout(u)) /\ Taken(requests, n, Logout(u)) =>
                    ~In(requests', Logout(u))
  BY <1>1, DropKeeps
<1>6. ASSUME NEW u \in User, NEW i \in 1 .. n, requests[i] = Logout(u), i # 1
      PROVE  u \in LoggedOutBy(SubSeq(requests, 2, n))
  <2>1. i \in 2 .. n /\ 2 \in 1 .. 2
    BY <1>6
  <2>2. \E j \in DOMAIN SubSeq(requests, 2, n) : SubSeq(requests, 2, n)[j] = requests[i]
    BY <1>1, <2>1, ReadHas
  <2> QED
    BY <1>6, <2>2 DEF LoggedOutBy
<1>7. \A u \in User : Taken(requests, n, Logout(u)) =>
          Head(requests) = Logout(u) \/ u \in LoggedOutBy(SubSeq(requests, 2, n))
  BY <1>2, <1>6 DEF Taken, Among
<1>8. 1 \in 1 .. n
  OBVIOUS
<1>9. \A u \in User : Head(requests) = Logout(u) => Taken(requests, n, Logout(u))
  BY <1>2, <1>8 DEF Taken, Among
<1> QED
  BY <1>2, <1>3, <1>4, <1>5, <1>7, <1>9

\* A request handled without a login or a logout of u.
LEMMA SessionRead ==
    ASSUME NEW u \in User, Session(u), serving = NoUser, UNCHANGED current,
           swallowed \subseteq swallowed', serving' # u,
           u \in served' <=> u \in served,
           In(requests', Logout(u)) => In(requests, Logout(u)),
           Once(requests, Logout(u)) => Once(requests', Logout(u)),
           In(requests, Logout(u)) => In(requests', Logout(u)) \/ u \in swallowed',
           In(replies', LoginOk(u)) <=> In(replies, LoginOk(u)),
           Once(replies, LoginOk(u)) => Once(replies', LoginOk(u))
    PROVE  Session(u)'
<1>1. u # NoUser
  BY ClientAssumption
<1> QED
  BY <1>1 DEF Session, OneClaim, HasClaim

\* An answer with errno comes out of the turn.
LEMMA TurnAnswered ==
    ASSUME Streams, NEW answer \in GoodText, answer.errno # "absent", Sends(<<answer>>),
           serving' = NoUser, menu \in {"LOGIN_MSG", "REG_MSG"}, menu' = menu,
           requests' = <<>>, AnswersIn(replies) = {}, answer.msgid = Ack(menu)
    PROVE  AnswerSent'
<1>1. replies' = replies \o <<answer>> /\ replies \in Seq(GoodText)
  BY DEF Sends, Streams
<1> DEFINE i == Len(replies) + 1
<1>2. i \in DOMAIN replies' /\ AnswersIn(replies') = {i} /\ replies'[i] = answer
  BY <1>1, AnswerJoined
<1> HIDE DEF i
<1>3. \E k \in DOMAIN replies' : AnswersIn(replies') = {k} /\ replies'[k].msgid = Ack(menu')
  BY <1>2
<1> QED
  BY <1>3 DEF AnswerSent

LEMMA OnMessageKeeps == ASSUME CInv, OnMessage PROVE CInv'
<1> USE DEF CInv
<1>1. PICK n \in 1 .. Len(requests) :
          /\ requests' = SubSeq(requests, n + 1, Len(requests))
          /\ swallowed' = swallowed \cup LoggedOutBy(SubSeq(requests, 2, n))
  BY DEF OnMessage
<1> DEFINE request == Head(requests)
           lost == LoggedOutBy(SubSeq(requests, 2, n))
<1>2. /\ connected /\ serving = NoUser /\ Handle(request)
      /\ UNCHANGED <<menu, current, reader, connected, stale>>
  BY DEF OnMessage, clientVars
<1>3. /\ requests' \in Seq(GoodRequest)
      /\ request \in GoodRequest /\ request = requests[1]
      /\ Len(requests) = 1 => requests' = <<>>
      /\ \A u \in User :
             /\ In(requests', Logout(u)) => In(requests, Logout(u))
             /\ Once(requests, Logout(u)) => Once(requests', Logout(u))
             /\ In(requests, Logout(u)) =>
                    In(requests', Logout(u)) \/ request = Logout(u) \/ u \in lost
             /\ Once(requests, Logout(u)) /\ request = Logout(u) => ~In(requests', Logout(u))
  BY <1>1, RequestsRead
<1>4. lost \subseteq User /\ swallowed' = swallowed \cup lost
  BY <1>1 DEF LoggedOutBy
<1> HIDE DEF request, lost
<1>5. request.msgid \in MsgId /\ request.id \in User \cup {NoUser}
  BY <1>3 DEF GoodRequest, Request
<1>6. Screen' /\ Fresh'
  BY <1>2 DEF Screen, Fresh
\* In turns there is one request, the one the menu waits for.
<1>7. ASSUME ~reader, menu # "over"
      PROVE  /\ menu \in {"LOGIN_MSG", "REG_MSG"} /\ request.msgid = menu
             /\ requests' = <<>> /\ AnswersIn(replies) = {}
  <2>1. requests # <<>>
    BY <1>1
  <2>2. RequestSent
    BY <1>2, <1>7, <2>1 DEF Turn, NothingAsked, LoginServed, AnswerSent
  <2> QED
    BY <1>3, <2>2 DEF RequestSent
<1>8. ASSUME NEW text \in GoodText, text.errno # "absent", Sends(<<text>>), serving' = NoUser,
             ~reader, menu # "over", text.msgid = Ack(menu)
      PROVE  AnswerSent'
  BY <1>2, <1>7, <1>8, TurnAnswered
<1>9. ASSUME request.msgid = "LOGIN_MSG", Accept(request.id) PROVE CInv'
  <2>1. /\ request.id \in User /\ request.id \notin served /\ request.id # NoUser
        /\ serving' = request.id /\ served' = served \cup {request.id} /\ replies' = replies
    BY <1>3, <1>9, ClientAssumption DEF GoodRequest, Accept
  <2>2. Types' /\ Streams'
    BY <1>2, <1>3, <1>4, <2>1 DEF Types, Streams
  <2>3. Turn'
    <3> SUFFICES ASSUME ~reader, menu # "over" PROVE LoginServed'
      BY <1>2 DEF Turn
    <3> QED
      BY <1>2, <1>7, <1>9, <2>1 DEF LoginServed
  <2>4. Sessions'
    <3> SUFFICES ASSUME menu # "over", NEW u \in User PROVE Session(u)'
      BY <1>2 DEF Sessions
    <3>1. Session(u) /\ request # Logout(u)
      BY <1>9 DEF Sessions, Logout
    <3>2. CASE u = request.id
      <4>1. ~HasClaim(u)
        BY <2>1, <3>1, <3>2 DEF Session
      <4> QED
        BY <1>2, <1>3, <2>1, <3>1, <3>2, <4>1 DEF Session, OneClaim, HasClaim
    <3>3. CASE u # request.id
      BY <1>2, <1>3, <1>4, <2>1, <3>1, <3>3, SessionRead
    <3> QED
      BY <3>2, <3>3
  <2> QED
    BY <1>6, <2>2, <2>3, <2>4
\* The texts of a handler that changes no session.
<1>10. ASSUME NEW texts \in Seq(GoodText), Sends(texts), UNCHANGED <<serving, served>>,
              \A i \in DOMAIN texts : \A u \in User : texts[i] # LoginOk(u),
              \A u \in User : request # Logout(u)
       PROVE  Types' /\ Streams' /\ Sessions'
  <2>1. /\ replies' \in Seq(GoodText)
        /\ \A u \in User : /\ In(replies', LoginOk(u)) <=> In(replies, LoginOk(u))
                           /\ Once(replies, LoginOk(u)) => Once(replies', LoginOk(u))
    BY <1>10, SendsTexts
  <2>2. Types' /\ Streams'
    BY <1>2, <1>3, <1>4, <1>10, <2>1 DEF Types, Streams
  <2>3. Sessions'
    <3> SUFFICES ASSUME menu # "over", NEW u \in User PROVE Session(u)'
      BY <1>2 DEF Sessions
    <3>1. Session(u) /\ u # NoUser
      BY ClientAssumption DEF Sessions
    <3>2. In(requests, Logout(u)) => In(requests', Logout(u)) \/ u \in swallowed'
      BY <1>3, <1>4, <1>10
    <3> QED
      BY <1>2, <1>3, <1>4, <1>10, <2>1, <3>1, <3>2, SessionRead
  <2> QED
    BY <2>2, <2>3
<1>11. ASSUME request.msgid = "LOGIN_MSG", Refuse PROVE CInv'
  <2> DEFINE text == Answer("LOGIN_MSG_ACK", "refused")
  <2>1. /\ text \in GoodText /\ text.errno = "refused" /\ text.msgid = "LOGIN_MSG_ACK"
        /\ \A u \in User : text # LoginOk(u)
    BY DEF Answer, GoodText, Text, LoginOk
  <2>2. Sends(<<text>>) /\ UNCHANGED <<serving, served>>
    BY <1>11 DEF Refuse
  <2>3. \A u \in User : request # Logout(u)
    BY <1>11 DEF Logout
  <2> HIDE DEF text
  <2>4. <<text>> \in Seq(GoodText)
    BY <2>1
  <2>5. \A i \in DOMAIN <<text>> : \A u \in User : <<text>>[i] # LoginOk(u)
    BY <2>1
  <2>6. Types' /\ Streams' /\ Sessions'
    BY <1>10, <2>2, <2>3, <2>4, <2>5
  <2>7. Turn'
    <3> SUFFICES ASSUME ~reader, menu # "over" PROVE AnswerSent'
      BY <1>2 DEF Turn
    <3>1. text.msgid = Ack(menu)
      BY <1>7, <1>11, <2>1 DEF Ack
    <3> QED
      BY <1>2, <1>8, <2>1, <2>2, <3>1
  <2> QED
    BY <1>6, <2>6, <2>7
<1>12. ASSUME request.msgid = "LOGIN_OUT_MSG" PROVE CInv'
  <2>1. served' = served \ {request.id} /\ UNCHANGED <<replies, serving>>
    BY <1>2, <1>12 DEF Handle
  <2>2. Types' /\ Streams'
    BY <1>2, <1>3, <1>4, <2>1 DEF Types, Streams
  <2>3. Turn'
    <3> SUFFICES ASSUME ~reader, menu # "over" PROVE FALSE
      BY <1>2 DEF Turn
    <3> QED
      BY <1>7, <1>12
  <2>4. Sessions'
    <3> SUFFICES ASSUME menu # "over", NEW u \in User PROVE Session(u)'
      BY <1>2 DEF Sessions
    <3>1. Session(u) /\ u # NoUser
      BY ClientAssumption DEF Sessions
    <3>2. CASE u = request.id
      <4>1. request = Logout(u)
        BY <1>3, <1>12, <3>2 DEF Logout, GoodRequest, Request
      <4>2. In(requests, Logout(u)) /\ ~In(requests', Logout(u))
        <5>1. 1 \in DOMAIN requests
          BY <1>1 DEF Streams
        <5> QED
          BY <1>3, <3>1, <4>1, <5>1 DEF Session, OneClaim, In, Has
      <4> QED
        BY <1>2, <1>3, <2>1, <3>1, <3>2, <4>2 DEF Session, OneClaim, HasClaim
    <3>3. CASE u # request.id
      <4>1. request # Logout(u)
        BY <3>3 DEF Logout
      <4>2. In(requests, Logout(u)) => In(requests', Logout(u)) \/ u \in swallowed'
        BY <1>3, <1>4, <4>1
      <4> QED
        BY <1>2, <1>3, <1>4, <2>1, <3>1, <3>3, <4>2, SessionRead
    <3> QED
      BY <3>2, <3>3
  <2> QED
    BY <1>6, <2>2, <2>3, <2>4
<1>13. ASSUME request.msgid \notin {"LOGIN_MSG", "LOGIN_OUT_MSG"} PROVE CInv'
  <2>1. PICK texts \in Answers(request.msgid) : Sends(texts)
    BY <1>2, <1>13 DEF Handle
  <2>2. UNCHANGED <<serving, served>>
    BY <1>2, <1>13 DEF Handle
  <2>3. /\ texts \in Seq(GoodText)
        /\ \A i \in DOMAIN texts : \A u \in User : texts[i] # LoginOk(u)
    BY <1>5, <1>13, AnswersAreTexts
  <2>4. \A u \in User : request # Logout(u)
    BY <1>13 DEF Logout
  <2>5. Types' /\ Streams' /\ Sessions'
    BY <1>10, <2>1, <2>2, <2>3, <2>4
  <2>6. Turn'
    <3> SUFFICES ASSUME ~reader, menu # "over" PROVE AnswerSent'
      BY <1>2 DEF Turn
    <3>1. request.msgid = "REG_MSG" /\ menu = "REG_MSG"
      BY <1>7, <1>13
    <3>2. PICK e \in {"ok", "refused"} : texts = <<Answer("REG_MSG_ACK", e)>>
      BY <3>1 DEF Answers
    <3> DEFINE text == Answer("REG_MSG_ACK", e)
    <3>3. text \in GoodText /\ text.errno # "absent" /\ text.msgid = Ack(menu)
      BY <3>1 DEF Answer, GoodText, Text, Ack
    <3>4. Sends(<<text>>)
      BY <2>1, <3>2
    <3> HIDE DEF text
    <3> QED
      BY <1>2, <1>8, <2>2, <3>3, <3>4
  <2> QED
    BY <1>6, <2>5, <2>6
<1>14. request.msgid = "LOGIN_MSG" => Accept(request.id) \/ Refuse
  BY <1>2 DEF Handle, Login
<1> QED
  BY <1>9, <1>11, <1>12, <1>13, <1>14

\* The claim of the server moves from serving to the answer.
LEMMA LoginAnswerKeeps == ASSUME CInv, LoginAnswer PROVE CInv'
<1> USE DEF CInv
<1> DEFINE text == LoginOk(serving)
<1>1. /\ serving # NoUser /\ serving' = NoUser /\ Sends(<<text>>)
      /\ UNCHANGED <<menu, current, reader, requests, connected, served, stale, swallowed>>
  BY DEF LoginAnswer, clientVars
<1>2. serving \in User /\ connected
  BY <1>1 DEF Types, Fresh
<1>3. /\ text \in GoodText /\ text.errno = "ok" /\ text.msgid = "LOGIN_MSG_ACK"
      /\ \A u \in User : text = LoginOk(u) <=> u = serving
  BY <1>2 DEF LoginOk, GoodText, Text
<1>4. replies \in Seq(GoodText) /\ <<text>> \in Seq(GoodText)
  BY <1>3 DEF Streams
<1> HIDE DEF text
<1>5. Streams'
  <2>1. replies' = replies \/ replies' = replies \o <<text>>
    BY <1>1 DEF Sends
  <2>2. replies' \in Seq(GoodText)
    BY <1>4, <2>1, Joined
  <2> QED
    BY <1>1, <2>2 DEF Streams
<1>6. Types' /\ Screen' /\ Fresh'
  BY <1>1, <1>2 DEF Types, Screen, Fresh
<1>7. menu # "over" => replies' = replies \o <<text>>
  BY <1>1 DEF Sends
<1>8. Turn'
  <2> SUFFICES ASSUME ~reader, menu # "over" PROVE AnswerSent'
    BY <1>1 DEF Turn
  <2>1. LoginServed
    BY <1>1 DEF Turn, NothingAsked, RequestSent, AnswerSent
  <2> QED
    BY <1>1, <1>3, <2>1, TurnAnswered DEF LoginServed, Ack
<1>9. Sessions'
  <2> SUFFICES ASSUME menu # "over", NEW u \in User PROVE Session(u)'
    BY <1>1 DEF Sessions
  <2>1. Session(u) /\ u # NoUser
    BY ClientAssumption DEF Sessions
  <2>2. CASE u = serving
    <3>1. ~In(replies, LoginOk(u)) /\ ~In(requests, Logout(u)) /\ current # u /\ u \in served
      BY <2>1, <2>2 DEF Session, OneClaim, HasClaim
    <3>2. In(replies', LoginOk(u)) /\ Once(replies', LoginOk(u))
      BY <1>3, <1>4, <1>7, <2>2, <3>1, JoinAdds
    <3> QED
      BY <1>1, <2>1, <3>1, <3>2 DEF Session, OneClaim, HasClaim
  <2>3. CASE u # serving
    <3>1. ~In(<<text>>, LoginOk(u))
      BY <1>3, <2>3 DEF In, Has
    <3>2. /\ In(replies', LoginOk(u)) <=> In(replies, LoginOk(u))
          /\ Once(replies, LoginOk(u)) => Once(replies', LoginOk(u))
      BY <1>4, <1>7, <3>1, JoinKeeps
    <3> QED
      BY <1>1, <2>1, <2>3, <3>2 DEF Session, OneClaim, HasClaim
  <2> QED
    BY <2>2, <2>3
<1> QED
  BY <1>5, <1>6, <1>8, <1>9

\* A chat message is no answer.
LEMMA PushKeeps == ASSUME CInv, Push PROVE CInv'
<1> USE DEF CInv
<1> DEFINE text == Answer("ONE_CHAT_MSG", "absent")
<1>1. /\ connected /\ Sends(<<text>>)
      /\ UNCHANGED <<menu, current, reader, requests, connected, serving, served, stale, swallowed>>
  BY DEF Push, clientVars, serverVars
<1>2. /\ text \in GoodText /\ text.errno = "absent"
      /\ \A u \in User : text # LoginOk(u)
  BY DEF Answer, GoodText, Text, MsgId, LoginOk
<1>3. <<text>> \in Seq(GoodText)
  BY <1>2
<1> HIDE DEF text
<1>4. \A i \in DOMAIN <<text>> : \A u \in User : <<text>>[i] # LoginOk(u)
  BY <1>2
<1>5. /\ replies' \in Seq(GoodText)
      /\ \A u \in User : /\ In(replies', LoginOk(u)) <=> In(replies, LoginOk(u))
                         /\ Once(replies, LoginOk(u)) => Once(replies', LoginOk(u))
  BY <1>1, <1>3, <1>4, SendsTexts
<1>6. Types' /\ Streams' /\ Screen' /\ Fresh'
  BY <1>1, <1>5 DEF Types, Streams, Screen, Fresh
<1>7. Turn'
  <2> SUFFICES ASSUME ~reader, menu # "over"
               PROVE  (NothingAsked \/ RequestSent \/ LoginServed \/ AnswerSent)'
    BY <1>1 DEF Turn
  <2>1. replies' = replies \o <<text>> /\ replies \in Seq(GoodText)
    BY <1>1 DEF Sends, Streams
  <2>2. AnswersIn(<<text>>) = {}
    BY <1>2 DEF AnswersIn
  <2>3. AnswersIn(replies') = AnswersIn(replies)
    BY <1>3, <2>1, <2>2, AnswersJoined
  <2>4. \A i \in DOMAIN replies : i \in DOMAIN replies' /\ replies'[i] = replies[i]
    BY <1>3, <2>1, Joined
  <2>5. NothingAsked \/ RequestSent \/ LoginServed \/ AnswerSent
    BY DEF Turn
  <2> QED
    BY <1>1, <2>3, <2>4, <2>5 DEF NothingAsked, RequestSent, LoginServed, AnswerSent
<1>8. Sessions'
  BY <1>1, <1>5, SessionKept DEF Sessions
<1> QED
  BY <1>6, <1>7, <1>8

LEMMA ServerClosesKeeps == ASSUME CInv, ServerCloses PROVE CInv'
<1> USE DEF CInv, ServerCloses, clientVars
<1>1. Types' /\ Screen' /\ Fresh'
  BY DEF Types, Screen, Fresh
<1>2. Streams'
  BY DEF Streams
<1>3. Turn' /\ Sessions'
  BY DEF Turn, Sessions
<1> QED
  BY <1>1, <1>2, <1>3

\* A client that is started again finds nothing of the earlier connection but
\* the users that were left online.
LEMMA StartKeeps == ASSUME CInv, Start PROVE CInv'
<1> USE DEF CInv
<1>1. /\ ~connected /\ connected' = TRUE /\ menu' = "startMenu"
      /\ UNCHANGED <<current, reader, requests, replies, serving, served, stale, swallowed>>
  BY DEF Start, streamVars
<1>2. /\ menu = "over" /\ requests = <<>> /\ replies = <<>> /\ serving = NoUser
      /\ served = {} /\ current = NoUser
  BY <1>1 DEF Fresh, Screen, Outside
<1>3. Types' /\ Streams' /\ Screen' /\ Fresh'
  BY <1>1, <1>2 DEF Types, Menu, Streams, Screen, Outside, Fresh
<1>4. Turn'
  BY <1>1, <1>2 DEF Turn, NothingAsked, AnswersIn
<1>5. Sessions'
  BY <1>1, <1>2, ClientAssumption DEF Sessions, Session, OneClaim, HasClaim, In, Has, Once, Before
<1> QED
  BY <1>3, <1>4, <1>5

LEMMA CInvStep == ASSUME CInv, [CNext]_cvars PROVE CInv'
BY Stutters, StartMenuKeeps, AskKeeps, LoginoutKeeps, ClientEndsKeeps, MenuReceivesKeeps,
   ReaderReceivesKeeps, OnMessageKeeps, LoginAnswerKeeps, PushKeeps, ServerClosesKeeps,
   StartKeeps
   DEF CNext, MenuSends

LEMMA CInvHolds == CSpec => []CInv
BY CInvInit, CInvStep, PTL DEF CSpec

-----------------------------------------------------------------------------
\* Every variable keeps its type: in particular no login is handled for
\* nobody, whatever the client sends and the server answers.
THEOREM ClientTypes == CSpec => []CTypeOK
<1>1. CInv => CTypeOK
  <2> SUFFICES ASSUME CInv PROVE CTypeOK
    OBVIOUS
  <2>1. GoodRequest \subseteq Request /\ GoodText \subseteq Text
    BY DEF GoodRequest, GoodText
  <2>2. requests \in Seq(Request) /\ replies \in Seq(Text)
    BY <2>1, SeqMonotonic DEF CInv, Streams
  <2> QED
    BY <2>2 DEF CInv, Types, CTypeOK
<1> QED
  BY <1>1, CInvHolds, PTL

\* A user the client takes for logged in, or is about to, or is logging out,
\* is online at the server, through one login only; however many users share
\* the client, whatever the reads of both sides drop and whichever thread
\* takes an answer.
THEOREM ClientIsServed == CSpec => []LoggedInIsServed
<1>1. CInv => LoggedInIsServed
  BY ClaimsCounted DEF CInv, Sessions, Session, LoggedInIsServed
<1> QED
  BY <1>1, CInvHolds, PTL

\* A user is left online behind the back of the client only by a login answer
\* that the reader thread or another call took, or by a logout that came
\* behind another request in one read of onMessage.
THEOREM ServerIsKnown == CSpec => []ServedIsKnown
<1>1. CInv => ServedIsKnown
  <2> SUFFICES ASSUME CInv, menu # "over", NEW u \in served \ swallowed
               PROVE  Claims(u) # {}
    BY DEF ServedIsKnown
  <2>1. u \in User
    BY DEF CInv, Types
  <2> QED
    BY <2>1, ClaimsCounted DEF CInv, Sessions, Session
<1> QED
  BY <1>1, CInvHolds, PTL

\* Before the reader thread is started the client and the server take turns,
\* so the first answer is the one to the call that waits for it.
THEOREM TurnsAreTaken == CSpec => []InTurns
<1>1. CInv => InTurns
  <2> SUFFICES ASSUME CInv, ~reader, menu # "over"
               PROVE  /\ Len(requests) + Cardinality(AnswersIn(replies))
                             + (IF serving = NoUser THEN 0 ELSE 1)
                             = IF menu \in Awaited THEN 1 ELSE 0
                      /\ \A i \in AnswersIn(replies) :
                             \/ menu = "LOGIN_MSG" /\ replies[i].msgid = "LOGIN_MSG_ACK"
                             \/ menu = "REG_MSG" /\ replies[i].msgid = "REG_MSG_ACK"
    BY DEF InTurns, AnswersIn
  <2>1. /\ Len(<<>>) = 0 /\ Cardinality({}) = 0 /\ \A i : Cardinality({i}) = 1
        /\ "startMenu" \notin Awaited /\ {"LOGIN_MSG", "REG_MSG"} \subseteq Awaited
    BY FS_EmptySet, FS_Singleton DEF Awaited
  <2>2. CASE NothingAsked
    BY <2>1, <2>2 DEF NothingAsked
  <2>3. CASE RequestSent
    BY <2>1, <2>3 DEF RequestSent
  <2>4. CASE LoginServed
    BY <2>1, <2>4 DEF LoginServed
  <2>5. CASE AnswerSent
    <3>1. PICK i \in DOMAIN replies : AnswersIn(replies) = {i} /\ replies[i].msgid = Ack(menu)
      BY <2>5 DEF AnswerSent
    <3>2. Cardinality(AnswersIn(replies)) = 1
      BY <2>1, <3>1
    <3>3. menu \in {"LOGIN_MSG", "REG_MSG"} /\ Len(requests) = 0 /\ serving = NoUser
      BY <2>1, <2>5 DEF AnswerSent
    <3> QED
      BY <2>1, <3>1, <3>2, <3>3 DEF Ack
  <2> QED
    BY <2>2, <2>3, <2>4, <2>5 DEF CInv, Turn
<1> QED
  BY <1>1, CInvHolds, PTL

=============================================================================
