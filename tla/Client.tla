------------------------------- MODULE Client -------------------------------
(***************************************************************************)
(* One shipped client, its connection, and what the server makes of it.    *)
(* The menu thread of the client sends requests and reads the answers to   *)
(* some of them; after the first login a reader thread reads the same      *)
(* socket.  Neither side frames its texts.  onMessage takes everything     *)
(* that has arrived and parses it as one JSON text: the parser stops at    *)
(* the NUL that ends the first request, so the requests behind it in the   *)
(* same read are dropped.  The client reads into a buffer and parses that; *)
(* the server ends its texts with nothing, so two texts in one read are no *)
(* JSON.                                                                   *)
(*                                                                         *)
(* Assumptions of this module: a text is not split between two reads (it   *)
(* fits in a segment and in the buffers of 1024 bytes); send() succeeds    *)
(* while the connection is up; the users of this client log in nowhere     *)
(* else.                                                                   *)
(***************************************************************************)
EXTENDS Naturals, Sequences, FiniteSets

CONSTANTS
    User,       \* the users who log in with this client
    NoUser,     \* nobody
    RequestMax, \* requests under way to the server
    ReplyMax    \* texts under way to the client

ASSUME ClientAssumption ==
    /\ NoUser \notin User
    /\ RequestMax \in Nat \ {0}
    /\ ReplyMax \in Nat \ {0, 1}   \* addGroup may send two

VARIABLES
    menu,       \* where the menu thread is: in a menu, or in recv for an answer
    current,    \* current_User
    reader,     \* the reader thread runs (is_first is false)
    requests,   \* the stream to the server
    replies,    \* the stream to the client
    connected,  \* the server has the connection
    serving,    \* the user login has put into the map and not answered yet
    served,     \* users online through this connection
    stale,      \* users left online by an earlier connection
    swallowed   \* history: users whose login answer or logout nobody took in

clientVars == <<menu, current, reader>>
serverVars == <<connected, serving, served, stale>>
streamVars == <<requests, replies>>
cvars == <<clientVars, streamVars, serverVars, swallowed>>

\* The requests after which the client waits in recv, and all of them.
Awaited == {"LOGIN_MSG", "REG_MSG", "ADD_FRIEND_MSG", "CREATE_GROUP_MSG",
            "SEARCH_GROUP_DATA_MSG"}
MsgId == Awaited \cup {"ONE_CHAT_MSG", "GROUP_CHAT_MSG", "ADD_GROUP_MSG", "LOGIN_OUT_MSG"}

\* "createGroup" and "addGroup" are the prompts a refused answer returns to,
\* "join" asks whether to join the group that was found; "over": the process
\* has ended.
Menu == {"startMenu", "mainMenu", "createGroup", "addGroup", "join", "over"}

Request == [msgid: MsgId, id: User \cup {NoUser}]

\* errno is "ok" (0), "refused" (1 or 2) or "absent": the message of another
\* user that the server passes on has none.
Text == [msgid: MsgId \cup {"LOGIN_MSG_ACK", "REG_MSG_ACK"},
         errno: {"ok", "refused", "absent"}, id: User \cup {NoUser}]

LoginOk(u) == [msgid |-> "LOGIN_MSG_ACK", errno |-> "ok", id |-> u]
Logout(u) == [msgid |-> "LOGIN_OUT_MSG", id |-> u]
Answer(msgid, errno) == [msgid |-> msgid, errno |-> errno, id |-> NoUser]

CTypeOK ==
    /\ menu \in Menu \cup Awaited
    /\ current \in User \cup {NoUser}
    /\ reader \in BOOLEAN
    /\ requests \in Seq(Request)
    /\ replies \in Seq(Text)
    /\ connected \in BOOLEAN
    /\ serving \in User \cup {NoUser}
    /\ served \subseteq User
    /\ stale \subseteq User
    /\ swallowed \subseteq User

CInit ==
    /\ menu = "startMenu" /\ current = NoUser /\ reader = FALSE
    /\ requests = <<>> /\ replies = <<>>
    /\ connected = TRUE /\ serving = NoUser /\ served = {} /\ stale = {}
    /\ swallowed = {}

-----------------------------------------------------------------------------
(* The menu thread sends.                                                  *)

Send(msgid, id) ==
    /\ connected /\ Len(requests) < RequestMax
    /\ requests' = Append(requests, [msgid |-> msgid, id |-> id])
    /\ UNCHANGED <<replies, serverVars, swallowed>>

\* A bug to catch: the registration that does not wait for its answer.
StartMenuImpatient ==
    /\ menu = "startMenu"
    /\ \/ \E u \in User : Send("LOGIN_MSG", u) /\ menu' = "LOGIN_MSG"
       \/ Send("REG_MSG", NoUser) /\ UNCHANGED menu
    /\ UNCHANGED <<current, reader>>

StartMenu ==
    /\ menu = "startMenu"
    /\ \/ \E u \in User : Send("LOGIN_MSG", u) /\ menu' = "LOGIN_MSG"
       \/ Send("REG_MSG", NoUser) /\ menu' = "REG_MSG"
    /\ UNCHANGED <<current, reader>>

\* addFriend, createGroup and addGroup send and then wait.
Ask ==
    /\ \E msgid \in CASE menu = "mainMenu" -> Awaited \ {"LOGIN_MSG", "REG_MSG"}
                      [] menu = "createGroup" -> {"CREATE_GROUP_MSG"}
                      [] menu = "addGroup" -> {"SEARCH_GROUP_DATA_MSG"}
                      [] OTHER -> {} :
           Send(msgid, NoUser) /\ menu' = msgid
    /\ UNCHANGED <<current, reader>>

\* showFriends and showGroups send and stay in the menus.
Chat ==
    /\ menu = "mainMenu"
    /\ Send("ONE_CHAT_MSG", NoUser) \/ Send("GROUP_CHAT_MSG", NoUser)
    /\ UNCHANGED clientVars

\* The second half of addGroup: the answer to ADD_GROUP_MSG is not waited for.
Join ==
    /\ menu = "join"
    /\ menu' = "mainMenu"
    /\ Send("ADD_GROUP_MSG", NoUser) \/ UNCHANGED <<streamVars, serverVars, swallowed>>
    /\ UNCHANGED <<current, reader>>

\* A bug to catch: the logout that the server is not told.
LoginoutQuiet ==
    /\ menu = "mainMenu"
    /\ menu' = "startMenu" /\ current' = NoUser
    /\ UNCHANGED <<reader, streamVars, serverVars, swallowed>>

Loginout ==
    /\ menu = "mainMenu"
    /\ Send("LOGIN_OUT_MSG", current)
    /\ menu' = "startMenu" /\ current' = NoUser
    /\ UNCHANGED reader

\* The process ends: by choice, by a signal, or by an uncaught exception.
Ends == menu' = "over" /\ current' = NoUser /\ reader' = FALSE

ClientEnds ==
    /\ menu # "over" /\ Ends
    /\ UNCHANGED <<streamVars, serverVars, swallowed>>

-----------------------------------------------------------------------------
(* The client receives.                                                    *)

LoggedInBy(texts) == {u \in User : \E i \in DOMAIN texts : texts[i] = LoginOk(u)}
LoggedOutBy(texts) == {u \in User : \E i \in DOMAIN texts : texts[i] = Logout(u)}

\* The answers with errno 0 that have every field the waiting call reads with
\* get<int>, or as a string or vector; a missing field is null and throws.
HasFields(call) ==
    CASE call = "LOGIN_MSG" -> {"LOGIN_MSG_ACK"}
      [] call = "REG_MSG" -> MsgId \cup {"LOGIN_MSG_ACK", "REG_MSG_ACK"}
      [] call = "ADD_FRIEND_MSG" -> {"ADD_FRIEND_MSG"}
      [] call = "CREATE_GROUP_MSG" -> {"CREATE_GROUP_MSG", "ADD_GROUP_MSG"}
      [] call = "SEARCH_GROUP_DATA_MSG" -> {"SEARCH_GROUP_DATA_MSG"}

AfterSuccess(call) ==
    CASE call = "REG_MSG" -> "startMenu"
      [] call = "SEARCH_GROUP_DATA_MSG" -> "join"
      [] OTHER -> "mainMenu"

AfterRefusal(call) ==
    CASE call \in {"LOGIN_MSG", "REG_MSG"} -> "startMenu"
      [] call = "ADD_FRIEND_MSG" -> "mainMenu"
      [] call = "CREATE_GROUP_MSG" -> "createGroup"
      [] call = "SEARCH_GROUP_DATA_MSG" -> "addGroup"

\* The menu thread takes a text for the answer it waits for, whichever it is.
TakesRefusal(text) ==
    /\ text.errno = "refused"
    /\ menu' = AfterRefusal(menu)
    /\ UNCHANGED <<current, reader, swallowed>>

TakesSuccess(text) ==
    /\ text.errno = "ok" /\ text.msgid \in HasFields(menu)
    /\ menu' = AfterSuccess(menu)
    /\ IF menu = "LOGIN_MSG"
       THEN current' = text.id /\ reader' = TRUE /\ UNCHANGED swallowed
       ELSE /\ UNCHANGED <<current, reader>>
            /\ swallowed' = swallowed \cup LoggedInBy(<<text>>)

Throws(text) ==
    /\ \/ text.errno = "absent"
       \/ text.errno = "ok" /\ text.msgid \notin HasFields(menu)
    /\ Ends /\ UNCHANGED swallowed

MenuReceives ==
    /\ menu \in Awaited
    /\ \E n \in 1..Len(replies) :
        /\ replies' = SubSeq(replies, n + 1, Len(replies))
        /\ IF n = 1
           THEN LET text == replies[1]
                IN  TakesRefusal(text) \/ TakesSuccess(text) \/ Throws(text)
           ELSE Ends /\ UNCHANGED swallowed
    /\ UNCHANGED <<requests, serverVars>>

\* readTaskHandler shows chat messages and drops everything else.
ReaderReceives ==
    /\ reader
    /\ \E n \in 1..Len(replies) :
        /\ replies' = SubSeq(replies, n + 1, Len(replies))
        /\ swallowed' = swallowed \cup LoggedInBy(SubSeq(replies, 1, n))
    /\ UNCHANGED <<clientVars, requests, serverVars>>

-----------------------------------------------------------------------------
(* The server.                                                             *)

\* What is sent to a client that has ended reaches nobody.
Sends(texts) ==
    \/ menu = "over" /\ UNCHANGED replies
    \/ /\ menu # "over" /\ Len(replies) + Len(texts) <= ReplyMax
       /\ replies' = replies \o texts

\* What the handlers without a session send back.  addGroup goes on after a
\* refusal; SearchGroupData never refuses.
Answers(msgid) ==
    CASE msgid = "REG_MSG" -> {<<Answer("REG_MSG_ACK", e)>> : e \in {"ok", "refused"}}
      [] msgid \in {"ADD_FRIEND_MSG", "CREATE_GROUP_MSG"} ->
             {<<Answer(msgid, e)>> : e \in {"ok", "refused"}}
      [] msgid = "SEARCH_GROUP_DATA_MSG" -> {<<Answer(msgid, "ok")>>}
      [] msgid = "ADD_GROUP_MSG" -> {<<Answer(msgid, "ok")>>,
                                     <<Answer(msgid, "refused"), Answer(msgid, "ok")>>}
      [] msgid = "ONE_CHAT_MSG" -> {<<>>, <<Answer(msgid, "refused")>>}
      [] msgid = "GROUP_CHAT_MSG" -> {<<>>}

Refuse == Sends(<<Answer("LOGIN_MSG_ACK", "refused")>>) /\ UNCHANGED <<serving, served>>

\* The state column says offline: the map, the subscription and the state are
\* written, and other threads may send to the client before login answers.
Accept(u) ==
    /\ u \notin served \cup stale
    /\ serving' = u /\ served' = served \cup {u}
    /\ UNCHANGED replies

\* Two bugs to catch: a login that is admitted whatever the state says, and a
\* refusal that is not sent.
LoginTwice(u) ==
    \/ serving' = u /\ served' = served \cup {u} /\ UNCHANGED replies
    \/ Refuse
LoginSilent(u) == Accept(u) \/ UNCHANGED <<replies, serving, served>>

\* Unknown id, wrong password, or online already.
Login(u) == Accept(u) \/ Refuse

\* A bug to catch: a registration bound to the handler of the login.
HandleSwapped(request) ==
    CASE request.msgid \in {"LOGIN_MSG", "REG_MSG"} -> Login(request.id)
      [] request.msgid = "LOGIN_OUT_MSG" ->
             served' = served \ {request.id} /\ UNCHANGED <<replies, serving>>
      [] OTHER -> /\ \E texts \in Answers(request.msgid) : Sends(texts)
                  /\ UNCHANGED <<serving, served>>

\* The handlers, by msgid.
Handle(request) ==
    CASE request.msgid = "LOGIN_MSG" -> Login(request.id)
      [] request.msgid = "LOGIN_OUT_MSG" ->
             served' = served \ {request.id} /\ UNCHANGED <<replies, serving>>
      [] OTHER -> /\ \E texts \in Answers(request.msgid) : Sends(texts)
                  /\ UNCHANGED <<serving, served>>

\* onMessage reads what has arrived, and handles the first request in it.
OnMessage ==
    /\ connected /\ serving = NoUser
    /\ \E n \in 1..Len(requests) :
        /\ requests' = SubSeq(requests, n + 1, Len(requests))
        /\ swallowed' = swallowed \cup LoggedOutBy(SubSeq(requests, 2, n))
    /\ Handle(Head(requests))
    /\ UNCHANGED <<clientVars, connected, stale>>

LoginAnswer ==
    /\ serving # NoUser
    /\ Sends(<<LoginOk(serving)>>)
    /\ serving' = NoUser
    /\ UNCHANGED <<clientVars, requests, connected, served, stale, swallowed>>

\* A handler of another connection, or the observer thread, finds the user in
\* the map and passes on a chat message or a friend request.
Push ==
    /\ connected /\ served # {}
    /\ Sends(<<Answer("ONE_CHAT_MSG", "absent")>>)
    /\ UNCHANGED <<clientVars, requests, serverVars, swallowed>>

\* clientCloseException takes the first entry of the connection out of the
\* map, and only that one.
ServerCloses ==
    /\ connected /\ serving = NoUser /\ menu = "over"
    /\ \/ served = {} /\ UNCHANGED stale
       \/ \E u \in served : stale' = stale \cup (served \ {u})
    /\ connected' = FALSE /\ served' = {}
    /\ requests' = <<>> /\ replies' = <<>>
    /\ swallowed' = {}
    /\ UNCHANGED <<clientVars, serving>>

\* The client is started again.
Start ==
    /\ ~connected
    /\ connected' = TRUE /\ menu' = "startMenu"
    /\ UNCHANGED <<current, reader, streamVars, serving, served, stale, swallowed>>

-----------------------------------------------------------------------------
MenuSends == StartMenu \/ Ask \/ Chat \/ Join \/ Loginout

CNext ==
    \/ MenuSends \/ ClientEnds \/ MenuReceives \/ ReaderReceives
    \/ OnMessage \/ LoginAnswer \/ Push \/ ServerCloses \/ Start

CSpec == CInit /\ [][CNext]_cvars

\* Both sides read what arrives and answer; nobody has to type anything.
CFairSpec == CSpec /\ WF_cvars(MenuReceives) /\ WF_cvars(OnMessage) /\ WF_cvars(LoginAnswer)

-----------------------------------------------------------------------------
(* Properties.                                                             *)

\* What entitles the client to a session of u: the answer of login that is
\* being made or is under way, current_User, or a logout under way.
Claims(u) ==
    {<<"reply", i>> : i \in {j \in DOMAIN replies : replies[j] = LoginOk(u)}}
        \cup {<<"request", i>> : i \in {j \in DOMAIN requests : requests[j] = Logout(u)}}
        \cup (IF serving = u THEN {<<"serving", 0>>} ELSE {})
        \cup (IF current = u THEN {<<"current", 0>>} ELSE {})

\* Logins and logouts stay in step.  Whatever is lost, stolen by the reader
\* thread or taken for another answer, a user the client takes for logged in
\* is online at the server, through one login only, and no logout of an
\* earlier session is left to end it.
LoggedInIsServed ==
    menu # "over" => \A u \in User : /\ \A x, y \in Claims(u) : x = y
                                     /\ Claims(u) # {} => u \in served

\* The other way round: a user who is online through this connection although
\* the client does not know it (and whose next login is refused) is one whose
\* login answer was read by the reader thread or by the wrong call, or whose
\* logout came in one read behind another request.
ServedIsKnown ==
    menu # "over" => \A u \in served \ swallowed : Claims(u) # {}

\* Until the reader thread is started the client and the server take turns:
\* there is one request or answer under way while the menu waits, and none
\* else, and it is the answer to what the menu asked.
InTurns ==
    LET answers == {i \in DOMAIN replies : replies[i].errno # "absent"}
    IN  ~reader /\ menu # "over" =>
            /\ Len(requests) + Cardinality(answers) + (IF serving = NoUser THEN 0 ELSE 1)
                   = IF menu \in Awaited THEN 1 ELSE 0
            /\ \A i \in answers : \/ menu = "LOGIN_MSG" /\ replies[i].msgid = "LOGIN_MSG_ACK"
                                  \/ menu = "REG_MSG" /\ replies[i].msgid = "REG_MSG_ACK"

\* Until the reader thread is started, a call that waits for an answer gets
\* one (or a chat message that overtook it, which ends the client).
FirstAnswerComes == (menu \in Awaited /\ ~reader) ~> ~(menu \in Awaited /\ ~reader)

\* What the comment at the start of the reader thread wants: the threads do
\* not mix up what they receive, so a call that waits has its request or its
\* answer under way.
WaitIsAnswered ==
    menu \in Awaited =>
        \/ serving # NoUser
        \/ \E i \in DOMAIN requests : requests[i].msgid = menu
        \/ \E i \in DOMAIN replies :
               /\ replies[i].errno # "absent"
               /\ \/ replies[i].msgid = menu
                  \/ menu = "LOGIN_MSG" /\ replies[i].msgid = "LOGIN_MSG_ACK"
                  \/ menu = "REG_MSG" /\ replies[i].msgid = "REG_MSG_ACK"

=============================================================================
