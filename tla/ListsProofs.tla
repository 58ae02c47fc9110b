---------------------------- MODULE ListsProofs ----------------------------
(***************************************************************************)
(* Proofs about module Lists, for every number of users and groups and     *)
(* streams of any length:                                                  *)
(*    ListsTypes       LSpec => []LTypeOK                                  *)
(*    ListsAreGroups   LSpec => GSpec                                      *)
(*    TablesBesideLists LSpec => [](CreatorIsUnique /\ FriendshipIsMutual) *)
(*    MembersAreRight  LSpec => []MembersShownAreRight                     *)
(*    FriendsOnList    LSpec => []FriendsAreStored                         *)
(*    GroupsOnList     LSpec => []GroupsAreStored                          *)
(* The second one carries what is proved about the tables over to Lists.   *)
(* Each of the last three needs more than its lists:                       *)
(*    Right    a user has one claim to a session here, be it the answer    *)
(*             of a login, the client that shows it, or a logout on its    *)
(*             way; so the rows a login found stay until they are shown;   *)
(*    Friends  addFriend has its row, or an excuse, before any answer;     *)
(*    Order    whose answers about groups can be under way when somebody   *)
(*             logs in: none, as answers come in the order of requests     *)
(*             and createGroup and addGroup repeat until nothing follows;  *)
(*    Whose    so that what is under way about groups is of the user who   *)
(*             is logged in.                                               *)
(***************************************************************************)
EXTENDS GroupsProofs, Lists, StreamLemmas

-----------------------------------------------------------------------------
(* The lists of the client: what its variables and streams hold.           *)

Asked == {"LOGIN_MSG", "LOGIN_OUT_MSG", "ADD_FRIEND_MSG", "CREATE_GROUP_MSG",
          "SEARCH_GROUP_DATA_MSG", "ADD_GROUP_MSG"}
GoodRequest ==
    {r \in [msgid : Asked, from : User, id : Id \cup {NoUser}] :
        /\ r.msgid = "ADD_FRIEND_MSG" => r.id \in User
        /\ r.msgid = "ADD_GROUP_MSG" => r.id \in GroupId}

\* Only the success of a login brings lists, and it and those of the groups
\* name whom or what they are about.
Answered == {"LOGIN_MSG_ACK", "ADD_FRIEND_MSG", "CREATE_GROUP_MSG",
             "SEARCH_GROUP_DATA_MSG", "ADD_GROUP_MSG"}
FoundData == [friends : SUBSET User, groups : SUBSET Entry]
GoodReply ==
    {r \in [msgid : Answered, errno : {0, 1}, id : Id \cup {NoUser}, found : FoundData] :
        /\ r.msgid = "LOGIN_MSG_ACK" /\ r.errno = 0 => r.id \in User
        /\ r.msgid \in {"CREATE_GROUP_MSG", "ADD_GROUP_MSG"} /\ r.errno = 0 => r.id \in GroupId
        /\ r.msgid # "LOGIN_MSG_ACK" => r.found = Nothing}

Streams ==
    /\ requests \in Seq(GoodRequest) /\ Len(requests) <= RequestMax
    /\ replies \in Seq(GoodReply) /\ Len(replies) <= ReplyMax

\* login between its queries.
LoginState ==
    /\ login \in [id : User \cup {NoUser}, next : {"none", "friends", "groups", "members"},
                  left : SUBSET GroupId, found : FoundData]
    /\ login.next = "none" => login = NoLogin
    /\ login.next # "none" => login.id \in User

Types ==
    /\ menu \in Menu /\ current \in User \cup {NoUser} /\ typed \in Id \cup {NoUser}
    /\ friendList \subseteq User /\ groupList \subseteq Entry
    /\ reader \in BOOLEAN /\ served \subseteq User

\* In which menus there is a user, and what a call that waits was asked for.
Outside == {"startMenu", "LOGIN_MSG", "over"}
Screen ==
    /\ menu \in Outside <=> current = NoUser
    /\ current = NoUser => friendList = {} /\ groupList = {}
    /\ menu = "ADD_FRIEND_MSG" => typed \in User
    /\ menu \in {"SEARCH_GROUP_DATA_MSG", "join"} => typed \in GroupId

\* While login is gathering its answer no other handler of the connection runs.
Quiet == login.next # "none" => \A u \in served : at[u] = "idle"

Shape == Streams /\ LoginState /\ Types /\ Screen /\ Quiet

-----------------------------------------------------------------------------
(* The moves of the streams.                                               *)

LEMMA Sent ==
    ASSUME Streams, NEW msgid \in Asked, NEW from \in User, NEW id \in Id \cup {NoUser},
           msgid = "ADD_FRIEND_MSG" => id \in User, msgid = "ADD_GROUP_MSG" => id \in GroupId,
           Send(msgid, from, id)
    PROVE  /\ Streams' /\ UNCHANGED <<gvars, replies, server>>
           /\ [msgid |-> msgid, from |-> from, id |-> id] \in GoodRequest
           /\ requests' = requests \o <<[msgid |-> msgid, from |-> from, id |-> id]>>
<1> DEFINE r == [msgid |-> msgid, from |-> from, id |-> id]
<1>1. r \in GoodRequest
  BY DEF GoodRequest
<1>2. /\ requests \in Seq(GoodRequest) /\ replies \in Seq(GoodReply)
      /\ Len(replies) <= ReplyMax /\ Len(requests) < RequestMax
      /\ requests' = Append(requests, r) /\ UNCHANGED <<gvars, replies, server>>
  BY DEF Streams, Send
<1> HIDE DEF r
<1>3. /\ requests' \in Seq(GoodRequest) /\ Len(requests') = Len(requests) + 1
      /\ requests' = requests \o <<r>>
  BY <1>1, <1>2, Appended
<1>4. Len(requests') <= RequestMax
  BY <1>2, <1>3, ListsAssumption
<1> QED
  BY <1>1, <1>2, <1>3, <1>4 DEF Streams, r

LEMMA Replied ==
    ASSUME Streams, NEW text \in GoodReply, Reply(<<text>>)
    PROVE  /\ replies' \in Seq(GoodReply) /\ Len(replies') <= ReplyMax
           /\ replies' = replies \o <<text>>
<1>1. /\ replies \in Seq(GoodReply) /\ replies' = replies \o <<text>>
      /\ Len(replies) + Len(<<text>>) <= ReplyMax /\ <<text>> \in Seq(GoodReply)
  BY DEF Streams, Reply
<1>2. replies' \in Seq(GoodReply) /\ Len(replies') = Len(replies) + Len(<<text>>)
  BY <1>1, Joined
<1> QED
  BY <1>1, <1>2

LEMMA RepliesRead ==
    ASSUME Streams, NEW n \in 1 .. Len(replies), UNCHANGED requests,
           replies' = SubSeq(replies, n + 1, Len(replies))
    PROVE  Streams' /\ replies[1] \in GoodReply /\ 1 \in DOMAIN replies
<1>1. /\ replies \in Seq(GoodReply) /\ Len(replies) <= ReplyMax /\ n \in 0 .. Len(replies)
      /\ 1 \in DOMAIN replies
  BY DEF Streams
<1>2. replies' \in Seq(GoodReply) /\ Len(replies') = Len(replies) - n
  BY <1>1, Dropped
<1>3. Len(replies') <= ReplyMax
  BY <1>1, <1>2, ListsAssumption
<1> QED
  BY <1>1, <1>2, <1>3 DEF Streams

LEMMA RequestsRead ==
    ASSUME Streams, NEW n \in 1 .. Len(requests),
           requests' = SubSeq(requests, n + 1, Len(requests))
    PROVE  /\ requests' \in Seq(GoodRequest) /\ Len(requests') <= RequestMax
           /\ requests[1] \in GoodRequest /\ 1 \in DOMAIN requests
<1>1. /\ requests \in Seq(GoodRequest) /\ Len(requests) <= RequestMax
      /\ n \in 0 .. Len(requests) /\ 1 \in DOMAIN requests
  BY DEF Streams
<1>2. requests' \in Seq(GoodRequest) /\ Len(requests') = Len(requests) - n
  BY <1>1, Dropped
<1>3. Len(requests') <= RequestMax
  BY <1>1, <1>2, ListsAssumption
<1> QED
  BY <1>1, <1>2, <1>3

\* The answers the handlers give.
LEMMA GoodAnswers ==
    /\ \A msgid \in Answered : Refusal(msgid) \in GoodReply
    /\ \A g \in GroupId : Ok("CREATE_GROUP_MSG", g) \in GoodReply /\ Ok("ADD_GROUP_MSG", g) \in GoodReply
    /\ Ok("ADD_FRIEND_MSG", NoUser) \in GoodReply /\ Ok("SEARCH_GROUP_DATA_MSG", NoUser) \in GoodReply
    /\ \A u \in User, found \in FoundData :
           [Ok("LOGIN_MSG_ACK", u) EXCEPT !.found = found] \in GoodReply
<1>1. Nothing \in FoundData
  BY DEF Nothing, FoundData
<1> QED
  BY <1>1 DEF Refusal, Ok, GoodReply, Answered, Id

-----------------------------------------------------------------------------
(* What OnMessage does with the request it handles.                        *)

LEMMA Handled ==
    ASSUME NEW r \in GoodRequest, Handle(r)
    PROVE  \/ r.msgid = "LOGIN_MSG" /\ Login(r.from)
           \/ /\ r.msgid = "LOGIN_OUT_MSG" /\ served' = served \ {r.from}
              /\ UNCHANGED <<gvars, replies, login>>
           \/ r.msgid = "SEARCH_GROUP_DATA_MSG" /\ SearchGroupData
           \/ /\ r.msgid = "ADD_FRIEND_MSG" /\ r.id \in User
              /\ HandleAddFriend(r.from, r.id) /\ UNCHANGED server
           \/ r.msgid = "CREATE_GROUP_MSG" /\ HandleCreateGroup(r.from) /\ UNCHANGED server
           \/ /\ r.msgid = "ADD_GROUP_MSG" /\ r.id \in GroupId
              /\ HandleAddGroup(r.from, r.id) /\ UNCHANGED server
<1>1. r.msgid \in Asked /\ r.from \in User
  BY DEF GoodRequest
<1>2. /\ r.msgid = "ADD_FRIEND_MSG" => r.id \in User
      /\ r.msgid = "ADD_GROUP_MSG" => r.id \in GroupId
  BY DEF GoodRequest
<1> QED
  BY <1>1, <1>2 DEF Handle, Asked

-----------------------------------------------------------------------------
(* Every step of the lists is a step of the tables, or none.               *)

\* A statement of a handler, or the first of one; all but removeGroup, which
\* this client never asks for.
Statements(u) ==
    \/ CreateGroup(u) \/ CreateGroupRow(u) \/ AddGroupRow(u)
    \/ AddFriendRow(u) \/ AddFriendRowBack(u)
    \/ \E g \in GroupId : AddGroup(u, g)
    \/ \E v \in User : AddFriend(u, v)

LEMMA HandlerIsGroups ==
    ASSUME NEW r \in GoodRequest, Handle(r)
    PROVE  (\E u \in User : Statements(u)) \/ UNCHANGED gvars
<1>1. r.from \in User
  BY DEF GoodRequest
<1>2. CASE AddFriend(r.from, r.id) /\ r.id \in User
  BY <1>1, <1>2 DEF Statements
<1>3. CASE CreateGroup(r.from)
  BY <1>1, <1>3 DEF Statements
<1>4. CASE AddGroup(r.from, r.id) /\ r.id \in GroupId
  BY <1>1, <1>4 DEF Statements
<1>5. CASE UNCHANGED gvars
  BY <1>5
<1> QED
  BY <1>2, <1>3, <1>4, <1>5, Handled
     DEF Login, SearchGroupData, HandleAddFriend, HandleCreateGroup, HandleAddGroup

LEMMA StepStatements ==
    ASSUME Shape, [LNext]_lvars
    PROVE  \/ UNCHANGED gvars
           \/ \E u \in User : Statements(u)
           \/ \E u \in User \ served, g \in GroupId : RemoveGroup(u, g)
<1>1. CASE MenuAsks \/ Join \/ Loginout \/ MenuReceives \/ ReaderReceives
           \/ LoginQueries \/ LoginAnswer \/ UNCHANGED lvars
  BY <1>1 DEF MenuAsks, Ask, Join, Loginout, Send, MenuReceives, ReaderReceives,
              LoginQueries, LoginAnswer, lvars
<1>2. CASE OnMessage
  <2>1. PICK n \in 1 .. Len(requests) :
            Handle(requests[1]) /\ requests' = SubSeq(requests, n + 1, Len(requests))
    BY <1>2 DEF OnMessage
  <2>2. requests[1] \in GoodRequest
    BY <2>1, RequestsRead DEF Shape
  <2> QED
    BY <2>1, <2>2, HandlerIsGroups
<1>3. CASE ServerRows
  <2>1. PICK u \in served : FriendRows(u) \/ GroupRows(u)
    BY <1>3 DEF ServerRows
  <2>2. u \in User
    BY DEF Shape, Types
  <2> QED
    BY <2>1, <2>2 DEF FriendRows, GroupRows, Statements
<1>4. CASE Elsewhere
  BY <1>4 DEF Elsewhere, Statements
<1> QED
  BY <1>1, <1>2, <1>3, <1>4 DEF LNext

LEMMA StepIsGroups == ASSUME Shape, [LNext]_lvars PROVE [GNext]_gvars
BY StepStatements DEF Statements, GNext

-----------------------------------------------------------------------------
(* The shape is kept.                                                      *)

LEMMA ShapeInit == ASSUME LInit PROVE Shape
<1> USE GroupsAssumption, ListsAssumption DEF LInit
<1>1. Streams
  BY DEF Streams
<1>2. Nothing \in FoundData
  BY DEF Nothing, FoundData
<1>3. LoginState
  BY <1>2 DEF LoginState, NoLogin
<1>4. Types /\ Screen /\ Quiet
  BY DEF Types, Menu, Screen, Outside, Quiet, NoLogin
<1> QED
  BY <1>1, <1>3, <1>4 DEF Shape

LEMMA ServerKept ==
    ASSUME LoginState, Quiet, UNCHANGED <<server, gvars>> PROVE LoginState' /\ Quiet'
BY DEF LoginState, Quiet, server, gvars, handler

LEMMA ScreenKept ==
    ASSUME Types, Screen, UNCHANGED screen, served' \subseteq User PROVE Types' /\ Screen'
BY DEF Types, Screen, screen, lists

LEMMA ShapeStutters == ASSUME Shape, UNCHANGED lvars PROVE Shape'
<1>1. Streams'
  BY DEF Shape, Streams, lvars
<1>2. served' \subseteq User /\ UNCHANGED <<server, gvars, screen>>
  BY DEF Shape, Types, lvars, server
<1> QED
  BY <1>1, <1>2, ServerKept, ScreenKept DEF Shape

\* What the menu thread asks for, and where it waits.
LEMMA Asks ==
    ASSUME Shape, MenuAsks
    PROVE  /\ \E msgid \in Waits, from \in User, id \in Id \cup {NoUser} :
                  /\ Ask(msgid, from, id)
                  /\ CASE msgid = "LOGIN_MSG" -> menu = "startMenu"
                       [] msgid = "ADD_FRIEND_MSG" -> menu = "mainMenu" /\ id \in User
                       [] msgid = "CREATE_GROUP_MSG" -> menu \in {"mainMenu", "createGroup"}
                       [] OTHER -> menu \in {"mainMenu", "addGroup"} /\ id \in GroupId
                  /\ msgid # "LOGIN_MSG" => from = current
<1>1. menu \in {"mainMenu", "createGroup", "addGroup"} => current \in User
  BY DEF Shape, Screen, Types, Outside
<1> USE DEF Waits, Id
<1>2. CASE menu = "startMenu" /\ \E u \in User : Ask("LOGIN_MSG", u, NoUser)
  BY <1>2
<1>3. CASE menu = "mainMenu" /\ \E v \in User \ {current} : Ask("ADD_FRIEND_MSG", current, v)
  BY <1>1, <1>3
<1>4. CASE menu \in {"mainMenu", "createGroup"} /\ Ask("CREATE_GROUP_MSG", current, NoUser)
  BY <1>1, <1>4
<1>5. CASE /\ menu \in {"mainMenu", "addGroup"}
           /\ \E g \in GroupId \ Listed : Ask("SEARCH_GROUP_DATA_MSG", current, g)
  BY <1>1, <1>5
<1> QED
  BY <1>2, <1>3, <1>4, <1>5 DEF MenuAsks

LEMMA AsksShape == ASSUME Shape, MenuAsks PROVE Shape'
<1> USE DEF Shape
<1>1. PICK msgid \in Waits, from \in User, id \in Id \cup {NoUser} :
          /\ Ask(msgid, from, id)
          /\ CASE msgid = "LOGIN_MSG" -> menu = "startMenu"
               [] msgid = "ADD_FRIEND_MSG" -> menu = "mainMenu" /\ id \in User
               [] msgid = "CREATE_GROUP_MSG" -> menu \in {"mainMenu", "createGroup"}
               [] OTHER -> menu \in {"mainMenu", "addGroup"} /\ id \in GroupId
          /\ msgid # "LOGIN_MSG" => from = current
  BY Asks
<1>2. msgid \in Asked /\ msgid # "ADD_GROUP_MSG"
  BY DEF Asked, Waits
<1>3. Send(msgid, from, id) /\ menu' = msgid /\ typed' = id /\ UNCHANGED <<current, lists, reader>>
  BY <1>1 DEF Ask
<1>4. msgid = "ADD_FRIEND_MSG" => id \in User
  BY <1>1
<1>5. Streams' /\ UNCHANGED <<gvars, server>>
  BY <1>2, <1>3, <1>4, Sent
<1>6. LoginState' /\ Quiet'
  BY <1>5, ServerKept
<1>7. Types'
  BY <1>3, <1>5 DEF Types, Menu, lists, server
<1>8. Screen'
  BY <1>1, <1>3 DEF Screen, Outside, Waits, lists
<1> QED
  BY <1>5, <1>6, <1>7, <1>8

LEMMA JoinShape == ASSUME Shape, Join PROVE Shape'
<1> USE DEF Shape
<1>1. menu = "join" /\ menu' = "mainMenu" /\ typed' = NoUser /\ UNCHANGED <<current, friendList, reader>>
  BY DEF Join
<1>2. current \in User /\ typed \in GroupId
  BY <1>1 DEF Screen, Types, Outside
<1>3. Streams' /\ UNCHANGED <<gvars, server>>
  <2>1. CASE Send("ADD_GROUP_MSG", current, typed)
    BY <1>2, <2>1, Sent DEF Asked, Id
  <2>2. CASE UNCHANGED <<gvars, groupList, requests, replies, server, refused>>
    BY <2>2 DEF Streams
  <2> QED
    BY <2>1, <2>2 DEF Join
<1>4. groupList' \subseteq Entry
  BY <1>2 DEF Join, NewEntry, Entry, Types
<1>5. Types' /\ Screen'
  BY <1>1, <1>2, <1>3, <1>4, GroupsAssumption DEF Types, Screen, Menu, Outside, server
<1> QED
  BY <1>3, <1>5, ServerKept

LEMMA LoginoutShape == ASSUME Shape, Loginout PROVE Shape'
<1> USE DEF Shape
<1>1. /\ menu = "mainMenu" /\ menu' = "startMenu" /\ current' = NoUser
      /\ Send("LOGIN_OUT_MSG", current, NoUser)
      /\ friendList' = {} /\ groupList' = {} /\ UNCHANGED <<typed, reader>>
  BY DEF Loginout
<1>2. current \in User
  BY <1>1 DEF Screen, Types, Outside
<1>3. Streams' /\ UNCHANGED <<gvars, server>>
  BY <1>1, <1>2, Sent DEF Asked
<1>4. Types' /\ Screen'
  BY <1>1, <1>3 DEF Types, Screen, Menu, Outside, server
<1> QED
  BY <1>3, <1>4, ServerKept

\* What a call takes for a success: the answer of login only if it is one,
\* and nothing but that one brings lists.
LEMMA SuccessTaken ==
    ASSUME Types, Screen, menu \in Waits, NEW reply \in GoodReply,
           reply.errno = 0, HasFields(reply), TakesSuccess(reply)
    PROVE  \/ /\ menu = "LOGIN_MSG" /\ reply.msgid = "LOGIN_MSG_ACK" /\ reply.id \in User
              /\ menu' = "mainMenu" /\ typed' = NoUser /\ current' = reply.id /\ reader'
              /\ friendList' = reply.found.friends /\ groupList' = reply.found.groups
           \/ /\ menu = "ADD_FRIEND_MSG" /\ reply.msgid = "ADD_FRIEND_MSG" /\ typed \in User
              /\ menu' = "mainMenu" /\ typed' = NoUser
              /\ UNCHANGED <<current, reader, groupList>>
              /\ friendList' = friendList \cup {typed}
           \/ /\ menu = "CREATE_GROUP_MSG" /\ reply.id \in GroupId
              /\ reply.msgid \in {"CREATE_GROUP_MSG", "ADD_GROUP_MSG"}
              /\ menu' = "mainMenu" /\ typed' = NoUser
              /\ UNCHANGED <<current, reader, friendList>>
              /\ groupList' = groupList \cup {NewEntry(reply.id)}
           \/ /\ menu = "SEARCH_GROUP_DATA_MSG" /\ reply.msgid = "SEARCH_GROUP_DATA_MSG"
              /\ menu' = "join"
              /\ UNCHANGED <<typed, current, reader, lists>>
<1>1. CASE menu = "LOGIN_MSG"
  <2>1. reply.msgid = "LOGIN_MSG_ACK" /\ reply.id \in User
    BY <1>1 DEF HasFields, GoodReply
  <2>2. friendList = {} /\ groupList = {}
    BY <1>1 DEF Screen, Outside
  <2>3. reader'
    BY <1>1 DEF TakesSuccess
  <2> QED
    BY <1>1, <2>1, <2>2, <2>3 DEF TakesSuccess
<1>2. ASSUME menu # "LOGIN_MSG"
      PROVE  /\ reply.msgid \in (IF menu = "CREATE_GROUP_MSG" THEN {"CREATE_GROUP_MSG", "ADD_GROUP_MSG"} ELSE {menu})
             /\ reply.found.friends = {} /\ reply.found.groups = {} /\ reader' = reader
             /\ reply.msgid # "LOGIN_MSG_ACK"
  <2>1. reply.msgid \in (IF menu = "CREATE_GROUP_MSG" THEN {"CREATE_GROUP_MSG", "ADD_GROUP_MSG"} ELSE {menu})
    BY <1>2 DEF HasFields
  <2>2. reply.msgid # "LOGIN_MSG_ACK"
    BY <2>1 DEF Waits
  <2>3. reply.found = Nothing
    BY <2>2 DEF GoodReply
  <2>4. reader' = reader
    BY <1>2 DEF TakesSuccess, Types
  <2> QED
    BY <2>1, <2>2, <2>3, <2>4 DEF Nothing
<1>3. CASE menu = "ADD_FRIEND_MSG"
  BY <1>2, <1>3 DEF TakesSuccess, Screen
<1>4. CASE menu = "CREATE_GROUP_MSG"
  BY <1>2, <1>4 DEF TakesSuccess, GoodReply
<1>5. CASE menu = "SEARCH_GROUP_DATA_MSG"
  BY <1>2, <1>5 DEF TakesSuccess, lists
<1> QED
  BY <1>1, <1>3, <1>4, <1>5 DEF Waits

\* Which of the three ways the menu thread takes a read.
LEMMA ReadTaken ==
    ASSUME Streams, MenuReceives
    PROVE  \E n \in 1 .. Len(replies) :
               /\ replies' = SubSeq(replies, n + 1, Len(replies))
               /\ \/ Throws
                  \/ n = 1 /\ replies[1].errno # 0 /\ TakesRefusal
                  \/ /\ n = 1 /\ replies[1].errno = 0
                     /\ HasFields(replies[1]) /\ TakesSuccess(replies[1])
<1>1. PICK n \in 1 .. Len(replies) :
          /\ replies' = SubSeq(replies, n + 1, Len(replies))
          /\ CASE n # 1 -> Throws
               [] n = 1 /\ replies[1].errno # 0 -> TakesRefusal
               [] n = 1 /\ replies[1].errno = 0 /\ HasFields(replies[1]) -> TakesSuccess(replies[1])
               [] OTHER -> Throws
  BY DEF MenuReceives
<1>2. \/ Throws
      \/ n = 1 /\ replies[1].errno # 0 /\ TakesRefusal
      \/ /\ n = 1 /\ replies[1].errno = 0
         /\ HasFields(replies[1]) /\ TakesSuccess(replies[1])
  BY <1>1
<1> QED
  BY <1>1, <1>2

LEMMA ReceivesShape == ASSUME Shape, MenuReceives PROVE Shape'
<1> USE DEF Shape
<1>1. PICK n \in 1 .. Len(replies) :
          /\ replies' = SubSeq(replies, n + 1, Len(replies))
          /\ \/ Throws
             \/ n = 1 /\ replies[1].errno # 0 /\ TakesRefusal
             \/ /\ n = 1 /\ replies[1].errno = 0
                /\ HasFields(replies[1]) /\ TakesSuccess(replies[1])
  BY ReadTaken
<1>2. menu \in Waits /\ UNCHANGED <<gvars, requests, server, refused>>
  BY DEF MenuReceives
<1>3. Streams' /\ replies[1] \in GoodReply
  BY <1>1, <1>2, RepliesRead
<1>4. LoginState' /\ Quiet'
  BY <1>2, ServerKept
<1>5. CASE Throws
  <2>1. Types' /\ Screen'
    BY <1>2, <1>5, GroupsAssumption DEF Throws, Types, Screen, Menu, Outside, server
  <2> QED
    BY <1>3, <1>4, <2>1
<1>6. CASE TakesRefusal
  <2>1. menu' \in {"startMenu", "mainMenu", "createGroup", "addGroup"}
        /\ (menu' = "startMenu" <=> menu = "LOGIN_MSG")
    BY <1>2, <1>6 DEF TakesRefusal, Waits
  <2>2. typed' = NoUser /\ UNCHANGED <<current, lists, reader>>
    BY <1>6 DEF TakesRefusal
  <2>3. Types'
    BY <1>2, <2>1, <2>2 DEF Types, Menu, lists, server
  <2>4. Screen'
    BY <1>2, <2>1, <2>2 DEF Screen, Outside, Waits, lists
  <2> QED
    BY <1>3, <1>4, <2>3, <2>4
<1>7. CASE replies[1].errno = 0 /\ HasFields(replies[1]) /\ TakesSuccess(replies[1])
  <2>1. \A g \in GroupId : NewEntry(g) \in Entry
    BY DEF NewEntry, Entry
  <2>2. replies[1].found.friends \subseteq User /\ replies[1].found.groups \subseteq Entry
    BY <1>3 DEF GoodReply, FoundData
  <2>3. NoUser \notin User
    BY GroupsAssumption
  <2>4. served' \subseteq User
    BY <1>2 DEF Types, server
  <2>5. /\ menu' \in {"mainMenu", "join"} /\ current' \in User /\ typed' \in Id \cup {NoUser}
        /\ friendList' \subseteq User /\ groupList' \subseteq Entry /\ reader' \in BOOLEAN
        /\ menu' = "join" => typed' \in GroupId
    <3> DEFINE reply == replies[1]
    <3>1. menu \notin Outside \/ menu = "LOGIN_MSG"
      BY <1>2 DEF Waits, Outside
    <3>2. menu # "LOGIN_MSG" => current \in User
      BY <3>1 DEF Screen, Types
    <3>3. reader' \in BOOLEAN
      BY <1>7 DEF TakesSuccess
    <3> HIDE DEF reply
    <3>4. QED
      BY <1>2, <1>3, <1>7, <2>1, <2>2, <3>2, <3>3, SuccessTaken DEF Types, Screen, lists, reply
  <2>6. Types' /\ Screen'
    BY <2>3, <2>4, <2>5 DEF Types, Screen, Menu, Outside
  <2> QED
    BY <1>3, <1>4, <2>6
<1> QED
  BY <1>1, <1>5, <1>6, <1>7

LEMMA ReaderShape == ASSUME Shape, ReaderReceives PROVE Shape'
<1> USE DEF Shape
<1>1. PICK n \in 1 .. Len(replies) : replies' = SubSeq(replies, n + 1, Len(replies))
  BY DEF ReaderReceives
<1>2. UNCHANGED <<gvars, screen, requests, server>>
  BY DEF ReaderReceives
<1>3. Streams'
  BY <1>1, <1>2, RepliesRead
<1>4. served' \subseteq User
  BY <1>2 DEF Types, server
<1> QED
  BY <1>2, <1>3, <1>4, ServerKept, ScreenKept

\* The answer a handler gives at once, if it gives one.
Refuses == {"LOGIN_MSG_ACK", "ADD_FRIEND_MSG", "CREATE_GROUP_MSG", "ADD_GROUP_MSG"}
LEMMA HandledAnswers ==
    ASSUME Shape, NEW r \in GoodRequest, Handle(r)
    PROVE  \/ UNCHANGED replies
           \/ \E msgid \in Refuses : Reply(<<Refusal(msgid)>>)
           \/ r.msgid = "SEARCH_GROUP_DATA_MSG" /\ Reply(<<Ok("SEARCH_GROUP_DATA_MSG", NoUser)>>)
           \/ /\ r.msgid = "CREATE_GROUP_MSG" /\ CreateGroup(r.from) /\ nextId <= MaxGroup
              /\ Reply(<<Ok("CREATE_GROUP_MSG", nextId)>>)
<1> USE DEF Refuses
<1>1. CASE r.msgid = "LOGIN_MSG" /\ Login(r.from)
  BY <1>1 DEF Login
<1>2. CASE r.msgid = "SEARCH_GROUP_DATA_MSG" /\ SearchGroupData
  BY <1>2 DEF SearchGroupData
<1>3. CASE HandleAddFriend(r.from, r.id)
  BY <1>3 DEF HandleAddFriend
<1>4. CASE r.msgid = "CREATE_GROUP_MSG" /\ HandleCreateGroup(r.from)
  BY <1>4 DEF HandleCreateGroup, CreateGroup
<1>5. CASE HandleAddGroup(r.from, r.id)
  BY <1>5 DEF HandleAddGroup
<1> QED
  BY <1>1, <1>2, <1>3, <1>4, <1>5, Handled

\* Of these answers only two are successes, each of the request it answers.
Answers(r, text) ==
    \/ text.errno = 1
    \/ text.errno = 0 /\ text.msgid = r.msgid /\ r.msgid \in {"SEARCH_GROUP_DATA_MSG", "CREATE_GROUP_MSG"}

LEMMA AnswersGood ==
    ASSUME Shape, nextId \in Nat \ {0}, NEW r \in GoodRequest, Handle(r)
    PROVE  /\ replies' \in Seq(GoodReply) /\ Len(replies') <= ReplyMax
           /\ \/ UNCHANGED replies
              \/ \E text \in GoodReply : Reply(<<text>>) /\ Answers(r, text)
<1>1. CASE UNCHANGED replies
  BY <1>1 DEF Shape, Streams
<1>2. ASSUME NEW text \in GoodReply, Reply(<<text>>), Answers(r, text)
      PROVE  /\ replies' \in Seq(GoodReply) /\ Len(replies') <= ReplyMax
             /\ \E t \in GoodReply : Reply(<<t>>) /\ Answers(r, t)
  BY <1>2, Replied DEF Shape
<1>3. Refuses \subseteq Answered /\ \A msgid \in Refuses : Answers(r, Refusal(msgid))
  BY DEF Refuses, Answered, Answers, Refusal
<1>4. nextId <= MaxGroup => nextId \in GroupId
  BY GroupsAssumption DEF GroupId
<1>5. /\ r.msgid = "SEARCH_GROUP_DATA_MSG" => Answers(r, Ok("SEARCH_GROUP_DATA_MSG", NoUser))
      /\ r.msgid = "CREATE_GROUP_MSG" => Answers(r, Ok("CREATE_GROUP_MSG", nextId))
  BY DEF Answers, Ok
<1> QED
  BY <1>1, <1>2, <1>3, <1>4, <1>5, HandledAnswers, GoodAnswers

\* What a request changes of the sessions, and of the handlers that run.
LEMMA HandledSessions ==
    ASSUME Shape, Idle, NEW r \in GoodRequest, Handle(r)
    PROVE  \/ /\ r.msgid = "LOGIN_MSG" /\ r.from \notin served /\ served' = served \cup {r.from}
              /\ login' = [id |-> r.from, next |-> "friends", left |-> {}, found |-> Nothing]
              /\ at[r.from] = "idle" /\ UNCHANGED <<gvars, replies>>
           \/ /\ r.msgid = "LOGIN_OUT_MSG" /\ served' = served \ {r.from}
              /\ UNCHANGED <<gvars, login, replies>>
           \/ r.msgid # "LOGIN_OUT_MSG" /\ UNCHANGED server
<1>1. CASE r.msgid = "LOGIN_MSG" /\ Login(r.from)
  BY <1>1 DEF Login, NoLogin
<1>2. CASE r.msgid = "SEARCH_GROUP_DATA_MSG" /\ SearchGroupData
  BY <1>2 DEF SearchGroupData
<1> QED
  BY <1>1, <1>2, Handled

LEMMA OnMessageShape == ASSUME Shape, GTypeOK, OnMessage PROVE Shape'
<1> USE DEF Shape
<1>1. PICK n \in 1 .. Len(requests) :
          Handle(requests[1]) /\ requests' = SubSeq(requests, n + 1, Len(requests))
  BY DEF OnMessage
<1>2. Idle /\ UNCHANGED screen
  BY DEF OnMessage
<1>3. /\ requests' \in Seq(GoodRequest) /\ Len(requests') <= RequestMax
      /\ requests[1] \in GoodRequest
  BY <1>1, RequestsRead
<1>4. nextId \in Nat \ {0}
  BY GroupsAssumption DEF GTypeOK
<1>5. Streams'
  BY <1>1, <1>3, <1>4, AnswersGood DEF Streams
<1> DEFINE r == requests[1]
<1> HIDE DEF r
<1>6. r.from \in User /\ Handle(r) /\ r \in GoodRequest
  BY <1>1, <1>3 DEF GoodRequest, r
<1>7. Nothing \in FoundData /\ login = NoLogin /\ login.next = "none"
  BY <1>2 DEF Nothing, FoundData, Idle, NoLogin
<1>8. served' \subseteq User /\ LoginState'
  BY <1>2, <1>6, <1>7, HandledSessions DEF LoginState, Types, server
<1>9. Quiet'
  <2>1. CASE /\ served' = served \cup {r.from} /\ at[r.from] = "idle" /\ UNCHANGED gvars
    BY <1>2, <2>1 DEF Quiet, Idle, gvars, handler
  <2>2. CASE UNCHANGED login
    BY <1>7, <2>2 DEF Quiet
  <2> QED
    BY <1>2, <1>6, <2>1, <2>2, HandledSessions DEF server
<1> QED
  BY <1>2, <1>5, <1>8, <1>9, ScreenKept

\* What the answer is that ends a handler of the tables.
LEMMA RowsAnswer ==
    ASSUME Shape, GInv, NEW u \in User, FriendRows(u) \/ GroupRows(u)
    PROVE  /\ at[u] # "idle"
           /\ \/ UNCHANGED replies
              \/ Reply(<<Ok("ADD_FRIEND_MSG", NoUser)>>)
              \/ /\ at[u] = "memberRow" /\ group[u] \in GroupId
                 /\ AddGroupRow(u) /\ Reply(<<Ok("ADD_GROUP_MSG", group[u])>>)
BY DEF FriendRows, GroupRows, AddFriendRow, AddFriendRowBack, CreateGroupRow, AddGroupRow,
       GInv, HandlerReady

LEMMA RowsShape == ASSUME Shape, GInv, ServerRows PROVE Shape'
<1> USE DEF Shape
<1>1. PICK u \in served : FriendRows(u) \/ GroupRows(u)
  BY DEF ServerRows
<1>2. u \in User /\ UNCHANGED <<screen, requests, server>>
  BY DEF ServerRows, Types
<1>3. Streams'
  BY <1>1, <1>2, RowsAnswer, GoodAnswers, Replied DEF Streams
<1>4. login.next = "none" /\ LoginState' /\ Quiet'
  BY <1>1, <1>2, RowsAnswer DEF LoginState, Quiet, server
<1>5. served' \subseteq User
  BY <1>2 DEF Types, server
<1> QED
  BY <1>2, <1>3, <1>4, <1>5, ScreenKept

\* The three kinds of query, with what they leave of login.
LEMMA QueriesDone ==
    ASSUME Shape, GTypeOK, LoginQueries
    PROVE  /\ LoginState' /\ login'.id = login.id
           /\ login.next # "none" /\ login'.next # "none"
<1> USE DEF Shape
<1>1. CASE ReadFriends
  <2>1. PICK read \in SUBSET User : login' = [login EXCEPT !.next = "groups", !.found.friends = read]
    BY <1>1 DEF ReadFriends
  <2>2. login.found \in FoundData /\ login.next = "friends"
    BY <1>1 DEF LoginState, ReadFriends
  <2>3. [login.found EXCEPT !.friends = read] \in FoundData
    BY <2>2 DEF FoundData
  <2>4. login' = [login EXCEPT !.next = "groups", !.found = [login.found EXCEPT !.friends = read]]
    BY <2>1, <2>2 DEF LoginState
  <2> QED
    BY <2>2, <2>3, <2>4 DEF LoginState
<1>2. CASE ReadGroups
  BY <1>2 DEF ReadGroups, LoginState
<1>3. CASE ReadMembers
  <2>1. PICK g \in login.left, read \in SUBSET (User \X Role) :
            login' = [login EXCEPT !.left = @ \ {g},
                                   !.found.groups = @ \cup {[id |-> g, members |-> read]}]
    BY <1>3 DEF ReadMembers
  <2>2. login.found \in FoundData /\ login.left \subseteq GroupId /\ login.next = "members"
    BY <1>3 DEF LoginState, ReadMembers
  <2>3. [id |-> g, members |-> read] \in Entry
    BY <2>2 DEF Entry
  <2> DEFINE groups == login.found.groups \cup {[id |-> g, members |-> read]}
  <2>4. groups \subseteq Entry
    BY <2>2, <2>3 DEF FoundData
  <2>5. login' = [login EXCEPT !.left = login.left \ {g}, !.found = [login.found EXCEPT !.groups = groups]]
    BY <2>1, <2>2 DEF LoginState
  <2> HIDE DEF groups
  <2>6. [login.found EXCEPT !.groups = groups] \in FoundData
    BY <2>2, <2>4 DEF FoundData
  <2> QED
    BY <2>2, <2>5, <2>6 DEF LoginState
<1> QED
  BY <1>1, <1>2, <1>3 DEF LoginQueries

LEMMA QueriesShape == ASSUME Shape, GTypeOK, LoginQueries PROVE Shape'
<1> USE DEF Shape
<1>1. UNCHANGED <<gvars, screen, requests, replies, served>>
  BY DEF LoginQueries
<1>2. Streams' /\ served' \subseteq User
  BY <1>1 DEF Streams, Types
<1>3. Quiet'
  BY <1>1, QueriesDone DEF Quiet, gvars, handler
<1> QED
  BY <1>1, <1>2, <1>3, QueriesDone, ScreenKept

LEMMA AnswerShape == ASSUME Shape, LoginAnswer PROVE Shape'
<1> USE DEF Shape
<1>1. /\ login.next = "members" /\ login' = NoLogin
      /\ Reply(<<[Ok("LOGIN_MSG_ACK", login.id) EXCEPT !.found = login.found]>>)
      /\ UNCHANGED <<gvars, screen, requests, served>>
  BY DEF LoginAnswer
<1>2. login.id \in User /\ login.found \in FoundData
  BY <1>1 DEF LoginState
<1>3. [Ok("LOGIN_MSG_ACK", login.id) EXCEPT !.found = login.found] \in GoodReply
  BY <1>2, GoodAnswers
<1>4. Streams' /\ served' \subseteq User
  BY <1>1, <1>3, Replied DEF Streams, Types
<1>5. LoginState' /\ Quiet'
  BY <1>1 DEF LoginState, NoLogin, Nothing, FoundData, Quiet
<1> QED
  BY <1>1, <1>4, <1>5, ScreenKept

\* A step of another connection leaves the handlers of this one alone.
LEMMA ElsewhereKeeps ==
    ASSUME GTypeOK, served \subseteq User, Elsewhere
    PROVE  \A u \in served : at'[u] = at[u] /\ group'[u] = group[u] /\ peer'[u] = peer[u]
<1>1. PICK u \in User \ served :
          \/ CreateGroup(u) \/ CreateGroupRow(u) \/ AddGroupRow(u)
          \/ AddFriendRow(u) \/ AddFriendRowBack(u)
          \/ \E g \in GroupId : AddGroup(u, g) \/ RemoveGroup(u, g)
          \/ \E v \in User \ {u} : AddFriend(u, v)
  BY DEF Elsewhere
<1>2. \A w \in served : w \in User /\ w # u
  OBVIOUS
<1> DEFINE Kept == \A w \in served : at'[w] = at[w] /\ group'[w] = group[w] /\ peer'[w] = peer[w]
<1>3. ASSUME NEW statement, NEW g, NEW v, Begin(u, statement, g, v) PROVE Kept
  BY <1>2, <1>3 DEF Begin, GTypeOK
<1>4. Return(u) => Kept
  BY <1>2 DEF Return, GTypeOK
<1>5. AddFriendRow(u) => Kept
  BY <1>2 DEF AddFriendRow, GTypeOK
<1>6. UNCHANGED handler => Kept
  BY DEF handler
<1> HIDE DEF Kept
<1>7. Kept
  BY <1>1, <1>3, <1>4, <1>5, <1>6
     DEF CreateGroup, CreateGroupRow, AddGroupRow, AddFriendRowBack, AddGroup, RemoveGroup,
         AddFriend
<1> QED
  BY <1>7 DEF Kept

LEMMA ElsewhereShape == ASSUME Shape, GTypeOK, Elsewhere PROVE Shape'
<1> USE DEF Shape
<1>1. UNCHANGED <<screen, requests, replies, server>>
  BY DEF Elsewhere
<1>2. Streams' /\ LoginState' /\ served' \subseteq User
  BY <1>1 DEF Streams, LoginState, Types, server
<1>3. Quiet'
  BY <1>1, ElsewhereKeeps DEF Quiet, Types, server
<1> QED
  BY <1>1, <1>2, <1>3, ScreenKept

\* The lists keep their shape, and the tables what module Groups promises.
LInv == Shape /\ FInv

LEMMA LInvInit == LInit => LInv
<1>1. GInit => FInv
  BY InitGInv DEF GInit, FInv, FriendshipIsMutual, FirstRowIn
<1> QED
  BY <1>1, ShapeInit DEF LInit, LInv

LEMMA LInvStep == ASSUME LInv, [LNext]_lvars PROVE LInv'
<1>1. GTypeOK /\ GInv
  BY DEF LInv, FInv, GInv
<1>2. FInv'
  BY StepIsGroups, StepFInv DEF LInv
<1>3. Shape'
  BY <1>1, ShapeStutters, AsksShape, JoinShape, LoginoutShape, ReceivesShape, ReaderShape,
     OnMessageShape, RowsShape, QueriesShape, AnswerShape, ElsewhereShape DEF LInv, LNext
<1> QED
  BY <1>2, <1>3 DEF LInv

LEMMA LInvHolds == LSpec => []LInv
BY LInvInit, LInvStep, PTL DEF LSpec

\* The menus, the lists, the streams and the answer of login keep their types,
\* for any number of users who share a client and streams of any length.
THEOREM ListsTypes == LSpec => []LTypeOK
<1>1. LInv => LTypeOK
  BY DEF LInv, Shape, Types, Streams, LoginState, LTypeOK
<1> QED
  BY <1>1, LInvHolds, PTL

\* The handlers of a connection and those of other clients write the tables as
\* module Groups says: every step of Lists is one of Groups, or leaves them.
THEOREM ListsAreGroups == LSpec => GSpec
<1>1. LInit => GInit
  BY DEF LInit
<1>2. LInv /\ [LNext]_lvars => [GNext]_gvars
  BY StepIsGroups DEF LInv
<1> QED
  BY <1>1, <1>2, LInvHolds, PTL DEF LSpec, GSpec

\* So a group keeps its one creator, and a friendship both its rows unless a
\* second INSERT is to come or failed, also when the requests come from clients
\* that log in, read lists and log out on one connection.
THEOREM TablesBesideLists == LSpec => [](CreatorIsUnique /\ FriendshipIsMutual)
BY ListsAreGroups, CreatorHolds, FriendshipHolds, PTL

-----------------------------------------------------------------------------
(* Whom the server has a session for.                                      *)

AckOf(u) == {r \in GoodReply : r.msgid = "LOGIN_MSG_ACK" /\ r.errno = 0 /\ r.id = u}
LogoutOf(u) == {r \in GoodRequest : r.msgid = "LOGIN_OUT_MSG" /\ r.from = u}

\* What entitles the client to a session of a user: that the user is logged
\* in, that login is gathering the answer, that the answer is under way, or the
\* logout.  There is one of these at most.
HasClaim(u) ==
    Has(replies, AckOf(u)) \/ Has(requests, LogoutOf(u)) \/ login.id = u \/ current = u
OneClaim(u) ==
    /\ ~Before(replies, AckOf(u), AckOf(u)) /\ ~Before(requests, LogoutOf(u), LogoutOf(u))
    /\ Has(replies, AckOf(u)) => ~Has(requests, LogoutOf(u)) /\ login.id # u /\ current # u
    /\ Has(requests, LogoutOf(u)) => login.id # u /\ current # u
    /\ ~(login.id = u /\ current = u)
Claim(u) == OneClaim(u) /\ (HasClaim(u) => u \in served)
Claims == \A u \in User : Claim(u)

LEMMA RequestAdded ==
    ASSUME Streams, NEW r \in GoodRequest, requests' = requests \o <<r>>, NEW A, NEW B
    PROVE  /\ Has(requests', A) <=> Has(requests, A) \/ r \in A
           /\ Before(requests', A, B) <=> Before(requests, A, B) \/ (Has(requests, A) /\ r \in B)
<1>1. requests \in Seq(GoodRequest) /\ <<r>> \in Seq(GoodRequest)
  BY DEF Streams
<1>2. /\ Has(<<r>>, A) <=> r \in A
      /\ Has(<<r>>, B) <=> r \in B
      /\ ~Before(<<r>>, A, B)
  BY OneHas
<1> QED
  BY <1>1, <1>2, JoinHas

LEMMA ReplyAdded ==
    ASSUME Streams, NEW text \in GoodReply, Reply(<<text>>), NEW A, NEW B
    PROVE  /\ Has(replies', A) <=> Has(replies, A) \/ text \in A
           /\ Before(replies', A, B) <=> Before(replies, A, B) \/ (Has(replies, A) /\ text \in B)
<1>1. replies \in Seq(GoodReply) /\ <<text>> \in Seq(GoodReply) /\ replies' = replies \o <<text>>
  BY DEF Streams, Reply
<1>2. /\ Has(<<text>>, A) <=> text \in A
      /\ Has(<<text>>, B) <=> text \in B
      /\ ~Before(<<text>>, A, B)
  BY OneHas
<1> QED
  BY <1>1, <1>2, JoinHas

LEMMA RepliesGone ==
    ASSUME Streams, NEW n \in 1 .. Len(replies),
           replies' = SubSeq(replies, n + 1, Len(replies)), NEW A, NEW B
    PROVE  /\ Has(replies', A) => Has(replies, A)
           /\ Before(replies', A, B) => Before(replies, A, B)
           /\ replies[1] \in A => Has(replies, A)
           /\ replies[1] \in A /\ Has(replies', B) => Before(replies, A, B)
<1>1. replies \in Seq(GoodReply) /\ n \in 0 .. Len(replies) /\ 1 \in 1 .. n
  BY DEF Streams
<1>2. replies[1] \in A => Among(replies, n, A)
  BY <1>1 DEF Among
<1> DEFINE r == replies'
<1>3. r = SubSeq(replies, n + 1, Len(replies))
  OBVIOUS
<1> HIDE DEF r
<1>4. /\ Has(r, A) => Has(replies, A)
      /\ Before(r, A, B) => Before(replies, A, B)
      /\ Among(replies, n, A) => Has(replies, A)
      /\ Among(replies, n, A) /\ Has(r, B) => Before(replies, A, B)
  BY <1>1, <1>3, DropHas, DropBefore
<1> QED
  BY <1>2, <1>4 DEF r

LEMMA RequestsGone ==
    ASSUME Streams, NEW n \in 1 .. Len(requests),
           requests' = SubSeq(requests, n + 1, Len(requests)), NEW A, NEW B
    PROVE  /\ Has(requests', A) => Has(requests, A)
           /\ Before(requests', A, B) => Before(requests, A, B)
           /\ requests[1] \in A => Has(requests, A)
           /\ requests[1] \in A /\ Has(requests', B) => Before(requests, A, B)
<1>1. requests \in Seq(GoodRequest) /\ n \in 0 .. Len(requests) /\ 1 \in 1 .. n
  BY DEF Streams
<1>2. requests[1] \in A => Among(requests, n, A)
  BY <1>1 DEF Among
<1> DEFINE r == requests'
<1>3. r = SubSeq(requests, n + 1, Len(requests))
  OBVIOUS
<1> HIDE DEF r
<1>4. /\ Has(r, A) => Has(requests, A)
      /\ Before(r, A, B) => Before(requests, A, B)
      /\ Among(requests, n, A) => Has(requests, A)
      /\ Among(requests, n, A) /\ Has(r, B) => Before(requests, A, B)
  BY <1>1, <1>3, DropHas, DropBefore
<1> QED
  BY <1>2, <1>4 DEF r

LEMMA ClaimKept ==
    ASSUME NEW u \in User, Claim(u),
           Has(replies', AckOf(u)) => Has(replies, AckOf(u)),
           Before(replies', AckOf(u), AckOf(u)) => Before(replies, AckOf(u), AckOf(u)),
           Has(requests', LogoutOf(u)) => Has(requests, LogoutOf(u)),
           Before(requests', LogoutOf(u), LogoutOf(u)) => Before(requests, LogoutOf(u), LogoutOf(u)),
           login'.id = u => login.id = u,
           current' = u => current = u,
           u \in served => u \in served' \/ ~HasClaim(u)'
    PROVE  Claim(u)'
BY DEF Claim, OneClaim, HasClaim

LEMMA AskClaims == ASSUME LInv, Claims, MenuAsks \/ Join PROVE Claims'
<1> USE DEF LInv, Shape
<1> SUFFICES ASSUME NEW u \in User PROVE Claim(u)'
  BY DEF Claims
<1>1. Claim(u) /\ UNCHANGED current
  BY DEF Claims, MenuAsks, Ask, Join
<1>2. ASSUME NEW msgid \in Asked \ {"LOGIN_OUT_MSG"}, NEW from \in User, NEW id \in Id \cup {NoUser},
             msgid = "ADD_FRIEND_MSG" => id \in User, msgid = "ADD_GROUP_MSG" => id \in GroupId,
             Send(msgid, from, id)
      PROVE  Claim(u)'
  <2> DEFINE r == [msgid |-> msgid, from |-> from, id |-> id]
  <2>1. r \in GoodRequest /\ requests' = requests \o <<r>> /\ UNCHANGED <<replies, server>>
    BY <1>2, Sent
  <2>2. r \notin LogoutOf(u)
    BY DEF LogoutOf
  <2> HIDE DEF r
  <2>3. /\ Has(requests', LogoutOf(u)) <=> Has(requests, LogoutOf(u))
        /\ Before(requests', LogoutOf(u), LogoutOf(u)) <=> Before(requests, LogoutOf(u), LogoutOf(u))
    BY <2>1, <2>2, RequestAdded
  <2> QED
    BY <1>1, <2>1, <2>3, ClaimKept DEF server
<1>3. CASE MenuAsks
  <2>1. PICK msgid \in Waits, from \in User, id \in Id \cup {NoUser} :
            /\ Ask(msgid, from, id)
            /\ CASE msgid = "LOGIN_MSG" -> menu = "startMenu"
                 [] msgid = "ADD_FRIEND_MSG" -> menu = "mainMenu" /\ id \in User
                 [] msgid = "CREATE_GROUP_MSG" -> menu \in {"mainMenu", "createGroup"}
                 [] OTHER -> menu \in {"mainMenu", "addGroup"} /\ id \in GroupId
            /\ msgid # "LOGIN_MSG" => from = current
    BY <1>3, Asks
  <2>2. msgid \in Asked \ {"LOGIN_OUT_MSG"} /\ msgid # "ADD_GROUP_MSG"
    BY DEF Asked, Waits
  <2>3. msgid = "ADD_FRIEND_MSG" => id \in User
    BY <2>1
  <2> QED
    BY <1>2, <2>1, <2>2, <2>3 DEF Ask
<1>4. CASE Join
  <2>1. current \in User /\ typed \in GroupId /\ "ADD_GROUP_MSG" \in Asked \ {"LOGIN_OUT_MSG"}
    BY <1>4 DEF Screen, Types, Outside, Join, Asked
  <2>2. CASE Send("ADD_GROUP_MSG", current, typed)
    BY <1>2, <2>1, <2>2 DEF Id
  <2>3. CASE UNCHANGED <<requests, replies, server>>
    BY <1>1, <2>3 DEF Claim, OneClaim, HasClaim, server
  <2> QED
    BY <1>4, <2>2, <2>3 DEF Join
<1> QED
  BY <1>3, <1>4

LEMMA LoginoutClaims == ASSUME LInv, Claims, Loginout PROVE Claims'
<1> USE DEF LInv, Shape
<1> SUFFICES ASSUME NEW u \in User PROVE Claim(u)'
  BY DEF Claims
<1>1. Claim(u) /\ u # NoUser
  BY GroupsAssumption DEF Claims
<1>2. menu = "mainMenu" /\ current' = NoUser /\ Send("LOGIN_OUT_MSG", current, NoUser)
  BY DEF Loginout
<1>3. current \in User
  BY <1>2 DEF Screen, Types, Outside
<1> DEFINE r == [msgid |-> "LOGIN_OUT_MSG", from |-> current, id |-> NoUser]
<1>4. r \in GoodRequest /\ requests' = requests \o <<r>> /\ UNCHANGED <<replies, server>>
  BY <1>2, <1>3, Sent DEF Asked
<1>5. r \in LogoutOf(u) <=> current = u
  BY <1>4 DEF LogoutOf
<1> HIDE DEF r
<1>6. /\ Has(requests', LogoutOf(u)) <=> Has(requests, LogoutOf(u)) \/ r \in LogoutOf(u)
      /\ Before(requests', LogoutOf(u), LogoutOf(u)) <=>
             \/ Before(requests, LogoutOf(u), LogoutOf(u))
             \/ Has(requests, LogoutOf(u)) /\ r \in LogoutOf(u)
  BY <1>4, RequestAdded
<1> QED
  BY <1>1, <1>2, <1>4, <1>5, <1>6 DEF Claim, OneClaim, HasClaim, server

LEMMA ReceiveClaims == ASSUME LInv, Claims, MenuReceives \/ ReaderReceives PROVE Claims'
<1> USE DEF LInv, Shape
<1> SUFFICES ASSUME NEW u \in User PROVE Claim(u)'
  BY DEF Claims
<1>1. Claim(u) /\ u # NoUser
  BY GroupsAssumption DEF Claims
<1>2. UNCHANGED <<requests, server>>
  BY DEF MenuReceives, ReaderReceives
<1>3. ASSUME NEW n \in 1 .. Len(replies), replies' = SubSeq(replies, n + 1, Len(replies)),
             current' = u => current = u
      PROVE  Claim(u)'
  <2>1. /\ Has(replies', AckOf(u)) => Has(replies, AckOf(u))
        /\ Before(replies', AckOf(u), AckOf(u)) => Before(replies, AckOf(u), AckOf(u))
    BY <1>3, RepliesGone
  <2> QED
    BY <1>1, <1>2, <1>3, <2>1, ClaimKept DEF server
<1>4. CASE ReaderReceives
  BY <1>3, <1>4 DEF ReaderReceives, screen
<1>5. CASE MenuReceives
  <2>1. PICK n \in 1 .. Len(replies) :
            /\ replies' = SubSeq(replies, n + 1, Len(replies))
            /\ \/ Throws
               \/ n = 1 /\ replies[1].errno # 0 /\ TakesRefusal
               \/ /\ n = 1 /\ replies[1].errno = 0
                  /\ HasFields(replies[1]) /\ TakesSuccess(replies[1])
    BY <1>5, ReadTaken
  <2>2. menu \in Waits /\ replies[1] \in GoodReply
    BY <1>2, <1>5, <2>1, RepliesRead DEF MenuReceives
  <2>3. CASE current' = u /\ current # u
    <3>1. /\ replies[1].errno = 0 /\ HasFields(replies[1]) /\ TakesSuccess(replies[1])
      BY <1>1, <2>1, <2>3 DEF Throws, TakesRefusal
    <3>2. replies[1].msgid = "LOGIN_MSG_ACK" /\ replies[1].id = u
      BY <2>2, <2>3, <3>1, SuccessTaken DEF lists
    <3>3. replies[1] \in AckOf(u)
      BY <2>2, <3>1, <3>2 DEF AckOf
    <3>4. /\ Has(replies, AckOf(u))
          /\ Has(replies', AckOf(u)) => Before(replies, AckOf(u), AckOf(u))
          /\ Before(replies', AckOf(u), AckOf(u)) => Before(replies, AckOf(u), AckOf(u))
      BY <2>1, <3>3, RepliesGone
    <3> QED
      BY <1>1, <1>2, <2>3, <3>4 DEF Claim, OneClaim, HasClaim, server
  <2> QED
    BY <1>3, <2>1, <2>3
<1> QED
  BY <1>4, <1>5

LEMMA OnMessageClaims == ASSUME LInv, Claims, OnMessage PROVE Claims'
<1> USE DEF LInv, Shape
<1> SUFFICES ASSUME NEW u \in User PROVE Claim(u)'
  BY DEF Claims
<1>1. PICK n \in 1 .. Len(requests) :
          Handle(requests[1]) /\ requests' = SubSeq(requests, n + 1, Len(requests))
  BY DEF OnMessage
<1>2. Idle /\ UNCHANGED screen
  BY DEF OnMessage
<1>3. Claim(u) /\ u # NoUser /\ UNCHANGED current
  BY <1>2, GroupsAssumption DEF Claims, screen
<1> DEFINE r == requests[1]
<1>4. /\ r \in GoodRequest /\ Handle(r)
      /\ Has(requests', LogoutOf(u)) => Has(requests, LogoutOf(u))
      /\ Before(requests', LogoutOf(u), LogoutOf(u)) => Before(requests, LogoutOf(u), LogoutOf(u))
      /\ r \in LogoutOf(u) => Has(requests, LogoutOf(u))
      /\ r \in LogoutOf(u) /\ Has(requests', LogoutOf(u)) =>
             Before(requests, LogoutOf(u), LogoutOf(u))
  BY <1>1, RequestsRead, RequestsGone
<1> HIDE DEF r
<1>5. /\ Has(replies', AckOf(u)) => Has(replies, AckOf(u))
      /\ Before(replies', AckOf(u), AckOf(u)) => Before(replies, AckOf(u), AckOf(u))
  <2>1. nextId \in Nat \ {0}
    BY GroupsAssumption DEF FInv, GInv, GTypeOK
  <2>2. ASSUME NEW text \in GoodReply, Reply(<<text>>), Answers(r, text)
        PROVE  /\ Has(replies', AckOf(u)) => Has(replies, AckOf(u))
               /\ Before(replies', AckOf(u), AckOf(u)) => Before(replies, AckOf(u), AckOf(u))
    <3>1. text \notin AckOf(u)
      BY <2>2 DEF Answers, AckOf
    <3> QED
      BY <2>2, <3>1, ReplyAdded
  <2> QED
    BY <1>4, <2>1, <2>2, AnswersGood
<1>6. login.id = NoUser
  BY <1>2 DEF Idle, NoLogin
<1>7. CASE /\ r.from \notin served /\ served' = served \cup {r.from}
           /\ login' = [id |-> r.from, next |-> "friends", left |-> {}, found |-> Nothing]
  BY <1>3, <1>4, <1>5, <1>6, <1>7 DEF Claim, OneClaim, HasClaim
<1>8. CASE r.msgid = "LOGIN_OUT_MSG" /\ served' = served \ {r.from} /\ UNCHANGED login
  <2>1. r \in LogoutOf(u) <=> r.from = u
    BY <1>4, <1>8 DEF LogoutOf
  <2>2. u # r.from => (u \in served <=> u \in served')
    BY <1>8
  <2> QED
    BY <1>3, <1>4, <1>5, <1>6, <1>8, <2>1, <2>2 DEF Claim, OneClaim, HasClaim
<1>9. CASE UNCHANGED server
  BY <1>3, <1>4, <1>5, <1>9, ClaimKept DEF server
<1> QED
  BY <1>2, <1>4, <1>7, <1>8, <1>9, HandledSessions

LEMMA RowsClaims == ASSUME LInv, Claims, ServerRows PROVE Claims'
<1> USE DEF LInv, Shape
<1> SUFFICES ASSUME NEW u \in User PROVE Claim(u)'
  BY DEF Claims
<1>1. PICK w \in served : FriendRows(w) \/ GroupRows(w)
  BY DEF ServerRows
<1>2. w \in User /\ GInv /\ UNCHANGED <<screen, requests, server>>
  BY DEF ServerRows, Types, FInv
<1>3. Claim(u)
  BY DEF Claims
<1>4. /\ Ok("ADD_FRIEND_MSG", NoUser) \in GoodReply \ AckOf(u)
      /\ \A g \in GroupId : Ok("ADD_GROUP_MSG", g) \in GoodReply \ AckOf(u)
  BY GoodAnswers DEF Ok, AckOf
<1>5. /\ Has(replies', AckOf(u)) => Has(replies, AckOf(u))
      /\ Before(replies', AckOf(u), AckOf(u)) => Before(replies, AckOf(u), AckOf(u))
  <2>1. ASSUME NEW text \in GoodReply \ AckOf(u), Reply(<<text>>)
        PROVE  /\ Has(replies', AckOf(u)) => Has(replies, AckOf(u))
               /\ Before(replies', AckOf(u), AckOf(u)) => Before(replies, AckOf(u), AckOf(u))
    BY <2>1, ReplyAdded
  <2> QED
    BY <1>1, <1>2, <1>4, <2>1, RowsAnswer
<1> QED
  BY <1>2, <1>3, <1>5, ClaimKept DEF screen, server

LEMMA LoginAnswerClaims == ASSUME LInv, Claims, LoginAnswer PROVE Claims'
<1> USE DEF LInv, Shape
<1> SUFFICES ASSUME NEW u \in User PROVE Claim(u)'
  BY DEF Claims
<1> DEFINE text == [Ok("LOGIN_MSG_ACK", login.id) EXCEPT !.found = login.found]
<1>1. /\ login.next = "members" /\ login' = NoLogin /\ Reply(<<text>>)
      /\ UNCHANGED <<screen, requests, served>>
  BY DEF LoginAnswer
<1>2. Claim(u) /\ u # NoUser /\ login'.id = NoUser
  BY <1>1, GroupsAssumption DEF Claims, NoLogin
<1>3. text \in GoodReply
  BY <1>1, GoodAnswers DEF LoginState
<1>4. text \in AckOf(u) <=> login.id = u
  BY <1>3 DEF AckOf, Ok
<1> HIDE DEF text
<1>5. /\ Has(replies', AckOf(u)) <=> Has(replies, AckOf(u)) \/ text \in AckOf(u)
      /\ Before(replies', AckOf(u), AckOf(u)) <=>
             \/ Before(replies, AckOf(u), AckOf(u))
             \/ Has(replies, AckOf(u)) /\ text \in AckOf(u)
  BY <1>1, <1>3, ReplyAdded
<1> QED
  BY <1>1, <1>2, <1>4, <1>5 DEF Claim, OneClaim, HasClaim, screen

LEMMA OtherClaims ==
    ASSUME LInv, Claims, LoginQueries \/ Elsewhere \/ UNCHANGED lvars PROVE Claims'
<1> USE DEF LInv, Shape
<1> SUFFICES ASSUME NEW u \in User PROVE Claim(u)'
  BY DEF Claims
<1>1. UNCHANGED <<current, requests, replies, served>>
  BY DEF LoginQueries, Elsewhere, lvars, screen, server
<1>2. login'.id = login.id
  BY QueriesDone DEF Elsewhere, lvars, server, FInv, GInv
<1>3. Claim(u)
  BY DEF Claims
<1> QED
  BY <1>1, <1>2, <1>3 DEF Claim, OneClaim, HasClaim

LEMMA ClaimsStep == ASSUME LInv, Claims, [LNext]_lvars PROVE Claims'
BY AskClaims, LoginoutClaims, ReceiveClaims, OnMessageClaims, RowsClaims, LoginAnswerClaims,
   OtherClaims DEF LNext

LEMMA ClaimsInit == ASSUME LInit PROVE Claims
BY GroupsAssumption DEF LInit, Claims, Claim, OneClaim, HasClaim, Has, Before, NoLogin

-----------------------------------------------------------------------------
(* What login gathers, and what is on the list of groups.                  *)

HasRow(g, u) == \E role \in Role : <<g, u, role>> \in groupUser

\* What is shown of a group, and what login found, is right and stays so.
EntryOk(entry, u) ==
    entry.members # {} =>
        /\ \E role \in Role : <<u, role>> \in entry.members
        /\ \A v \in User : <<v, "creator">> \in entry.members =>
               entry.id \in allGroup /\ creator[entry.id] = v
FoundOk(found, u) ==
    /\ \A v \in found.friends : <<u, v>> \in friend
    /\ \A entry \in found.groups : EntryOk(entry, u) /\ HasRow(entry.id, u)

WrongAck ==
    {r \in GoodReply : r.msgid = "LOGIN_MSG_ACK" /\ r.errno = 0 /\ ~FoundOk(r.found, r.id)}
RepliesRight == ~Has(replies, WrongAck)
LoginRight ==
    /\ login.next # "none" => FoundOk(login.found, login.id)
    /\ login.next = "members" => \A g \in login.left : HasRow(g, login.id)
EntriesRight == \A entry \in groupList : EntryOk(entry, current)

\* The tables only grow, but for the rows of a user who leaves a group, and
\* that is none whose session is here.
LEMMA TablesGrow ==
    ASSUME LInv, [LNext]_lvars, NEW u \in served
    PROVE  /\ friend \subseteq friend' /\ allGroup \subseteq allGroup'
           /\ \A g \in GroupId : HasRow(g, u) => HasRow(g, u)'
           /\ \A g \in allGroup : creator'[g] = creator[g]
<1>1. GTypeOK /\ u \in User
  BY DEF LInv, FInv, GInv, Shape, Types
<1>2. CASE UNCHANGED gvars
  BY <1>2 DEF gvars, tables, HasRow
<1>3. ASSUME NEW w \in User, Statements(w)
      PROVE  /\ friend \subseteq friend' /\ allGroup \subseteq allGroup'
             /\ groupUser \subseteq groupUser'
             /\ \A g \in allGroup : creator'[g] = creator[g]
  <2>1. nextId \notin allGroup
    BY <1>1, GroupsAssumption DEF GTypeOK, LInv, FInv, GInv, IdsGivenOut
  <2>2. CASE CreateGroup(w)
    BY <1>1, <2>1, <2>2 DEF CreateGroup, GTypeOK
  <2>3. CASE CreateGroupRow(w) \/ AddGroupRow(w)
    BY <2>3 DEF CreateGroupRow, AddGroupRow, InsertMember, Insert, InsertFails
  <2>4. CASE AddFriendRow(w) \/ AddFriendRowBack(w)
    BY <2>4 DEF AddFriendRow, AddFriendRowBack, FriendInsert, Insert, InsertFails
  <2> QED
    BY <1>3, <2>2, <2>3, <2>4 DEF Statements, AddGroup, AddFriend, tables
<1>4. ASSUME NEW w \in User \ served, NEW g \in GroupId, RemoveGroup(w, g)
      PROVE  /\ UNCHANGED <<friend, allGroup, creator>>
             /\ \A h \in GroupId : HasRow(h, u) => HasRow(h, u)'
  <2>1. groupUser' = {row \in groupUser : row[1] # g \/ row[2] # w} /\ u # w
    BY <1>4 DEF RemoveGroup
  <2> QED
    BY <1>4, <2>1 DEF RemoveGroup, HasRow
<1>5. groupUser \subseteq groupUser' => \A g \in GroupId : HasRow(g, u) => HasRow(g, u)'
  BY DEF HasRow
<1> QED
  BY <1>2, <1>3, <1>4, <1>5, StepStatements DEF LInv

LEMMA RightKept ==
    ASSUME LInv, [LNext]_lvars, NEW u \in served
    PROVE  /\ \A entry \in Entry : EntryOk(entry, u) => EntryOk(entry, u)'
           /\ \A found \in FoundData : FoundOk(found, u) => FoundOk(found, u)'
<1>1. /\ friend \subseteq friend' /\ allGroup \subseteq allGroup'
      /\ \A g \in GroupId : HasRow(g, u) => HasRow(g, u)'
      /\ \A g \in allGroup : creator'[g] = creator[g]
  BY TablesGrow
<1>2. \A entry \in Entry : EntryOk(entry, u) => EntryOk(entry, u)'
  BY <1>1 DEF EntryOk
<1>3. \A found \in FoundData : /\ found.groups \subseteq Entry
                               /\ \A entry \in found.groups : entry.id \in GroupId
  BY DEF FoundData, Entry
<1> QED
  BY <1>1, <1>2, <1>3 DEF FoundOk

\* The user an answer of login is for has a session, and so has the one that
\* is logged in.
LEMMA AckServed ==
    ASSUME LInv, Claims
    PROVE  /\ \A i \in DOMAIN replies : replies[i].msgid = "LOGIN_MSG_ACK" /\ replies[i].errno = 0
                  => replies[i].id \in served
           /\ login.next # "none" => login.id \in served
           /\ current # NoUser => current \in served
<1>1. ASSUME NEW i \in DOMAIN replies, replies[i].msgid = "LOGIN_MSG_ACK", replies[i].errno = 0
      PROVE  replies[i].id \in served
  <2>1. replies[i] \in GoodReply
    BY DEF LInv, Shape, Streams
  <2>2. replies[i].id \in User /\ replies[i] \in AckOf(replies[i].id)
    BY <1>1, <2>1 DEF GoodReply, AckOf
  <2> QED
    BY <2>2 DEF Claims, Claim, HasClaim, Has
<1>2. login.next # "none" => login.id \in User
  BY DEF LInv, Shape, LoginState
<1>3. current # NoUser => current \in User
  BY DEF LInv, Shape, Types
<1> QED
  BY <1>1, <1>2, <1>3 DEF Claims, Claim, HasClaim

LEMMA WrongKept == ASSUME LInv, Claims, [LNext]_lvars, Has(replies, WrongAck') PROVE Has(replies, WrongAck)
<1>1. PICK i \in DOMAIN replies : replies[i] \in WrongAck'
  BY DEF Has
<1>2. PICK r \in GoodReply : r = replies[i]
  BY DEF LInv, Shape, Streams
<1>3. r.msgid = "LOGIN_MSG_ACK" /\ r.errno = 0 /\ ~FoundOk(r.found, r.id)'
  BY <1>1, <1>2 DEF WrongAck
<1>4. r.id \in served /\ r.found \in FoundData
  BY <1>2, <1>3, AckServed DEF GoodReply
<1>5. ~FoundOk(r.found, r.id)
  BY <1>3, <1>4, RightKept
<1> QED
  BY <1>2, <1>3, <1>5 DEF WrongAck, Has

LEMMA RepliesRightStep ==
    ASSUME LInv, Claims, RepliesRight, LoginRight, [LNext]_lvars PROVE RepliesRight'
<1> USE DEF LInv, Shape
<1>1. ~Has(replies, WrongAck')
  BY WrongKept DEF RepliesRight
<1> SUFFICES ~Has(replies', WrongAck')
  BY DEF RepliesRight, Has
<1>2. CASE UNCHANGED replies
  BY <1>1, <1>2
<1>3. ASSUME NEW text \in GoodReply, Reply(<<text>>), text \notin WrongAck'
      PROVE  ~Has(replies', WrongAck')
  BY <1>1, <1>3, ReplyAdded
<1>4. \A text \in GoodReply : text.msgid # "LOGIN_MSG_ACK" \/ text.errno # 0 => text \notin WrongAck'
  BY DEF WrongAck
<1>5. CASE MenuReceives \/ ReaderReceives
  <2>1. PICK n \in 1 .. Len(replies) : replies' = SubSeq(replies, n + 1, Len(replies))
    BY <1>5 DEF MenuReceives, ReaderReceives
  <2> QED
    BY <1>1, <2>1, RepliesGone
<1>6. CASE OnMessage
  <2>1. PICK n \in 1 .. Len(requests) :
            Handle(requests[1]) /\ requests' = SubSeq(requests, n + 1, Len(requests))
    BY <1>6 DEF OnMessage
  <2>2. requests[1] \in GoodRequest /\ nextId \in Nat \ {0}
    BY <2>1, RequestsRead, GroupsAssumption DEF FInv, GInv, GTypeOK
  <2>3. ASSUME NEW text \in GoodReply, Reply(<<text>>), Answers(requests[1], text)
        PROVE  ~Has(replies', WrongAck')
    BY <1>3, <1>4, <2>3 DEF Answers
  <2> QED
    BY <1>2, <2>1, <2>2, <2>3, AnswersGood
<1>7. CASE ServerRows
  <2>1. PICK u \in served : FriendRows(u) \/ GroupRows(u)
    BY <1>7 DEF ServerRows
  <2>2. u \in User /\ GInv
    BY DEF Types, FInv
  <2>3. /\ Ok("ADD_FRIEND_MSG", NoUser) \in GoodReply
        /\ \A g \in GroupId : Ok("ADD_GROUP_MSG", g) \in GoodReply
        /\ \A id : /\ Ok("ADD_FRIEND_MSG", id).msgid # "LOGIN_MSG_ACK"
                   /\ Ok("ADD_GROUP_MSG", id).msgid # "LOGIN_MSG_ACK"
    BY GoodAnswers DEF Ok
  <2> QED
    BY <1>2, <1>3, <1>4, <2>1, <2>2, <2>3, RowsAnswer
<1>8. CASE LoginAnswer
  <2> DEFINE text == [Ok("LOGIN_MSG_ACK", login.id) EXCEPT !.found = login.found]
  <2>1. login.next = "members" /\ Reply(<<text>>)
    BY <1>8 DEF LoginAnswer
  <2>2. PICK u \in served, found \in FoundData : u = login.id /\ found = login.found
    BY <2>1, AckServed DEF LoginState
  <2>3. FoundOk(found, u)'
    BY <2>1, <2>2, RightKept DEF LoginRight
  <2>4. text \in GoodReply /\ text.id = u /\ text.found = found
    BY <2>2, GoodAnswers DEF Types, Ok
  <2>5. text \notin WrongAck'
    BY <2>3, <2>4 DEF WrongAck
  <2> QED
    BY <1>3, <2>1, <2>4, <2>5
<1>9. CASE MenuAsks \/ Join \/ Loginout \/ LoginQueries \/ Elsewhere \/ UNCHANGED lvars
  BY <1>2, <1>9 DEF MenuAsks, Ask, Join, Loginout, Send, LoginQueries, Elsewhere, lvars
<1> QED
  BY <1>5, <1>6, <1>7, <1>8, <1>9 DEF LNext

\* A query reads what is in the tables, or nothing.
LEMMA QueriesRight ==
    ASSUME LInv, Claims, LoginRight, LoginQueries PROVE LoginRight'
<1> USE DEF LInv, Shape
<1>1. UNCHANGED <<friend, groupUser, allGroup, creator>> /\ GInv
  BY DEF LoginQueries, gvars, tables, FInv
<1>2. /\ \A found, u : FoundOk(found, u)' <=> FoundOk(found, u)
      /\ \A g, u : HasRow(g, u)' <=> HasRow(g, u)
  BY <1>1 DEF FoundOk, EntryOk, HasRow
<1>3. login.next # "none" /\ login.id \in User /\ login.found \in FoundData
  BY QueriesDone DEF LoginState, FInv, GInv
<1>4. FoundOk(login.found, login.id)
  BY <1>3 DEF LoginRight
<1>5. CASE ReadFriends
  <2>1. PICK read \in SUBSET User :
            /\ read \subseteq {v \in User : <<login.id, v>> \in friend}
            /\ login' = [login EXCEPT !.next = "groups", !.found.friends = read]
    BY <1>5 DEF ReadFriends, Reads
  <2>2. /\ login'.next = "groups" /\ login'.id = login.id
        /\ login'.found.friends = read /\ login'.found.groups = login.found.groups
    BY <1>3, <2>1 DEF LoginState, FoundData
  <2> QED
    BY <1>1, <1>4, <2>1, <2>2 DEF LoginRight, FoundOk, EntryOk, HasRow
<1>6. CASE ReadGroups
  <2>1. PICK read \in SUBSET GroupId :
            /\ read \subseteq GroupsOf(login.id)
            /\ login' = [login EXCEPT !.next = "members", !.left = read]
    BY <1>6 DEF ReadGroups, Reads
  <2>2. /\ login'.next = "members" /\ login'.id = login.id
        /\ login'.left = read /\ login'.found = login.found
    BY <2>1 DEF LoginState
  <2>3. \A g \in read : HasRow(g, login.id)
    BY <2>1 DEF GroupsOf, HasRow
  <2> QED
    BY <1>1, <1>4, <2>2, <2>3 DEF LoginRight, FoundOk, EntryOk, HasRow
<1>7. CASE ReadMembers
  <2>1. PICK g \in login.left, read \in SUBSET (User \X Role) :
            /\ login.next = "members" /\ Reads(MembersOf(g), read)
            /\ login' = [login EXCEPT !.left = @ \ {g},
                                   !.found.groups = @ \cup {[id |-> g, members |-> read]}]
    BY <1>7 DEF ReadMembers
  <2> DEFINE entry == [id |-> g, members |-> read]
  <2>2. /\ login'.next = "members" /\ login'.id = login.id
        /\ login'.left = login.left \ {g} /\ login'.found.friends = login.found.friends
        /\ login'.found.groups = login.found.groups \cup {entry}
    BY <1>3, <2>1 DEF LoginState, FoundData
  <2>3. HasRow(g, login.id) /\ g \in GroupId
    BY <2>1 DEF LoginRight, LoginState
  <2>4. entry.id = g /\ entry.members = read
    OBVIOUS
  <2>5. EntryOk(entry, login.id)
    <3>1. CASE read = {}
      BY <2>4, <3>1 DEF EntryOk
    <3>2. CASE read = MembersOf(g)
      <4>1. \A v \in User, role \in Role : <<v, role>> \in read <=> <<g, v, role>> \in groupUser
        BY <1>1, <2>3, <3>2 DEF MembersOf, GInv, GTypeOK
      <4>2. \E role \in Role : <<login.id, role>> \in read
        BY <1>3, <2>3, <4>1 DEF HasRow
      <4>3. \A v \in User : <<v, "creator">> \in read => g \in allGroup /\ creator[g] = v
        BY <1>1, <2>3, <4>1 DEF GInv, CreatorRows, Role
      <4> QED
        BY <2>4, <4>2, <4>3 DEF EntryOk
    <3> QED
      BY <2>1, <3>1, <3>2 DEF Reads
  <2> HIDE DEF entry
  <2>6. FoundOk(login'.found, login.id)
    BY <1>4, <2>2, <2>3, <2>4, <2>5 DEF FoundOk
  <2>7. \A h \in login'.left : HasRow(h, login.id)
    BY <2>1, <2>2 DEF LoginRight
  <2> QED
    BY <1>1, <2>2, <2>6, <2>7 DEF LoginRight, FoundOk, EntryOk, HasRow
<1> QED
  BY <1>5, <1>6, <1>7 DEF LoginQueries

LEMMA LoginRightStep ==
    ASSUME LInv, Claims, LoginRight, [LNext]_lvars PROVE LoginRight'
<1> USE DEF LInv, Shape
<1>1. CASE UNCHANGED login
  <2> SUFFICES ASSUME login.next # "none" PROVE LoginRight'
    BY <1>1 DEF LoginRight
  <2>1. PICK u \in served, found \in FoundData, left \in SUBSET GroupId :
            u = login.id /\ found = login.found /\ left = login.left
    BY AckServed DEF LoginState
  <2>2. FoundOk(found, u)'
    BY <2>1, RightKept DEF LoginRight
  <2>3. \A g \in left : HasRow(g, u) => HasRow(g, u)'
    BY TablesGrow
  <2>4. UNCHANGED <<login>>
    BY <1>1
  <2>5. login'.id = u /\ login'.found = found /\ login'.left = left /\ login'.next = login.next
    BY <2>1, <2>4
  <2>6. FoundOk(login.found, login.id)'
    BY <2>2, <2>5 DEF FoundOk, EntryOk, HasRow
  <2>7. login.next = "members" => \A g \in login'.left : HasRow(g, login.id)'
    BY <2>1, <2>3, <2>5 DEF LoginRight, HasRow
  <2> QED
    BY <2>5, <2>6, <2>7 DEF LoginRight
<1>2. CASE login' = NoLogin
  BY <1>2 DEF LoginRight, NoLogin
<1>3. ASSUME NEW u \in User,
             login' = [id |-> u, next |-> "friends", left |-> {}, found |-> Nothing]
      PROVE  LoginRight'
  BY <1>3 DEF LoginRight, FoundOk, Nothing
<1>4. CASE OnMessage
  <2>1. PICK n \in 1 .. Len(requests) :
            Handle(requests[1]) /\ requests' = SubSeq(requests, n + 1, Len(requests))
    BY <1>4 DEF OnMessage
  <2>2. requests[1] \in GoodRequest /\ requests[1].from \in User /\ Idle
    BY <1>4, <2>1, RequestsRead DEF GoodRequest, OnMessage
  <2> QED
    BY <1>1, <1>3, <2>1, <2>2, HandledSessions DEF server
<1>5. CASE LoginQueries
  BY <1>5, QueriesRight
<1>6. CASE LoginAnswer
  BY <1>2, <1>6 DEF LoginAnswer
<1>7. CASE MenuAsks \/ Join \/ Loginout \/ MenuReceives \/ ReaderReceives \/ ServerRows
           \/ Elsewhere \/ UNCHANGED lvars
  BY <1>1, <1>7 DEF MenuAsks, Ask, Join, Loginout, Send, MenuReceives, ReaderReceives,
                    ServerRows, Elsewhere, lvars, server
<1> QED
  BY <1>4, <1>5, <1>6, <1>7 DEF LNext

LEMMA EntriesRightStep ==
    ASSUME LInv, Claims, RepliesRight, EntriesRight, [LNext]_lvars PROVE EntriesRight'
<1> USE DEF LInv, Shape
<1>1. NoUser \notin User
  BY GroupsAssumption
<1>2. ASSUME groupList # {}, NEW entry \in groupList PROVE EntryOk(entry, current)'
                                                           \/ current' # current
  <2>1. entry \in Entry /\ current # NoUser
    BY <1>2 DEF Types, Screen
  <2>2. PICK u \in served : u = current
    BY <2>1, AckServed
  <2>3. EntryOk(entry, u)'
    BY <1>2, <2>1, <2>2, RightKept DEF EntriesRight
  <2> QED
    BY <2>2, <2>3 DEF EntryOk
<1>3. \A g \in GroupId, u \in User : EntryOk(NewEntry(g), u)'
  BY DEF EntryOk, NewEntry
<1>4. CASE UNCHANGED <<current, groupList>>
  BY <1>2, <1>4 DEF EntriesRight
<1>5. CASE groupList' = {}
  BY <1>5 DEF EntriesRight
<1>6. ASSUME NEW g \in GroupId, groupList' = groupList \cup {NewEntry(g)}, UNCHANGED current,
             current \in User
      PROVE  EntriesRight'
  <2>1. EntryOk(NewEntry(g), current)'
    BY <1>6 DEF EntryOk, NewEntry
  <2> QED
    BY <1>2, <1>6, <2>1 DEF EntriesRight
<1>7. CASE MenuReceives
  <2>1. PICK n \in 1 .. Len(replies) :
            /\ replies' = SubSeq(replies, n + 1, Len(replies))
            /\ \/ Throws
               \/ n = 1 /\ replies[1].errno # 0 /\ TakesRefusal
               \/ /\ n = 1 /\ replies[1].errno = 0
                  /\ HasFields(replies[1]) /\ TakesSuccess(replies[1])
    BY <1>7, ReadTaken
  <2>2. /\ menu \in Waits /\ replies[1] \in GoodReply /\ 1 \in DOMAIN replies
        /\ UNCHANGED gvars
    BY <1>7, <2>1, RepliesRead DEF MenuReceives
  <2>3. PICK r \in GoodReply : r = replies[1]
    BY <2>2
  <2>4. CASE Throws \/ TakesRefusal
    BY <1>4, <1>5, <2>4 DEF Throws, TakesRefusal, lists
  <2>5. CASE /\ r.msgid = "LOGIN_MSG_ACK" /\ r.errno = 0
             /\ current' = r.id /\ groupList' = r.found.groups
    <3>1. r \notin WrongAck
      BY <2>2, <2>3 DEF RepliesRight, Has
    <3>2. FoundOk(r.found, r.id)
      BY <2>5, <3>1 DEF WrongAck
    <3>3. \A entry \in r.found.groups : EntryOk(entry, r.id)
      BY <3>2 DEF FoundOk
    <3>4. UNCHANGED <<allGroup, creator>>
      BY <2>2 DEF gvars, tables
    <3> QED
      BY <2>5, <3>3, <3>4 DEF EntriesRight, EntryOk
  <2>6. CASE \E g \in GroupId : groupList' = groupList \cup {NewEntry(g)} /\ UNCHANGED current
                                /\ menu = "CREATE_GROUP_MSG"
    <3>1. current \in User
      BY <2>6 DEF Screen, Types, Outside
    <3> QED
      BY <1>6, <2>6, <3>1
  <2> QED
    BY <1>4, <2>1, <2>2, <2>3, <2>4, <2>5, <2>6, SuccessTaken DEF lists
<1>8. CASE Join
  <2>1. current \in User /\ typed \in GroupId /\ UNCHANGED current
    BY <1>8 DEF Join, Screen, Types, Outside
  <2> QED
    BY <1>4, <1>6, <1>8, <2>1 DEF Join
<1>9. CASE Loginout
  BY <1>5, <1>9 DEF Loginout
<1>10. CASE MenuAsks \/ ReaderReceives \/ OnMessage \/ ServerRows \/ LoginQueries
            \/ LoginAnswer \/ Elsewhere \/ UNCHANGED lvars
  BY <1>4, <1>10 DEF MenuAsks, Ask, ReaderReceives, OnMessage, ServerRows, LoginQueries,
                     LoginAnswer, Elsewhere, lvars, screen, lists
<1> QED
  BY <1>7, <1>8, <1>9, <1>10 DEF LNext

\* What the members invariant needs, as one.
Right == Claims /\ RepliesRight /\ LoginRight /\ EntriesRight

LEMMA RightInit == ASSUME LInit PROVE Right
<1>1. Claims
  BY ClaimsInit
<1>2. RepliesRight /\ LoginRight /\ EntriesRight
  BY DEF LInit, RepliesRight, Has, LoginRight, NoLogin, EntriesRight
<1> QED
  BY <1>1, <1>2 DEF Right

LEMMA RightStep == ASSUME LInv, Right, [LNext]_lvars PROVE Right'
BY ClaimsStep, RepliesRightStep, LoginRightStep, EntriesRightStep DEF Right

LEMMA RightHolds == LSpec => [](LInv /\ Right)
<1>1. LInit => LInv /\ Right
  BY LInvInit, RightInit
<1>2. LInv /\ Right /\ [LNext]_lvars => LInv' /\ Right'
  BY LInvStep, RightStep
<1> QED
  BY <1>1, <1>2, PTL DEF LSpec

\* The members showGroups prints were read group by group while others joined
\* and left: the user is still among them, and nobody is shown as the creator
\* but the user who created the group; for any number of users and groups.
THEOREM MembersAreRight == LSpec => []MembersShownAreRight
<1>1. LInv /\ Right => MembersShownAreRight
  BY DEF Right, EntriesRight, EntryOk, MembersShownAreRight
<1> QED
  BY <1>1, RightHolds, PTL

-----------------------------------------------------------------------------
(* The friend or group on the list is stored, refused or still to come.    *)

FriendRequest(u, v) ==
    {r \in GoodRequest : r.msgid = "ADD_FRIEND_MSG" /\ r.from = u /\ r.id = v}
GroupRequest(u, g) ==
    {r \in GoodRequest : r.msgid = "ADD_GROUP_MSG" /\ r.from = u /\ r.id = g}

FriendOk(v) ==
    \/ <<current, v>> \in friend
    \/ v \in refused
    \/ Has(requests, FriendRequest(current, v))
    \/ at[current] \in {"friendRow", "friendRowBack"} /\ peer[current] = v
GroupOk(g) ==
    \/ HasRow(g, current)
    \/ g \in refused
    \/ Has(requests, GroupRequest(current, g))
    \/ at[current] \in {"memberRow", "creatorRow"} /\ group[current] = g

\* The requests of a read that are not handled are noted.
LEMMA Noted ==
    ASSUME Streams, NEW m \in 1 .. 2, NEW n \in 1 .. Len(requests), NEW i \in m .. n,
           Stores(requests[i])
    PROVE  requests[i].id \in Unserved(SubSeq(requests, m, n))
<1>1. requests \in Seq(GoodRequest)
  BY DEF Streams
<1> DEFINE texts == SubSeq(requests, m, n)
<1>2. PICK j \in DOMAIN texts : texts[j] = requests[i]
  BY <1>1, ReadHas
<1> HIDE DEF texts
<1>3. requests[i].id \in Unserved(texts)
  BY <1>2 DEF Unserved
<1> QED
  BY <1>3 DEF texts

\* One request that is read: it is noted, handled, or still there.
LEMMA ReadNoted ==
    ASSUME Streams, NEW n \in 1 .. Len(requests),
           requests' = SubSeq(requests, n + 1, Len(requests)),
           NEW A, \A r \in A : Stores(r), NEW id, \A r \in A : r.id = id, Has(requests, A)
    PROVE  \/ Has(requests', A)
           \/ id \in Unserved(SubSeq(requests, 2, n))
           \/ requests[1] \in A /\ id \in Unserved(SubSeq(requests, 1, 1))
<1>1. requests \in Seq(GoodRequest) /\ n \in 0 .. Len(requests)
  BY DEF Streams
<1>2. CASE Has(requests', A)
  BY <1>2
<1>3. ASSUME ~Has(requests', A)
      PROVE  \/ id \in Unserved(SubSeq(requests, 2, n))
             \/ requests[1] \in A /\ id \in Unserved(SubSeq(requests, 1, 1))
  <2>1. Among(requests, n, A)
    BY <1>1, <1>3, DropHas
  <2>2. PICK i \in 1 .. n : requests[i] \in A
    BY <2>1 DEF Among
  <2>3. CASE i = 1
    <3>1. 1 \in 1 .. 2 /\ 1 \in 1 .. Len(requests) /\ 1 \in 1 .. 1
      OBVIOUS
    <3> QED
      BY <2>2, <2>3, <3>1, Noted
  <2>4. CASE i # 1
    <3>1. 2 \in 1 .. 2 /\ i \in 2 .. n
      BY <2>4
    <3> QED
      BY <2>2, <3>1, Noted
  <2> QED
    BY <2>3, <2>4
<1> QED
  BY <1>2, <1>3

\* What of this client a step elsewhere, or one that writes nothing, leaves.
LEMMA OkUntouched ==
    ASSUME LInv, [LNext]_lvars, NEW u \in served, current = u, current' = u,
           refused \subseteq refused', \A A : Has(requests, A) => Has(requests', A),
           at'[u] = at[u] /\ group'[u] = group[u] /\ peer'[u] = peer[u]
    PROVE  /\ \A v \in User : FriendOk(v) => FriendOk(v)'
           /\ \A g \in GroupId : GroupOk(g) => GroupOk(g)'
<1>1. friend \subseteq friend' /\ \A g \in GroupId : HasRow(g, u) => HasRow(g, u)'
  BY TablesGrow
<1>2. \A v \in User : FriendOk(v) => FriendOk(v)'
  BY <1>1 DEF FriendOk
<1>3. \A g \in GroupId : GroupOk(g) => GroupOk(g)'
  BY <1>1 DEF GroupOk, HasRow
<1> QED
  BY <1>2, <1>3

LEMMA OnMessageOk ==
    ASSUME LInv, OnMessage, NEW u \in served, current = u
    PROVE  /\ \A v \in User : FriendOk(v) => FriendOk(v)'
           /\ \A g \in GroupId : GroupOk(g) => GroupOk(g)'
<1> USE DEF LInv, Shape
<1>1. PICK n \in 1 .. Len(requests) :
          /\ Handle(requests[1]) /\ requests' = SubSeq(requests, n + 1, Len(requests))
          /\ refused' = refused \cup Unserved(SubSeq(requests, 2, n))
                 \cup (IF at' = at THEN Unserved(SubSeq(requests, 1, 1)) ELSE {})
  BY DEF OnMessage
<1>2. PICK r \in GoodRequest : r = requests[1]
  BY <1>1, RequestsRead
<1>3. u \in User /\ at[u] = "idle" /\ UNCHANGED current /\ GTypeOK
  BY DEF Types, OnMessage, Idle, screen, FInv, GInv
<1>4. [LNext]_lvars
  BY DEF LNext
<1>5. friend \subseteq friend' /\ \A g \in GroupId : HasRow(g, u) => HasRow(g, u)'
  BY <1>4, TablesGrow
<1>6. ASSUME NEW v \in User, FriendOk(v) PROVE FriendOk(v)'
  <2>1. CASE ~Has(requests, FriendRequest(u, v))
    BY <1>1, <1>3, <1>5, <1>6, <2>1 DEF FriendOk
  <2>2. CASE Has(requests, FriendRequest(u, v))
    <3>1. \A q \in FriendRequest(u, v) : Stores(q) /\ q.id = v
      BY DEF FriendRequest, Stores
    <3>2. \/ Has(requests', FriendRequest(u, v))
          \/ v \in Unserved(SubSeq(requests, 2, n))
          \/ r \in FriendRequest(u, v) /\ v \in Unserved(SubSeq(requests, 1, 1))
      BY <1>1, <1>2, <2>2, <3>1, ReadNoted
    <3>3. CASE r \in FriendRequest(u, v) /\ v \in Unserved(SubSeq(requests, 1, 1))
      <4>1. AddFriend(u, v) \/ UNCHANGED gvars
        BY <1>1, <1>2, <3>3, Handled DEF FriendRequest, HandleAddFriend
      <4>2. AddFriend(u, v) => at'[u] = "friendRow" /\ peer'[u] = v
        BY <1>3 DEF AddFriend, Begin, GTypeOK
      <4>3. UNCHANGED gvars => v \in refused'
        BY <1>1, <3>3 DEF gvars, handler
      <4> QED
        BY <1>3, <4>1, <4>2, <4>3 DEF FriendOk
    <3> QED
      BY <1>1, <1>3, <3>2, <3>3 DEF FriendOk
  <2> QED
    BY <2>1, <2>2
<1>7. ASSUME NEW g \in GroupId, GroupOk(g) PROVE GroupOk(g)'
  <2>1. CASE ~Has(requests, GroupRequest(u, g))
    BY <1>1, <1>3, <1>5, <1>7, <2>1 DEF GroupOk, HasRow
  <2>2. CASE Has(requests, GroupRequest(u, g))
    <3>1. \A q \in GroupRequest(u, g) : Stores(q) /\ q.id = g
      BY DEF GroupRequest, Stores
    <3>2. \/ Has(requests', GroupRequest(u, g))
          \/ g \in Unserved(SubSeq(requests, 2, n))
          \/ r \in GroupRequest(u, g) /\ g \in Unserved(SubSeq(requests, 1, 1))
      BY <1>1, <1>2, <2>2, <3>1, ReadNoted
    <3>3. CASE r \in GroupRequest(u, g)
      <4>1. AddGroup(u, g)
        BY <1>1, <1>2, <3>3, Handled DEF GroupRequest, HandleAddGroup
      <4>2. at'[u] = "memberRow" /\ group'[u] = g
        BY <1>3, <4>1 DEF AddGroup, Begin, GTypeOK
      <4> QED
        BY <1>3, <4>2 DEF GroupOk
    <3> QED
      BY <1>1, <1>3, <3>2, <3>3 DEF GroupOk
  <2> QED
    BY <2>1, <2>2
<1> QED
  BY <1>6, <1>7

LEMMA RowsOk ==
    ASSUME LInv, ServerRows, NEW u \in served, current = u
    PROVE  /\ \A v \in User : FriendOk(v) => FriendOk(v)'
           /\ \A g \in GroupId : GroupOk(g) => GroupOk(g)'
<1> USE DEF LInv, Shape
<1>1. PICK w \in served : FriendRows(w) \/ GroupRows(w)
  BY DEF ServerRows
<1>2. u \in User /\ w \in User /\ UNCHANGED <<current, requests>> /\ GTypeOK
  BY DEF Types, ServerRows, screen, FInv, GInv
<1>3. [LNext]_lvars
  BY DEF LNext
<1>4. friend \subseteq friend' /\ \A g \in GroupId : HasRow(g, u) => HasRow(g, u)'
  BY <1>3, TablesGrow
<1>5. refused \subseteq refused'
  BY <1>1 DEF FriendRows, GroupRows
<1>6. CASE w # u
  <2>1. AddFriendRow(w) \/ AddFriendRowBack(w) \/ CreateGroupRow(w) \/ AddGroupRow(w)
    BY <1>1 DEF FriendRows, GroupRows
  <2>2. at'[u] = at[u] /\ group'[u] = group[u] /\ peer'[u] = peer[u]
    BY <1>2, <1>6, <2>1
       DEF AddFriendRow, AddFriendRowBack, CreateGroupRow, AddGroupRow, Return, GTypeOK
  <2> QED
    BY <1>2, <1>3, <1>5, <2>2, OkUntouched
<1>7. CASE w = u /\ AddFriendRow(u)
  <2>1. at[u] = "friendRow" /\ at'[u] = "friendRowBack" /\ peer'[u] = peer[u]
    BY <1>2, <1>7 DEF AddFriendRow, GTypeOK
  <2>2. \A v \in User : FriendOk(v) => FriendOk(v)'
    BY <1>2, <1>4, <1>5, <2>1 DEF FriendOk
  <2>3. \A g \in GroupId : GroupOk(g) => GroupOk(g)'
    BY <1>2, <1>4, <1>5, <2>1 DEF GroupOk, HasRow
  <2> QED
    BY <2>2, <2>3
<1>8. CASE w = u /\ FriendRows(u) /\ AddFriendRowBack(u)
  <2>1. at[u] = "friendRowBack" /\ (<<u, peer[u]>> \in friend' \/ peer[u] \in refused')
    BY <1>8 DEF FriendRows, AddFriendRowBack
  <2>2. \A v \in User : FriendOk(v) => FriendOk(v)'
    BY <1>2, <1>4, <1>5, <2>1 DEF FriendOk
  <2>3. \A g \in GroupId : GroupOk(g) => GroupOk(g)'
    BY <1>2, <1>4, <1>5, <2>1 DEF GroupOk, HasRow
  <2> QED
    BY <2>2, <2>3
<1>9. CASE w = u /\ GroupRows(u)
  <2>1. at[u] \in {"creatorRow", "memberRow"}
    BY <1>9 DEF GroupRows, CreateGroupRow, AddGroupRow
  <2>2. (\E role \in Role : <<group[u], u, role>> \in groupUser') \/ group[u] \in refused'
    BY <1>9 DEF GroupRows
  <2>3. \A v \in User : FriendOk(v) => FriendOk(v)'
    BY <1>2, <1>4, <1>5, <2>1 DEF FriendOk
  <2>4. \A g \in GroupId : GroupOk(g) => GroupOk(g)'
    BY <1>2, <1>4, <1>5, <2>1, <2>2 DEF GroupOk, HasRow
  <2> QED
    BY <2>3, <2>4
<1> QED
  BY <1>1, <1>6, <1>7, <1>8, <1>9 DEF FriendRows

\* What the menu thread sends while a user is logged in.
LEMMA SendsKeep ==
    ASSUME LInv, MenuAsks \/ Join, current \in User
    PROVE  /\ UNCHANGED <<gvars, replies, server, refused, current>>
           /\ \/ UNCHANGED requests
              \/ \E r \in GoodRequest :
                     /\ requests' = requests \o <<r>>
                     /\ r.msgid # "LOGIN_MSG" /\ r.msgid # "LOGIN_OUT_MSG" /\ r.from = current
<1> USE DEF LInv, Shape
<1>1. ASSUME NEW msgid \in Asked \ {"LOGIN_OUT_MSG", "LOGIN_MSG"}, NEW id \in Id \cup {NoUser},
             msgid = "ADD_FRIEND_MSG" => id \in User, msgid = "ADD_GROUP_MSG" => id \in GroupId,
             Send(msgid, current, id)
      PROVE  /\ UNCHANGED <<gvars, replies, server, refused>>
             /\ \E r \in GoodRequest :
                     /\ requests' = requests \o <<r>>
                     /\ r.msgid # "LOGIN_MSG" /\ r.msgid # "LOGIN_OUT_MSG" /\ r.from = current
  <2> DEFINE r == [msgid |-> msgid, from |-> current, id |-> id]
  <2>1. r \in GoodRequest /\ requests' = requests \o <<r>> /\ UNCHANGED <<gvars, replies, server>>
    BY <1>1, Sent
  <2>2. refused' = refused
    BY <1>1 DEF Send
  <2>3. r.msgid # "LOGIN_MSG" /\ r.msgid # "LOGIN_OUT_MSG" /\ r.from = current
    OBVIOUS
  <2> HIDE DEF r
  <2> QED
    BY <2>1, <2>2, <2>3
<1>2. CASE MenuAsks
  <2>1. PICK msgid \in Waits, from \in User, id \in Id \cup {NoUser} :
            /\ Ask(msgid, from, id)
            /\ CASE msgid = "LOGIN_MSG" -> menu = "startMenu"
                 [] msgid = "ADD_FRIEND_MSG" -> menu = "mainMenu" /\ id \in User
                 [] msgid = "CREATE_GROUP_MSG" -> menu \in {"mainMenu", "createGroup"}
                 [] OTHER -> menu \in {"mainMenu", "addGroup"} /\ id \in GroupId
            /\ msgid # "LOGIN_MSG" => from = current
    BY <1>2, Asks
  <2>2. menu # "startMenu"
    BY GroupsAssumption DEF Screen, Outside
  <2>3. msgid # "LOGIN_MSG" /\ from = current
    BY <2>1, <2>2
  <2>4. msgid \in Asked \ {"LOGIN_OUT_MSG", "LOGIN_MSG"} /\ msgid # "ADD_GROUP_MSG"
    BY <2>3 DEF Asked, Waits
  <2>5. msgid = "ADD_FRIEND_MSG" => id \in User
    BY <2>1
  <2>6. Send(msgid, current, id) /\ UNCHANGED current
    BY <2>1, <2>3 DEF Ask
  <2> QED
    BY <1>1, <2>4, <2>5, <2>6
<1>3. CASE Join
  <2>1. typed \in GroupId /\ UNCHANGED current
    BY <1>3 DEF Screen, Join
  <2>2. CASE Send("ADD_GROUP_MSG", current, typed)
    BY <1>1, <2>1, <2>2 DEF Id, Asked
  <2> QED
    BY <1>3, <2>1, <2>2 DEF Join
<1> QED
  BY <1>2, <1>3

LEMMA OkKept ==
    ASSUME LInv, [LNext]_lvars, NEW u \in served, current = u, current' = u
    PROVE  /\ \A v \in User : FriendOk(v) => FriendOk(v)'
           /\ \A g \in GroupId : GroupOk(g) => GroupOk(g)'
<1> USE DEF LInv, Shape
<1>1. u \in User /\ GTypeOK
  BY DEF Types, FInv, GInv
<1>2. CASE UNCHANGED <<gvars, requests, refused>>
  BY <1>2, OkUntouched DEF gvars, handler
<1>3. CASE MenuAsks \/ Join
  <2>1. /\ UNCHANGED <<gvars, refused>>
        /\ \/ UNCHANGED requests
           \/ \E r \in GoodRequest : requests' = requests \o <<r>>
    BY <1>1, <1>3, SendsKeep
  <2>2. \A A : Has(requests, A) => Has(requests', A)
    BY <2>1, RequestAdded
  <2> QED
    BY <2>1, <2>2, OkUntouched DEF gvars, handler
<1>4. CASE Loginout
  BY <1>1, <1>4, GroupsAssumption DEF Loginout
<1>5. CASE Elsewhere
  <2>1. at'[u] = at[u] /\ group'[u] = group[u] /\ peer'[u] = peer[u]
    BY <1>1, <1>5, ElsewhereKeeps DEF Types
  <2> QED
    BY <1>5, <2>1, OkUntouched DEF Elsewhere
<1>6. CASE MenuReceives \/ ReaderReceives \/ LoginQueries \/ LoginAnswer \/ UNCHANGED lvars
  BY <1>2, <1>6 DEF MenuReceives, ReaderReceives, LoginQueries, LoginAnswer, lvars
<1> QED
  BY <1>3, <1>4, <1>5, <1>6, OnMessageOk, RowsOk DEF LNext

-----------------------------------------------------------------------------
(* The friends on the list.                                                *)

Friends ==
    /\ \A v \in friendList : FriendOk(v)
    /\ menu = "ADD_FRIEND_MSG" => FriendOk(typed)

LEMMA FriendsStep == ASSUME LInv, Right, Friends, [LNext]_lvars PROVE Friends'
<1> USE DEF LInv, Shape
<1>1. Shape'
  BY LInvStep
<1>2. CASE current' = NoUser
  <2>1. menu' # "ADD_FRIEND_MSG" /\ friendList' = {}
    BY <1>1, <1>2 DEF Screen, Outside
  <2> QED
    BY <2>1 DEF Friends
<1>3. ASSUME current' # NoUser, current' = current,
             friendList' = friendList, menu' = "ADD_FRIEND_MSG" => menu' = menu /\ typed' = typed
      PROVE  Friends'
  <2>1. PICK u \in served : u = current
    BY <1>3, AckServed DEF Right
  <2>2. \A v \in User : FriendOk(v) => FriendOk(v)'
    BY <1>3, <2>1, OkKept
  <2>3. \A v \in friendList' : FriendOk(v)'
    BY <1>3, <2>2 DEF Friends, Types
  <2>4. ASSUME menu' = "ADD_FRIEND_MSG" PROVE FriendOk(typed)'
    <3>1. menu = "ADD_FRIEND_MSG" /\ typed' = typed
      BY <1>3, <2>4
    <3>2. PICK v \in User : v = typed
      BY <3>1 DEF Screen
    <3>3. FriendOk(v)'
      BY <2>2, <3>1, <3>2 DEF Friends
    <3> QED
      BY <3>1, <3>2, <3>3 DEF FriendOk
  <2> QED
    BY <2>3, <2>4 DEF Friends
<1>4. CASE MenuAsks
  <2> SUFFICES ASSUME current' # NoUser PROVE Friends'
    BY <1>2
  <2>1. PICK msgid \in Waits, from \in User, id \in Id \cup {NoUser} :
            /\ Ask(msgid, from, id)
            /\ CASE msgid = "LOGIN_MSG" -> menu = "startMenu"
                 [] msgid = "ADD_FRIEND_MSG" -> menu = "mainMenu" /\ id \in User
                 [] msgid = "CREATE_GROUP_MSG" -> menu \in {"mainMenu", "createGroup"}
                 [] OTHER -> menu \in {"mainMenu", "addGroup"} /\ id \in GroupId
            /\ msgid # "LOGIN_MSG" => from = current
    BY <1>4, Asks
  <2>2. menu' = msgid /\ typed' = id /\ UNCHANGED <<current, friendList>> /\ Send(msgid, from, id)
    BY <2>1 DEF Ask, lists
  <2>3. CASE msgid # "ADD_FRIEND_MSG"
    BY <1>3, <2>2, <2>3
  <2>4. CASE msgid = "ADD_FRIEND_MSG"
    <3>1. PICK u \in served : u = current
      BY <2>2, AckServed DEF Right
    <3>2. \A v \in User : FriendOk(v) => FriendOk(v)'
      BY <2>2, <3>1, OkKept
    <3>3. \A v \in friendList' : FriendOk(v)'
      BY <2>2, <3>2 DEF Friends, Types
    <3> DEFINE r == [msgid |-> msgid, from |-> from, id |-> id]
    <3>4. id \in User /\ from = current /\ msgid \in Asked /\ msgid # "ADD_GROUP_MSG"
      BY <2>1, <2>4 DEF Asked
    <3>5. r \in GoodRequest /\ requests' = requests \o <<r>>
      BY <2>2, <3>4, Sent
    <3>6. r \in FriendRequest(current, id)
      BY <2>4, <3>4, <3>5 DEF FriendRequest
    <3> HIDE DEF r
    <3>7. Has(requests', FriendRequest(current, id))
      BY <3>5, <3>6, RequestAdded
    <3>8. Has(requests', FriendRequest(current', typed'))
      BY <2>2, <3>7
    <3> QED
      BY <2>2, <3>3, <3>8 DEF Friends, FriendOk
  <2> QED
    BY <2>3, <2>4
<1>5. CASE MenuReceives
  <2> SUFFICES ASSUME current' # NoUser PROVE Friends'
    BY <1>2
  <2>1. PICK n \in 1 .. Len(replies) :
            /\ replies' = SubSeq(replies, n + 1, Len(replies))
            /\ \/ Throws
               \/ n = 1 /\ replies[1].errno # 0 /\ TakesRefusal
               \/ /\ n = 1 /\ replies[1].errno = 0
                  /\ HasFields(replies[1]) /\ TakesSuccess(replies[1])
    BY <1>5, ReadTaken
  <2>2. /\ menu \in Waits /\ replies[1] \in GoodReply /\ 1 \in DOMAIN replies
        /\ UNCHANGED <<gvars, refused, requests>>
    BY <1>5, <2>1, RepliesRead DEF MenuReceives
  <2>3. PICK r \in GoodReply : r = replies[1]
    BY <2>2
  <2>4. CASE Throws
    BY <2>4 DEF Throws
  <2>5. CASE TakesRefusal
    <3>1. menu' # "ADD_FRIEND_MSG"
      BY <2>5 DEF TakesRefusal
    <3> QED
      BY <1>3, <2>5, <3>1 DEF TakesRefusal, lists
  <2>6. CASE /\ r.msgid = "LOGIN_MSG_ACK" /\ r.errno = 0 /\ menu' = "mainMenu"
             /\ current' = r.id /\ friendList' = r.found.friends
    <3>1. r \notin WrongAck
      BY <2>2, <2>3 DEF Right, RepliesRight, Has
    <3>2. \A v \in r.found.friends : <<r.id, v>> \in friend
      BY <2>6, <3>1 DEF WrongAck, FoundOk
    <3>3. friend' = friend
      BY <2>2 DEF gvars, tables
    <3> QED
      BY <2>6, <3>2, <3>3 DEF Friends, FriendOk
  <2>7. CASE /\ menu = "ADD_FRIEND_MSG" /\ typed \in User /\ menu' = "mainMenu"
             /\ friendList' = friendList \cup {typed} /\ current' = current
    <3>1. PICK u \in served : u = current
      BY <2>7, AckServed DEF Right
    <3>2. \A v \in User : FriendOk(v) => FriendOk(v)'
      BY <2>7, <3>1, OkKept
    <3>3. PICK w \in User : w = typed
      BY <2>7
    <3>4. FriendOk(w)'
      BY <2>7, <3>2, <3>3 DEF Friends
    <3>5. \A v \in friendList' : v = w \/ v \in friendList
      BY <2>7, <3>3
    <3>6. \A v \in friendList : FriendOk(v)'
      BY <3>2 DEF Friends, Types
    <3> QED
      BY <2>7, <3>4, <3>5, <3>6 DEF Friends
  <2>8. CASE menu' # "ADD_FRIEND_MSG" /\ UNCHANGED <<current, friendList>>
    BY <1>3, <2>8
  <2> QED
    BY <2>1, <2>2, <2>3, <2>4, <2>5, <2>6, <2>7, <2>8, SuccessTaken DEF lists
<1>6. CASE Loginout
  BY <1>2, <1>6 DEF Loginout
<1>7. CASE Join
  BY <1>2, <1>3, <1>7 DEF Join
<1>8. CASE ReaderReceives \/ OnMessage \/ ServerRows \/ LoginQueries
            \/ LoginAnswer \/ Elsewhere \/ UNCHANGED lvars
  BY <1>2, <1>3, <1>8 DEF ReaderReceives, OnMessage, ServerRows, LoginQueries,
                     LoginAnswer, Elsewhere, lvars, screen, lists
<1> QED
  BY <1>4, <1>5, <1>6, <1>7, <1>8 DEF LNext

LEMMA FriendsHold == LSpec => [](LInv /\ Right /\ Friends)
<1>1. LInit => LInv /\ Right /\ Friends
  BY LInvInit, RightInit DEF LInit, Friends
<1>2. LInv /\ Right /\ Friends /\ [LNext]_lvars => LInv' /\ Right' /\ Friends'
  BY LInvStep, RightStep, FriendsStep
<1> QED
  BY <1>1, <1>2, PTL DEF LSpec

\* A friend on the list is a friend of the user who is logged in: the row is in
\* the table, unless its request is under way or came to nothing; whoever
\* shares the client and whichever answer was taken for another.
THEOREM FriendsOnList == LSpec => []FriendsAreStored
<1>1. ASSUME LInv, Friends, NEW v \in friendList
      PROVE  <<current, v>> \in friend \/ Pending(v) \/ v \in refused
  <2>1. current # NoUser /\ FriendOk(v)
    BY <1>1 DEF LInv, Shape, Screen, Friends
  <2>2. ASSUME Has(requests, FriendRequest(current, v)) PROVE Pending(v)
    <3>1. PICK i \in DOMAIN requests : requests[i] \in FriendRequest(current, v)
      BY <2>2 DEF Has
    <3>2. Stores(requests[i]) /\ requests[i].id = v
      BY <3>1 DEF FriendRequest, Stores
    <3> QED
      BY <3>2 DEF Pending
  <2>3. at[current] \in {"friendRow", "friendRowBack"} /\ peer[current] = v => Pending(v)
    BY <2>1 DEF Pending
  <2> QED
    BY <2>1, <2>2, <2>3 DEF FriendOk
<1>2. LInv /\ Friends => FriendsAreStored
  BY <1>1 DEF FriendsAreStored
<1> QED
  BY <1>2, FriendsHold, PTL

-----------------------------------------------------------------------------
(* In which order logins and the texts about groups are under way.         *)

AboutGroups == {"CREATE_GROUP_MSG", "SEARCH_GROUP_DATA_MSG", "ADD_GROUP_MSG"}
LoginReplies == {r \in GoodReply : r.msgid = "LOGIN_MSG_ACK" /\ r.errno = 0}
GroupReplies == {r \in GoodReply : r.msgid \in AboutGroups /\ r.errno = 0}
LoginRequests == {r \in GoodRequest : r.msgid = "LOGIN_MSG"}
GroupRequests == {r \in GoodRequest : r.msgid \in AboutGroups}
LoginRuns == login.next # "none"
GroupRuns == \E u \in served : at[u] = "memberRow"

\* From the client's end: the answers, the handler that runs, the requests.
LoginBeforeGroup ==
    \/ Before(replies, LoginReplies, GroupReplies)
    \/ Has(replies, LoginReplies) /\ (GroupRuns \/ Has(requests, GroupRequests))
    \/ LoginRuns /\ Has(requests, GroupRequests)
    \/ Before(requests, LoginRequests, GroupRequests)
GroupBeforeLogin ==
    \/ Before(replies, GroupReplies, LoginReplies)
    \/ Has(replies, GroupReplies) /\ (LoginRuns \/ Has(requests, LoginRequests))
    \/ GroupRuns /\ Has(requests, LoginRequests)
    \/ Before(requests, GroupRequests, LoginRequests)
AnyLogin == Has(replies, LoginReplies) \/ LoginRuns \/ Has(requests, LoginRequests)
AnyGroup == Has(replies, GroupReplies) \/ GroupRuns \/ Has(requests, GroupRequests)

\* Before a login is answered nothing about groups can follow it; afterwards
\* no login can follow what was asked about groups, and the user gets out of
\* the two menus about groups only with an answer that nothing follows.
AsksGroups == {"CREATE_GROUP_MSG", "createGroup", "SEARCH_GROUP_DATA_MSG", "addGroup"}
Order ==
    /\ menu # "over" /\ current = NoUser => ~LoginBeforeGroup
    /\ current # NoUser =>
           /\ ~GroupBeforeLogin
           /\ LoginBeforeGroup => menu \in AsksGroups
           /\ menu = "join" => ~AnyLogin

\* No step of the server, and no read, makes two texts change places.
InOrder ==
    /\ LoginBeforeGroup' => LoginBeforeGroup
    /\ GroupBeforeLogin' => GroupBeforeLogin
    /\ AnyLogin' => AnyLogin
    /\ AnyGroup' => AnyGroup

LEMMA SameOrder == ASSUME UNCHANGED <<requests, replies>>, LoginRuns' = LoginRuns, GroupRuns' => GroupRuns
                   PROVE  InOrder
BY DEF InOrder, LoginBeforeGroup, GroupBeforeLogin, AnyLogin, AnyGroup

LEMMA ReadOrder ==
    ASSUME LInv, UNCHANGED <<requests, server, gvars>>, NEW n \in 1 .. Len(replies),
           replies' = SubSeq(replies, n + 1, Len(replies))
    PROVE  /\ InOrder
           /\ replies[1] \in LoginReplies /\ AnyGroup' => LoginBeforeGroup
           /\ replies[1] \in GroupReplies /\ AnyLogin' => GroupBeforeLogin
<1>1. Streams
  BY DEF LInv, Shape
<1>2. /\ Has(replies', LoginReplies) => Has(replies, LoginReplies)
      /\ Has(replies', GroupReplies) => Has(replies, GroupReplies)
      /\ Before(replies', LoginReplies, GroupReplies) => Before(replies, LoginReplies, GroupReplies)
      /\ Before(replies', GroupReplies, LoginReplies) => Before(replies, GroupReplies, LoginReplies)
      /\ replies[1] \in LoginReplies => Has(replies, LoginReplies)
      /\ replies[1] \in GroupReplies => Has(replies, GroupReplies)
      /\ replies[1] \in LoginReplies /\ Has(replies', GroupReplies) =>
             Before(replies, LoginReplies, GroupReplies)
      /\ replies[1] \in GroupReplies /\ Has(replies', LoginReplies) =>
             Before(replies, GroupReplies, LoginReplies)
  BY <1>1, RepliesGone
<1>3. LoginRuns' = LoginRuns /\ GroupRuns' = GroupRuns
  BY DEF LoginRuns, GroupRuns, server, gvars, handler
<1> QED
  BY <1>2, <1>3 DEF InOrder, LoginBeforeGroup, GroupBeforeLogin, AnyLogin, AnyGroup

LEMMA OnMessageOrder == ASSUME LInv, OnMessage PROVE InOrder
<1> USE DEF LInv, Shape
<1>1. PICK n \in 1 .. Len(requests) :
          Handle(requests[1]) /\ requests' = SubSeq(requests, n + 1, Len(requests))
  BY DEF OnMessage
<1>2. PICK r \in GoodRequest : r = requests[1]
  BY <1>1, RequestsRead
<1>3. Idle /\ ~LoginRuns /\ GTypeOK /\ r.from \in User
  BY DEF OnMessage, Idle, NoLogin, LoginRuns, FInv, GInv, GoodRequest
<1>4. /\ Has(requests', LoginRequests) => Has(requests, LoginRequests)
      /\ Has(requests', GroupRequests) => Has(requests, GroupRequests)
      /\ Before(requests', LoginRequests, GroupRequests) => Before(requests, LoginRequests, GroupRequests)
      /\ Before(requests', GroupRequests, LoginRequests) => Before(requests, GroupRequests, LoginRequests)
      /\ r \in LoginRequests => Has(requests, LoginRequests)
      /\ r \in GroupRequests => Has(requests, GroupRequests)
      /\ r \in LoginRequests /\ Has(requests', GroupRequests) =>
             Before(requests, LoginRequests, GroupRequests)
      /\ r \in GroupRequests /\ Has(requests', LoginRequests) =>
             Before(requests, GroupRequests, LoginRequests)
  BY <1>1, <1>2, RequestsGone
<1>5. r \in LoginRequests => r \notin GroupRequests
  BY DEF LoginRequests, GroupRequests, AboutGroups
<1>6. LoginRuns' => r \in LoginRequests
  BY <1>1, <1>2, <1>3, HandledSessions DEF LoginRuns, LoginRequests, server
<1>7. GroupRuns' => r \in GroupRequests
  <2>1. CASE UNCHANGED gvars
    <3>1. \A u \in served' : at[u] = "idle"
      BY <1>1, <1>2, <1>3, HandledSessions DEF Idle, server
    <3> QED
      BY <2>1, <3>1 DEF GroupRuns, gvars, handler
  <2>2. CASE r.msgid \in AboutGroups
    BY <2>2 DEF GroupRequests
  <2>3. CASE AddFriend(r.from, r.id) /\ UNCHANGED server
    <3>1. \A u \in served : at'[u] # "memberRow"
      BY <1>3, <2>3 DEF AddFriend, Begin, Idle, GTypeOK, Types
    <3> QED
      BY <2>3, <3>1 DEF GroupRuns, server
  <2> QED
    BY <1>1, <1>2, <2>1, <2>2, <2>3, Handled DEF Login, HandleAddFriend, AboutGroups
<1>8. \/ UNCHANGED replies
      \/ \E text \in GoodReply : Reply(<<text>>) /\ Answers(r, text)
  BY <1>1, <1>2, <1>3, AnswersGood, GroupsAssumption DEF GTypeOK
<1>9. /\ Has(replies', LoginReplies) => Has(replies, LoginReplies)
      /\ Has(replies', GroupReplies) => Has(replies, GroupReplies) \/ r \in GroupRequests
      /\ Before(replies', LoginReplies, GroupReplies) =>
             \/ Before(replies, LoginReplies, GroupReplies)
             \/ Has(replies, LoginReplies) /\ r \in GroupRequests
      /\ Before(replies', GroupReplies, LoginReplies) => Before(replies, GroupReplies, LoginReplies)
  <2>1. ASSUME NEW text \in GoodReply, Reply(<<text>>), Answers(r, text)
        PROVE  /\ Has(replies', LoginReplies) => Has(replies, LoginReplies)
               /\ Has(replies', GroupReplies) => Has(replies, GroupReplies) \/ r \in GroupRequests
               /\ Before(replies', LoginReplies, GroupReplies) =>
                      \/ Before(replies, LoginReplies, GroupReplies)
                      \/ Has(replies, LoginReplies) /\ r \in GroupRequests
               /\ Before(replies', GroupReplies, LoginReplies) =>
                      Before(replies, GroupReplies, LoginReplies)
    <3>1. text \notin LoginReplies
      BY <2>1 DEF Answers, LoginReplies
    <3>2. text \in GroupReplies => r \in GroupRequests
      BY <2>1 DEF Answers, GroupReplies, GroupRequests, AboutGroups
    <3>3. /\ Has(replies', LoginReplies) <=> Has(replies, LoginReplies)
          /\ Has(replies', GroupReplies) <=> Has(replies, GroupReplies) \/ text \in GroupReplies
          /\ Before(replies', LoginReplies, GroupReplies) <=>
                 \/ Before(replies, LoginReplies, GroupReplies)
                 \/ Has(replies, LoginReplies) /\ text \in GroupReplies
          /\ Before(replies', GroupReplies, LoginReplies) <=>
                 \/ Before(replies, GroupReplies, LoginReplies)
                 \/ Has(replies, GroupReplies) /\ text \in LoginReplies
      BY <2>1, <3>1, ReplyAdded
    <3> QED
      BY <3>1, <3>2, <3>3
  <2> QED
    BY <1>8, <2>1
<1> QED
  BY <1>4, <1>5, <1>6, <1>7, <1>9
     DEF InOrder, LoginBeforeGroup, GroupBeforeLogin, AnyLogin, AnyGroup

LEMMA RowsOrder == ASSUME LInv, ServerRows PROVE InOrder
<1> USE DEF LInv, Shape
<1>1. PICK w \in served : FriendRows(w) \/ GroupRows(w)
  BY DEF ServerRows
<1>2. w \in User /\ UNCHANGED <<requests, server>> /\ GInv /\ GTypeOK
  BY DEF Types, ServerRows, FInv, GInv
<1>3. ~LoginRuns /\ ~LoginRuns'
  BY <1>1, <1>2, RowsAnswer DEF Quiet, LoginRuns, server
<1>4. GroupRuns' => GroupRuns
  <2>1. \/ at' = [at EXCEPT ![w] = "idle"]
        \/ at' = [at EXCEPT ![w] = "friendRowBack"]
    BY <1>1 DEF FriendRows, GroupRows, AddFriendRow, AddFriendRowBack, CreateGroupRow,
                AddGroupRow, Return
  <2>2. \A u \in served : at'[u] = "memberRow" => at[u] = "memberRow"
    BY <1>2, <2>1 DEF GTypeOK, Types
  <2> QED
    BY <1>2, <2>2 DEF GroupRuns, server
<1>5. ASSUME NEW text \in GoodReply, Reply(<<text>>), text \notin LoginReplies,
             text \in GroupReplies => GroupRuns
      PROVE  InOrder
  <2>1. /\ Has(replies', LoginReplies) <=> Has(replies, LoginReplies)
        /\ Has(replies', GroupReplies) <=> Has(replies, GroupReplies) \/ text \in GroupReplies
        /\ Before(replies', LoginReplies, GroupReplies) <=>
               \/ Before(replies, LoginReplies, GroupReplies)
               \/ Has(replies, LoginReplies) /\ text \in GroupReplies
        /\ Before(replies', GroupReplies, LoginReplies) <=>
               \/ Before(replies, GroupReplies, LoginReplies)
               \/ Has(replies, GroupReplies) /\ text \in LoginReplies
    BY <1>5, ReplyAdded
  <2> QED
    BY <1>2, <1>3, <1>4, <1>5, <2>1
       DEF InOrder, LoginBeforeGroup, GroupBeforeLogin, AnyLogin, AnyGroup
<1>6. CASE UNCHANGED replies
  <2>1. LoginRuns' = LoginRuns
    BY <1>2 DEF LoginRuns, server
  <2> QED
    BY <1>2, <1>4, <1>6, <2>1, SameOrder
<1>7. CASE Reply(<<Ok("ADD_FRIEND_MSG", NoUser)>>)
  <2>1. Ok("ADD_FRIEND_MSG", NoUser) \in (GoodReply \ LoginReplies) \ GroupReplies
    BY GoodAnswers DEF Ok, LoginReplies, GroupReplies, AboutGroups
  <2> QED
    BY <1>5, <1>7, <2>1
<1>8. CASE at[w] = "memberRow" /\ group[w] \in GroupId /\ Reply(<<Ok("ADD_GROUP_MSG", group[w])>>)
  <2>1. Ok("ADD_GROUP_MSG", group[w]) \in GoodReply \ LoginReplies
    BY <1>8, GoodAnswers DEF Ok, LoginReplies
  <2>2. GroupRuns
    BY <1>8 DEF GroupRuns
  <2> QED
    BY <1>5, <1>8, <2>1, <2>2
<1> QED
  BY <1>1, <1>2, <1>6, <1>7, <1>8, RowsAnswer

LEMMA LoginAnswerOrder == ASSUME LInv, LoginAnswer PROVE InOrder
<1> USE DEF LInv, Shape
<1> DEFINE text == [Ok("LOGIN_MSG_ACK", login.id) EXCEPT !.found = login.found]
<1>1. /\ login.next = "members" /\ login' = NoLogin /\ Reply(<<text>>)
      /\ UNCHANGED <<gvars, requests, served>>
  BY DEF LoginAnswer
<1>2. text \in GoodReply
  BY <1>1, GoodAnswers DEF LoginState
<1>3. text \notin GroupReplies
  BY DEF GroupReplies, Ok, AboutGroups
<1>4. LoginRuns /\ ~LoginRuns' /\ ~GroupRuns /\ ~GroupRuns'
  BY <1>1 DEF LoginRuns, GroupRuns, NoLogin, Quiet, gvars, handler
<1> HIDE DEF text
<1>5. /\ Has(replies', LoginReplies) <=> Has(replies, LoginReplies) \/ text \in LoginReplies
      /\ Has(replies', GroupReplies) <=> Has(replies, GroupReplies) \/ text \in GroupReplies
      /\ Before(replies', LoginReplies, GroupReplies) <=>
             \/ Before(replies, LoginReplies, GroupReplies)
             \/ Has(replies, LoginReplies) /\ text \in GroupReplies
      /\ Before(replies', GroupReplies, LoginReplies) <=>
             \/ Before(replies, GroupReplies, LoginReplies)
             \/ Has(replies, GroupReplies) /\ text \in LoginReplies
  BY <1>1, <1>2, ReplyAdded
<1> QED
  BY <1>1, <1>3, <1>4, <1>5
     DEF InOrder, LoginBeforeGroup, GroupBeforeLogin, AnyLogin, AnyGroup

LEMMA ServerOrder ==
    ASSUME LInv, \/ ReaderReceives \/ OnMessage \/ ServerRows \/ LoginQueries
                 \/ LoginAnswer \/ Elsewhere \/ UNCHANGED lvars
    PROVE  InOrder
<1>1. GTypeOK /\ served \subseteq User /\ Shape
  BY DEF LInv, Shape, Types, FInv, GInv
<1>2. CASE ReaderReceives
  BY <1>2, ReadOrder DEF ReaderReceives
<1>3. CASE LoginQueries
  <2>1. UNCHANGED <<requests, replies, served, at>>
    BY <1>3 DEF LoginQueries, gvars, handler
  <2>2. LoginRuns' = LoginRuns
    BY <1>1, <1>3, QueriesDone DEF LoginRuns
  <2> QED
    BY <2>1, <2>2, SameOrder DEF GroupRuns
<1>4. CASE Elsewhere
  <2>1. UNCHANGED <<requests, replies, server>>
    BY <1>4 DEF Elsewhere
  <2>2. \A u \in served : at'[u] = at[u]
    BY <1>1, <1>4, ElsewhereKeeps
  <2> QED
    BY <2>1, <2>2, SameOrder DEF GroupRuns, LoginRuns, server
<1>5. CASE UNCHANGED lvars
  BY <1>5, SameOrder DEF lvars, server, gvars, handler, LoginRuns, GroupRuns
<1> QED
  BY <1>2, <1>3, <1>4, <1>5, OnMessageOrder, RowsOrder, LoginAnswerOrder

\* A request behind the others: nothing comes after it.
LEMMA SendOrder ==
    ASSUME LInv, UNCHANGED <<gvars, replies, server>>, NEW r \in GoodRequest,
           requests' = requests \o <<r>>
    PROVE  /\ r \notin GroupRequests => (LoginBeforeGroup' => LoginBeforeGroup)
           /\ r \notin LoginRequests => (GroupBeforeLogin' => GroupBeforeLogin)
           /\ LoginBeforeGroup' => LoginBeforeGroup \/ AnyLogin
<1>1. Streams
  BY DEF LInv, Shape
<1>2. /\ Has(requests', LoginRequests) <=> Has(requests, LoginRequests) \/ r \in LoginRequests
      /\ Has(requests', GroupRequests) <=> Has(requests, GroupRequests) \/ r \in GroupRequests
      /\ Before(requests', LoginRequests, GroupRequests) <=>
             \/ Before(requests, LoginRequests, GroupRequests)
             \/ Has(requests, LoginRequests) /\ r \in GroupRequests
      /\ Before(requests', GroupRequests, LoginRequests) <=>
             \/ Before(requests, GroupRequests, LoginRequests)
             \/ Has(requests, GroupRequests) /\ r \in LoginRequests
  BY <1>1, RequestAdded
<1>3. LoginRuns' = LoginRuns /\ GroupRuns' = GroupRuns
  BY DEF LoginRuns, GroupRuns, server, gvars, handler
<1> QED
  BY <1>2, <1>3 DEF LoginBeforeGroup, GroupBeforeLogin, AnyLogin

LEMMA AsksOrder == ASSUME LInv, Order, MenuAsks PROVE Order'
<1> USE DEF LInv, Shape
<1>1. PICK msgid \in Waits, from \in User, id \in Id \cup {NoUser} :
          /\ Ask(msgid, from, id)
          /\ CASE msgid = "LOGIN_MSG" -> menu = "startMenu"
               [] msgid = "ADD_FRIEND_MSG" -> menu = "mainMenu" /\ id \in User
               [] msgid = "CREATE_GROUP_MSG" -> menu \in {"mainMenu", "createGroup"}
               [] OTHER -> menu \in {"mainMenu", "addGroup"} /\ id \in GroupId
          /\ msgid # "LOGIN_MSG" => from = current
  BY Asks
<1>2. msgid \in Asked /\ msgid # "ADD_GROUP_MSG" /\ (msgid = "ADD_FRIEND_MSG" => id \in User)
  <2>1. msgid \in Asked /\ msgid # "ADD_GROUP_MSG"
    BY DEF Asked, Waits
  <2> QED
    BY <1>1, <2>1
<1> DEFINE r == [msgid |-> msgid, from |-> from, id |-> id]
<1>3. /\ r \in GoodRequest /\ requests' = requests \o <<r>>
      /\ UNCHANGED <<gvars, replies, server, current>> /\ menu' = msgid
  BY <1>1, <1>2, Sent DEF Ask
<1>4. /\ r \in GroupRequests <=> msgid \in {"CREATE_GROUP_MSG", "SEARCH_GROUP_DATA_MSG"}
      /\ r \in LoginRequests <=> msgid = "LOGIN_MSG"
  BY <1>2, <1>3 DEF GroupRequests, LoginRequests, AboutGroups
<1> HIDE DEF r
<1>5. /\ r \notin GroupRequests => (LoginBeforeGroup' => LoginBeforeGroup)
      /\ r \notin LoginRequests => (GroupBeforeLogin' => GroupBeforeLogin)
  BY <1>3, SendOrder
<1>6. CASE msgid = "LOGIN_MSG"
  <2>1. menu = "startMenu" /\ current = NoUser
    BY <1>1, <1>6 DEF Screen, Outside
  <2> QED
    BY <1>3, <1>4, <1>5, <1>6, <2>1 DEF Order
<1>7. CASE msgid = "ADD_FRIEND_MSG"
  <2>1. menu = "mainMenu" /\ current # NoUser
    BY <1>1, <1>7 DEF Screen, Outside
  <2> QED
    BY <1>3, <1>4, <1>5, <1>7, <2>1 DEF Order, AsksGroups
<1>8. CASE msgid \in {"CREATE_GROUP_MSG", "SEARCH_GROUP_DATA_MSG"}
  <2>1. menu \in {"mainMenu", "createGroup", "addGroup"}
    BY <1>1, <1>8
  <2>2. current # NoUser
    BY <2>1 DEF Screen, Outside
  <2> QED
    BY <1>3, <1>4, <1>5, <1>8, <2>1, <2>2 DEF Order, AsksGroups
<1> QED
  BY <1>6, <1>7, <1>8 DEF Waits

LEMMA JoinOrder == ASSUME LInv, Order, Join PROVE Order'
<1> USE DEF LInv, Shape
<1>1. menu = "join" /\ menu' = "mainMenu" /\ current \in User /\ current # NoUser
  BY GroupsAssumption DEF Join, Screen, Types, Outside
<1>2. ~GroupBeforeLogin /\ ~LoginBeforeGroup /\ ~AnyLogin
  BY <1>1 DEF Order, AsksGroups
<1>3. UNCHANGED <<gvars, replies, server, current>>
  BY <1>1, SendsKeep
<1>4. CASE UNCHANGED requests
  <2>1. InOrder
    BY <1>3, <1>4, SameOrder DEF LoginRuns, GroupRuns, server, gvars, handler
  <2> QED
    BY <1>1, <1>2, <1>3, <2>1 DEF Order, InOrder
<1>5. ASSUME NEW r \in GoodRequest, requests' = requests \o <<r>>, r.msgid # "LOGIN_MSG"
      PROVE  Order'
  <2>1. r \notin LoginRequests
    BY <1>5 DEF LoginRequests
  <2>2. ~GroupBeforeLogin' /\ ~LoginBeforeGroup'
    BY <1>2, <1>3, <1>5, <2>1, SendOrder
  <2> QED
    BY <1>1, <1>3, <2>2 DEF Order
<1> QED
  BY <1>1, <1>4, <1>5, SendsKeep

LEMMA LoginoutOrder == ASSUME LInv, Order, Loginout PROVE Order'
<1> USE DEF LInv, Shape
<1>1. menu = "mainMenu" /\ current' = NoUser /\ Send("LOGIN_OUT_MSG", current, NoUser)
  BY DEF Loginout
<1>2. current \in User /\ current # NoUser
  BY <1>1, GroupsAssumption DEF Screen, Types, Outside
<1> DEFINE r == [msgid |-> "LOGIN_OUT_MSG", from |-> current, id |-> NoUser]
<1>3. r \in GoodRequest /\ requests' = requests \o <<r>> /\ UNCHANGED <<gvars, replies, server>>
  BY <1>1, <1>2, Sent DEF Asked
<1>4. r \notin GroupRequests
  BY DEF GroupRequests, AboutGroups
<1> HIDE DEF r
<1>5. ~LoginBeforeGroup'
  BY <1>1, <1>2, <1>3, <1>4, SendOrder DEF Order, AsksGroups
<1> QED
  BY <1>1, <1>5 DEF Order

LEMMA ReceivesOrder == ASSUME LInv, Order, MenuReceives PROVE Order'
<1> USE DEF LInv, Shape
<1>1. PICK n \in 1 .. Len(replies) :
          /\ replies' = SubSeq(replies, n + 1, Len(replies))
          /\ \/ Throws
             \/ n = 1 /\ replies[1].errno # 0 /\ TakesRefusal
             \/ /\ n = 1 /\ replies[1].errno = 0
                /\ HasFields(replies[1]) /\ TakesSuccess(replies[1])
  BY ReadTaken
<1>2. menu \in Waits /\ replies[1] \in GoodReply /\ UNCHANGED <<requests, server, gvars>>
  BY <1>1, RepliesRead DEF MenuReceives
<1>3. PICK r \in GoodReply : r = replies[1]
  BY <1>2
<1>4. /\ InOrder
      /\ r \in LoginReplies /\ AnyGroup' => LoginBeforeGroup
      /\ r \in GroupReplies /\ AnyLogin' => GroupBeforeLogin
  BY <1>1, <1>2, <1>3, ReadOrder
<1>5. menu # "over" /\ (current = NoUser <=> menu = "LOGIN_MSG")
  BY <1>2 DEF Screen, Outside, Waits
<1>6. /\ LoginBeforeGroup' => AnyLogin' /\ AnyGroup'
      /\ GroupBeforeLogin' => AnyLogin' /\ AnyGroup'
  BY DEF LoginBeforeGroup, GroupBeforeLogin, AnyLogin, AnyGroup, Before, Has
<1>7. CASE Throws
  BY <1>7 DEF Throws, Order
<1>8. CASE TakesRefusal
  <2>1. /\ menu \in AsksGroups => menu' \in AsksGroups
        /\ menu' # "join" /\ current' = current
    BY <1>2, <1>8 DEF TakesRefusal, AsksGroups, Waits
  <2> QED
    BY <1>4, <1>5, <2>1 DEF Order, InOrder
<1>9. CASE /\ menu = "LOGIN_MSG" /\ r.msgid = "LOGIN_MSG_ACK" /\ r.errno = 0
           /\ menu' = "mainMenu"
  <2>1. r \in LoginReplies
    BY <1>9 DEF LoginReplies
  <2>2. ~AnyGroup'
    BY <1>4, <1>5, <1>9, <2>1 DEF Order
  <2> QED
    BY <1>6, <1>9, <2>2 DEF Order
<1>10. CASE menu = "ADD_FRIEND_MSG" /\ menu' = "mainMenu" /\ current' = current
  BY <1>4, <1>5, <1>10 DEF Order, InOrder, AsksGroups
<1>11. CASE /\ menu \in {"CREATE_GROUP_MSG", "SEARCH_GROUP_DATA_MSG"} /\ current' = current
            /\ r.msgid \in AboutGroups /\ r.errno = 0
  <2>1. r \in GroupReplies
    BY <1>11 DEF GroupReplies
  <2>2. ~AnyLogin'
    BY <1>4, <1>5, <1>11, <2>1 DEF Order
  <2> QED
    BY <1>5, <1>6, <1>11, <2>2 DEF Order
<1> QED
  BY <1>1, <1>2, <1>3, <1>7, <1>8, <1>9, <1>10, <1>11, SuccessTaken DEF AboutGroups, lists

LEMMA OrderStep == ASSUME LInv, Order, [LNext]_lvars PROVE Order'
<1>1. CASE \/ ReaderReceives \/ OnMessage \/ ServerRows \/ LoginQueries
           \/ LoginAnswer \/ Elsewhere \/ UNCHANGED lvars
  <2>1. InOrder
    BY <1>1, ServerOrder
  <2>2. UNCHANGED <<menu, current>>
    BY <1>1 DEF ReaderReceives, OnMessage, ServerRows, LoginQueries, LoginAnswer, Elsewhere,
                lvars, screen
  <2> QED
    BY <2>1, <2>2 DEF Order, InOrder
<1> QED
  BY <1>1, AsksOrder, JoinOrder, LoginoutOrder, ReceivesOrder DEF LNext

-----------------------------------------------------------------------------
(* The groups on the list.                                                 *)

\* What is under way about groups is of the user who is logged in, and the
\* answers that put a group on the list are right.
ForOther == {r \in GroupRequests : r.from # current}
Unsound == {r \in GroupReplies : r.msgid # "SEARCH_GROUP_DATA_MSG" /\ ~GroupOk(r.id)}
Whose == current # NoUser =>
    /\ ~Has(requests, ForOther)
    /\ \A u \in served : at[u] = "memberRow" => u = current
    /\ ~Has(replies, Unsound)
GroupsListed == \A entry \in groupList : GroupOk(entry.id)

LEMMA UnsoundKept ==
    ASSUME LInv, Right, [LNext]_lvars, current # NoUser, current' = current,
           Has(replies, Unsound')
    PROVE  Has(replies, Unsound)
<1>1. PICK i \in DOMAIN replies : replies[i] \in Unsound'
  BY DEF Has
<1>2. PICK r \in GoodReply : r = replies[i]
  BY DEF LInv, Shape, Streams
<1>3. r \in GroupReplies /\ r.msgid # "SEARCH_GROUP_DATA_MSG" /\ ~GroupOk(r.id)'
  BY <1>1, <1>2 DEF Unsound
<1>4. r.id \in GroupId
  BY <1>3 DEF GroupReplies, AboutGroups, GoodReply
<1>5. PICK u \in served : u = current
  BY AckServed DEF Right
<1>6. \A g \in GroupId : GroupOk(g) => GroupOk(g)'
  BY <1>5, OkKept
<1>7. ~GroupOk(r.id)
  BY <1>3, <1>4, <1>6 DEF GroupOk
<1> QED
  BY <1>2, <1>3, <1>7 DEF Unsound, Has

LEMMA OnMessageWhose == ASSUME LInv, Right, Whose, OnMessage PROVE Whose'
<1> USE DEF LInv, Shape
<1> SUFFICES ASSUME current # NoUser PROVE Whose'
  BY DEF Whose, OnMessage, screen
<1>1. PICK n \in 1 .. Len(requests) :
          Handle(requests[1]) /\ requests' = SubSeq(requests, n + 1, Len(requests))
  BY DEF OnMessage
<1>2. PICK r \in GoodRequest : r = requests[1]
  BY <1>1, RequestsRead
<1>3. /\ Idle /\ GTypeOK /\ r.from \in User /\ UNCHANGED current /\ current \in User
      /\ [LNext]_lvars
  BY DEF OnMessage, FInv, GInv, GoodRequest, screen, Types, LNext
<1>4. ~Has(requests', ForOther') /\ r \notin ForOther
  <2>1. ForOther' = ForOther
    BY <1>3 DEF ForOther
  <2>2. /\ Has(requests', ForOther) => Has(requests, ForOther)
        /\ r \in ForOther => Has(requests, ForOther)
    BY <1>1, <1>2, RequestsGone
  <2> QED
    BY <2>1, <2>2 DEF Whose
<1>5. r.msgid \in AboutGroups => r.from = current
  BY <1>4 DEF ForOther, GroupRequests
<1>6. \A u \in served' : at'[u] = "memberRow" => u = current
  <2>1. \A u \in served' : at[u] = "idle"
    BY <1>1, <1>2, <1>3, HandledSessions DEF Idle, server
  <2>2. served' \subseteq User
    BY <1>1, <1>2, <1>3, HandledSessions DEF Types, server
  <2>3. CASE UNCHANGED gvars
    BY <2>1, <2>3 DEF gvars, handler
  <2>4. CASE AddFriend(r.from, r.id) \/ CreateGroup(r.from)
    BY <1>3, <2>1, <2>2, <2>4 DEF AddFriend, CreateGroup, Begin, GTypeOK
  <2>5. CASE AddGroup(r.from, r.id) /\ r.msgid = "ADD_GROUP_MSG"
    <3>1. r.from = current
      BY <1>5, <2>5 DEF AboutGroups
    <3> QED
      BY <1>3, <2>1, <2>2, <2>5, <3>1 DEF AddGroup, Begin, GTypeOK
  <2> QED
    BY <1>1, <1>2, <2>3, <2>4, <2>5, Handled
       DEF Login, SearchGroupData, HandleAddFriend, HandleCreateGroup, HandleAddGroup
<1>7. ~Has(replies', Unsound')
  <2>1. ~Has(replies, Unsound')
    BY <1>3, UnsoundKept DEF Whose
  <2>2. ASSUME NEW text \in GoodReply, Reply(<<text>>), text \notin Unsound'
        PROVE  ~Has(replies', Unsound')
    BY <2>1, <2>2, ReplyAdded
  <2>3. \A text : text.errno = 1 \/ text.msgid = "SEARCH_GROUP_DATA_MSG" => text \notin Unsound'
    BY DEF Unsound, GroupReplies
  <2>4. CASE CreateGroup(r.from) /\ Reply(<<Ok("CREATE_GROUP_MSG", nextId)>>)
             /\ r.msgid = "CREATE_GROUP_MSG"
    <3>1. r.from = current
      BY <1>5, <2>4 DEF AboutGroups
    <3>2. at'[current] = "creatorRow" /\ group'[current] = nextId
      BY <1>3, <2>4, <3>1 DEF CreateGroup, Begin, GTypeOK
    <3>3. nextId \in GroupId
      BY <1>3, <2>4, GroupsAssumption DEF CreateGroup, GTypeOK, GroupId
    <3> DEFINE text == Ok("CREATE_GROUP_MSG", nextId)
    <3>4. text \in GoodReply /\ text.id = nextId
      BY <3>3, GoodAnswers DEF Ok
    <3> HIDE DEF text
    <3>5. text \notin Unsound'
      BY <1>3, <3>2, <3>4 DEF Unsound, GroupOk
    <3> QED
      BY <2>2, <2>4, <3>4, <3>5 DEF text
  <2>5. ASSUME NEW msgid \in Refuses, Reply(<<Refusal(msgid)>>) PROVE ~Has(replies', Unsound')
    <3>1. Refusal(msgid) \in GoodReply /\ Refusal(msgid).errno = 1
      BY GoodAnswers DEF Refusal, Refuses, Answered
    <3> QED
      BY <2>2, <2>3, <2>5, <3>1
  <2>6. CASE Reply(<<Ok("SEARCH_GROUP_DATA_MSG", NoUser)>>)
    <3>1. Ok("SEARCH_GROUP_DATA_MSG", NoUser).msgid = "SEARCH_GROUP_DATA_MSG"
      BY DEF Ok
    <3> QED
      BY <2>2, <2>3, <2>6, <3>1, GoodAnswers
  <2>7. CASE UNCHANGED replies
    BY <2>1, <2>7
  <2> QED
    BY <1>1, <1>2, <2>4, <2>5, <2>6, <2>7, HandledAnswers
<1> QED
  BY <1>3, <1>4, <1>6, <1>7 DEF Whose, Has

LEMMA RowsWhose == ASSUME LInv, Right, Whose, ServerRows PROVE Whose'
<1> USE DEF LInv, Shape
<1> SUFFICES ASSUME current # NoUser PROVE Whose'
  BY DEF Whose, ServerRows, screen
<1>1. PICK w \in served : FriendRows(w) \/ GroupRows(w)
  BY DEF ServerRows
<1>2. /\ w \in User /\ UNCHANGED <<requests, server, current>> /\ GInv /\ GTypeOK
      /\ current \in User /\ [LNext]_lvars
  BY DEF Types, ServerRows, FInv, GInv, screen, LNext
<1>3. ~Has(requests', ForOther')
  <2>1. ForOther' = ForOther
    BY <1>2 DEF ForOther
  <2> QED
    BY <1>2, <2>1 DEF Whose
<1>4. \A u \in served' : at'[u] = "memberRow" => u = current
  <2>1. \/ at' = [at EXCEPT ![w] = "idle"]
        \/ at' = [at EXCEPT ![w] = "friendRowBack"]
    BY <1>1 DEF FriendRows, GroupRows, AddFriendRow, AddFriendRowBack, CreateGroupRow,
                AddGroupRow, Return
  <2>2. \A u \in served : at'[u] = "memberRow" => at[u] = "memberRow"
    BY <1>2, <2>1 DEF GTypeOK, Types
  <2> QED
    BY <1>2, <2>2 DEF Whose, server
<1>5. ~Has(replies, Unsound')
  BY <1>2, UnsoundKept DEF Whose
<1>6. ~Has(replies', Unsound')
  <2>1. CASE UNCHANGED replies
    BY <1>5, <2>1
  <2>2. ASSUME NEW text \in GoodReply, Reply(<<text>>), text \notin Unsound'
        PROVE  ~Has(replies', Unsound')
    BY <1>5, <2>2, ReplyAdded
  <2>3. CASE Reply(<<Ok("ADD_FRIEND_MSG", NoUser)>>)
    <3>1. Ok("ADD_FRIEND_MSG", NoUser) \notin Unsound'
      BY DEF Ok, Unsound, GroupReplies, AboutGroups
    <3> QED
      BY <2>2, <2>3, <3>1, GoodAnswers
  <2>4. CASE /\ at[w] = "memberRow" /\ group[w] \in GroupId
             /\ AddGroupRow(w) /\ Reply(<<Ok("ADD_GROUP_MSG", group[w])>>)
    <3>1. w = current
      BY <2>4 DEF Whose
    <3>2. GroupRows(w)
      BY <1>1, <2>4 DEF FriendRows, AddFriendRow, AddFriendRowBack
    <3>3. (\E role \in Role : <<group[w], w, role>> \in groupUser') \/ group[w] \in refused'
      BY <3>1, <3>2 DEF GroupRows
    <3>4. PICK g \in GroupId : g = group[w]
      BY <2>4
    <3>5. GroupOk(g)'
      BY <1>2, <3>1, <3>3, <3>4 DEF GroupOk, HasRow
    <3> DEFINE text == Ok("ADD_GROUP_MSG", g)
    <3>6. text \in GoodReply /\ text.id = g
      BY GoodAnswers DEF Ok
    <3> HIDE DEF text
    <3>7. text \notin Unsound'
      BY <3>5, <3>6 DEF Unsound
    <3> QED
      BY <2>2, <2>4, <3>4, <3>6, <3>7 DEF text
  <2> QED
    BY <1>1, <1>2, <2>1, <2>3, <2>4, RowsAnswer
<1> QED
  BY <1>2, <1>3, <1>4, <1>6 DEF Whose, Has


LEMMA WhoseStep == ASSUME LInv, Right, Order, Whose, [LNext]_lvars PROVE Whose'
<1> USE DEF LInv, Shape
<1>1. CASE current' = NoUser
  BY <1>1 DEF Whose
<1>2. ASSUME current # NoUser, current' = current, ~Has(requests', ForOther),
             Has(replies', Unsound') => Has(replies, Unsound'),
             \A u \in served' : at'[u] = "memberRow" => u \in served /\ at[u] = "memberRow"
      PROVE  Whose'
  <2>1. ~Has(replies', Unsound')
    BY <1>2, UnsoundKept DEF Whose
  <2>2. ForOther' = ForOther
    BY <1>2 DEF ForOther
  <2> QED
    BY <1>2, <2>1, <2>2 DEF Whose, Has
<1>3. CASE MenuAsks \/ Join
  <2> SUFFICES ASSUME current' # NoUser PROVE Whose'
    BY <1>1
  <2>1. current \in User
    BY <1>3 DEF MenuAsks, Ask, Join, Types
  <2>2. /\ UNCHANGED <<gvars, replies, server, current>>
        /\ \/ UNCHANGED requests
           \/ \E r \in GoodRequest : requests' = requests \o <<r>> /\ r.from = current
    BY <1>3, <2>1, SendsKeep
  <2>3. ASSUME NEW r \in GoodRequest, requests' = requests \o <<r>>, r.from = current
        PROVE  ~Has(requests', ForOther)
    <3>1. r \notin ForOther /\ ~Has(requests, ForOther)
      BY <2>2, <2>3 DEF ForOther, Whose
    <3> QED
      BY <2>3, <3>1, RequestAdded
  <2>4. ~Has(requests', ForOther)
    BY <2>2, <2>3 DEF Whose
  <2> QED
    BY <1>2, <2>2, <2>4 DEF gvars, handler, server
<1>4. CASE MenuReceives
  <2>1. PICK n \in 1 .. Len(replies) :
            /\ replies' = SubSeq(replies, n + 1, Len(replies))
            /\ \/ Throws
               \/ n = 1 /\ replies[1].errno # 0 /\ TakesRefusal
               \/ /\ n = 1 /\ replies[1].errno = 0
                  /\ HasFields(replies[1]) /\ TakesSuccess(replies[1])
    BY <1>4, ReadTaken
  <2>2. /\ menu \in Waits /\ replies[1] \in GoodReply
        /\ UNCHANGED <<requests, gvars, server>>
    BY <1>4, <2>1, RepliesRead DEF MenuReceives
  <2>3. PICK r \in GoodReply : r = replies[1]
    BY <2>2
  <2>4. CASE menu = "LOGIN_MSG" /\ r.msgid = "LOGIN_MSG_ACK" /\ r.errno = 0
    <3>1. r \in LoginReplies /\ current = NoUser
      BY <2>4 DEF LoginReplies, Screen, Outside
    <3>2. ~AnyGroup'
      BY <2>1, <2>2, <2>3, <2>4, <3>1, ReadOrder DEF Order
    <3>3. /\ \A A : A \subseteq GroupRequests => ~Has(requests', A)
          /\ \A A : A \subseteq GroupReplies => ~Has(replies', A)
          /\ \A u \in served' : at'[u] # "memberRow"
      BY <3>2 DEF AnyGroup, GroupRuns, Has
    <3>4. ForOther' \subseteq GroupRequests /\ Unsound' \subseteq GroupReplies
      BY DEF ForOther, Unsound
    <3>5. ~Has(requests', ForOther') /\ ~Has(replies', Unsound')
      BY <3>3, <3>4
    <3> QED
      BY <3>3, <3>5 DEF Whose, Has
  <2>5. CASE current' = current /\ current # NoUser
    <3>1. Has(replies', Unsound') => Has(replies, Unsound')
      BY <2>1, RepliesGone
    <3> QED
      BY <1>2, <2>2, <2>5, <3>1 DEF Whose, gvars, handler, server
  <2> QED
    BY <1>1, <2>1, <2>2, <2>3, <2>4, <2>5, SuccessTaken DEF Throws, TakesRefusal, lists
<1>5. CASE ReaderReceives
  <2> SUFFICES ASSUME current # NoUser PROVE Whose'
    BY <1>1, <1>5 DEF ReaderReceives, screen
  <2>1. PICK n \in 1 .. Len(replies) : replies' = SubSeq(replies, n + 1, Len(replies))
    BY <1>5 DEF ReaderReceives
  <2>2. Has(replies', Unsound') => Has(replies, Unsound')
    BY <2>1, RepliesGone
  <2>3. UNCHANGED <<current, requests, server, at>>
    BY <1>5 DEF ReaderReceives, screen, gvars, handler
  <2> QED
    BY <1>2, <2>2, <2>3 DEF Whose, server
<1>6. CASE Elsewhere \/ LoginQueries \/ UNCHANGED lvars
  <2> SUFFICES ASSUME current # NoUser PROVE Whose'
    BY <1>1, <1>6 DEF Elsewhere, LoginQueries, lvars, screen
  <2>1. UNCHANGED <<current, requests, replies, served>>
    BY <1>6 DEF Elsewhere, LoginQueries, lvars, screen, server
  <2>2. \A u \in served : at'[u] = at[u]
    BY <1>6, ElsewhereKeeps DEF LoginQueries, lvars, gvars, handler, Types, FInv, GInv
  <2> QED
    BY <1>2, <2>1, <2>2 DEF Whose
<1>7. CASE LoginAnswer
  <2> SUFFICES ASSUME current # NoUser PROVE Whose'
    BY <1>1, <1>7 DEF LoginAnswer, screen
  <2> DEFINE text == [Ok("LOGIN_MSG_ACK", login.id) EXCEPT !.found = login.found]
  <2>1. /\ login.next = "members" /\ Reply(<<text>>)
        /\ UNCHANGED <<requests, served, current, at>>
    BY <1>7 DEF LoginAnswer, screen, gvars, handler
  <2>2. text \in GoodReply
    BY <2>1, GoodAnswers DEF LoginState
  <2>3. text \notin Unsound'
    BY DEF Unsound, GroupReplies, AboutGroups, Ok
  <2> HIDE DEF text
  <2>4. Has(replies', Unsound') => Has(replies, Unsound')
    BY <2>1, <2>2, <2>3, ReplyAdded
  <2> QED
    BY <1>2, <2>1, <2>4 DEF Whose
<1>8. CASE Loginout
  BY <1>1, <1>8 DEF Loginout
<1> QED
  BY <1>3, <1>4, <1>5, <1>6, <1>7, <1>8, OnMessageWhose, RowsWhose DEF LNext

LEMMA ListedStep ==
    ASSUME LInv, Right, Whose, GroupsListed, [LNext]_lvars PROVE GroupsListed'
<1> USE DEF LInv, Shape
<1>1. Shape'
  BY LInvStep
<1>2. CASE current' = NoUser
  BY <1>1, <1>2 DEF Screen, GroupsListed
<1>3. ASSUME current' # NoUser, current' = current
      PROVE  \A entry \in groupList : GroupOk(entry.id)'
  <2>1. PICK u \in served : u = current
    BY <1>3, AckServed DEF Right
  <2>2. \A g \in GroupId : GroupOk(g) => GroupOk(g)'
    BY <1>3, <2>1, OkKept
  <2>3. \A entry \in groupList : entry.id \in GroupId
    BY DEF Types, Entry
  <2> QED
    BY <2>2, <2>3 DEF GroupsListed
<1>4. CASE UNCHANGED <<current, groupList>>
  BY <1>2, <1>3, <1>4 DEF GroupsListed
<1>5. ASSUME current' # NoUser, current' = current,
             NEW g \in GroupId, GroupOk(g)', groupList' = groupList \cup {NewEntry(g)}
      PROVE  GroupsListed'
  <2>1. NewEntry(g).id = g
    BY DEF NewEntry
  <2>2. \A entry \in groupList' : entry \in groupList \/ entry.id = g
    BY <1>5, <2>1
  <2> QED
    BY <1>3, <1>5, <2>2 DEF GroupsListed
<1>6. CASE Join
  <2> SUFFICES ASSUME Send("ADD_GROUP_MSG", current, typed),
                      groupList' = groupList \cup {NewEntry(typed)}
               PROVE  GroupsListed'
    BY <1>4, <1>6 DEF Join
  <2>1. PICK g \in GroupId : g = typed
    BY <1>6 DEF Join, Screen
  <2>2. current' = current /\ current \in User /\ current # NoUser
    BY <1>6, GroupsAssumption DEF Join, Screen, Types, Outside
  <2> DEFINE r == [msgid |-> "ADD_GROUP_MSG", from |-> current, id |-> g]
  <2>3. r \in GoodRequest /\ requests' = requests \o <<r>>
    BY <2>1, <2>2, Sent DEF Asked, Id
  <2>4. r \in GroupRequest(current, g)
    BY <2>3 DEF GroupRequest
  <2> HIDE DEF r
  <2>5. Has(requests', GroupRequest(current, g))
    BY <2>3, <2>4, RequestAdded
  <2>6. GroupOk(g)'
    BY <2>2, <2>5 DEF GroupOk, GroupRequest
  <2> QED
    BY <1>5, <2>1, <2>2, <2>6
<1>7. CASE MenuReceives
  <2> SUFFICES ASSUME current' # NoUser PROVE GroupsListed'
    BY <1>2
  <2>1. PICK n \in 1 .. Len(replies) :
            /\ replies' = SubSeq(replies, n + 1, Len(replies))
            /\ \/ Throws
               \/ n = 1 /\ replies[1].errno # 0 /\ TakesRefusal
               \/ /\ n = 1 /\ replies[1].errno = 0
                  /\ HasFields(replies[1]) /\ TakesSuccess(replies[1])
    BY <1>7, ReadTaken
  <2>2. /\ menu \in Waits /\ replies[1] \in GoodReply /\ 1 \in DOMAIN replies
        /\ UNCHANGED <<gvars, refused, requests>>
    BY <1>7, <2>1, RepliesRead DEF MenuReceives
  <2>3. PICK r \in GoodReply : r = replies[1]
    BY <2>2
  <2>4. CASE Throws \/ TakesRefusal
    BY <1>4, <2>4 DEF Throws, TakesRefusal, lists
  <2>5. CASE /\ r.msgid = "LOGIN_MSG_ACK" /\ r.errno = 0
             /\ current' = r.id /\ groupList' = r.found.groups
    <3>1. r \notin WrongAck
      BY <2>2, <2>3 DEF Right, RepliesRight, Has
    <3>2. \A entry \in r.found.groups : HasRow(entry.id, r.id)
      BY <2>5, <3>1 DEF WrongAck, FoundOk
    <3>3. groupUser' = groupUser
      BY <2>2 DEF gvars, tables
    <3> QED
      BY <2>5, <3>2, <3>3 DEF GroupsListed, GroupOk, HasRow
  <2>6. CASE /\ r.id \in GroupId /\ r.msgid \in {"CREATE_GROUP_MSG", "ADD_GROUP_MSG"}
             /\ r.errno = 0 /\ current' = current
             /\ groupList' = groupList \cup {NewEntry(r.id)}
    <3>1. r \notin Unsound
      BY <2>2, <2>3, <2>6 DEF Whose, Has
    <3>2. GroupOk(r.id)
      BY <2>6, <3>1 DEF Unsound, GroupReplies, AboutGroups
    <3>3. PICK u \in served : u = current
      BY <2>6, AckServed DEF Right
    <3>4. PICK g \in GroupId : g = r.id
      BY <2>6
    <3>5. GroupOk(g)'
      BY <2>6, <3>2, <3>3, <3>4, OkKept
    <3> QED
      BY <1>5, <2>6, <3>4, <3>5
  <2> QED
    BY <1>4, <2>1, <2>2, <2>3, <2>4, <2>5, <2>6, SuccessTaken DEF lists
<1>8. CASE Loginout
  BY <1>2, <1>8 DEF Loginout
<1>9. CASE MenuAsks \/ ReaderReceives \/ OnMessage \/ ServerRows \/ LoginQueries
            \/ LoginAnswer \/ Elsewhere \/ UNCHANGED lvars
  BY <1>4, <1>9 DEF MenuAsks, Ask, ReaderReceives, OnMessage, ServerRows, LoginQueries,
                    LoginAnswer, Elsewhere, lvars, screen, lists
<1> QED
  BY <1>6, <1>7, <1>8, <1>9 DEF LNext

LEMMA GroupsInit == ASSUME LInit PROVE Order /\ Whose /\ GroupsListed
<1>1. /\ requests = <<>> /\ replies = <<>> /\ current = NoUser /\ groupList = {}
      /\ login.next = "none" /\ served = {}
  BY DEF LInit, NoLogin
<1>2. ~LoginBeforeGroup
  BY <1>1 DEF LoginBeforeGroup, LoginRuns, Before, Has
<1> QED
  BY <1>1, <1>2 DEF Order, Whose, GroupsListed

LEMMA GroupsHold == LSpec => [](LInv /\ Right /\ Order /\ Whose /\ GroupsListed)
<1>1. LInit => LInv /\ Right /\ Order /\ Whose /\ GroupsListed
  BY LInvInit, RightInit, GroupsInit
<1>2. LInv /\ Right /\ Order /\ Whose /\ GroupsListed /\ [LNext]_lvars =>
          LInv' /\ Right' /\ Order' /\ Whose' /\ GroupsListed'
  BY LInvStep, RightStep, OrderStep, WhoseStep, ListedStep
<1> QED
  BY <1>1, <1>2, PTL DEF LSpec

\* A group on the list is one the user who is logged in has a row for, unless
\* the row is still to come or came to nothing: although users share the client
\* and createGroup takes whichever answer about a group it finds.
THEOREM GroupsOnList == LSpec => []GroupsAreStored
<1>1. ASSUME LInv, GroupsListed, NEW g \in Listed
      PROVE  (\E role \in Role : <<g, current, role>> \in groupUser) \/ Pending(g) \/ g \in refused
  <2>1. current # NoUser /\ GroupOk(g)
    BY <1>1 DEF LInv, Shape, Screen, GroupsListed, Listed
  <2>2. ASSUME Has(requests, GroupRequest(current, g)) PROVE Pending(g)
    <3>1. PICK i \in DOMAIN requests : requests[i] \in GroupRequest(current, g)
      BY <2>2 DEF Has
    <3>2. Stores(requests[i]) /\ requests[i].id = g
      BY <3>1 DEF GroupRequest, Stores
    <3> QED
      BY <3>2 DEF Pending
  <2>3. at[current] \in {"memberRow", "creatorRow"} /\ group[current] = g => Pending(g)
    BY <2>1 DEF Pending
  <2> QED
    BY <2>1, <2>2, <2>3 DEF GroupOk, HasRow
<1>2. LInv /\ GroupsListed => GroupsAreStored
  BY <1>1 DEF GroupsAreStored
<1> QED
  BY <1>2, GroupsHold, PTL
=============================================================================
