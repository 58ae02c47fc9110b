------------------------------- MODULE Lists --------------------------------
(***************************************************************************)
(* The lists of friends and groups of a client, and what they have to do   *)
(* with the tables.  The client fills them from the answer of login, adds  *)
(* to them when it takes an answer for a success, or, in addGroup, without *)
(* waiting for one, shows them and lets the user choose from them, and     *)
(* empties them in loginout.  login gathers its answer with one query for  *)
(* the friends, one for the groups and one more for the members of each    *)
(* group, while handlers of other connections write the tables.            *)
(*                                                                         *)
(* One client, which its users share, and its connection; a user who is    *)
(* not logged in here (not in served) has another client, whose handlers   *)
(* are the actions of Groups.  Reads, answers and lost requests are as in  *)
(* Client: onMessage handles the first request of a read and drops the     *)
(* rest, two answers in one read are no JSON, and the reader thread may    *)
(* take an answer the menu waits for.  Chats, registration and what other  *)
(* users push are left out, as they change neither a list nor a table; an  *)
(* entry of a list is its id and, for a group, the members showGroups      *)
(* prints; lists are sets, although the client does not keep an id from    *)
(* being pushed twice.                                                     *)
(***************************************************************************)
EXTENDS Groups, Sequences

CONSTANTS
    RequestMax, \* requests under way to the server
    ReplyMax    \* answers under way to the client

ASSUME ListsAssumption == RequestMax \in Nat \ {0} /\ ReplyMax \in Nat \ {0}

VARIABLES
    menu,       \* where the menu thread is: in a menu, or in recv for an answer
    typed,      \* the friend id or group id the user typed in that call
    current,    \* current_User
    friendList, \* current_Friend
    groupList,  \* current_Group
    reader,     \* the reader thread runs
    requests, replies,  \* the two streams of the connection
    served,     \* users logged in through this connection
    login,      \* the answer that login is gathering
    refused     \* history: what current_User asked for that was dropped, refused or not stored

lists == <<friendList, groupList>>
screen == <<menu, typed, current, lists, reader>>
server == <<served, login>>
lvars == <<gvars, screen, requests, replies, server, refused>>

Waits == {"LOGIN_MSG", "ADD_FRIEND_MSG", "CREATE_GROUP_MSG", "SEARCH_GROUP_DATA_MSG"}
Menu == {"startMenu", "mainMenu", "createGroup", "addGroup", "join", "over"} \cup Waits
Id == User \cup GroupId

\* A Group object of the client: getGroupUsers is empty in one that it made
\* itself.
Entry == [id : GroupId, members : SUBSET (User \X Role)]
NewEntry(g) == [id |-> g, members |-> {}]
Listed == {entry.id : entry \in groupList}

Nothing == [friends |-> {}, groups |-> {}]
Ok(msgid, id) == [msgid |-> msgid, errno |-> 0, id |-> id, found |-> Nothing]
Refusal(msgid) == [msgid |-> msgid, errno |-> 1, id |-> NoUser, found |-> Nothing]

\* login between its queries: what is left to read, and what was read.
NoLogin == [id |-> NoUser, next |-> "none", left |-> {}, found |-> Nothing]

LTypeOK ==
    /\ menu \in Menu /\ current \in User \cup {NoUser}
    /\ typed \in Id \cup {NoUser}
    /\ friendList \subseteq User /\ groupList \subseteq Entry
    /\ reader \in BOOLEAN /\ served \subseteq User
    /\ login.id \in User \cup {NoUser} /\ login.left \subseteq GroupId
    /\ Len(requests) <= RequestMax /\ Len(replies) <= ReplyMax

LInit ==
    /\ GInit
    /\ menu = "startMenu" /\ typed = NoUser /\ current = NoUser
    /\ friendList = {} /\ groupList = {} /\ reader = FALSE
    /\ requests = <<>> /\ replies = <<>>
    /\ served = {} /\ login = NoLogin /\ refused = {}

-----------------------------------------------------------------------------
(* The menu thread sends.                                                  *)

Send(msgid, from, id) ==
    /\ Len(requests) < RequestMax
    /\ requests' = Append(requests, [msgid |-> msgid, from |-> from, id |-> id])
    /\ refused' = IF msgid = "LOGIN_OUT_MSG" THEN {} ELSE refused
    /\ UNCHANGED <<gvars, replies, server>>

Ask(msgid, from, id) ==
    /\ Send(msgid, from, id)
    /\ menu' = msgid /\ typed' = id
    /\ UNCHANGED <<current, lists, reader>>

\* addGroup asks for another id when the group is on the list.
MenuAsks ==
    \/ menu = "startMenu" /\ \E u \in User : Ask("LOGIN_MSG", u, NoUser)
    \/ menu = "mainMenu" /\ \E v \in User \ {current} : Ask("ADD_FRIEND_MSG", current, v)
    \/ menu \in {"mainMenu", "createGroup"} /\ Ask("CREATE_GROUP_MSG", current, NoUser)
    \/ /\ menu \in {"mainMenu", "addGroup"}
       /\ \E g \in GroupId \ Listed : Ask("SEARCH_GROUP_DATA_MSG", current, g)

\* The second half of addGroup: the group goes on the list when the request
\* is sent.
Join ==
    /\ menu = "join"
    /\ \/ Send("ADD_GROUP_MSG", current, typed) /\ groupList' = groupList \cup {NewEntry(typed)}
       \/ UNCHANGED <<gvars, groupList, requests, replies, server, refused>>
    /\ menu' = "mainMenu" /\ typed' = NoUser
    /\ UNCHANGED <<current, friendList, reader>>

\* Two bugs to catch: a logout that leaves a list to the next user.
LoginoutKeepsFriends ==
    /\ menu = "mainMenu"
    /\ Send("LOGIN_OUT_MSG", current, NoUser)
    /\ menu' = "startMenu" /\ current' = NoUser /\ groupList' = {}
    /\ UNCHANGED <<typed, friendList, reader>>
LoginoutKeepsGroups ==
    /\ menu = "mainMenu"
    /\ Send("LOGIN_OUT_MSG", current, NoUser)
    /\ menu' = "startMenu" /\ current' = NoUser /\ friendList' = {}
    /\ UNCHANGED <<typed, groupList, reader>>

Loginout ==
    /\ menu = "mainMenu"
    /\ Send("LOGIN_OUT_MSG", current, NoUser)
    /\ menu' = "startMenu" /\ current' = NoUser
    /\ friendList' = {} /\ groupList' = {}
    /\ UNCHANGED <<typed, reader>>

-----------------------------------------------------------------------------
(* The client receives.                                                    *)

\* The successes that have the fields the waiting call reads.
HasFields(reply) ==
    reply.msgid \in CASE menu = "LOGIN_MSG" -> {"LOGIN_MSG_ACK"}
                      [] menu = "CREATE_GROUP_MSG" -> {"CREATE_GROUP_MSG", "ADD_GROUP_MSG"}
                      [] OTHER -> {menu}

\* An exception that nobody catches ends the process.
Throws ==
    /\ menu' = "over" /\ typed' = NoUser /\ current' = NoUser
    /\ friendList' = {} /\ groupList' = {} /\ reader' = FALSE

TakesRefusal ==
    /\ menu' = CASE menu = "LOGIN_MSG" -> "startMenu"
                 [] menu = "ADD_FRIEND_MSG" -> "mainMenu"
                 [] menu = "CREATE_GROUP_MSG" -> "createGroup"
                 [] OTHER -> "addGroup"
    /\ typed' = NoUser
    /\ UNCHANGED <<current, lists, reader>>

\* A bug to catch: the id of the new friend from the answer, which has none.
TakesSuccessById(reply) ==
    /\ menu' = IF menu = "SEARCH_GROUP_DATA_MSG" THEN "join" ELSE "mainMenu"
    /\ typed' = IF menu = "SEARCH_GROUP_DATA_MSG" THEN typed ELSE NoUser
    /\ current' = IF menu = "LOGIN_MSG" THEN reply.id ELSE current
    /\ reader' = (reader \/ menu = "LOGIN_MSG")
    /\ friendList' = friendList \cup reply.found.friends
           \cup (IF menu = "ADD_FRIEND_MSG" THEN {reply.id} ELSE {})
    /\ groupList' = groupList \cup reply.found.groups
           \cup (IF menu = "CREATE_GROUP_MSG" THEN {NewEntry(reply.id)} ELSE {})

\* The menu thread takes a success for the answer to what it asked: login
\* pushes what was found onto the lists, addFriend the id that was typed,
\* createGroup the group id of the answer.
TakesSuccess(reply) ==
    /\ menu' = IF menu = "SEARCH_GROUP_DATA_MSG" THEN "join" ELSE "mainMenu"
    /\ typed' = IF menu = "SEARCH_GROUP_DATA_MSG" THEN typed ELSE NoUser
    /\ current' = IF menu = "LOGIN_MSG" THEN reply.id ELSE current
    /\ reader' = (reader \/ menu = "LOGIN_MSG")
    /\ friendList' = friendList \cup reply.found.friends
           \cup (IF menu = "ADD_FRIEND_MSG" THEN {typed} ELSE {})
    /\ groupList' = groupList \cup reply.found.groups
           \cup (IF menu = "CREATE_GROUP_MSG" THEN {NewEntry(reply.id)} ELSE {})

\* recv returns n answers, which parse only if n is 1.
MenuReceives ==
    /\ menu \in Waits
    /\ \E n \in 1 .. Len(replies) :
        /\ replies' = SubSeq(replies, n + 1, Len(replies))
        /\ LET reply == replies[1]
           IN  CASE n # 1 -> Throws
                 [] n = 1 /\ reply.errno # 0 -> TakesRefusal
                 [] n = 1 /\ reply.errno = 0 /\ HasFields(reply) -> TakesSuccess(reply)
                 [] OTHER -> Throws
    /\ UNCHANGED <<gvars, requests, server, refused>>

\* readTaskHandler drops answers.
ReaderReceives ==
    /\ reader /\ menu # "over"
    /\ \E n \in 1 .. Len(replies) : replies' = SubSeq(replies, n + 1, Len(replies))
    /\ UNCHANGED <<gvars, screen, requests, server, refused>>

-----------------------------------------------------------------------------
(* The server: the handlers of this connection, which run one at a time.   *)

Reply(texts) ==
    /\ Len(replies) + Len(texts) <= ReplyMax
    /\ replies' = replies \o texts

Idle == login = NoLogin /\ \A u \in served : at[u] = "idle"

\* The state column says offline, or login refuses.
Login(u) ==
    \/ /\ u \notin served /\ at[u] = "idle"
       /\ served' = served \cup {u}
       /\ login' = [NoLogin EXCEPT !.id = u, !.next = "friends"]
       /\ UNCHANGED <<gvars, replies>>
    \/ Reply(<<Refusal("LOGIN_MSG_ACK")>>) /\ UNCHANGED <<gvars, server>>

\* addFriend does not find the other user when its query fails.
HandleAddFriend(u, v) ==
    \/ AddFriend(u, v) /\ UNCHANGED replies
    \/ MayFail /\ Reply(<<Refusal("ADD_FRIEND_MSG")>>) /\ UNCHANGED gvars

HandleCreateGroup(u) ==
    \/ CreateGroup(u) /\ Reply(<<Ok("CREATE_GROUP_MSG", nextId)>>)
    \/ /\ MayFail \/ nextId > MaxGroup
       /\ Reply(<<Refusal("CREATE_GROUP_MSG")>>) /\ UNCHANGED gvars

\* GroupModel::queryGroup; a query that fails finds nothing.
Finds(g) == g \in allGroup
FindsNot(g) == g \notin allGroup \/ MayFail

\* The refusal is not followed by a return.
HandleAddGroup(u, g) ==
    /\ AddGroup(u, g)
    /\ \/ Finds(g) /\ UNCHANGED replies
       \/ FindsNot(g) /\ Reply(<<Refusal("ADD_GROUP_MSG")>>)

\* SearchGroupData answers with errno 0 whether it found a group or not; the
\* client prints what it found and asks whether to join.
SearchGroupData == Reply(<<Ok("SEARCH_GROUP_DATA_MSG", NoUser)>>) /\ UNCHANGED <<gvars, server>>

Handle(request) ==
    CASE request.msgid = "LOGIN_MSG" -> Login(request.from)
      [] request.msgid = "LOGIN_OUT_MSG" ->
             served' = served \ {request.from} /\ UNCHANGED <<gvars, replies, login>>
      [] request.msgid = "SEARCH_GROUP_DATA_MSG" -> SearchGroupData
      [] request.msgid = "ADD_FRIEND_MSG" ->
             HandleAddFriend(request.from, request.id) /\ UNCHANGED server
      [] request.msgid = "CREATE_GROUP_MSG" ->
             HandleCreateGroup(request.from) /\ UNCHANGED server
      [] request.msgid = "ADD_GROUP_MSG" ->
             HandleAddGroup(request.from, request.id) /\ UNCHANGED server

Stores(request) ==
    request.from = current /\ request.msgid \in {"ADD_FRIEND_MSG", "ADD_GROUP_MSG"}
Unserved(texts) == {texts[i].id : i \in {j \in DOMAIN texts : Stores(texts[j])}}

OnMessage ==
    /\ Idle
    /\ \E n \in 1 .. Len(requests) :
        /\ requests' = SubSeq(requests, n + 1, Len(requests))
        /\ Handle(requests[1])
        /\ refused' = refused \cup Unserved(SubSeq(requests, 2, n))
               \cup (IF at' = at THEN Unserved(SubSeq(requests, 1, 1)) ELSE {})
    /\ UNCHANGED screen

\* addFriend writes both rows and answers.
FriendRows(u) ==
    /\ \/ AddFriendRow(u) /\ UNCHANGED replies
       \/ AddFriendRowBack(u) /\ Reply(<<Ok("ADD_FRIEND_MSG", NoUser)>>)
    /\ refused' = IF u = current /\ <<u, peer[u]>> \notin friend'
                  THEN refused \cup {peer[u]} ELSE refused

\* createGroup has answered before it writes the row of the creator; addGroup
\* answers after its row, which may have failed.
GroupRows(u) ==
    /\ \/ CreateGroupRow(u) /\ UNCHANGED replies
       \/ AddGroupRow(u) /\ Reply(<<Ok("ADD_GROUP_MSG", group[u])>>)
    /\ refused' = IF u = current /\ \A role \in Role : <<group[u], u, role>> \notin groupUser'
                  THEN refused \cup {group[u]} ELSE refused

ServerRows ==
    /\ \E u \in served : FriendRows(u) \/ GroupRows(u)
    /\ UNCHANGED <<screen, requests, server>>

-----------------------------------------------------------------------------
(* The queries of login.                                                   *)

\* A query that fails reads nothing.
Reads(rows, into) == into = rows \/ (MayFail /\ into = {})

\* FriendModel::query.
ReadFriends ==
    /\ login.next = "friends"
    /\ \E read \in SUBSET User :
        /\ Reads({v \in User : <<login.id, v>> \in friend}, read)
        /\ login' = [login EXCEPT !.next = "groups", !.found.friends = read]

\* The first query of queryUserGroups, a join of GroupUser and AllGroup.
GroupsOf(u) == {g \in allGroup : \E role \in Role : <<g, u, role>> \in groupUser}
ReadGroups ==
    /\ login.next = "groups"
    /\ \E read \in SUBSET GroupId :
        /\ Reads(GroupsOf(login.id), read)
        /\ login' = [login EXCEPT !.next = "members", !.left = read]

\* A bug to catch: the query of groupChat, which leaves out the user who asks.
OtherMembersOf(g) ==
    {<<row[2], row[3]>> : row \in {r \in groupUser : r[1] = g /\ r[2] # login.id}}

\* Its query for the members of one group.
MembersOf(g) == {<<row[2], row[3]>> : row \in {r \in groupUser : r[1] = g}}
ReadMembers ==
    /\ login.next = "members"
    /\ \E g \in login.left, read \in SUBSET (User \X Role) :
        /\ Reads(MembersOf(g), read)
        /\ login' = [login EXCEPT !.left = @ \ {g},
                                  !.found.groups = @ \cup {[id |-> g, members |-> read]}]

LoginQueries ==
    /\ ReadFriends \/ ReadGroups \/ ReadMembers
    /\ UNCHANGED <<gvars, screen, requests, replies, served, refused>>

LoginAnswer ==
    /\ login.next = "members" /\ login.left = {}
    /\ Reply(<<[Ok("LOGIN_MSG_ACK", login.id) EXCEPT !.found = login.found]>>)
    /\ login' = NoLogin
    /\ UNCHANGED <<gvars, screen, requests, served, refused>>

-----------------------------------------------------------------------------
\* The handlers of users whose client is another one.
Elsewhere ==
    /\ \E u \in User \ served :
        \/ CreateGroup(u) \/ CreateGroupRow(u) \/ AddGroupRow(u)
        \/ AddFriendRow(u) \/ AddFriendRowBack(u)
        \/ \E g \in GroupId : AddGroup(u, g) \/ RemoveGroup(u, g)
        \/ \E v \in User \ {u} : AddFriend(u, v)
    /\ UNCHANGED <<screen, requests, replies, server, refused>>

LNext ==
    \/ MenuAsks \/ Join \/ Loginout \/ MenuReceives \/ ReaderReceives
    \/ OnMessage \/ ServerRows \/ LoginQueries \/ LoginAnswer
    \/ Elsewhere

LSpec == LInit /\ [][LNext]_lvars

-----------------------------------------------------------------------------
(* Properties.                                                             *)

\* The request of current_User that stores id is under way, or its handler runs.
Pending(id) ==
    \/ \E i \in DOMAIN requests : Stores(requests[i]) /\ requests[i].id = id
    \/ current # NoUser /\ at[current] # "idle" /\ id \in {group[current], peer[current]}

\* What showFriends offers to chat with: whoever shares the client and
\* whichever answer was taken for another, a friend on the list is a friend of
\* the user who is logged in: the row is in the table, unless its request is
\* under way or came to nothing.
FriendsAreStored ==
    \A v \in friendList : \/ <<current, v>> \in friend
                          \/ Pending(v) \/ v \in refused

\* What showGroups lets the user write to: a group on the list is one the user
\* who is logged in has a row for, unless the row is still to come (addGroup
\* does not wait, createGroup answers before it) or came to nothing.
GroupsAreStored ==
    \A g \in Listed : \/ \E role \in Role : <<g, current, role>> \in groupUser
                      \/ Pending(g) \/ g \in refused

\* The members showGroups prints were read one group at a time while others
\* joined and left: still the user is among them, and nobody is shown as the
\* creator but the user who created the group.
MembersShownAreRight ==
    \A entry \in groupList :
        entry.members # {} =>
            /\ \E role \in Role : <<current, role>> \in entry.members
            /\ \A u \in User : <<u, "creator">> \in entry.members => creator[entry.id] = u

=============================================================================
