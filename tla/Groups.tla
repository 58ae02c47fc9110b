------------------------------- MODULE Groups -------------------------------
(***************************************************************************)
(* Friends and groups: the tables Friend, AllGroup and GroupUser, and the  *)
(* handlers that write them.  Every statement opens a connection to MySQL  *)
(* of its own and there are no transactions, so the statements of handlers *)
(* that run for different users interleave, and one statement of a handler *)
(* may fail while the others succeed.  A query that fails reads nothing.   *)
(* The schema is not in the repository: the model takes ids from an        *)
(* AUTO_INCREMENT column, and a row that is already in the table (a unique *)
(* key) or any other reason makes an INSERT fail.                          *)
(*                                                                         *)
(* A user who is logged in has one connection, and its handlers run one    *)
(* after the other, so the model has one handler state per user.  Clients  *)
(* ask for any group id: the dialogue that precedes ADD_GROUP_MSG shows    *)
(* what SearchGroupData found, but its reply always says errno 0.          *)
(* GROUP_CHAT_OUT_MSG is dispatched to groupChat and writes none of these  *)
(* tables; groupChat_out and GroupModel::removeGroup are never called.     *)
(***************************************************************************)
EXTENDS Naturals, FiniteSets

CONSTANTS
    User,       \* the registered users
    MaxGroup,   \* how many groups an instance creates
    NoGroup,    \* "no group id"
    NoUser,     \* "no user id"
    MayFail     \* whether statements can fail for reasons of their own

GroupId == 1 .. MaxGroup

ASSUME GroupsAssumption ==
    /\ MaxGroup \in Nat \ {0}
    /\ NoGroup \notin GroupId
    /\ NoUser \notin User
    /\ MayFail \in BOOLEAN

VARIABLES
    friend,      \* table Friend: <<userid, friendid>>
    allGroup,    \* table AllGroup: the ids
    nextId,      \* its AUTO_INCREMENT counter
    groupUser,   \* table GroupUser: <<groupid, userid, grouprole>>
    at,          \* the next statement of the handler that runs for a user
    group,       \* the groupid of that handler
    peer,        \* the friend id of that handler
    creator,     \* history: who created each group
    ownerless,   \* history: groups whose creator row failed or was deleted
    oneSided     \* history: pairs of users with a failed INSERT into Friend

tables == <<friend, allGroup, nextId, groupUser>>
handler == <<at, group, peer>>
gvars == <<tables, handler, creator, ownerless, oneSided>>

Role == {"creator", "normal"}
Statement == {"idle", "creatorRow", "memberRow", "friendRow", "friendRowBack"}
Pair(a, b) == {a, b}

GTypeOK ==
    /\ friend \subseteq User \X User
    /\ allGroup \subseteq GroupId
    /\ nextId \in 1 .. MaxGroup + 1
    /\ groupUser \subseteq GroupId \X User \X Role
    /\ at \in [User -> Statement]
    /\ group \in [User -> GroupId \cup {NoGroup}]
    /\ peer \in [User -> User \cup {NoUser}]
    /\ creator \in [GroupId -> User \cup {NoUser}]
    /\ ownerless \subseteq GroupId
    /\ oneSided \subseteq {Pair(a, b) : a, b \in User}

GInit ==
    /\ friend = {} /\ allGroup = {} /\ nextId = 1 /\ groupUser = {}
    /\ at = [u \in User |-> "idle"]
    /\ group = [u \in User |-> NoGroup]
    /\ peer = [u \in User |-> NoUser]
    /\ creator = [g \in GroupId |-> NoUser]
    /\ ownerless = {} /\ oneSided = {}

Begin(u, statement, g, v) ==
    /\ at[u] = "idle"
    /\ at' = [at EXCEPT ![u] = statement]
    /\ group' = [group EXCEPT ![u] = g]
    /\ peer' = [peer EXCEPT ![u] = v]

Return(u) ==
    /\ at' = [at EXCEPT ![u] = "idle"]
    /\ group' = [group EXCEPT ![u] = NoGroup]
    /\ peer' = [peer EXCEPT ![u] = NoUser]

\* An INSERT of row whose result the handler does not look at.
Insert(table, row) == row \notin table /\ table' = table \cup {row}
InsertFails(table, row) == (row \in table \/ MayFail) /\ table' = table

-----------------------------------------------------------------------------
(* Groups.                                                                 *)

\* GroupModel::addGroup, which does not report a failure.
InsertMember(row) == Insert(groupUser, row) \/ InsertFails(groupUser, row)

\* createGroup inserts the group and replies with its id; the row of the
\* creator comes after the reply.  When the INSERT fails it only replies.
CreateGroup(u) ==
    /\ nextId <= MaxGroup
    /\ Begin(u, "creatorRow", nextId, NoUser)
    /\ allGroup' = allGroup \cup {nextId}
    /\ nextId' = nextId + 1
    /\ creator' = [creator EXCEPT ![nextId] = u]
    /\ UNCHANGED <<friend, groupUser, ownerless, oneSided>>

CreateGroupRow(u) ==
    /\ at[u] = "creatorRow"
    /\ LET row == <<group[u], u, "creator">>
       IN  \/ Insert(groupUser, row) /\ UNCHANGED ownerless
           \/ /\ InsertFails(groupUser, row)
              /\ ownerless' = ownerless \cup {group[u]}
    /\ Return(u)
    /\ UNCHANGED <<friend, allGroup, nextId, creator, oneSided>>

\* addGroup queries the group and goes on whether it was found or not: the
\* reply that there is no such group is not followed by a return.
AddGroup(u, g) ==
    /\ Begin(u, "memberRow", g, NoUser)
    /\ UNCHANGED <<tables, creator, ownerless, oneSided>>

\* A bug to catch: the wrong role.
AddGroupRowAsCreator(u) ==
    /\ at[u] = "memberRow"
    /\ InsertMember(<<group[u], u, "creator">>)
    /\ Return(u)
    /\ UNCHANGED <<friend, allGroup, nextId, creator, ownerless, oneSided>>

AddGroupRow(u) ==
    /\ at[u] = "memberRow"
    /\ InsertMember(<<group[u], u, "normal">>)
    /\ Return(u)
    /\ UNCHANGED <<friend, allGroup, nextId, creator, ownerless, oneSided>>

\* removeGroup deletes the rows of the user and replies that it did.
RemoveGroup(u, g) ==
    /\ at[u] = "idle"
    /\ groupUser' = {row \in groupUser : row[1] # g \/ row[2] # u}
    /\ ownerless' = IF <<g, u, "creator">> \in groupUser
                    THEN ownerless \cup {g} ELSE ownerless
    /\ UNCHANGED <<friend, allGroup, nextId, handler, creator, oneSided>>

-----------------------------------------------------------------------------
(* Friends.                                                                *)

\* A bug to catch: going on for a user that was not found.
AddFriendUnchecked(u, v) ==
    /\ Begin(u, "friendRow", NoGroup, NoUser)
    /\ UNCHANGED <<tables, creator, ownerless, oneSided>>

\* addFriend found the other user.
AddFriend(u, v) ==
    /\ Begin(u, "friendRow", NoGroup, v)
    /\ UNCHANGED <<tables, creator, ownerless, oneSided>>

FriendInsert(row) ==
    \/ Insert(friend, row) /\ UNCHANGED oneSided
    \/ row \in friend /\ UNCHANGED <<friend, oneSided>>
    \/ /\ row \notin friend /\ InsertFails(friend, row)
       /\ oneSided' = oneSided \cup {Pair(row[1], row[2])}

\* A bug to catch: only one direction.
AddFriendOneWay(u) ==
    /\ at[u] = "friendRow"
    /\ FriendInsert(<<u, peer[u]>>)
    /\ Return(u)
    /\ UNCHANGED <<allGroup, nextId, groupUser, creator, ownerless>>

AddFriendRow(u) ==
    /\ at[u] = "friendRow"
    /\ FriendInsert(<<u, peer[u]>>)
    /\ at' = [at EXCEPT ![u] = "friendRowBack"]
    /\ UNCHANGED <<allGroup, nextId, groupUser, group, peer, creator, ownerless>>

AddFriendRowBack(u) ==
    /\ at[u] = "friendRowBack"
    /\ FriendInsert(<<peer[u], u>>)
    /\ Return(u)
    /\ UNCHANGED <<allGroup, nextId, groupUser, creator, ownerless>>

-----------------------------------------------------------------------------
GNext ==
    \E u \in User :
        \/ CreateGroup(u) \/ CreateGroupRow(u) \/ AddGroupRow(u)
        \/ AddFriendRow(u) \/ AddFriendRowBack(u)
        \/ \E g \in GroupId : AddGroup(u, g) \/ RemoveGroup(u, g)
        \/ \E v \in User : AddFriend(u, v)

GSpec == GInit /\ [][GNext]_gvars

-----------------------------------------------------------------------------
(* Properties.                                                             *)

\* What queryUserGroups tells clients about roles: a group has one creator at
\* most, the user createGroup made it for, although the row is inserted after
\* others can join; and it has one unless its INSERT failed, is still to come,
\* or the creator left.
CreatorIsUnique ==
    \A g \in GroupId :
        LET creators == {u \in User : <<g, u, "creator">> \in groupUser}
        IN  /\ creators \subseteq {creator[g]}
            /\ g \in allGroup /\ creators = {} =>
                   g \in ownerless \/ (at[creator[g]] = "creatorRow" /\ group[creator[g]] = g)

\* Friendship is mutual, so that each may write to the other, except while an
\* addFriend between the two is at its second INSERT or after one failed; two
\* users who add each other at the same time do not disturb this.
FriendshipIsMutual ==
    \A row \in friend :
        \/ <<row[2], row[1]>> \in friend
        \/ Pair(row[1], row[2]) \in oneSided
        \/ at[row[1]] = "friendRowBack" /\ peer[row[1]] = row[2]

\* What the reply of addGroup says (there is no such group): nobody becomes a
\* member of a group that does not exist.
MembersHaveGroup == \A row \in groupUser : row[1] \in allGroup

=============================================================================
