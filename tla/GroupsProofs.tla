---------------------------- MODULE GroupsProofs ----------------------------
(***************************************************************************)
(* Proofs about module Groups, for every number of users and groups:       *)
(*    GTypesHold       GSpec => []GTypeOK                                  *)
(*    CreatorHolds     GSpec => []CreatorIsUnique                          *)
(*    FriendshipHolds  GSpec => []FriendshipIsMutual                       *)
(* GInv adds to the types what a handler between two statements still has  *)
(* to write, and which ids were given out; FInv adds that a one-sided      *)
(* friendship is one whose second row is next, or failed.                  *)
(***************************************************************************)
EXTENDS Groups, TLAPS

\* A handler that is at a statement has what the statement needs.
HandlerReady ==
    \A u \in User :
        /\ at[u] \in {"creatorRow", "memberRow"} => group[u] \in GroupId
        /\ at[u] = "creatorRow" => group[u] \in allGroup /\ creator[group[u]] = u
        /\ at[u] \in {"friendRow", "friendRowBack"} => peer[u] \in User

\* The ids that were given out are the ones below the counter.
IdsGivenOut ==
    /\ allGroup = {g \in GroupId : g < nextId}
    /\ \A g \in allGroup : creator[g] \in User

HasCreator(g) == \E u \in User : <<g, u, "creator">> \in groupUser

CreatorRows ==
    /\ \A g \in GroupId, u \in User :
           <<g, u, "creator">> \in groupUser => g \in allGroup /\ creator[g] = u
    /\ \A g \in allGroup :
           \/ HasCreator(g)
           \/ g \in ownerless
           \/ at[creator[g]] = "creatorRow" /\ group[creator[g]] = g

GInv == GTypeOK /\ HandlerReady /\ IdsGivenOut /\ CreatorRows

LEMMA InitGInv == ASSUME GInit PROVE GInv
  BY GroupsAssumption DEF GInit, GInv, GTypeOK, HandlerReady, IdsGivenOut, CreatorRows,
                          HasCreator, GroupId, Statement, Role

\* A statement of a handler keeps the rows of the groups it does not name.
LEMMA CreateGroupKeeps ==
    ASSUME GInv, NEW u \in User, CreateGroup(u)
    PROVE  GInv'
<1> USE GroupsAssumption DEF GInv, CreateGroup, Begin
<1>1. nextId \in GroupId /\ nextId \notin allGroup
  BY DEF GTypeOK, IdsGivenOut, GroupId
<1>2. GTypeOK'
  BY <1>1 DEF GTypeOK, GroupId, Statement
<1>3. HandlerReady'
  BY <1>1 DEF GTypeOK, HandlerReady
<1>4. IdsGivenOut'
  BY <1>1 DEF GTypeOK, IdsGivenOut, GroupId
<1>5. CreatorRows'
  <2>1. ASSUME NEW g \in GroupId, NEW v \in User, <<g, v, "creator">> \in groupUser
        PROVE  g \in allGroup' /\ creator'[g] = v
    BY <1>1, <2>1 DEF GTypeOK, CreatorRows
  <2>2. ASSUME NEW g \in allGroup'
        PROVE  \/ HasCreator(g)'
               \/ g \in ownerless'
               \/ at'[creator'[g]] = "creatorRow" /\ group'[creator'[g]] = g
    <3>1. CASE g = nextId
      BY <1>1, <3>1 DEF GTypeOK
    <3>2. CASE g # nextId
      <4>1. g \in allGroup /\ g \in GroupId
        BY <3>2 DEF GTypeOK
      <4>2. creator'[g] = creator[g] /\ creator[g] \in User
        BY <1>1, <3>2, <4>1 DEF GTypeOK, IdsGivenOut
      <4>3. creator[g] # u => at'[creator[g]] = at[creator[g]]
                              /\ group'[creator[g]] = group[creator[g]]
        BY <4>2 DEF GTypeOK
      <4>4. QED
        BY <4>1, <4>2, <4>3 DEF CreatorRows, HasCreator
    <3>3. QED
      BY <3>1, <3>2
  <2>3. QED
    BY <2>1, <2>2 DEF CreatorRows
<1>6. QED
  BY <1>2, <1>3, <1>4, <1>5

LEMMA CreateGroupRowKeeps ==
    ASSUME GInv, NEW u \in User, CreateGroupRow(u)
    PROVE  GInv'
<1> USE GroupsAssumption DEF GInv, CreateGroupRow, Return
<1> DEFINE row == <<group[u], u, "creator">>
<1>1. group[u] \in GroupId /\ group[u] \in allGroup /\ creator[group[u]] = u
  BY DEF HandlerReady
<1>2. \/ groupUser' = groupUser \cup {row} /\ ownerless' = ownerless
      \/ groupUser' = groupUser /\ ownerless' = ownerless \cup {group[u]}
  BY DEF Insert, InsertFails
<1>3. GTypeOK'
  BY <1>1, <1>2 DEF GTypeOK, Statement, Role
<1>4. HandlerReady'
  BY DEF GTypeOK, HandlerReady
<1>5. IdsGivenOut'
  BY DEF IdsGivenOut
<1>6. CreatorRows'
  <2>1. ASSUME NEW g \in GroupId, NEW v \in User, <<g, v, "creator">> \in groupUser'
        PROVE  g \in allGroup' /\ creator'[g] = v
    BY <1>1, <1>2, <2>1 DEF CreatorRows
  <2>2. ASSUME NEW g \in allGroup'
        PROVE  \/ HasCreator(g)'
               \/ g \in ownerless'
               \/ at'[creator'[g]] = "creatorRow" /\ group'[creator'[g]] = g
    <3>1. CASE g = group[u]
      BY <1>2, <3>1 DEF HasCreator
    <3>2. CASE g # group[u]
      <4>1. HasCreator(g) => HasCreator(g)'
        BY <1>2 DEF HasCreator
      <4>2. creator[g] # u => at'[creator[g]] = at[creator[g]] /\ group'[creator[g]] = group[creator[g]]
        BY DEF GTypeOK, IdsGivenOut
      <4>3. QED
        BY <1>2, <3>2, <4>1, <4>2 DEF CreatorRows
    <3>3. QED
      BY <3>1, <3>2
  <2>3. QED
    BY <2>1, <2>2 DEF CreatorRows
<1>7. QED
  BY <1>3, <1>4, <1>5, <1>6

\* A step of a handler that is not about a creator: it is idle before or
\* after, or at a statement of another kind.
LEMMA OthersKeepCreators ==
    ASSUME GInv, NEW u \in User, at[u] # "creatorRow",
           \A v \in User \ {u} : at'[v] = at[v] /\ group'[v] = group[v],
           \A g \in GroupId, v \in User :
               <<g, v, "creator">> \in groupUser' <=> <<g, v, "creator">> \in groupUser,
           UNCHANGED <<allGroup, creator, ownerless>>
    PROVE  CreatorRows'
<1>1. ASSUME NEW g \in allGroup
      PROVE  \/ HasCreator(g)'
             \/ g \in ownerless'
             \/ at'[creator'[g]] = "creatorRow" /\ group'[creator'[g]] = g
  <2>1. g \in GroupId /\ creator[g] \in User
    BY DEF GInv, GTypeOK, IdsGivenOut
  <2>2. HasCreator(g) => HasCreator(g)'
    BY <2>1 DEF HasCreator
  <2>3. at[creator[g]] = "creatorRow" =>
            at'[creator[g]] = "creatorRow" /\ group'[creator[g]] = group[creator[g]]
    BY <2>1
  <2>4. QED
    BY <2>2, <2>3 DEF GInv, CreatorRows
<1>2. ASSUME NEW g \in GroupId, NEW v \in User, <<g, v, "creator">> \in groupUser'
      PROVE  g \in allGroup' /\ creator'[g] = v
  BY <1>2 DEF GInv, CreatorRows
<1>3. QED
  BY <1>1, <1>2 DEF CreatorRows

LEMMA MemberStepKeeps ==
    ASSUME GInv, NEW u \in User,
           \/ AddGroupRow(u)
           \/ \E g \in GroupId : AddGroup(u, g)
           \/ AddFriendRow(u) \/ AddFriendRowBack(u)
           \/ \E v \in User : AddFriend(u, v)
    PROVE  GInv'
<1> USE GroupsAssumption DEF GInv
<1>1. CASE AddGroupRow(u)
  <2>1. \/ groupUser' = groupUser \cup {<<group[u], u, "normal">>}
        \/ groupUser' = groupUser
    BY <1>1 DEF AddGroupRow, InsertMember, Insert, InsertFails
  <2>2. GTypeOK'
    BY <1>1, <2>1 DEF AddGroupRow, Return, GTypeOK, HandlerReady, Statement, Role
  <2>3. HandlerReady' /\ IdsGivenOut'
    BY <1>1 DEF AddGroupRow, Return, GTypeOK, HandlerReady, IdsGivenOut
  <2>4. CreatorRows'
    BY <1>1, <2>1, OthersKeepCreators DEF AddGroupRow, Return, GTypeOK
  <2>5. QED
    BY <2>2, <2>3, <2>4
<1>2. ASSUME NEW g \in GroupId, AddGroup(u, g)
      PROVE  GInv'
  <2>1. GTypeOK' /\ HandlerReady' /\ IdsGivenOut'
    BY <1>2 DEF AddGroup, Begin, tables, GTypeOK, HandlerReady, IdsGivenOut, Statement
  <2>2. CreatorRows'
    BY <1>2, OthersKeepCreators DEF AddGroup, Begin, tables, GTypeOK
  <2>3. QED
    BY <2>1, <2>2
<1>3. CASE AddFriendRow(u)
  <2>1. peer[u] \in User
    BY <1>3 DEF AddFriendRow, HandlerReady
  <2>2. GTypeOK'
    BY <1>3, <2>1 DEF AddFriendRow, FriendInsert, Insert, InsertFails, Pair, GTypeOK, Statement
  <2>3. HandlerReady' /\ IdsGivenOut'
    BY <1>3 DEF AddFriendRow, GTypeOK, HandlerReady, IdsGivenOut
  <2>4. CreatorRows'
    BY <1>3, OthersKeepCreators DEF AddFriendRow, GTypeOK
  <2>5. QED
    BY <2>2, <2>3, <2>4
<1>4. CASE AddFriendRowBack(u)
  <2>1. peer[u] \in User
    BY <1>4 DEF AddFriendRowBack, HandlerReady
  <2>2. GTypeOK'
    BY <1>4, <2>1 DEF AddFriendRowBack, Return, FriendInsert, Insert, InsertFails, Pair,
                      GTypeOK, Statement
  <2>3. HandlerReady' /\ IdsGivenOut'
    BY <1>4 DEF AddFriendRowBack, Return, GTypeOK, HandlerReady, IdsGivenOut
  <2>4. CreatorRows'
    BY <1>4, OthersKeepCreators DEF AddFriendRowBack, Return, GTypeOK
  <2>5. QED
    BY <2>2, <2>3, <2>4
<1>5. ASSUME NEW v \in User, AddFriend(u, v)
      PROVE  GInv'
  <2>1. GTypeOK' /\ HandlerReady' /\ IdsGivenOut'
    BY <1>5 DEF AddFriend, Begin, tables, GTypeOK, HandlerReady, IdsGivenOut, Statement
  <2>2. CreatorRows'
    BY <1>5, OthersKeepCreators DEF AddFriend, Begin, tables, GTypeOK
  <2>3. QED
    BY <2>1, <2>2
<1>6. QED
  BY <1>1, <1>2, <1>3, <1>4, <1>5

LEMMA RemoveGroupKeeps ==
    ASSUME GInv, NEW u \in User, NEW g \in GroupId, RemoveGroup(u, g)
    PROVE  GInv'
<1> USE GroupsAssumption DEF GInv, RemoveGroup
<1>1. GTypeOK' /\ HandlerReady' /\ IdsGivenOut'
  BY DEF handler, GTypeOK, HandlerReady, IdsGivenOut
<1>2. CreatorRows'
  <2>1. \A h \in GroupId, v \in User :
            <<h, v, "creator">> \in groupUser' <=>
                <<h, v, "creator">> \in groupUser /\ (h # g \/ v # u)
    OBVIOUS
  <2>2. ASSUME NEW h \in allGroup
        PROVE  \/ HasCreator(h)'
               \/ h \in ownerless'
               \/ at'[creator'[h]] = "creatorRow" /\ group'[creator'[h]] = h
    <3>1. h \in GroupId
      BY DEF GTypeOK
    <3>2. HasCreator(h) => HasCreator(h)' \/ h \in ownerless'
      BY <2>1, <3>1 DEF HasCreator
    <3>3. QED
      BY <3>2 DEF handler, CreatorRows
  <2>3. QED
    BY <2>1, <2>2 DEF CreatorRows
<1>3. QED
  BY <1>1, <1>2

LEMMA StepGInv == ASSUME GInv, [GNext]_gvars PROVE GInv'
<1>1. CASE UNCHANGED gvars
  BY <1>1 DEF gvars, tables, handler, GInv, GTypeOK, HandlerReady, IdsGivenOut, CreatorRows,
              HasCreator
<1>2. ASSUME NEW u \in User, CreateGroup(u) PROVE GInv'
  BY <1>2, CreateGroupKeeps
<1>3. ASSUME NEW u \in User, CreateGroupRow(u) PROVE GInv'
  BY <1>3, CreateGroupRowKeeps
<1>4. ASSUME NEW u \in User, NEW g \in GroupId, RemoveGroup(u, g) PROVE GInv'
  BY <1>4, RemoveGroupKeeps
<1>5. QED
  BY <1>1, <1>2, <1>3, <1>4, MemberStepKeeps DEF GNext

LEMMA GInvHolds == GSpec => []GInv
  BY InitGInv, StepGInv, PTL DEF GSpec

-----------------------------------------------------------------------------
\* Every table and every handler keeps its type: in particular no INSERT ever
\* names a missing group id or user.
THEOREM GTypesHold == GSpec => []GTypeOK
<1>1. GInv => GTypeOK
  BY DEF GInv
<1>2. QED
  BY <1>1, GInvHolds, PTL

\* A group has one creator at most, the user it was created for, and has one
\* unless the INSERT failed, is still to come, or the creator left; for any
\* number of users who create, join and leave at the same time.
THEOREM CreatorHolds == GSpec => []CreatorIsUnique
<1>1. GInv => CreatorIsUnique
  BY DEF GInv, CreatorRows, HasCreator, CreatorIsUnique
<1>2. QED
  BY <1>1, GInvHolds, PTL

-----------------------------------------------------------------------------
\* A handler at its second INSERT has the first one behind it; FriendshipIsMutual
\* says what the rows excuse, this says what the handlers have done.
FirstRowIn ==
    \A u \in User : at[u] = "friendRowBack" =>
        <<u, peer[u]>> \in friend \/ Pair(u, peer[u]) \in oneSided

FInv == GInv /\ FriendshipIsMutual /\ FirstRowIn

\* A step that inserts no friend and moves no handler to or from the second
\* INSERT of a friendship.
LEMMA OthersKeepFriends ==
    ASSUME FInv, UNCHANGED <<friend, oneSided>>,
           \A u \in User :
               /\ at[u] = "friendRowBack" => at'[u] = at[u] /\ peer'[u] = peer[u]
               /\ at'[u] = "friendRowBack" => at[u] = "friendRowBack"
    PROVE  FriendshipIsMutual' /\ FirstRowIn'
<1>1. \A row \in friend : row[1] \in User
  BY DEF FInv, GInv, GTypeOK
<1>2. QED
  BY <1>1 DEF FInv, FriendshipIsMutual, FirstRowIn

LEMMA FriendRowKeeps ==
    ASSUME FInv, NEW u \in User, AddFriendRow(u)
    PROVE  FriendshipIsMutual' /\ FirstRowIn'
<1> DEFINE v == peer[u]
<1>1. v \in User
  BY DEF FInv, GInv, HandlerReady, AddFriendRow
<1>2. at' = [at EXCEPT ![u] = "friendRowBack"] /\ peer' = peer
  BY DEF AddFriendRow
<1>3. \/ friend' = friend \cup {<<u, v>>} /\ oneSided' = oneSided
      \/ friend' = friend /\ oneSided' = oneSided /\ <<u, v>> \in friend
      \/ friend' = friend /\ oneSided' = oneSided \cup {Pair(u, v)}
  BY DEF AddFriendRow, FriendInsert, Insert, InsertFails
<1>4. ASSUME NEW row \in friend'
      PROVE  \/ <<row[2], row[1]>> \in friend'
             \/ Pair(row[1], row[2]) \in oneSided'
             \/ at'[row[1]] = "friendRowBack" /\ peer'[row[1]] = row[2]
  <2>1. CASE row = <<u, v>>
    BY <1>2, <2>1 DEF FInv, GInv, GTypeOK
  <2>2. CASE row # <<u, v>>
    <3>1. row \in friend /\ row[1] \in User
      BY <1>3, <2>2 DEF FInv, GInv, GTypeOK
    <3>2. at[row[1]] = "friendRowBack" => at'[row[1]] = "friendRowBack"
      BY <1>2, <3>1 DEF FInv, GInv, GTypeOK
    <3>3. QED
      BY <1>2, <1>3, <3>1, <3>2 DEF FInv, FriendshipIsMutual
  <2>3. QED
    BY <2>1, <2>2
<1>5. FirstRowIn'
  <2>1. ASSUME NEW w \in User, w # u PROVE at'[w] = at[w]
    BY <1>2, <2>1 DEF FInv, GInv, GTypeOK
  <2>2. QED
    BY <1>2, <1>3, <2>1 DEF FInv, FirstRowIn
<1>6. QED
  BY <1>4, <1>5 DEF FriendshipIsMutual

LEMMA FriendRowBackKeeps ==
    ASSUME FInv, NEW u \in User, AddFriendRowBack(u)
    PROVE  FriendshipIsMutual' /\ FirstRowIn'
<1> DEFINE v == peer[u]
<1>1. at[u] = "friendRowBack" /\ v \in User
  BY DEF FInv, GInv, HandlerReady, AddFriendRowBack
<1>2. \/ friend' = friend \cup {<<v, u>>} /\ oneSided' = oneSided
      \/ friend' = friend /\ oneSided' = oneSided /\ <<v, u>> \in friend
      \/ friend' = friend /\ oneSided' = oneSided \cup {Pair(v, u)}
  BY DEF AddFriendRowBack, FriendInsert, Insert, InsertFails
<1>3. at'[u] = "idle" /\ \A w \in User \ {u} : at'[w] = at[w] /\ peer'[w] = peer[w]
  BY DEF AddFriendRowBack, Return, FInv, GInv, GTypeOK
<1>4. Pair(u, v) = Pair(v, u)
  BY DEF Pair
<1>5. ASSUME NEW row \in friend'
      PROVE  \/ <<row[2], row[1]>> \in friend'
             \/ Pair(row[1], row[2]) \in oneSided'
             \/ at'[row[1]] = "friendRowBack" /\ peer'[row[1]] = row[2]
  <2>1. CASE row = <<u, v>>
    BY <1>2, <1>4, <2>1
  <2>2. CASE row = <<v, u>>
    BY <1>1, <1>2, <1>4, <2>2 DEF FInv, FirstRowIn
  <2>3. CASE row # <<u, v>> /\ row # <<v, u>>
    <3>1. row \in friend /\ row \in User \X User
      BY <1>2, <2>3 DEF FInv, GInv, GTypeOK
    <3>2. row[1] = u => peer[u] # row[2]
      BY <2>3, <3>1
    <3>3. QED
      BY <1>2, <1>3, <3>1, <3>2 DEF FInv, FriendshipIsMutual
  <2>4. QED
    BY <2>1, <2>2, <2>3
<1>6. FirstRowIn'
  BY <1>2, <1>3 DEF FInv, FirstRowIn
<1>7. QED
  BY <1>5, <1>6 DEF FriendshipIsMutual

LEMMA StepFInv == ASSUME FInv, [GNext]_gvars PROVE FInv'
<1>1. GInv'
  BY StepGInv DEF FInv
<1>2. ASSUME NEW u \in User,
             \/ CreateGroup(u) \/ CreateGroupRow(u) \/ AddGroupRow(u)
             \/ \E g \in GroupId : AddGroup(u, g) \/ RemoveGroup(u, g)
             \/ \E v \in User : AddFriend(u, v)
      PROVE  FriendshipIsMutual' /\ FirstRowIn'
  <2>1. UNCHANGED <<friend, oneSided>> /\ at[u] # "friendRowBack"
    BY <1>2 DEF CreateGroup, CreateGroupRow, AddGroupRow, AddGroup, RemoveGroup, AddFriend,
                Begin, tables
  <2>2. \/ at' = at /\ peer' = peer
        \/ \E statement \in Statement \ {"friendRowBack"} : at' = [at EXCEPT ![u] = statement]
    BY <1>2 DEF CreateGroup, CreateGroupRow, AddGroupRow, AddGroup, RemoveGroup, AddFriend,
                Begin, Return, Statement, handler
  <2>3. \A w \in User \ {u} : peer'[w] = peer[w]
    <3>1. peer' = peer \/ \E v \in User \cup {NoUser} : peer' = [peer EXCEPT ![u] = v]
      BY <1>2 DEF CreateGroup, CreateGroupRow, AddGroupRow, AddGroup, RemoveGroup, AddFriend,
                  Begin, Return, handler
    <3>2. QED
      BY <3>1 DEF FInv, GInv, GTypeOK
  <2>4. ASSUME NEW w \in User
        PROVE  /\ at[w] = "friendRowBack" => at'[w] = at[w] /\ peer'[w] = peer[w]
               /\ at'[w] = "friendRowBack" => at[w] = "friendRowBack"
    BY <2>1, <2>2, <2>3 DEF FInv, GInv, GTypeOK
  <2>5. QED
    BY <2>1, <2>4, OthersKeepFriends
<1>3. CASE UNCHANGED gvars
  <2>1. at' = at /\ peer' = peer /\ UNCHANGED <<friend, oneSided>>
    BY <1>3 DEF gvars, tables, handler
  <2>2. QED
    BY <1>1, <2>1, OthersKeepFriends DEF FInv
<1>4. QED
  BY <1>1, <1>2, <1>3, FriendRowKeeps, FriendRowBackKeeps DEF GNext, FInv

\* Friendship is mutual, up to a second INSERT that is still to come or one
\* that failed; two users may add each other, or themselves, at any time.
THEOREM FriendshipHolds == GSpec => []FriendshipIsMutual
<1>1. GInit => FInv
  BY InitGInv DEF GInit, FInv, FriendshipIsMutual, FirstRowIn
<1>2. FInv => FriendshipIsMutual
  BY DEF FInv
<1>3. QED
  BY <1>1, <1>2, StepFInv, PTL DEF GSpec

=============================================================================
