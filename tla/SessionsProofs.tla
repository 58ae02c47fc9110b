--------------------------- MODULE SessionsProofs ---------------------------
(***************************************************************************)
(* Proofs about module Sessions, for every number of processes, users and  *)
(* connections, every PipeMax and every set of Faults:                     *)
(*    TypesHold      Spec => []TypeOK                                      *)
(*    EntriesOwned   Spec => []MapEntryOwned                               *)
(*    PresenceHolds  Spec => []PresenceAgrees                              *)
(*    WhereaboutsImplemented  Spec => IsWhereabouts                        *)
(*    SubscriptionsHold  Spec => []SubscriptionAgrees                      *)
(* TypeOK is inductive with Placed, and MapEntryOwned with both.           *)
(* PresenceAgrees speaks of users at rest only; Presence extends it to     *)
(* every phase of a handler, which makes it inductive together with        *)
(* SharedAreDisturbed: nobody else's entry is on the connection of a user  *)
(* who is not disturbed, so its close finds that user's entry.             *)
(***************************************************************************)
EXTENDS Sessions, TLAPS

\* A session has a process, and a handler beyond its first call has a user.
Placed ==
    \A c \in Conn : /\ user[c] # NoUser => home[c] \in Server
                    /\ pc[c] \notin {"idle", "closeUnsubscribe"} => user[c] \in User

\* The users of a connection that several have logged in on are disturbed.
SharedAreDisturbed == \A c \in shared : Holders(c) \subseteq disturbed

\* The phases of a session in which its user has an entry.
EntryPhases == {"subscribe", "setOnline", "deliver", "idle", "logoutErase"}

\* The phases in which the state column of an undisturbed user is "online".
OnlinePhases == {"deliver", "idle", "closeUnsubscribe", "closeSetOffline"}

OneSession(u) == \A c, d \in Conn : user[c] = u /\ user[d] = u => c = d
OfflineWithoutSession(u) == ~HasSession(u) => userState[u] = "offline"
OnlineByPhase(u) ==
    \A c \in Conn : user[c] = u => (userState[u] = "online" <=> pc[c] \in OnlinePhases)
EntryByPhase(u) ==
    \A c \in Conn : user[c] = u /\ pc[c] \in EntryPhases => userConnMap[home[c]][u] = c
OwnEntries(u) ==
    \A s \in Server :
        LET c == userConnMap[s][u]
        IN  c # NoConn => home[c] = s /\ user[c] = u /\ pc[c] \in EntryPhases

Presence(u) ==
    /\ OneSession(u)
    /\ OfflineWithoutSession(u)
    /\ OnlineByPhase(u)
    /\ EntryByPhase(u)
    /\ OwnEntries(u)

IInv ==
    /\ TypeOK
    /\ Placed
    /\ MapEntryOwned
    /\ SharedAreDisturbed
    /\ \A u \in User \ disturbed : Presence(u)

-----------------------------------------------------------------------------
(* Types.                                                                  *)

\* A command that is sent keeps the types of the pipes and of misrouted.
LEMMA SendTypes ==
    ASSUME TypeOK, NEW c \in Conn, home[c] \in Server,
           NEW cmd \in {"SUBSCRIBE", "UNSUBSCRIBE"}, SendCommand(c, cmd),
           cmd = "SUBSCRIBE" => user[c] \in User
    PROVE  /\ subPipe' \in [Server -> Seq(Command)]
           /\ misrouted' \subseteq User
<1>1. [cmd |-> cmd, channel |-> user[c]] \in Command
  BY DEF Command, TypeOK
<1>2. CASE subPipe' = [subPipe EXCEPT ![home[c]] =
                          Append(@, [cmd |-> cmd, channel |-> user[c]])]
           /\ UNCHANGED misrouted
  <2>1. Append(subPipe[home[c]], [cmd |-> cmd, channel |-> user[c]]) \in Seq(Command)
    BY <1>1 DEF TypeOK
  <2> QED
    BY <1>2, <2>1 DEF TypeOK
<1>3. CASE misrouted' = misrouted \cup ({user[c]} \ {NoUser}) /\ UNCHANGED subPipe
  BY <1>3 DEF TypeOK
<1> QED
  BY <1>2, <1>3 DEF SendCommand

\* The end of a process keeps the types.
LEMMA EndTypes ==
    ASSUME TypeOK, Placed, NEW s \in Server, ProcessEnds(s)
    PROVE  TypeOK' /\ Placed'
<1>1. SessionUsers({c \in Conn : home[c] = s}) \subseteq User
  BY DEF SessionUsers, TypeOK
<1>2. TypeOK'
  <2>1. userState' \in [User -> {"online", "offline"}]
    BY DEF TypeOK, ProcessEnds
  <2>2. userConnMap' \in [Server -> [User -> Conn \cup {NoConn}]]
    BY DEF TypeOK, ProcessEnds
  <2>3. home' \in [Conn -> Server \cup {NoServer}] /\ user' \in [Conn -> User \cup {NoUser}]
    BY DEF TypeOK, ProcessEnds
  <2>4. alive' \in [Conn -> BOOLEAN]
    BY DEF TypeOK, ProcessEnds
  <2>5. pc' \in [Conn -> Phase]
    BY DEF TypeOK, ProcessEnds, Phase
  <2>6. /\ subPipe' \in [Server -> Seq(Command)] /\ subs' \in [Server -> SUBSET User]
        /\ observing' \in [Server -> BOOLEAN]
    BY DEF TypeOK, ProcessEnds
  <2>7. /\ resetting' \in [Server -> {"no", "clear", "exit"}]
        /\ disturbed' \subseteq User /\ misrouted' \subseteq User /\ shared' \subseteq Conn
    BY <1>1 DEF TypeOK, ProcessEnds
  <2> QED
    BY <2>1, <2>2, <2>3, <2>4, <2>5, <2>6, <2>7 DEF TypeOK
<1>3. Placed'
  BY DEF TypeOK, Placed, ProcessEnds
<1> QED
  BY <1>2, <1>3

\* Every step keeps the types.
LEMMA TypeStep ==
    ASSUME TypeOK, Placed, [Next]_vars
    PROVE  TypeOK' /\ Placed'
<1> USE ConstantsAssumption
<1>1. ASSUME NEW c \in Conn, NEW s \in Server, Connect(c, s)
      PROVE  TypeOK' /\ Placed'
  BY <1>1 DEF Connect, TypeOK, Placed, stateVars, redisVars, historyVars
<1>2. ASSUME NEW c \in Conn, ClientCloses(c)
      PROVE  TypeOK' /\ Placed'
  BY <1>2 DEF ClientCloses, TypeOK, Placed, stateVars, redisVars, historyVars
<1>3. ASSUME NEW c \in Conn, NEW u \in User, LoginQuery(c, u)
      PROVE  TypeOK' /\ Placed'
  <2>1. Holders(c) \subseteq User
    BY DEF Holders
  <2>2. disturbed' \subseteq User /\ misrouted' \subseteq User /\ shared' \subseteq Conn
    BY <1>3, <2>1 DEF LoginQuery, TypeOK
  <2>3. /\ user' = [user EXCEPT ![c] = u] /\ pc' = [pc EXCEPT ![c] = "insert"]
        /\ home[c] \in Server /\ UNCHANGED <<stateVars, home, alive, redisVars, resetting>>
    BY <1>3 DEF LoginQuery, At, Goto
  <2> QED
    BY <2>2, <2>3 DEF TypeOK, Placed, Phase, stateVars, redisVars
<1>4. ASSUME NEW c \in Conn, LogoutSetOffline(c)
      PROVE  TypeOK' /\ Placed'
  BY <1>4 DEF LogoutSetOffline, UpdateState, At, Goto, TypeOK, Placed, Phase, redisVars, historyVars
<1>5. ASSUME NEW c \in Conn, LoginInsert(c)
      PROVE  TypeOK' /\ Placed'
  <2>1. user[c] \in User /\ home[c] \in Server
    BY <1>5 DEF LoginInsert, At, Placed
  <2>2. userConnMap' \in [Server -> [User -> Conn \cup {NoConn}]]
    BY <1>5, <2>1 DEF LoginInsert, TypeOK
  <2> QED
    BY <1>5, <2>1, <2>2 DEF LoginInsert, Goto, TypeOK, Placed, Phase, redisVars, historyVars
<1>6. ASSUME NEW c \in Conn, LoginSubscribe(c)
      PROVE  TypeOK' /\ Placed'
  <2>1. user[c] \in User /\ home[c] \in Server
    BY <1>6 DEF LoginSubscribe, At, Placed
  <2>2. subPipe' \in [Server -> Seq(Command)] /\ misrouted' \subseteq User
    BY <1>6, <2>1, SendTypes DEF LoginSubscribe
  <2>3. pc' \in [Conn -> Phase]
    BY <1>6 DEF LoginSubscribe, Goto, TypeOK, Phase
  <2>4. Placed'
    BY <1>6, <2>1 DEF LoginSubscribe, Goto, TypeOK, Placed
  <2> QED
    BY <1>6, <2>2, <2>3, <2>4 DEF LoginSubscribe, TypeOK, stateVars
<1>7. ASSUME NEW c \in Conn, LoginSetOnline(c)
      PROVE  TypeOK' /\ Placed'
  BY <1>7 DEF LoginSetOnline, UpdateState, At, Goto, TypeOK, Placed, Phase, redisVars, historyVars
<1>8. ASSUME NEW c \in Conn, LoginReply(c)
      PROVE  TypeOK' /\ Placed'
  BY <1>8 DEF LoginReply, At, Goto, TypeOK, Placed, Phase, stateVars, redisVars, historyVars
<1>9. ASSUME NEW c \in Conn, LogoutErase(c)
      PROVE  TypeOK' /\ Placed'
  BY <1>9 DEF LogoutErase, At, Goto, TypeOK, Placed, Phase, redisVars, historyVars
<1>10. ASSUME NEW c \in Conn, LogoutUnsubscribe(c)
       PROVE  TypeOK' /\ Placed'
  <2>1. user[c] \in User /\ home[c] \in Server
    BY <1>10 DEF LogoutUnsubscribe, At, Placed
  <2>2. subPipe' \in [Server -> Seq(Command)] /\ misrouted' \subseteq User
    BY <1>10, <2>1, SendTypes DEF LogoutUnsubscribe
  <2> QED
    BY <1>10, <2>2 DEF LogoutUnsubscribe, Goto, TypeOK, Placed, Phase, stateVars
<1>11. ASSUME NEW c \in Conn, CloseErase(c)
       PROVE  TypeOK' /\ Placed'
  <2>1. user' \in [Conn -> User \cup {NoUser}] /\ userConnMap' \in [Server -> [User -> Conn \cup {NoConn}]]
        /\ \A d \in Conn \ {c} : user'[d] = user[d]
    <3>1. CASE CloseFound(c)
      <4> PICK u \in User :
             /\ userConnMap' = [userConnMap EXCEPT ![home[c]][u] = NoConn]
             /\ user' = [user EXCEPT ![c] = u]
        BY <3>1 DEF CloseFound
      <4> QED
        BY DEF TypeOK
    <3>2. CASE CloseNotFound(c)
      BY <3>2 DEF CloseNotFound, TypeOK
    <3> QED
      BY <1>11, <3>1, <3>2 DEF CloseErase
  <2>3. /\ pc' = [pc EXCEPT ![c] = "closeUnsubscribe"] /\ home[c] \in Server
        /\ UNCHANGED <<userState, home, alive, redisVars, resetting, historyVars>>
    BY <1>11 DEF CloseErase, At, Goto
  <2> QED
    BY <2>1, <2>3 DEF TypeOK, Placed, Phase, redisVars, historyVars
<1>12. ASSUME NEW c \in Conn, CloseUnsubscribe(c)
       PROVE  TypeOK' /\ Placed'
  <2>1. user[c] \in User \cup {NoUser} /\ home[c] \in Server
    BY <1>12 DEF CloseUnsubscribe, At, TypeOK
  <2>2. subPipe' \in [Server -> Seq(Command)] /\ misrouted' \subseteq User
    BY <1>12, <2>1, SendTypes DEF CloseUnsubscribe
  <2>3. UNCHANGED <<stateVars, alive, subs, observing, resetting, disturbed, shared>>
    BY <1>12 DEF CloseUnsubscribe
  <2>4. CASE user[c] # NoUser /\ Goto(c, "closeSetOffline") /\ UNCHANGED <<home, user>>
    BY <2>1, <2>2, <2>3, <2>4 DEF Goto, TypeOK, Placed, Phase, stateVars
  <2>5. CASE Release(c)
    BY <2>2, <2>3, <2>5 DEF Release, Goto, TypeOK, Placed, Phase, stateVars
  <2> QED
    BY <1>12, <2>4, <2>5 DEF CloseUnsubscribe, CloseGoesOn
<1>13. ASSUME NEW c \in Conn, CloseSetOffline(c)
       PROVE  TypeOK' /\ Placed'
  BY <1>13 DEF CloseSetOffline, UpdateState, Release, At, Goto, TypeOK, Placed, Phase, redisVars, historyVars
<1>14. ASSUME NEW s \in Server, RedisExecutes(s)
       PROVE  TypeOK' /\ Placed'
  <2>1. Head(subPipe[s]) \in Command /\ Tail(subPipe[s]) \in Seq(Command)
    BY <1>14 DEF RedisExecutes, TypeOK
  <2>2. Head(subPipe[s]).cmd = "SUBSCRIBE" => Head(subPipe[s]).channel \in User
    BY <2>1 DEF Command
  <2> QED
    BY <1>14, <2>1, <2>2
       DEF RedisExecutes, TypeOK, Placed, stateVars, connVars, historyVars
<1>15. ASSUME NEW s \in Server, Crash(s)
       PROVE  TypeOK' /\ Placed'
  BY <1>15, EndTypes DEF Crash
<1>16. ASSUME NEW s \in Server, ResetState(s)
       PROVE  TypeOK' /\ Placed'
  BY <1>16 DEF ResetState, SessionUsers, TypeOK, Placed, connVars, redisVars
<1>17. ASSUME NEW s \in Server, ResetClear(s)
       PROVE  TypeOK' /\ Placed'
  BY <1>17 DEF ResetClear, SessionUsers, TypeOK, Placed, connVars, redisVars
<1>18. ASSUME NEW s \in Server, ResetExit(s)
       PROVE  TypeOK' /\ Placed'
  BY <1>18, EndTypes DEF ResetExit
<1>19. CASE UNCHANGED vars
  BY <1>19 DEF TypeOK, Placed, vars, stateVars, connVars, redisVars, historyVars
<1>20. ASSUME NEW s \in Server, ObserverEnds(s)
       PROVE  TypeOK' /\ Placed'
  <2>1. SessionUsers({c \in Conn : home[c] = s}) \subseteq User
    BY DEF SessionUsers, TypeOK
  <2> QED
    BY <1>20, <2>1 DEF ObserverEnds, TypeOK, Placed, stateVars, connVars
<1> QED
  BY <1>1, <1>2, <1>3, <1>4, <1>5, <1>6, <1>7, <1>8, <1>9, <1>10, <1>11, <1>12,
     <1>13, <1>14, <1>15, <1>16, <1>17, <1>18, <1>19, <1>20 DEF Next, HandlerStep

\* TypeOK holds in every behaviour: the tables, the maps, the handlers and the
\* pipes to Redis hold what their types say, and no handler acts for user 0.
THEOREM TypesHold == Spec => []TypeOK
<1>1. Init => TypeOK /\ Placed
  BY ConstantsAssumption DEF Init, TypeOK, Placed, Phase
<1>2. TypeOK /\ Placed /\ [Next]_vars => TypeOK' /\ Placed'
  BY TypeStep
<1> QED
  BY <1>1, <1>2, PTL DEF Spec

-----------------------------------------------------------------------------
(* The entries of the maps.                                                *)

\* A connection that served one user only and has passed its erase is in no
\* map.
LEMMA NoEntry ==
    ASSUME MapEntryOwned, NEW c \in Conn, c \notin shared, pc[c] \in Erased
    PROVE  InNoMap(c)
<1> SUFFICES ASSUME NEW s \in Server, NEW u \in User, userConnMap[s][u] = c
             PROVE  FALSE
  BY DEF InNoMap
<1>1. c # NoConn
  BY ConstantsAssumption
<1> QED
  BY <1>1 DEF MapEntryOwned

\* An action that leaves the maps alone and moves one connection from a
\* phase to another keeps the entries, unless it passes the erase.
LEMMA MoveKeepsEntries ==
    ASSUME TypeOK, MapEntryOwned, NEW c \in Conn, NEW phase \in Phase,
           UNCHANGED <<userConnMap, home, user, shared>>, Goto(c, phase),
           phase \in Erased => pc[c] \in Erased
    PROVE  MapEntryOwned'
BY DEF TypeOK, MapEntryOwned, Goto

\* An action that releases a connection keeps the entries, if it is in no map
\* or shared.
LEMMA ReleaseKeepsEntries ==
    ASSUME TypeOK, MapEntryOwned, NEW c \in Conn, Release(c),
           UNCHANGED <<userConnMap, shared>>, c \in shared \/ InNoMap(c)
    PROVE  MapEntryOwned'
BY DEF TypeOK, MapEntryOwned, Release, Goto, InNoMap

\* An action of one connection that stays with its process keeps the entries,
\* if it keeps those that hold this connection.
LEMMA OneMoves ==
    ASSUME TypeOK, MapEntryOwned, NEW c \in Conn, UNCHANGED <<home, shared>>,
           \A d \in Conn \ {c} : user'[d] = user[d] /\ pc'[d] = pc[d],
           \A s \in Server, u \in User : userConnMap'[s][u] \in {userConnMap[s][u], NoConn, c},
           \A s \in Server, u \in User : userConnMap'[s][u] = c =>
               IF c \in shared THEN home[c] \in {s, NoServer}
               ELSE home[c] = s /\ user'[c] = u /\ pc'[c] \notin Erased
    PROVE  MapEntryOwned'
<1> SUFFICES ASSUME NEW s \in Server, NEW u \in User, userConnMap'[s][u] # NoConn
             PROVE  LET d == userConnMap'[s][u]
                    IN  IF d \in shared THEN home[d] \in {s, NoServer}
                        ELSE home[d] = s /\ user'[d] = u /\ pc'[d] \notin Erased
  BY DEF MapEntryOwned
<1>1. CASE userConnMap'[s][u] = c
  BY <1>1
<1>2. CASE userConnMap'[s][u] # c
  <2>1. userConnMap'[s][u] = userConnMap[s][u] /\ userConnMap[s][u] \in Conn \ {c}
    BY <1>2 DEF TypeOK
  <2> QED
    BY <2>1 DEF MapEntryOwned
<1> QED
  BY <1>1, <1>2

\* A process that ends takes all its entries with it and no others.
LEMMA EndKeepsEntries ==
    ASSUME TypeOK, MapEntryOwned, NEW s \in Server, ProcessEnds(s)
    PROVE  MapEntryOwned'
<1> SUFFICES ASSUME NEW t \in Server, NEW u \in User, userConnMap'[t][u] # NoConn
             PROVE  IF userConnMap'[t][u] \in shared'
                    THEN home'[userConnMap'[t][u]] \in {t, NoServer}
                    ELSE /\ home'[userConnMap'[t][u]] = t
                         /\ user'[userConnMap'[t][u]] = u
                         /\ pc'[userConnMap'[t][u]] \notin Erased
  BY DEF MapEntryOwned
<1>1. t # s /\ userConnMap'[t][u] = userConnMap[t][u] /\ shared' = shared
  BY DEF ProcessEnds, TypeOK
<1> DEFINE c == userConnMap[t][u]
<1>2. /\ c \in Conn
      /\ IF c \in shared THEN home[c] \in {t, NoServer}
                         ELSE home[c] = t /\ user[c] = u /\ pc[c] \notin Erased
  BY <1>1 DEF MapEntryOwned, TypeOK
<1>3. home[c] # s
  BY <1>1, <1>2, ConstantsAssumption
<1> QED
  BY <1>1, <1>2, <1>3 DEF ProcessEnds

\* Every step keeps the entries owned.
LEMMA EntryStep ==
    ASSUME TypeOK, Placed, MapEntryOwned, [Next]_vars
    PROVE  MapEntryOwned'
<1> USE ConstantsAssumption
<1>1. ASSUME NEW c \in Conn, NEW s \in Server, Connect(c, s)
      PROVE  MapEntryOwned'
  BY <1>1 DEF Connect, InNoMap, TypeOK, MapEntryOwned, stateVars
<1>2. ASSUME NEW c \in Conn, ClientCloses(c)
      PROVE  MapEntryOwned'
  BY <1>2 DEF ClientCloses, MapEntryOwned, stateVars, historyVars
<1>3. ASSUME NEW c \in Conn, NEW u \in User, LoginQuery(c, u)
      PROVE  MapEntryOwned'
  <2>1. /\ home[c] \in Server /\ UNCHANGED <<userConnMap, home>>
        /\ shared' = IF Holders(c) \ {u} # {} THEN shared \cup {c} ELSE shared \ {c}
        /\ \A d \in Conn : /\ user'[d] = IF d = c THEN u ELSE user[d]
                           /\ pc'[d] = IF d = c THEN "insert" ELSE pc[d]
    BY <1>3 DEF LoginQuery, At, Goto, TypeOK, stateVars
  <2> SUFFICES ASSUME NEW s \in Server, NEW v \in User, userConnMap[s][v] # NoConn
               PROVE  LET d == userConnMap[s][v]
                      IN  IF d \in shared' THEN home[d] \in {s, NoServer}
                          ELSE home[d] = s /\ user'[d] = v /\ pc'[d] \notin Erased
    BY <2>1 DEF MapEntryOwned
  <2> DEFINE d == userConnMap[s][v]
  <2>2. /\ d \in Conn
        /\ IF d \in shared THEN home[d] \in {s, NoServer}
                           ELSE home[d] = s /\ user[d] = v /\ pc[d] \notin Erased
    BY DEF MapEntryOwned, TypeOK
  <2>3. CASE d # c
    BY <2>1, <2>2, <2>3
  <2>4. CASE d = c
    <3>1. home[c] = s
      BY <2>1, <2>2, <2>4
    <3>2. v \in Holders(c)
      BY <2>4 DEF Holders
    <3>3. c \notin shared' => v = u
      BY <2>1, <3>2
    <3> QED
      BY <2>1, <2>4, <3>1, <3>3 DEF Erased
  <2> QED
    BY <2>3, <2>4
<1>4. ASSUME NEW c \in Conn, LogoutSetOffline(c)
      PROVE  MapEntryOwned'
  BY <1>4, MoveKeepsEntries DEF LogoutSetOffline, UpdateState, Phase, Erased
<1>5. ASSUME NEW c \in Conn, LoginInsert(c)
      PROVE  MapEntryOwned'
  <2>1. user[c] \in User /\ home[c] \in Server
    BY <1>5 DEF LoginInsert, At, Placed
  <2>2. /\ UNCHANGED <<home, user, shared>>
        /\ \A d \in Conn : pc'[d] = IF d = c THEN "subscribe" ELSE pc[d]
        /\ \A s \in Server, u \in User :
               \/ userConnMap'[s][u] = userConnMap[s][u]
               \/ s = home[c] /\ u = user[c] /\ userConnMap'[s][u] = c
    BY <1>5, <2>1 DEF LoginInsert, Goto, TypeOK, historyVars
  <2>3. \A s \in Server, u \in User : userConnMap[s][u] = c =>
            IF c \in shared THEN home[c] \in {s, NoServer}
            ELSE home[c] = s /\ user[c] = u /\ pc[c] \notin Erased
    BY DEF MapEntryOwned
  <2> QED
    BY <2>1, <2>2, <2>3, OneMoves DEF Erased
<1>6. ASSUME NEW c \in Conn, LoginSubscribe(c)
      PROVE  MapEntryOwned'
  BY <1>6, MoveKeepsEntries DEF LoginSubscribe, stateVars, Phase, Erased
<1>7. ASSUME NEW c \in Conn, LoginSetOnline(c)
      PROVE  MapEntryOwned'
  BY <1>7, MoveKeepsEntries DEF LoginSetOnline, UpdateState, Phase, Erased
<1>8. ASSUME NEW c \in Conn, LoginReply(c)
      PROVE  MapEntryOwned'
  BY <1>8, MoveKeepsEntries DEF LoginReply, stateVars, historyVars, Phase, Erased
<1>9. ASSUME NEW c \in Conn, LogoutErase(c)
      PROVE  MapEntryOwned'
  <2>1. user[c] \in User /\ home[c] \in Server
    BY <1>9 DEF LogoutErase, At, Placed
  <2>2. /\ UNCHANGED <<home, user, shared>>
        /\ \A d \in Conn : pc'[d] = IF d = c THEN "logoutUnsubscribe" ELSE pc[d]
        /\ \A s \in Server, u \in User : userConnMap'[s][u] =
               IF s = home[c] /\ u = user[c] THEN NoConn ELSE userConnMap[s][u]
    BY <1>9, <2>1 DEF LogoutErase, Goto, TypeOK, historyVars
  <2>3. \A s \in Server, u \in User : userConnMap[s][u] = c =>
            IF c \in shared THEN home[c] \in {s, NoServer} ELSE home[c] = s /\ user[c] = u
    BY DEF MapEntryOwned
  <2> QED
    BY <2>1, <2>2, <2>3, OneMoves
<1>10. ASSUME NEW c \in Conn, LogoutUnsubscribe(c)
       PROVE  MapEntryOwned'
  <2>1. c \in shared \/ InNoMap(c)
    BY <1>10, NoEntry DEF LogoutUnsubscribe, At, Erased
  <2>2. /\ UNCHANGED <<userConnMap, home, shared>>
        /\ \A d \in Conn \ {c} : user'[d] = user[d] /\ pc'[d] = pc[d]
    BY <1>10 DEF LogoutUnsubscribe, Goto, TypeOK, stateVars
  <2> QED
    BY <2>1, <2>2 DEF InNoMap, TypeOK, MapEntryOwned
<1>11. ASSUME NEW c \in Conn, CloseErase(c)
       PROVE  MapEntryOwned'
  <2>1. home[c] \in Server /\ UNCHANGED <<home, shared>> /\ Goto(c, "closeUnsubscribe")
    BY <1>11 DEF CloseErase, At, historyVars
  <2>2. \A d \in Conn \ {c} : pc'[d] = pc[d]
    BY <2>1 DEF Goto, TypeOK
  <2>3. ASSUME NEW u \in User, userConnMap[home[c]][u] = c,
               userConnMap' = [userConnMap EXCEPT ![home[c]][u] = NoConn],
               user' = [user EXCEPT ![c] = u]
        PROVE  MapEntryOwned'
    <3>1. \A d \in Conn \ {c} : user'[d] = user[d]
      BY <2>3 DEF TypeOK
    <3>2. \A s \in Server, v \in User : userConnMap'[s][v] =
              IF s = home[c] /\ v = u THEN NoConn ELSE userConnMap[s][v]
      BY <2>1, <2>3 DEF TypeOK
    <3>3. c \notin shared => user[c] = u
      BY <2>1, <2>3 DEF MapEntryOwned
    <3>4. \A s \in Server, v \in User : userConnMap[s][v] = c =>
              IF c \in shared THEN home[c] \in {s, NoServer} ELSE home[c] = s /\ v = u
      BY <3>3 DEF MapEntryOwned
    <3> QED
      BY <2>1, <2>2, <3>1, <3>2, <3>4, OneMoves
  <2>4. ASSUME \A u \in User : userConnMap[home[c]][u] # c,
               user' = [user EXCEPT ![c] = NoUser], UNCHANGED userConnMap
        PROVE  MapEntryOwned'
    <3>1. \A d \in Conn \ {c} : user'[d] = user[d]
      BY <2>4 DEF TypeOK
    <3>2. c \in shared \/ InNoMap(c)
      BY <2>4 DEF MapEntryOwned, InNoMap
    <3> QED
      BY <2>1, <2>2, <2>4, <3>1, <3>2 DEF InNoMap, MapEntryOwned, TypeOK
  <2> QED
    BY <1>11, <2>3, <2>4 DEF CloseErase, CloseFound, CloseNotFound
<1>12. ASSUME NEW c \in Conn, CloseUnsubscribe(c)
       PROVE  MapEntryOwned'
  <2>1. UNCHANGED <<userConnMap, shared>> /\ pc[c] = "closeUnsubscribe"
    BY <1>12 DEF CloseUnsubscribe, At, stateVars
  <2>2. CASE Goto(c, "closeSetOffline") /\ UNCHANGED <<home, user>>
    BY <2>1, <2>2, MoveKeepsEntries DEF Phase, Erased
  <2>3. CASE Release(c)
    BY <2>1, <2>3, NoEntry, ReleaseKeepsEntries DEF Erased
  <2> QED
    BY <1>12, <2>2, <2>3 DEF CloseUnsubscribe, CloseGoesOn
<1>13. ASSUME NEW c \in Conn, CloseSetOffline(c)
       PROVE  MapEntryOwned'
  <2>1. c \in shared \/ InNoMap(c)
    BY <1>13, NoEntry DEF CloseSetOffline, At, Erased
  <2> QED
    BY <1>13, <2>1, ReleaseKeepsEntries DEF CloseSetOffline, UpdateState
<1>14. ASSUME NEW s \in Server, RedisExecutes(s)
       PROVE  MapEntryOwned'
  BY <1>14 DEF RedisExecutes, MapEntryOwned, stateVars, connVars, historyVars
<1>15. ASSUME NEW s \in Server, Crash(s)
       PROVE  MapEntryOwned'
  BY <1>15, EndKeepsEntries DEF Crash
<1>16. ASSUME NEW s \in Server, ResetState(s)
       PROVE  MapEntryOwned'
  BY <1>16 DEF ResetState, MapEntryOwned, connVars
<1>17. ASSUME NEW s \in Server, ResetClear(s)
       PROVE  MapEntryOwned'
  BY <1>17 DEF ResetClear, MapEntryOwned, TypeOK, connVars
<1>18. ASSUME NEW s \in Server, ResetExit(s)
       PROVE  MapEntryOwned'
  BY <1>18, EndKeepsEntries DEF ResetExit
<1>19. CASE UNCHANGED vars
  BY <1>19 DEF MapEntryOwned, vars, stateVars, connVars, historyVars
<1>20. ASSUME NEW s \in Server, ObserverEnds(s)
       PROVE  MapEntryOwned'
  BY <1>20 DEF ObserverEnds, MapEntryOwned, stateVars, connVars
<1> QED
  BY <1>1, <1>2, <1>3, <1>4, <1>5, <1>6, <1>7, <1>8, <1>9, <1>10, <1>11, <1>12,
     <1>13, <1>14, <1>15, <1>16, <1>17, <1>18, <1>19, <1>20 DEF Next, HandlerStep

\* An entry of _userConnMap holds a connection that its process serves, that
\* belongs to the user of the entry, and that no logout or close handler has
\* passed, with any number of processes, threads and overlapping logins.  Only
\* a connection that logged in while it stood for another user may be left
\* behind dead in the map, and no other process serves that one.
THEOREM EntriesOwned == Spec => []MapEntryOwned
<1>1. Init => TypeOK /\ Placed /\ MapEntryOwned
  BY ConstantsAssumption DEF Init, TypeOK, Placed, MapEntryOwned, Phase
<1>2. TypeOK /\ Placed /\ MapEntryOwned /\ [Next]_vars
          => TypeOK' /\ Placed' /\ MapEntryOwned'
  BY TypeStep, EntryStep
<1> QED
  BY <1>1, <1>2, PTL DEF Spec

-----------------------------------------------------------------------------
(* Presence.                                                               *)

\* A user becomes disturbed but never undisturbed again.
LEMMA DisturbedGrows ==
    ASSUME [Next]_vars
    PROVE  disturbed \subseteq disturbed'
BY DEF Next, HandlerStep, vars, stateVars, connVars, redisVars, historyVars,
       Connect, ClientCloses, LoginQuery, LoginInsert, LoginSubscribe,
       LoginSetOnline, LoginReply, LogoutSetOffline, LogoutErase, UpdateState,
       LogoutUnsubscribe, CloseErase, CloseUnsubscribe, CloseSetOffline,
       RedisExecutes, ObserverEnds, Crash, ResetState, ResetClear, ResetExit, ProcessEnds

\* A step after which the shared connections stand for no user they did not
\* stand for before keeps those users disturbed.
LEMMA FewerHolders ==
    ASSUME TypeOK, SharedAreDisturbed, shared' \subseteq shared, disturbed \subseteq disturbed',
           \A c \in Conn, u \in User : user'[c] = u => u \in Holders(c),
           \A c \in Conn, u \in User, s \in Server : userConnMap'[s][u] = c => u \in Holders(c)
    PROVE  SharedAreDisturbed'
<1> SUFFICES ASSUME NEW c \in shared', NEW u \in Holders(c)'
             PROVE  u \in disturbed'
  BY DEF SharedAreDisturbed
<1>1. c \in Conn /\ c \in shared /\ u \in User
  BY DEF TypeOK, Holders
<1>2. u \in Holders(c)
  BY <1>1 DEF Holders
<1> QED
  BY <1>1, <1>2 DEF SharedAreDisturbed

\* Every step keeps the users of the shared connections disturbed.
LEMMA SharedStep ==
    ASSUME TypeOK, Placed, SharedAreDisturbed, [Next]_vars
    PROVE  SharedAreDisturbed'
<1> USE ConstantsAssumption
<1>0. /\ disturbed \subseteq disturbed'
      /\ \A c \in Conn, u \in User : user[c] = u => u \in Holders(c)
      /\ \A c \in Conn, u \in User, s \in Server : userConnMap[s][u] = c => u \in Holders(c)
  BY DisturbedGrows DEF Holders
<1>a. ASSUME UNCHANGED <<userConnMap, user>>, shared' \subseteq shared
      PROVE  SharedAreDisturbed'
  BY <1>0, <1>a, FewerHolders
<1>1. ASSUME NEW c \in Conn, NEW u \in User, LoginQuery(c, u)
      PROVE  SharedAreDisturbed'
  <2>1. /\ UNCHANGED userConnMap
        /\ shared' = IF Holders(c) \ {u} # {} THEN shared \cup {c} ELSE shared \ {c}
        /\ \A d \in Conn : user'[d] = IF d = c THEN u ELSE user[d]
        /\ Holders(c) \ {u} # {} => Holders(c) \cup {u} \subseteq disturbed'
    BY <1>1 DEF LoginQuery, TypeOK, stateVars
  <2> SUFFICES ASSUME NEW d \in shared', NEW v \in Holders(d)'
               PROVE  v \in disturbed'
    BY DEF SharedAreDisturbed
  <2>2. d \in Conn /\ v \in User
    BY <2>1 DEF TypeOK, Holders
  <2>3. CASE d = c
    BY <2>1, <2>2, <2>3 DEF Holders
  <2>4. CASE d # c
    <3>1. d \in shared /\ v \in Holders(d)
      BY <2>1, <2>2, <2>4 DEF Holders
    <3> QED
      BY <1>0, <3>1 DEF SharedAreDisturbed
  <2> QED
    BY <2>3, <2>4
<1>2. ASSUME NEW c \in Conn, LoginInsert(c)
      PROVE  SharedAreDisturbed'
  <2>1. user[c] \in User /\ home[c] \in Server
    BY <1>2 DEF LoginInsert, At, Placed
  <2>2. /\ UNCHANGED <<user, shared>>
        /\ \A s \in Server, u \in User :
               \/ userConnMap'[s][u] = userConnMap[s][u]
               \/ u = user[c] /\ userConnMap'[s][u] = c
    BY <1>2, <2>1 DEF LoginInsert, TypeOK, historyVars
  <2> QED
    BY <1>0, <2>2, FewerHolders
<1>3. ASSUME NEW c \in Conn, LogoutErase(c)
      PROVE  SharedAreDisturbed'
  <2>1. /\ UNCHANGED <<user, shared>>
        /\ \A s \in Server, u \in User : userConnMap'[s][u] \in {userConnMap[s][u], NoConn}
    BY <1>3 DEF LogoutErase, At, Placed, TypeOK, historyVars
  <2> QED
    BY <1>0, <2>1, FewerHolders
<1>4. ASSUME NEW c \in Conn, CloseErase(c)
      PROVE  SharedAreDisturbed'
  <2>1. home[c] \in Server /\ UNCHANGED shared
    BY <1>4 DEF CloseErase, At, historyVars
  <2>2. CASE CloseFound(c)
    <3> PICK v \in User : /\ userConnMap[home[c]][v] = c
                          /\ userConnMap' = [userConnMap EXCEPT ![home[c]][v] = NoConn]
                          /\ user' = [user EXCEPT ![c] = v]
      BY <2>2 DEF CloseFound
    <3>1. \A s \in Server, u \in User : userConnMap'[s][u] \in {userConnMap[s][u], NoConn}
      BY <2>1 DEF TypeOK
    <3>2. \A d \in Conn : user'[d] = IF d = c THEN v ELSE user[d]
      BY DEF TypeOK
    <3>3. v \in Holders(c)
      BY <1>0, <2>1
    <3> QED
      BY <1>0, <2>1, <3>1, <3>2, <3>3, FewerHolders
  <2>3. CASE CloseNotFound(c)
    <3>1. \A d \in Conn : user'[d] = IF d = c THEN NoUser ELSE user[d]
      BY <2>3 DEF CloseNotFound, TypeOK
    <3> QED
      BY <1>0, <2>1, <2>3, <3>1, FewerHolders DEF CloseNotFound
  <2> QED
    BY <1>4, <2>2, <2>3 DEF CloseErase
<1>5. ASSUME NEW c \in Conn,
             LogoutUnsubscribe(c) \/ CloseUnsubscribe(c) \/ CloseSetOffline(c)
      PROVE  SharedAreDisturbed'
  <2>1. /\ UNCHANGED <<userConnMap, shared>>
        /\ \A d \in Conn : user'[d] \in {user[d], NoUser}
    BY <1>5 DEF LogoutUnsubscribe, CloseUnsubscribe, CloseGoesOn, CloseSetOffline, UpdateState,
                Release, TypeOK, stateVars
  <2> QED
    BY <1>0, <2>1, FewerHolders
<1>6. ASSUME NEW s \in Server, ProcessEnds(s)
      PROVE  SharedAreDisturbed'
  <2>1. /\ UNCHANGED shared
        /\ \A d \in Conn : user'[d] \in {user[d], NoUser}
        /\ \A t \in Server, u \in User : userConnMap'[t][u] \in {userConnMap[t][u], NoConn}
    BY <1>6 DEF ProcessEnds, TypeOK
  <2> QED
    BY <1>0, <2>1, FewerHolders
<1>7. ASSUME NEW s \in Server, ResetClear(s)
      PROVE  SharedAreDisturbed'
  <2>1. /\ UNCHANGED <<user, shared>>
        /\ \A t \in Server, u \in User : userConnMap'[t][u] \in {userConnMap[t][u], NoConn}
    BY <1>7 DEF ResetClear, TypeOK, connVars
  <2> QED
    BY <1>0, <2>1, FewerHolders
<1>8. ASSUME NEW c \in Conn,
             \/ \E s \in Server : Connect(c, s)
             \/ ClientCloses(c) \/ LogoutSetOffline(c)
             \/ LoginSubscribe(c) \/ LoginSetOnline(c) \/ LoginReply(c)
      PROVE  UNCHANGED <<userConnMap, user>> /\ shared' \subseteq shared
  BY <1>8 DEF Connect, ClientCloses, LogoutSetOffline, LoginSubscribe, LoginSetOnline,
              LoginReply, UpdateState, stateVars, historyVars
<1>9. ASSUME NEW s \in Server, RedisExecutes(s) \/ ObserverEnds(s) \/ ResetState(s)
      PROVE  UNCHANGED <<userConnMap, user>> /\ shared' \subseteq shared
  BY <1>9 DEF RedisExecutes, ObserverEnds, ResetState, stateVars, connVars, historyVars
<1>10. CASE UNCHANGED vars
  BY <1>10, <1>a DEF vars, stateVars, connVars, historyVars
<1> QED
  BY <1>a, <1>1, <1>2, <1>3, <1>4, <1>5, <1>6, <1>7, <1>8, <1>9, <1>10
     DEF Next, HandlerStep, Crash, ResetExit

\* A connection that is found in the map of its process is the one of an
\* undisturbed user exactly if the entry is this user's.
LEMMA FoundIsOwn ==
    ASSUME TypeOK, MapEntryOwned, SharedAreDisturbed,
           NEW u \in User, OwnEntries(u), u \notin disturbed,
           NEW c \in Conn, home[c] \in Server, NEW v \in User, userConnMap[home[c]][v] = c
    PROVE  user[c] = u <=> v = u
<1>1. c # NoConn
  BY ConstantsAssumption
<1>2. v = u => user[c] = u
  BY <1>1 DEF OwnEntries
<1>3. ASSUME user[c] = u PROVE v = u
  <2>1. u \in Holders(c)
    BY <1>3 DEF Holders
  <2>2. c \notin shared
    BY <2>1 DEF SharedAreDisturbed
  <2> QED
    BY <1>1, <1>3, <2>2 DEF MapEntryOwned
<1> QED
  BY <1>2, <1>3

\* A handler that goes on to its next call without touching the state column,
\* the maps or the session keeps the presence of every user.
LEMMA MoveKeepsPresence ==
    ASSUME TypeOK, NEW u \in User, Presence(u), NEW c \in Conn, NEW phase \in Phase,
           UNCHANGED <<userState, userConnMap, home, user>>, Goto(c, phase),
           pc[c] \in OnlinePhases <=> phase \in OnlinePhases,
           phase \in EntryPhases <=> pc[c] \in EntryPhases
    PROVE  Presence(u)'
<1>1. \A d \in Conn : pc'[d] = IF d = c THEN phase ELSE pc[d]
  BY DEF TypeOK, Goto
<1>2. OneSession(u)' /\ OfflineWithoutSession(u)'
  BY DEF Presence, OneSession, OfflineWithoutSession, HasSession
<1>3. OnlineByPhase(u)'
  BY <1>1 DEF Presence, OnlineByPhase
<1>4. EntryByPhase(u)'
  BY <1>1 DEF Presence, EntryByPhase
<1>5. OwnEntries(u)'
  BY <1>1 DEF Presence, OwnEntries, TypeOK
<1> QED
  BY <1>2, <1>3, <1>4, <1>5 DEF Presence

\* The end of a process keeps the presence of the users it had no session of.
LEMMA EndKeepsPresence ==
    ASSUME TypeOK, Placed, NEW u \in User, Presence(u), NEW s \in Server, ProcessEnds(s),
           u \notin disturbed'
    PROVE  Presence(u)'
<1>1. \A c \in Conn : user[c] = u => home[c] # s
  BY ConstantsAssumption DEF ProcessEnds, SessionUsers
<1>2. \A c \in Conn : user'[c] = u <=> user[c] = u
  BY <1>1, ConstantsAssumption DEF ProcessEnds
<1>3. \A c \in Conn : user[c] = u =>
          /\ home'[c] = home[c] /\ pc'[c] = pc[c]
          /\ userConnMap'[home[c]][u] = userConnMap[home[c]][u]
  BY <1>1, ConstantsAssumption DEF ProcessEnds, Placed, TypeOK
<1>4. userState' = userState
  BY DEF ProcessEnds
<1>5. OneSession(u)' /\ OfflineWithoutSession(u)'
  BY <1>2, <1>4 DEF Presence, OneSession, OfflineWithoutSession, HasSession
<1>6. OnlineByPhase(u)' /\ EntryByPhase(u)'
  BY <1>2, <1>3, <1>4 DEF Presence, OnlineByPhase, EntryByPhase
<1>7. OwnEntries(u)'
  <2>1. \A t \in Server : userConnMap'[t][u] \in {NoConn, userConnMap[t][u]}
    BY DEF ProcessEnds, TypeOK
  <2>2. \A t \in Server : userConnMap[t][u] \in Conn \cup {NoConn}
    BY DEF TypeOK
  <2> QED
    BY <1>2, <1>3, <2>1, <2>2 DEF Presence, OwnEntries
<1> QED
  BY <1>5, <1>6, <1>7 DEF Presence

\* A connection without a session of the user may be released.
LEMMA ReleaseKeepsPresence ==
    ASSUME TypeOK, NEW u \in User, Presence(u), NEW c \in Conn, Release(c),
           user[c] # u, UNCHANGED <<userState, userConnMap>>
    PROVE  Presence(u)'
<1>1. \A d \in Conn : /\ user'[d] = u <=> user[d] = u
                      /\ user[d] = u => pc'[d] = pc[d] /\ home'[d] = home[d]
  BY ConstantsAssumption DEF Release, Goto, TypeOK
<1>2. OneSession(u)' /\ OfflineWithoutSession(u)'
  BY <1>1 DEF Presence, OneSession, OfflineWithoutSession, HasSession
<1>3. OnlineByPhase(u)' /\ EntryByPhase(u)'
  BY <1>1 DEF Presence, OnlineByPhase, EntryByPhase
<1>4. OwnEntries(u)'
  BY <1>1 DEF Presence, OwnEntries, TypeOK
<1> QED
  BY <1>2, <1>3, <1>4 DEF Presence

\* Every step keeps the presence of a user who is not disturbed after it.
LEMMA PresenceStep ==
    ASSUME TypeOK, Placed, MapEntryOwned, SharedAreDisturbed, [Next]_vars,
           NEW u \in User, Presence(u), u \notin disturbed'
    PROVE  Presence(u)'
<1> USE ConstantsAssumption
<1>0. u \notin disturbed /\ \A s \in Server : userConnMap[s][u] \in Conn \cup {NoConn}
  BY DisturbedGrows DEF TypeOK
<1>a. ASSUME UNCHANGED <<userState, userConnMap, home, pc, user>>
      PROVE  Presence(u)'
  BY <1>a DEF Presence, OneSession, OfflineWithoutSession, OnlineByPhase, EntryByPhase,
              OwnEntries, HasSession
<1>1. ASSUME NEW c \in Conn, NEW s \in Server, Connect(c, s)
      PROVE  Presence(u)'
  <2>1. user[c] # u
    BY <1>1 DEF Connect, Placed
  <2>2. UNCHANGED <<userState, userConnMap, pc, user>> /\ \A d \in Conn \ {c} : home'[d] = home[d]
    BY <1>1 DEF Connect, TypeOK, stateVars
  <2>3. OneSession(u)' /\ OfflineWithoutSession(u)' /\ OnlineByPhase(u)'
    BY <2>2 DEF Presence, OneSession, OfflineWithoutSession, OnlineByPhase, HasSession
  <2>4. EntryByPhase(u)' /\ OwnEntries(u)'
    BY <1>0, <2>1, <2>2 DEF Presence, EntryByPhase, OwnEntries
  <2> QED
    BY <2>3, <2>4 DEF Presence
<1>2. ASSUME NEW c \in Conn, ClientCloses(c)
      PROVE  Presence(u)'
  BY <1>2, <1>a DEF ClientCloses, stateVars
<1>3. ASSUME NEW c \in Conn, NEW v \in User, LoginQuery(c, v)
      PROVE  Presence(u)'
  <2>1. \A d \in Conn : /\ user'[d] = IF d = c THEN v ELSE user[d]
                        /\ pc'[d] = IF d = c THEN "insert" ELSE pc[d]
    BY <1>3 DEF LoginQuery, Goto, TypeOK
  <2>2. UNCHANGED <<userState, userConnMap, home>> /\ u \notin Holders(c) \ {v}
    BY <1>3 DEF LoginQuery, stateVars
  <2>3. CASE u = v
    <3>1. ~HasSession(u) /\ userState[u] = "offline"
      BY <1>3, <2>3 DEF LoginQuery, IsOnline, TypeOK
    <3>2. OneSession(u)' /\ OfflineWithoutSession(u)'
      BY <2>1, <2>2, <2>3, <3>1 DEF HasSession, OneSession, OfflineWithoutSession
    <3>3. OnlineByPhase(u)' /\ EntryByPhase(u)'
      BY <2>1, <2>2, <3>1
         DEF HasSession, OnlineByPhase, OnlinePhases, EntryByPhase, EntryPhases
    <3>4. OwnEntries(u)'
      BY <1>0, <2>2, <3>1 DEF Presence, OwnEntries, HasSession
    <3> QED
      BY <3>2, <3>3, <3>4 DEF Presence
  <2>4. CASE u # v
    <3>1. user[c] # u /\ \A s \in Server : userConnMap[s][u] # c
      BY <2>2, <2>4 DEF Holders
    <3>2. OneSession(u)' /\ OfflineWithoutSession(u)'
      BY <2>1, <2>2, <2>4, <3>1 DEF Presence, HasSession, OneSession, OfflineWithoutSession
    <3>3. OnlineByPhase(u)' /\ EntryByPhase(u)' /\ OwnEntries(u)'
      BY <1>0, <2>1, <2>2, <2>4, <3>1 DEF Presence, OnlineByPhase, EntryByPhase, OwnEntries
    <3> QED
      BY <3>2, <3>3 DEF Presence
  <2> QED
    BY <2>3, <2>4
<1>4. ASSUME NEW c \in Conn, LogoutSetOffline(c)
      PROVE  Presence(u)'
  <2>1. \A d \in Conn : pc'[d] = IF d = c THEN "logoutErase" ELSE pc[d]
    BY <1>4 DEF LogoutSetOffline, UpdateState, Goto, TypeOK
  <2>2. pc[c] = "idle" /\ UNCHANGED <<userConnMap, home, user>>
    BY <1>4 DEF LogoutSetOffline, UpdateState, At
  <2>3. userState'[u] = IF user[c] = u THEN "offline" ELSE userState[u]
    BY <1>4 DEF LogoutSetOffline, UpdateState, TypeOK
  <2>4. OneSession(u)' /\ OfflineWithoutSession(u)'
    BY <2>2, <2>3 DEF Presence, HasSession, OneSession, OfflineWithoutSession
  <2>5. OnlineByPhase(u)'
    BY <2>1, <2>2, <2>3 DEF Presence, OneSession, OnlineByPhase, OnlinePhases
  <2>6. EntryByPhase(u)' /\ OwnEntries(u)'
    BY <1>0, <2>1, <2>2 DEF Presence, EntryByPhase, OwnEntries, EntryPhases
  <2> QED
    BY <2>4, <2>5, <2>6 DEF Presence
<1>5. ASSUME NEW c \in Conn, LoginInsert(c)
      PROVE  Presence(u)'
  <2>1. \A d \in Conn : pc'[d] = IF d = c THEN "subscribe" ELSE pc[d]
    BY <1>5 DEF LoginInsert, Goto, TypeOK
  <2>2. pc[c] = "insert" /\ home[c] \in Server /\ UNCHANGED <<userState, home, user>>
    BY <1>5 DEF LoginInsert, At
  <2>3. CASE user[c] = u
    <3>1. userConnMap[home[c]][u] = NoConn
      <4> SUFFICES ASSUME userConnMap[home[c]][u] # NoConn PROVE FALSE
        OBVIOUS
      <4>1. /\ userConnMap[home[c]][u] \in Conn
            /\ user[userConnMap[home[c]][u]] = u
            /\ pc[userConnMap[home[c]][u]] \in EntryPhases
        BY <1>0, <2>2 DEF Presence, OwnEntries
      <4>2. userConnMap[home[c]][u] = c
        BY <2>3, <4>1 DEF Presence, OneSession
      <4> QED
        BY <2>2, <4>1, <4>2 DEF EntryPhases
    <3>2. \A s \in Server : userConnMap'[s][u] = IF s = home[c] THEN c ELSE userConnMap[s][u]
      BY <1>5, <2>2, <2>3, <3>1 DEF LoginInsert, TypeOK
    <3>3. \A d \in Conn : user[d] = u => d = c
      BY <2>3 DEF Presence, OneSession
    <3>4. OneSession(u)' /\ OfflineWithoutSession(u)'
      BY <2>2 DEF Presence, HasSession, OneSession, OfflineWithoutSession
    <3>5. OnlineByPhase(u)' /\ EntryByPhase(u)'
      BY <2>1, <2>2, <3>2, <3>3 DEF Presence, OnlineByPhase, OnlinePhases, EntryByPhase
    <3>6. OwnEntries(u)'
      BY <1>0, <2>1, <2>2, <2>3, <3>2 DEF Presence, OwnEntries, EntryPhases
    <3> QED
      BY <3>4, <3>5, <3>6 DEF Presence
  <2>4. CASE user[c] # u
    <3>1. \A s \in Server : userConnMap'[s][u] = userConnMap[s][u]
      BY <1>5, <2>2, <2>4 DEF LoginInsert, TypeOK
    <3>2. \A d \in Conn : user[d] = u => home[d] \in Server
      BY DEF Placed
    <3>3. OneSession(u)' /\ OfflineWithoutSession(u)'
      BY <2>2 DEF Presence, HasSession, OneSession, OfflineWithoutSession
    <3>4. OnlineByPhase(u)' /\ EntryByPhase(u)'
      BY <2>1, <2>2, <2>4, <3>1, <3>2 DEF Presence, OnlineByPhase, EntryByPhase
    <3>5. OwnEntries(u)'
      BY <1>0, <2>1, <2>2, <2>4, <3>1 DEF Presence, OwnEntries
    <3> QED
      BY <3>3, <3>4, <3>5 DEF Presence
  <2> QED
    BY <2>3, <2>4
<1>6. ASSUME NEW c \in Conn, LoginSubscribe(c)
      PROVE  Presence(u)'
  BY <1>6, MoveKeepsPresence
     DEF LoginSubscribe, At, stateVars, Phase, OnlinePhases, EntryPhases
<1>7. ASSUME NEW c \in Conn, LoginSetOnline(c)
      PROVE  Presence(u)'
  <2>1. \A d \in Conn : pc'[d] = IF d = c THEN "deliver" ELSE pc[d]
    BY <1>7 DEF LoginSetOnline, UpdateState, Goto, TypeOK
  <2>2. pc[c] = "setOnline" /\ UNCHANGED <<userConnMap, home, user>>
    BY <1>7 DEF LoginSetOnline, UpdateState, At
  <2>3. userState'[u] = IF user[c] = u THEN "online" ELSE userState[u]
    BY <1>7 DEF LoginSetOnline, UpdateState, TypeOK
  <2>4. OneSession(u)' /\ OfflineWithoutSession(u)'
    BY <2>2, <2>3 DEF Presence, HasSession, OneSession, OfflineWithoutSession
  <2>5. OnlineByPhase(u)'
    BY <2>1, <2>2, <2>3 DEF Presence, OneSession, OnlineByPhase, OnlinePhases
  <2>6. EntryByPhase(u)' /\ OwnEntries(u)'
    BY <1>0, <2>1, <2>2 DEF Presence, EntryByPhase, OwnEntries, EntryPhases
  <2> QED
    BY <2>4, <2>5, <2>6 DEF Presence
<1>8. ASSUME NEW c \in Conn, LoginReply(c)
      PROVE  Presence(u)'
  BY <1>8, MoveKeepsPresence
     DEF LoginReply, At, stateVars, Phase, OnlinePhases, EntryPhases
<1>9. ASSUME NEW c \in Conn, LogoutErase(c)
      PROVE  Presence(u)'
  <2>1. \A d \in Conn : pc'[d] = IF d = c THEN "logoutUnsubscribe" ELSE pc[d]
    BY <1>9 DEF LogoutErase, Goto, TypeOK
  <2>2. pc[c] = "logoutErase" /\ home[c] \in Server /\ UNCHANGED <<userState, home, user>>
    BY <1>9 DEF LogoutErase, At
  <2>3. user[c] # u => \A s \in Server : userConnMap'[s][u] = userConnMap[s][u]
    BY <1>9, <2>2 DEF LogoutErase, TypeOK
  <2>4. OneSession(u)' /\ OfflineWithoutSession(u)'
    BY <2>2 DEF Presence, HasSession, OneSession, OfflineWithoutSession
  <2>5. OnlineByPhase(u)'
    BY <2>1, <2>2 DEF Presence, OnlineByPhase, OnlinePhases
  <2>6. EntryByPhase(u)'
    <3> SUFFICES ASSUME NEW d \in Conn, user[d] = u, pc'[d] \in EntryPhases
                 PROVE  userConnMap'[home[d]][u] = d
      BY <2>2 DEF EntryByPhase
    <3>1. d # c /\ pc[d] \in EntryPhases /\ home[d] \in Server
      BY <2>1 DEF EntryPhases, Placed
    <3>2. user[c] # u
      BY <3>1 DEF Presence, OneSession
    <3> QED
      BY <2>3, <3>1, <3>2 DEF Presence, EntryByPhase
  <2>7. OwnEntries(u)'
    <3>1. \A s \in Server : user[c] = u /\ userConnMap[s][u] = c => userConnMap'[s][u] = NoConn
      BY <1>9, <2>2 DEF LogoutErase, TypeOK, Presence, OwnEntries
    <3>2. \A s \in Server : userConnMap'[s][u] \in {NoConn, userConnMap[s][u]}
      BY <1>9, <2>2 DEF LogoutErase, TypeOK
    <3>3. \A s \in Server : user[c] # u => userConnMap[s][u] # c
      BY DEF Presence, OwnEntries
    <3>4. \A s \in Server : userConnMap'[s][u] # c
      BY <3>1, <3>2, <3>3
    <3> QED
      BY <1>0, <2>1, <2>2, <3>2, <3>4 DEF Presence, OwnEntries
  <2> QED
    BY <2>4, <2>5, <2>6, <2>7 DEF Presence
<1>10. ASSUME NEW c \in Conn, LogoutUnsubscribe(c)
       PROVE  Presence(u)'
  <2>1. \A d \in Conn : /\ pc'[d] = IF d = c THEN "idle" ELSE pc[d]
                        /\ user'[d] = IF d = c THEN NoUser ELSE user[d]
    BY <1>10 DEF LogoutUnsubscribe, Goto, TypeOK
  <2>2. pc[c] = "logoutUnsubscribe" /\ UNCHANGED <<userState, userConnMap, home>>
    BY <1>10 DEF LogoutUnsubscribe, At, stateVars
  <2>3. user[c] = u => userState[u] = "offline"
    BY <2>2 DEF Presence, OnlineByPhase, OnlinePhases, TypeOK
  <2>4. OneSession(u)'
    BY <2>1 DEF Presence, OneSession
  <2>5. OfflineWithoutSession(u)'
    BY <2>1, <2>2, <2>3 DEF Presence, OfflineWithoutSession, HasSession
  <2>6. OnlineByPhase(u)' /\ EntryByPhase(u)'
    BY <2>1, <2>2 DEF Presence, OnlineByPhase, EntryByPhase
  <2>7. OwnEntries(u)'
    BY <1>0, <2>1, <2>2 DEF Presence, OwnEntries, EntryPhases
  <2> QED
    BY <2>4, <2>5, <2>6, <2>7 DEF Presence
<1>11. ASSUME NEW c \in Conn, CloseErase(c)
       PROVE  Presence(u)'
  <2>1. pc[c] = "idle" /\ home[c] \in Server /\ UNCHANGED <<userState, home>>
    BY <1>11 DEF CloseErase, At
  <2>2. \A d \in Conn : pc'[d] = IF d = c THEN "closeUnsubscribe" ELSE pc[d]
    BY <1>11 DEF CloseErase, Goto, TypeOK
  <2>3. ASSUME NEW v \in User, userConnMap[home[c]][v] = c,
               userConnMap' = [userConnMap EXCEPT ![home[c]][v] = NoConn],
               user' = [user EXCEPT ![c] = v]
        PROVE  Presence(u)'
    <3>1. user[c] = u <=> v = u
      BY <1>0, <2>1, <2>3, FoundIsOwn DEF Presence
    <3>2. \A d \in Conn : user'[d] = u <=> user[d] = u
      BY <2>3, <3>1 DEF TypeOK
    <3>3. \A s \in Server : userConnMap'[s][u] =
              IF s = home[c] /\ v = u THEN NoConn ELSE userConnMap[s][u]
      BY <2>1, <2>3 DEF TypeOK
    <3>4. OneSession(u)' /\ OfflineWithoutSession(u)'
      BY <2>1, <3>2 DEF Presence, HasSession, OneSession, OfflineWithoutSession
    <3>5. OnlineByPhase(u)'
      BY <2>1, <2>2, <3>2 DEF Presence, OnlineByPhase, OnlinePhases
    <3>6. EntryByPhase(u)'
      <4> SUFFICES ASSUME NEW d \in Conn, user[d] = u, pc'[d] \in EntryPhases
                   PROVE  userConnMap'[home[d]][u] = d
        BY <2>1, <3>2 DEF EntryByPhase
      <4>1. d # c /\ pc[d] \in EntryPhases /\ home[d] \in Server
        BY <2>2 DEF EntryPhases, Placed
      <4>2. v # u
        BY <3>1, <4>1 DEF Presence, OneSession
      <4> QED
        BY <3>3, <4>1, <4>2 DEF Presence, EntryByPhase
    <3>7. OwnEntries(u)'
      <4>1. \A s \in Server : userConnMap[s][u] = c => s = home[c] /\ user[c] = u
        BY DEF Presence, OwnEntries
      <4>2. \A s \in Server : userConnMap'[s][u] # c
        BY <3>1, <3>3, <4>1
      <4>3. \A s \in Server : userConnMap'[s][u] \in {NoConn, userConnMap[s][u]}
        BY <3>3
      <4> QED
        BY <1>0, <2>1, <2>2, <3>2, <4>2, <4>3 DEF Presence, OwnEntries
    <3> QED
      BY <3>4, <3>5, <3>6, <3>7 DEF Presence
  <2>4. ASSUME \A v \in User : userConnMap[home[c]][v] # c,
               user' = [user EXCEPT ![c] = NoUser], UNCHANGED userConnMap
        PROVE  Presence(u)'
    <3>1. user[c] # u
      BY <2>1, <2>4 DEF Presence, EntryByPhase, EntryPhases
    <3>2. \A d \in Conn : user'[d] = u <=> user[d] = u
      BY <2>4, <3>1 DEF TypeOK
    <3>3. OneSession(u)' /\ OfflineWithoutSession(u)'
      BY <2>1, <3>2 DEF Presence, HasSession, OneSession, OfflineWithoutSession
    <3>4. OnlineByPhase(u)' /\ EntryByPhase(u)'
      BY <2>1, <2>2, <2>4, <3>1, <3>2 DEF Presence, OnlineByPhase, EntryByPhase
    <3>5. OwnEntries(u)'
      BY <1>0, <2>1, <2>2, <2>4, <3>1, <3>2 DEF Presence, OwnEntries
    <3> QED
      BY <3>3, <3>4, <3>5 DEF Presence
  <2> QED
    BY <1>11, <2>3, <2>4 DEF CloseErase, CloseFound, CloseNotFound
<1>12. ASSUME NEW c \in Conn, CloseUnsubscribe(c)
       PROVE  Presence(u)'
  <2>1. pc[c] = "closeUnsubscribe" /\ UNCHANGED stateVars
    BY <1>12 DEF CloseUnsubscribe, At
  <2>2. CASE Goto(c, "closeSetOffline") /\ UNCHANGED <<home, user>>
    BY <2>1, <2>2, MoveKeepsPresence DEF stateVars, Phase, OnlinePhases, EntryPhases
  <2>3. CASE user[c] = NoUser /\ Release(c)
    BY <2>1, <2>3, ReleaseKeepsPresence DEF stateVars
  <2> QED
    BY <1>12, <2>2, <2>3 DEF CloseUnsubscribe, CloseGoesOn
<1>13. ASSUME NEW c \in Conn, CloseSetOffline(c)
       PROVE  Presence(u)'
  <2>1. \A d \in Conn : /\ pc'[d] = IF d = c THEN "idle" ELSE pc[d]
                        /\ user'[d] = IF d = c THEN NoUser ELSE user[d]
                        /\ home'[d] = IF d = c THEN NoServer ELSE home[d]
    BY <1>13 DEF CloseSetOffline, UpdateState, Release, Goto, TypeOK
  <2>2. userState'[u] = IF user[c] = u THEN "offline" ELSE userState[u]
    BY <1>13 DEF CloseSetOffline, UpdateState, TypeOK
  <2>3. userConnMap' = userConnMap
    BY <1>13 DEF CloseSetOffline, UpdateState
  <2>4. OneSession(u)'
    BY <2>1 DEF Presence, OneSession
  <2>5. OfflineWithoutSession(u)'
    BY <2>1, <2>2 DEF Presence, OfflineWithoutSession, HasSession
  <2>6. OnlineByPhase(u)' /\ EntryByPhase(u)'
    BY <2>1, <2>2, <2>3 DEF Presence, OneSession, OnlineByPhase, EntryByPhase
  <2>7. \A s \in Server : userConnMap[s][u] # c
    BY <1>13 DEF CloseSetOffline, At, Presence, OwnEntries, EntryPhases
  <2>8. OwnEntries(u)'
    BY <1>0, <2>1, <2>3, <2>7, <1>13
       DEF CloseSetOffline, Release, Goto, TypeOK, Presence, OwnEntries
  <2> QED
    BY <2>4, <2>5, <2>6, <2>8 DEF Presence
<1>14. ASSUME NEW s \in Server, RedisExecutes(s)
       PROVE  Presence(u)'
  BY <1>14, <1>a DEF RedisExecutes, stateVars, connVars
<1>15. ASSUME NEW s \in Server, Crash(s)
       PROVE  Presence(u)'
  BY <1>15, EndKeepsPresence DEF Crash
<1>16. ASSUME NEW s \in Server, ResetState(s)
       PROVE  Presence(u)'
  <2>1. \A c \in Conn : user'[c] # u
    BY <1>16 DEF ResetState, SessionUsers, connVars
  <2>2. userState'[u] = "offline"
    BY <1>16 DEF ResetState, SessionUsers, Presence, OfflineWithoutSession, HasSession
  <2>3. UNCHANGED <<userConnMap, home, pc, user>>
    BY <1>16 DEF ResetState, connVars
  <2> QED
    BY <1>0, <2>1, <2>2, <2>3
       DEF Presence, OneSession, OfflineWithoutSession, OnlineByPhase, EntryByPhase,
           OwnEntries, HasSession
<1>17. ASSUME NEW s \in Server, ResetClear(s)
       PROVE  Presence(u)'
  <2>1. UNCHANGED <<userState, home, pc, user>>
    BY <1>17 DEF ResetClear, connVars
  <2>2. \A c \in Conn : user[c] = u => home[c] # s
    BY <1>17 DEF ResetClear, SessionUsers
  <2>3. \A c \in Conn : user[c] = u => userConnMap'[home[c]][u] = userConnMap[home[c]][u]
    BY <1>17, <2>2 DEF ResetClear, Placed, TypeOK
  <2>4. OneSession(u)' /\ OfflineWithoutSession(u)'
    BY <2>1 DEF Presence, OneSession, OfflineWithoutSession, HasSession
  <2>5. OnlineByPhase(u)' /\ EntryByPhase(u)'
    BY <2>1, <2>3 DEF Presence, OnlineByPhase, EntryByPhase
  <2>6. \A t \in Server : userConnMap'[t][u] \in {NoConn, userConnMap[t][u]}
    BY <1>17 DEF ResetClear, TypeOK
  <2>7. OwnEntries(u)'
    BY <1>0, <2>1, <2>6 DEF Presence, OwnEntries
  <2> QED
    BY <2>4, <2>5, <2>7 DEF Presence
<1>18. ASSUME NEW s \in Server, ResetExit(s)
       PROVE  Presence(u)'
  BY <1>18, EndKeepsPresence DEF ResetExit
<1>19. CASE UNCHANGED vars
  BY <1>19, <1>a DEF vars, stateVars, connVars
<1>20. ASSUME NEW s \in Server, ObserverEnds(s)
       PROVE  Presence(u)'
  BY <1>20, <1>a DEF ObserverEnds, stateVars, connVars
<1> QED
  BY <1>1, <1>2, <1>3, <1>4, <1>5, <1>6, <1>7, <1>8, <1>9, <1>10, <1>11, <1>12,
     <1>13, <1>14, <1>15, <1>16, <1>17, <1>18, <1>19, <1>20 DEF Next, HandlerStep

\* The presence of every phase gives the agreement of the phases at rest.
LEMMA PresenceImpliesAgreement == IInv => PresenceAgrees
<1> SUFFICES ASSUME IInv, NEW u \in User \ disturbed
             PROVE  /\ \A c \in Conn : user[c] = u /\ pc[c] = "idle" =>
                           /\ userState[u] = "online"
                           /\ \A s \in Server : userConnMap[s][u] =
                                  IF s = home[c] THEN c ELSE NoConn
                    /\ ~HasSession(u) =>
                           /\ userState[u] = "offline"
                           /\ \A s \in Server : userConnMap[s][u] = NoConn
  BY DEF PresenceAgrees
<1>1. Presence(u)
  BY DEF IInv
<1>2. \A s \in Server : userConnMap[s][u] # NoConn =>
          /\ userConnMap[s][u] \in Conn
          /\ user[userConnMap[s][u]] = u /\ home[userConnMap[s][u]] = s
  BY <1>1 DEF IInv, TypeOK, Presence, OwnEntries
<1>3. ASSUME NEW c \in Conn, user[c] = u, pc[c] = "idle"
      PROVE  /\ userState[u] = "online"
             /\ \A s \in Server : userConnMap[s][u] = IF s = home[c] THEN c ELSE NoConn
  <2>1. userState[u] = "online"
    BY <1>1, <1>3 DEF Presence, OnlineByPhase, OnlinePhases
  <2>2. userConnMap[home[c]][u] = c
    BY <1>1, <1>3 DEF Presence, EntryByPhase, EntryPhases
  <2>3. \A s \in Server : userConnMap[s][u] # NoConn => s = home[c]
    BY <1>1, <1>2, <1>3 DEF Presence, OneSession
  <2> QED
    BY <2>1, <2>2, <2>3
<1>4. ASSUME ~HasSession(u)
      PROVE  /\ userState[u] = "offline"
             /\ \A s \in Server : userConnMap[s][u] = NoConn
  BY <1>1, <1>2, <1>4 DEF Presence, OfflineWithoutSession, HasSession
<1> QED
  BY <1>3, <1>4

\* The inductive invariant holds at the start, and every step keeps it.
LEMMA InitInv == Init => IInv
<1>1. Init => TypeOK /\ Placed /\ MapEntryOwned /\ SharedAreDisturbed
  BY ConstantsAssumption DEF Init, TypeOK, Placed, MapEntryOwned, SharedAreDisturbed, Phase
<1>2. Init => \A u \in User : Presence(u)
  BY ConstantsAssumption
     DEF Init, Presence, OneSession, OfflineWithoutSession, OnlineByPhase, EntryByPhase,
         OwnEntries, HasSession
<1> QED
  BY <1>1, <1>2 DEF IInv

LEMMA StepInv == IInv /\ [Next]_vars => IInv'
<1> SUFFICES ASSUME IInv, [Next]_vars PROVE IInv'
  OBVIOUS
<1>1. TypeOK' /\ Placed' /\ MapEntryOwned' /\ SharedAreDisturbed'
  BY TypeStep, EntryStep, SharedStep DEF IInv
<1>2. ASSUME NEW u \in User, u \notin disturbed' PROVE Presence(u)'
  <2>1. Presence(u)
    BY <1>2, DisturbedGrows DEF IInv
  <2> QED
    BY <1>2, <2>1, PresenceStep DEF IInv
<1> QED
  BY <1>1, <1>2 DEF IInv

\* A user whose sessions never overlapped, never shared a connection and never
\* lost a process or an UPDATE is shown online and is in exactly the map of the serving process while the session
\* is established, and is offline and in no map without a session, in any
\* cluster and however the handlers of the connections interleave.
THEOREM PresenceHolds == Spec => []PresenceAgrees
BY InitInv, StepInv, PresenceImpliesAgreement, PTL DEF Spec

-----------------------------------------------------------------------------
(* Spec => IsWhereabouts: module Sessions implements module Whereabouts.   *)
(* IInv ties what is seen of a user to the phase of the one session the    *)
(* user has; each call of a handler then is a move of the abstract         *)
(* specification or no change.                                             *)


\* A user with a session is at the process that serves it, in the phases that
\* have an entry, and a user without a session in such a phase is nowhere.
LEMMA WhereByPhase ==
    ASSUME TypeOK, NEW u \in User, Presence(u)
    PROVE  /\ \A c \in Conn : user[c] = u /\ pc[c] \in EntryPhases /\ home[c] \in Server
                                  => Where(u) = {home[c]}
           /\ (\A c \in Conn : user[c] = u => pc[c] \notin EntryPhases) => Where(u) = {}
<1>1. \A s \in Server : userConnMap[s][u] # NoConn =>
          /\ userConnMap[s][u] \in Conn
          /\ user[userConnMap[s][u]] = u /\ home[userConnMap[s][u]] = s
          /\ pc[userConnMap[s][u]] \in EntryPhases
  BY DEF TypeOK, Presence, OwnEntries
<1>2. ASSUME NEW c \in Conn, user[c] = u, pc[c] \in EntryPhases, home[c] \in Server
      PROVE  Where(u) = {home[c]}
  <2>1. userConnMap[home[c]][u] = c /\ c # NoConn
    BY <1>2, ConstantsAssumption DEF Presence, EntryByPhase
  <2>2. \A s \in Server : userConnMap[s][u] # NoConn => s = home[c]
    BY <1>1, <1>2 DEF Presence, OneSession
  <2> QED
    BY <1>2, <2>1, <2>2 DEF Where
<1>3. ASSUME \A c \in Conn : user[c] = u => pc[c] \notin EntryPhases
      PROVE  Where(u) = {}
  BY <1>1, <1>3 DEF Where
<1> QED
  BY <1>2, <1>3

\* The step is not seen of u.
SameSeen(u) == userState'[u] = userState[u] /\ Where(u)' = Where(u)

\* A user without a session at a process whose entries are cleared is seen
\* where it was.
LEMMA ClearElsewhere ==
    ASSUME TypeOK, NEW s \in Server, NEW u \in User, OwnEntries(u),
           userConnMap' = [userConnMap EXCEPT ![s] = [v \in User |-> NoConn]],
           \A c \in Conn : user[c] = u => home[c] # s
    PROVE  Where(u)' = Where(u)
<1>1. userConnMap[s][u] = NoConn
  BY DEF TypeOK, OwnEntries
<1>2. \A t \in Server : userConnMap'[t][u] = userConnMap[t][u]
  BY <1>1 DEF TypeOK
<1> QED
  BY <1>2 DEF Where

\* What one step may change of what is seen of a user who is not disturbed
\* after it: exactly one of the moves, made by one call of one handler.
Change(u) ==
    \/ SameSeen(u)
    \/ \E p \in Server :
        \/ /\ userState[u] = "offline" /\ userState'[u] = "offline"
           /\ Where(u) = {} /\ Where(u)' = {p}
        \/ /\ userState[u] = "offline" /\ userState'[u] = "online"
           /\ Where(u) = {p} /\ Where(u)' = {p}
        \/ /\ userState[u] = "online" /\ userState'[u] = "offline"
           /\ Where(u) = {p} /\ Where(u)' = {p}
        \/ /\ userState[u] = "offline" /\ userState'[u] = "offline"
           /\ Where(u) = {p} /\ Where(u)' = {}
        \/ /\ userState[u] = "online" /\ userState'[u] = "online"
           /\ Where(u) = {p} /\ Where(u)' = {}
        \/ /\ userState[u] = "online" /\ userState'[u] = "offline"
           /\ Where(u) = {} /\ Where(u)' = {}

LEMMA SeenStep ==
    ASSUME IInv, [Next]_vars, NEW u \in User, u \notin disturbed, u \notin disturbed'
    PROVE  Change(u)
<1> USE ConstantsAssumption
<1>0. /\ TypeOK /\ Placed /\ MapEntryOwned /\ SharedAreDisturbed
      /\ Presence(u) /\ OwnEntries(u)
  BY DEF IInv, Presence
<1>a. ASSUME UNCHANGED stateVars PROVE Change(u)
  BY <1>a DEF Change, SameSeen, Where, stateVars
<1>1. ASSUME NEW c \in Conn, LoginInsert(c)
      PROVE  Change(u)
  <2>1. pc[c] = "insert" /\ home[c] \in Server /\ userState' = userState
    BY <1>1 DEF LoginInsert, At
  <2>2. CASE user[c] = u
    <3>1. userState[u] = "offline"
      BY <1>0, <2>1, <2>2 DEF Presence, OnlineByPhase, OnlinePhases, TypeOK
    <3>2. Where(u) = {}
      BY <1>0, <2>1, <2>2, WhereByPhase DEF Presence, OneSession, EntryPhases
    <3>3. userConnMap[home[c]][u] = NoConn
      BY <2>1, <3>2 DEF Where
    <3>4. \A s \in Server : userConnMap'[s][u] = IF s = home[c] THEN c ELSE userConnMap[s][u]
      BY <1>0, <1>1, <2>1, <2>2, <3>3 DEF LoginInsert, TypeOK
    <3>5. Where(u)' = {home[c]}
      BY <2>1, <3>2, <3>4 DEF Where
    <3> QED
      BY <2>1, <3>1, <3>2, <3>5 DEF Change
  <2>3. CASE user[c] # u
    <3>1. \A s \in Server : userConnMap'[s][u] = userConnMap[s][u]
      BY <1>0, <1>1, <2>1, <2>3 DEF LoginInsert, TypeOK
    <3> QED
      BY <2>1, <3>1 DEF Change, SameSeen, Where
  <2> QED
    BY <2>2, <2>3
<1>2. ASSUME NEW c \in Conn, LoginSetOnline(c)
      PROVE  Change(u)
  <2>1. pc[c] = "setOnline" /\ home[c] \in Server /\ Where(u)' = Where(u)
    BY <1>2 DEF LoginSetOnline, At, Where
  <2>2. CASE user[c] = u
    <3>1. userState[u] = "offline" /\ userState'[u] = "online"
      BY <1>0, <1>2, <2>1, <2>2
         DEF LoginSetOnline, UpdateState, Presence, OnlineByPhase, OnlinePhases, TypeOK
    <3>2. Where(u) = {home[c]}
      BY <1>0, <2>1, <2>2, WhereByPhase DEF EntryPhases
    <3> QED
      BY <2>1, <3>1, <3>2 DEF Change
  <2>3. CASE user[c] # u
    BY <1>0, <1>2, <2>1, <2>3 DEF LoginSetOnline, UpdateState, TypeOK, Change, SameSeen
  <2> QED
    BY <2>2, <2>3
<1>3. ASSUME NEW c \in Conn, LogoutSetOffline(c)
      PROVE  Change(u)
  <2>1. pc[c] = "idle" /\ home[c] \in Server /\ Where(u)' = Where(u)
    BY <1>3 DEF LogoutSetOffline, At, Where
  <2>2. CASE user[c] = u
    <3>1. userState[u] = "online" /\ userState'[u] = "offline"
      BY <1>0, <1>3, <2>1, <2>2
         DEF LogoutSetOffline, UpdateState, Presence, OnlineByPhase, OnlinePhases, TypeOK
    <3>2. Where(u) = {home[c]}
      BY <1>0, <2>1, <2>2, WhereByPhase DEF EntryPhases
    <3> QED
      BY <2>1, <3>1, <3>2 DEF Change
  <2>3. CASE user[c] # u
    BY <1>0, <1>3, <2>1, <2>3 DEF LogoutSetOffline, UpdateState, TypeOK, Change, SameSeen
  <2> QED
    BY <2>2, <2>3
<1>4. ASSUME NEW c \in Conn, LogoutErase(c)
      PROVE  Change(u)
  <2>1. pc[c] = "logoutErase" /\ home[c] \in Server /\ userState' = userState
    BY <1>4 DEF LogoutErase, At
  <2>2. \A s \in Server : userConnMap'[s][u] =
            IF s = home[c] /\ user[c] = u THEN NoConn ELSE userConnMap[s][u]
    BY <1>0, <1>4, <2>1 DEF LogoutErase, TypeOK
  <2>3. CASE user[c] = u
    <3>1. userState[u] = "offline"
      BY <1>0, <2>1, <2>3 DEF Presence, OnlineByPhase, OnlinePhases, TypeOK
    <3>2. Where(u) = {home[c]}
      BY <1>0, <2>1, <2>3, WhereByPhase DEF EntryPhases
    <3>3. Where(u)' = {}
      BY <2>2, <2>3, <3>2 DEF Where
    <3> QED
      BY <2>1, <3>1, <3>2, <3>3 DEF Change
  <2>4. CASE user[c] # u
    BY <2>1, <2>2, <2>4 DEF Change, SameSeen, Where
  <2> QED
    BY <2>3, <2>4
<1>5. ASSUME NEW c \in Conn, CloseErase(c)
      PROVE  Change(u)
  <2>1. pc[c] = "idle" /\ home[c] \in Server /\ userState' = userState
    BY <1>5 DEF CloseErase, At
  <2>2. ASSUME NEW v \in User, userConnMap[home[c]][v] = c,
               userConnMap' = [userConnMap EXCEPT ![home[c]][v] = NoConn]
        PROVE  Change(u)
    <3>1. user[c] = u <=> v = u
      BY <1>0, <2>1, <2>2, FoundIsOwn
    <3>2. \A s \in Server : userConnMap'[s][u] =
              IF s = home[c] /\ v = u THEN NoConn ELSE userConnMap[s][u]
      BY <1>0, <2>1, <2>2 DEF TypeOK
    <3>3. CASE v = u
      <4>1. userState[u] = "online"
        BY <1>0, <2>1, <3>1, <3>3 DEF Presence, OnlineByPhase, OnlinePhases
      <4>2. Where(u) = {home[c]}
        BY <1>0, <2>1, <3>1, <3>3, WhereByPhase DEF EntryPhases
      <4>3. Where(u)' = {}
        BY <3>2, <3>3, <4>2 DEF Where
      <4> QED
        BY <2>1, <4>1, <4>2, <4>3 DEF Change
    <3>4. CASE v # u
      BY <2>1, <3>2, <3>4 DEF Change, SameSeen, Where
    <3> QED
      BY <3>3, <3>4
  <2>3. CASE UNCHANGED userConnMap
    BY <2>1, <2>3 DEF Change, SameSeen, Where
  <2> QED
    BY <1>5, <2>2, <2>3 DEF CloseErase, CloseFound, CloseNotFound
<1>6. ASSUME NEW c \in Conn, CloseSetOffline(c)
      PROVE  Change(u)
  <2>1. pc[c] = "closeSetOffline" /\ home[c] \in Server /\ Where(u)' = Where(u)
    BY <1>6 DEF CloseSetOffline, At, Where
  <2>2. CASE user[c] = u
    <3>1. userState[u] = "online" /\ userState'[u] = "offline"
      BY <1>0, <1>6, <2>1, <2>2
         DEF CloseSetOffline, UpdateState, Presence, OnlineByPhase, OnlinePhases, TypeOK
    <3>2. Where(u) = {}
      BY <1>0, <2>1, <2>2, WhereByPhase DEF Presence, OneSession, EntryPhases
    <3> QED
      BY <2>1, <3>1, <3>2 DEF Change
  <2>3. CASE user[c] # u
    BY <1>0, <1>6, <2>1, <2>3 DEF CloseSetOffline, UpdateState, TypeOK, Change, SameSeen
  <2> QED
    BY <2>2, <2>3
<1>7. ASSUME NEW s \in Server, ProcessEnds(s)
      PROVE  Change(u)
  <2>1. \A c \in Conn : user[c] = u => home[c] # s
    BY <1>7 DEF ProcessEnds, SessionUsers
  <2>2. Where(u)' = Where(u)
    BY <1>0, <1>7, <2>1, ClearElsewhere DEF ProcessEnds
  <2> QED
    BY <1>7, <2>2 DEF ProcessEnds, Change, SameSeen
<1>8. ASSUME NEW s \in Server, ResetState(s)
      PROVE  Change(u)
  <2>1. \A c \in Conn : user[c] # u
    BY <1>8 DEF ResetState, SessionUsers
  <2>2. userState[u] = "offline"
    BY <1>0, <2>1 DEF Presence, OfflineWithoutSession, HasSession
  <2>3. userState'[u] = "offline"
    BY <1>8, <2>2 DEF ResetState
  <2>4. Where(u)' = Where(u)
    BY <1>8 DEF ResetState, Where
  <2> QED
    BY <2>2, <2>3, <2>4 DEF Change, SameSeen
<1>9. ASSUME NEW s \in Server, ResetClear(s)
      PROVE  Change(u)
  <2>1. \A c \in Conn : user[c] = u => home[c] # s
    BY <1>9 DEF ResetClear, SessionUsers
  <2>2. Where(u)' = Where(u)
    BY <1>0, <1>9, <2>1, ClearElsewhere DEF ResetClear
  <2> QED
    BY <1>9, <2>2 DEF ResetClear, Change, SameSeen
<1>10. ASSUME NEW c \in Conn,
              \/ \E s \in Server : Connect(c, s)
              \/ ClientCloses(c)
              \/ \E v \in User : LoginQuery(c, v)
              \/ LoginSubscribe(c) \/ LoginReply(c) \/ LogoutUnsubscribe(c)
              \/ CloseUnsubscribe(c)
       PROVE  UNCHANGED stateVars
  BY <1>10 DEF Connect, ClientCloses, LoginQuery, LoginSubscribe, LoginReply,
               LogoutUnsubscribe, CloseUnsubscribe, stateVars
<1>11. ASSUME NEW s \in Server, RedisExecutes(s) \/ ObserverEnds(s)
       PROVE  UNCHANGED stateVars
  BY <1>11 DEF RedisExecutes, ObserverEnds, stateVars
<1>12. CASE UNCHANGED vars
  BY <1>12, <1>a DEF vars
<1> QED
  BY <1>a, <1>1, <1>2, <1>3, <1>4, <1>5, <1>6, <1>7, <1>8, <1>9, <1>10, <1>11, <1>12
     DEF Next, HandlerStep, Crash, ResetExit

\* A change of what is seen is a move of the abstract specification.
LEMMA SeenMoves ==
    ASSUME IInv, [Next]_vars, NEW u \in User
    PROVE  W!Moves(SeenOf(u), SeenOf(u)')
<1>1. CASE u \in disturbed'
  BY <1>1 DEF SeenOf, W!Moves, W!Void, W!Seen
<1>2. CASE u \notin disturbed'
  <2>1. u \notin disturbed
    BY <1>2, DisturbedGrows
  <2>2. Change(u)
    BY <1>2, <2>1, SeenStep
  <2>3. /\ SeenOf(u) = [state |-> userState[u], places |-> Where(u)]
        /\ SeenOf(u)' = [state |-> userState'[u], places |-> Where(u)']
    BY <1>2, <2>1 DEF SeenOf
  <2>4. CASE SameSeen(u)
    BY <2>3, <2>4 DEF SameSeen, W!Moves
  <2>5. CASE ~SameSeen(u)
    BY <2>2, <2>3, <2>5
       DEF Change, W!Moves, W!ComesIn, W!LogsOut, W!Closes, W!Seen, W!Away, W!Passing,
           W!Here, W!Closing
  <2> QED
    BY <2>4, <2>5
<1> QED
  BY <1>1, <1>2

\* Module Sessions implements module Whereabouts: for the senders of the other
\* processes a user is at one process at most, is shown online only while a
\* session is established or being closed, and changes process only by being
\* away, in any cluster, whatever fails and however the handlers interleave.
THEOREM WhereaboutsImplemented == Spec => IsWhereabouts
<1>1. Init => W!Init
  <2> SUFFICES ASSUME Init PROVE \A u \in User : SeenOf(u) = W!Away
    BY DEF W!Init
  <2> TAKE u \in User
  <2>1. Where(u) = {}
    BY DEF Init, Where
  <2> QED
    BY <2>1 DEF Init, W!Away, W!Seen, SeenOf
<1>2. IInv /\ [Next]_vars => [W!Next]_([u \in User |-> SeenOf(u)])
  <2> SUFFICES ASSUME IInv, [Next]_vars
               PROVE  \A u \in User : W!Moves([v \in User |-> SeenOf(v)][u],
                                             ([v \in User |-> SeenOf(v)][u])')
    BY DEF W!Next
  <2> TAKE u \in User
  <2>1. W!Moves(SeenOf(u), SeenOf(u)')
    BY SeenMoves
  <2>2. [v \in User |-> SeenOf(v)][u] = SeenOf(u)
    OBVIOUS
  <2>3. ([v \in User |-> SeenOf(v)][u])' = SeenOf(u)'
    OBVIOUS
  <2> QED
    BY <2>1, <2>2, <2>3
<1> QED
  BY <1>1, <1>2, InitInv, StepInv, PTL DEF Spec, IsWhereabouts, W!Spec

-----------------------------------------------------------------------------
(* Spec => []SubscriptionAgrees.  SubscriptionAgrees speaks of sessions at *)
(* rest and of empty pipes only.  Subscribed says what the commands under  *)
(* way for a channel amount to in every phase of the session: nothing was  *)
(* ever sent (Silent), all that is under way subscribes (Begun), or what   *)
(* is sent last unsubscribes (Ending).  It needs Presence, because only    *)
(* the map tells a close handler that there is a session to end.           *)


Silent(s, u) == Pending(s, u) = {} /\ u \notin subs[s]

Begun(s, u) ==
    /\ Pending(s, u) = {} => u \in subs[s]
    /\ \A i \in Pending(s, u) : subPipe[s][i].cmd = "SUBSCRIBE"

Ending(s, u) ==
    /\ Pending(s, u) = {} => u \notin subs[s]
    /\ \A i \in Pending(s, u) : subPipe[s][i].cmd = "SUBSCRIBE" =>
           \E j \in Pending(s, u) : i < j /\ subPipe[s][j].cmd = "UNSUBSCRIBE"

BeforeSubscribe == {"insert", "subscribe"}
AfterSubscribe == {"setOnline", "deliver", "idle", "logoutErase", "logoutUnsubscribe",
                   "closeUnsubscribe"}
AfterUnsubscribe == {"closeSetOffline"}

\* What is under way for u at process s when its session is in a phase.
ByPhase(phase, s, u) ==
    /\ phase \in BeforeSubscribe => Silent(s, u)
    /\ phase \in AfterSubscribe => Begun(s, u)
    /\ phase \in AfterUnsubscribe => Ending(s, u)

Subscribed(u) ==
    /\ \A s, t \in Server : s # t => Silent(s, u) \/ Silent(t, u)
    /\ ~HasSession(u) => \A s \in Server : Ending(s, u)
    /\ \A c \in Conn : user[c] = u =>
           /\ \A s \in Server \ {home[c]} : Silent(s, u)
           /\ ByPhase(pc[c], home[c], u)

SInv == IInv /\ \A u \in User : Clean(u) => Subscribed(u)

-----------------------------------------------------------------------------
(* The channels.                                                           *)

\* The channel of u at s has the same commands under way and the same state.
Untouched(s, u) ==
    /\ u \in subs'[s] <=> u \in subs[s]
    /\ Pending(s, u)' = Pending(s, u)
    /\ \A i \in Pending(s, u) : subPipe'[s][i] = subPipe[s][i]

\* What a step may do to a channel without changing what it amounts to.
Kept(s, u) ==
    /\ Silent(s, u) => Silent(s, u)'
    /\ Begun(s, u) => Begun(s, u)'
    /\ Ending(s, u) => Ending(s, u)'

LEMMA UntouchedIsKept ==
    ASSUME NEW s \in Server, NEW u \in User, Untouched(s, u)
    PROVE  Kept(s, u)
BY DEF Untouched, Kept, Silent, Begun, Ending

\* A command that is sent leaves the channels of other users alone, and also
\* those of its own user at other processes.
LEMMA SendElsewhere ==
    ASSUME TypeOK, NEW c \in Conn, home[c] \in Server,
           NEW cmd \in {"SUBSCRIBE", "UNSUBSCRIBE"}, SendCommand(c, cmd), UNCHANGED subs,
           NEW s \in Server, NEW u \in User, s # home[c] \/ u # user[c]
    PROVE  Untouched(s, u)
<1> DEFINE x == [cmd |-> cmd, channel |-> user[c]]
<1>1. CASE subPipe' = [subPipe EXCEPT ![home[c]] = Append(@, x)]
  <2>1. CASE s # home[c]
    <3>1. subPipe'[s] = subPipe[s]
      BY <1>1, <2>1 DEF TypeOK
    <3> QED
      BY <3>1 DEF Untouched, Pending
  <2>2. CASE s = home[c] /\ u # user[c]
    <3>1. subPipe[s] \in Seq(Command) /\ subPipe'[s] = Append(subPipe[s], x)
      BY <1>1, <2>2 DEF TypeOK
    <3>2. DOMAIN subPipe'[s] = DOMAIN subPipe[s] \cup {Len(subPipe[s]) + 1}
      BY <3>1
    <3>3. \A i \in DOMAIN subPipe[s] : subPipe'[s][i] = subPipe[s][i]
      BY <3>1
    <3>4. subPipe'[s][Len(subPipe[s]) + 1].channel # u
      BY <2>2, <3>1
    <3> QED
      BY <3>2, <3>3, <3>4 DEF Untouched, Pending
  <2> QED
    BY <2>1, <2>2
<1>2. CASE UNCHANGED subPipe
  BY <1>2 DEF Untouched, Pending
<1> QED
  BY <1>1, <1>2 DEF SendCommand

\* A command that is sent and not lost is the last one under way.
LEMMA SendHere ==
    ASSUME TypeOK, NEW c \in Conn, NEW s \in Server, NEW u \in User,
           home[c] = s, user[c] = u, u \notin misrouted',
           NEW cmd \in {"SUBSCRIBE", "UNSUBSCRIBE"}, SendCommand(c, cmd), UNCHANGED subs
    PROVE  /\ Silent(s, u) /\ cmd = "SUBSCRIBE" => Begun(s, u)'
           /\ cmd = "UNSUBSCRIBE" => Ending(s, u)'
<1> DEFINE x == [cmd |-> cmd, channel |-> u]
           n == Len(subPipe[s]) + 1
<1>1. subPipe' = [subPipe EXCEPT ![s] = Append(@, x)]
  BY ConstantsAssumption DEF SendCommand
<1>2. subPipe[s] \in Seq(Command) /\ subPipe'[s] = Append(subPipe[s], x)
  BY <1>1 DEF TypeOK
<1>3. DOMAIN subPipe'[s] = DOMAIN subPipe[s] \cup {n} /\ subPipe'[s][n] = x
  BY <1>2
<1>4. \A i \in DOMAIN subPipe[s] : i < n /\ subPipe'[s][i] = subPipe[s][i]
  BY <1>2
<1> HIDE DEF n
<1>5. Pending(s, u)' = Pending(s, u) \cup {n}
  BY <1>3, <1>4 DEF Pending
<1>6. \A i \in Pending(s, u) : i < n
  BY <1>4 DEF Pending
<1>7. subPipe'[s][n].cmd = cmd
  BY <1>3
<1>8. Silent(s, u) /\ cmd = "SUBSCRIBE" => Begun(s, u)'
  BY <1>5, <1>7 DEF Silent, Begun
<1>9. cmd = "UNSUBSCRIBE" => Ending(s, u)'
  BY <1>5, <1>6, <1>7 DEF Ending
<1> QED
  BY <1>8, <1>9

\* What Redis executes does not change what a channel amounts to.
LEMMA RedisKeeps ==
    ASSUME TypeOK, NEW t \in Server, RedisExecutes(t), NEW s \in Server, NEW u \in User
    PROVE  Kept(s, u)
<1>1. CASE s # t
  <2>1. subPipe'[s] = subPipe[s] /\ subs'[s] = subs[s]
    BY <1>1 DEF RedisExecutes, TypeOK
  <2> QED
    BY <2>1, UntouchedIsKept DEF Untouched, Pending
<1>2. CASE s = t
  <2> DEFINE q == subPipe[s]
             r == subPipe'[s]
  <2>1. q \in Seq(Command) /\ q # <<>> /\ r = Tail(q)
    BY <1>2 DEF RedisExecutes, TypeOK
  <2>2. /\ \A i \in DOMAIN r : i + 1 \in DOMAIN q /\ r[i] = q[i + 1] /\ i \in Nat
        /\ \A i \in DOMAIN q : i = 1 \/ (i - 1 \in DOMAIN r /\ i \in Nat)
        /\ 1 \in DOMAIN q /\ Head(q) = q[1]
    BY <2>1
  <2>3. Head(q) \in Command
    BY <2>1
  <2>4. u \in subs'[s] <=> IF q[1].channel = u THEN q[1].cmd = "SUBSCRIBE" ELSE u \in subs[s]
    BY <1>2, <2>2, <2>3 DEF RedisExecutes, TypeOK, Command
  <2>5. q[1].cmd \in {"SUBSCRIBE", "UNSUBSCRIBE"}
    BY <2>2, <2>3 DEF Command
  <2> HIDE DEF q, r
  <2>6. /\ \A i : i \in Pending(s, u)' <=> i \in DOMAIN r /\ r[i].channel = u
        /\ \A i : i \in Pending(s, u) <=> i \in DOMAIN q /\ q[i].channel = u
    BY DEF Pending, q, r
  <2>7. Silent(s, u) => Silent(s, u)'
    BY <2>2, <2>4, <2>6 DEF Silent
  <2>8. Begun(s, u) => Begun(s, u)'
    <3> SUFFICES ASSUME Begun(s, u) PROVE Begun(s, u)'
      OBVIOUS
    <3>1. \A i \in Pending(s, u) : q[i].cmd = "SUBSCRIBE"
      BY DEF Begun, q
    <3>2. \A i \in Pending(s, u)' : r[i].cmd = "SUBSCRIBE"
      BY <2>2, <2>6, <3>1
    <3>3. Pending(s, u)' = {} => u \in subs'[s]
      <4>1. CASE q[1].channel = u
        BY <2>2, <2>4, <2>6, <3>1, <4>1
      <4>2. CASE q[1].channel # u
        <5>1. Pending(s, u)' = {} => Pending(s, u) = {}
          BY <2>2, <2>6, <4>2
        <5> QED
          BY <2>4, <4>2, <5>1 DEF Begun
      <4> QED
        BY <4>1, <4>2
    <3> QED
      BY <3>2, <3>3 DEF Begun, r
  <2>9. Ending(s, u) => Ending(s, u)'
    <3> SUFFICES ASSUME Ending(s, u) PROVE Ending(s, u)'
      OBVIOUS
    <3>1. \A i \in Pending(s, u) : q[i].cmd = "SUBSCRIBE" =>
              \E j \in Pending(s, u) : i < j /\ q[j].cmd = "UNSUBSCRIBE"
      BY DEF Ending, q
    <3>2. \A i \in Pending(s, u)' : r[i].cmd = "SUBSCRIBE" =>
              \E j \in Pending(s, u)' : i < j /\ r[j].cmd = "UNSUBSCRIBE"
      <4> SUFFICES ASSUME NEW i \in Pending(s, u)', r[i].cmd = "SUBSCRIBE"
                   PROVE  \E j \in Pending(s, u)' : i < j /\ r[j].cmd = "UNSUBSCRIBE"
        OBVIOUS
      <4>1. i \in Nat /\ i \in DOMAIN r /\ r[i] = q[i + 1] /\ i + 1 \in Pending(s, u)
        BY <2>2, <2>6
      <4>2. PICK j \in Pending(s, u) : i + 1 < j /\ q[j].cmd = "UNSUBSCRIBE"
        BY <3>1, <4>1
      <4>3. j # 1 /\ j \in Nat
        BY <2>1, <2>6, <4>1, <4>2 DEF q, r
      <4>4. j - 1 \in DOMAIN r /\ r[j - 1] = q[j]
        BY <2>2, <2>6, <4>2, <4>3
      <4>5. j - 1 \in Pending(s, u)' /\ i < j - 1 /\ r[j - 1].cmd = "UNSUBSCRIBE"
        BY <2>6, <4>1, <4>2, <4>3, <4>4
      <4> QED
        BY <4>5
    <3>3. Pending(s, u)' = {} => u \notin subs'[s]
      <4>1. CASE q[1].channel = u
        <5>1. 1 \in Pending(s, u)
          BY <2>2, <2>6, <4>1
        <5>2. CASE q[1].cmd = "SUBSCRIBE"
          <6>1. PICK j \in Pending(s, u) : 1 < j /\ q[j].cmd = "UNSUBSCRIBE"
            BY <3>1, <5>1, <5>2
          <6>2. j - 1 \in DOMAIN r /\ r[j - 1].channel = u
            BY <2>1, <2>2, <2>6, <6>1 DEF q, r
          <6> QED
            BY <2>6, <6>2
        <5>3. CASE q[1].cmd = "UNSUBSCRIBE"
          BY <2>4, <4>1, <5>3
        <5> QED
          BY <2>5, <5>2, <5>3
      <4>2. CASE q[1].channel # u
        <5>1. Pending(s, u)' = {} => Pending(s, u) = {}
          BY <2>2, <2>6, <4>2
        <5> QED
          BY <2>4, <4>2, <5>1 DEF Ending
      <4> QED
        BY <4>1, <4>2
    <3> QED
      BY <3>2, <3>3 DEF Ending, r
  <2> QED
    BY <2>7, <2>8, <2>9 DEF Kept
<1> QED
  BY <1>1, <1>2

-----------------------------------------------------------------------------
(* The steps.                                                              *)

SamePart(p, q) ==
    /\ p \in BeforeSubscribe <=> q \in BeforeSubscribe
    /\ p \in AfterSubscribe <=> q \in AfterSubscribe
    /\ p \in AfterUnsubscribe <=> q \in AfterUnsubscribe

\* A step that keeps the channels of u, the sessions of u and the part of the
\* handler they are in keeps the subscription of u.
LEMMA StaysSubscribed ==
    ASSUME NEW u \in User, Subscribed(u), Placed,
           \A s \in Server : Kept(s, u),
           \A d \in Conn : user'[d] = u <=> user[d] = u,
           \A d \in Conn : user[d] = u => home'[d] = home[d] /\ SamePart(pc[d], pc'[d])
    PROVE  Subscribed(u)'
<1> USE ConstantsAssumption
<1>1. HasSession(u)' <=> HasSession(u)
  BY DEF HasSession
<1>2. \A s, t \in Server : s # t => Silent(s, u)' \/ Silent(t, u)'
  BY DEF Subscribed, Kept
<1>3. ~HasSession(u)' => \A s \in Server : Ending(s, u)'
  BY <1>1 DEF Subscribed, Kept
<1>4. ASSUME NEW d \in Conn, user'[d] = u
      PROVE  /\ \A s \in Server \ {home'[d]} : Silent(s, u)'
             /\ ByPhase(pc[d], home[d], u)'
  <2>1. user[d] = u /\ home'[d] = home[d] /\ SamePart(pc[d], pc'[d]) /\ home[d] \in Server
    BY <1>4 DEF Placed
  <2>2. ByPhase(pc[d], home[d], u) /\ Kept(home[d], u)
    BY <2>1 DEF Subscribed
  <2>3. ByPhase(pc[d], home[d], u)'
    <3> DEFINE s == home[d]
               r == home'[d]
    <3>1. /\ Silent(s, u) => Silent(home[d], u)'
          /\ Begun(s, u) => Begun(home[d], u)'
          /\ Ending(s, u) => Ending(home[d], u)'
      BY <2>1, <2>2 DEF Kept, Silent, Begun, Ending, Pending
    <3> QED
      BY <2>1, <2>2, <3>1 DEF ByPhase, SamePart
  <2>4. \A s \in Server \ {home'[d]} : Silent(s, u)'
    BY <2>1 DEF Subscribed, Kept
  <2> QED
    BY <2>3, <2>4
<1> QED
  BY <1>2, <1>3, <1>4 DEF Subscribed

\* An action that leaves Redis alone keeps every channel.
LEMMA RedisAlone ==
    ASSUME UNCHANGED redisVars, NEW u \in User
    PROVE  \A s \in Server : Kept(s, u)
BY UntouchedIsKept DEF Untouched, Pending, redisVars

\* A command for another user keeps the subscription of u.
LEMMA SendForAnother ==
    ASSUME TypeOK, Placed, NEW c \in Conn, home[c] \in Server,
           NEW cmd \in {"SUBSCRIBE", "UNSUBSCRIBE"}, SendCommand(c, cmd), UNCHANGED subs,
           NEW u \in User, u # user[c], Subscribed(u),
           \A d \in Conn \ {c} : user'[d] = user[d] /\ pc'[d] = pc[d] /\ home'[d] = home[d],
           user'[c] # u
    PROVE  Subscribed(u)'
<1>1. \A s \in Server : Kept(s, u)
  BY SendElsewhere, UntouchedIsKept
<1> QED
  BY <1>1, StaysSubscribed DEF SamePart

\* A connection to Redis that is lost, with its process or alone, keeps the
\* subscriptions of the users without a session there: what was under way at
\* this process is gone.
LEMMA LinkLostKeepsSubscription ==
    ASSUME TypeOK, Placed, NEW s \in Server, NEW u \in User, Subscribed(u),
           subPipe' = [subPipe EXCEPT ![s] = <<>>], subs' = [subs EXCEPT ![s] = {}],
           \A c \in Conn : user[c] = u => home[c] # s,
           \A c \in Conn : /\ user'[c] = u <=> user[c] = u
                           /\ user[c] = u => home'[c] = home[c] /\ pc'[c] = pc[c]
    PROVE  Subscribed(u)'
<1> USE ConstantsAssumption
<1>1. Silent(s, u)' /\ Ending(s, u)'
  <2>1. subPipe'[s] = <<>> /\ subs'[s] = {}
    BY DEF TypeOK
  <2> QED
    BY <2>1 DEF Silent, Ending, Pending
<1>2. \A t \in Server \ {s} : Kept(t, u)
  <2> SUFFICES ASSUME NEW t \in Server \ {s} PROVE Kept(t, u)
    OBVIOUS
  <2>1. subPipe'[t] = subPipe[t] /\ subs'[t] = subs[t]
    BY DEF TypeOK
  <2> QED
    BY <2>1, UntouchedIsKept DEF Untouched, Pending
<1>3. ASSUME NEW t \in Server
      PROVE  (Silent(t, u) => Silent(t, u)') /\ (Ending(t, u) => Ending(t, u)')
  <2>1. CASE t = s
    BY <1>1, <2>1 DEF Silent, Ending, Pending
  <2>2. CASE t # s
    BY <1>2, <2>2 DEF Kept
  <2> QED
    BY <2>1, <2>2
<1>4. ASSUME NEW d \in Conn, user'[d] = u
      PROVE  /\ \A t \in Server \ {home'[d]} : Silent(t, u)'
             /\ ByPhase(pc[d], home[d], u)'
  <2>1. user[d] = u /\ home'[d] = home[d] /\ pc'[d] = pc[d] /\ home[d] \in Server \ {s}
    BY <1>4 DEF Placed
  <2>2. PICK t \in Server \ {s} : t = home[d]
    BY <2>1
  <2>3. ByPhase(pc[d], t, u) /\ Kept(t, u)
    BY <1>2, <2>1, <2>2 DEF Subscribed
  <2>4. ByPhase(pc[d], home[d], u)'
    BY <2>1, <2>2, <2>3 DEF ByPhase, Kept
  <2> QED
    BY <1>3, <2>1, <2>4 DEF Subscribed
<1> QED
  BY <1>3, <1>4 DEF Subscribed, HasSession

LEMMA EndKeepsSubscription ==
    ASSUME TypeOK, Placed, NEW s \in Server, ProcessEnds(s), NEW u \in User,
           u \notin disturbed', Subscribed(u)
    PROVE  Subscribed(u)'
<1>1. \A c \in Conn : user[c] = u => home[c] # s
  BY ConstantsAssumption DEF ProcessEnds, SessionUsers
<1>2. \A c \in Conn : /\ user'[c] = u <=> user[c] = u
                      /\ user[c] = u => home'[c] = home[c] /\ pc'[c] = pc[c]
  BY <1>1, ConstantsAssumption DEF ProcessEnds
<1> QED
  BY <1>1, <1>2, LinkLostKeepsSubscription DEF ProcessEnds

LEMMA SubscribedStep ==
    ASSUME TypeOK, Placed, MapEntryOwned, SharedAreDisturbed, [Next]_vars, NEW u \in User,
           Presence(u), Subscribed(u), u \notin disturbed', u \notin misrouted'
    PROVE  Subscribed(u)'
<1> USE ConstantsAssumption
<1>0. u \notin disturbed
  BY DisturbedGrows
<1>1. ASSUME NEW c \in Conn, NEW s \in Server, Connect(c, s)
      PROVE  Subscribed(u)'
  <2>1. user[c] # u
    BY <1>1 DEF Connect, Placed
  <2> QED
    BY <1>1, <2>1, RedisAlone, StaysSubscribed DEF Connect, SamePart
<1>2. ASSUME NEW c \in Conn, ClientCloses(c)
      PROVE  Subscribed(u)'
  BY <1>2, RedisAlone, StaysSubscribed DEF ClientCloses, SamePart
<1>3. ASSUME NEW c \in Conn, NEW v \in User, LoginQuery(c, v)
      PROVE  Subscribed(u)'
  <2>1. /\ UNCHANGED <<home, redisVars>> /\ u \notin Holders(c) \ {v}
        /\ \A d \in Conn : /\ user'[d] = IF d = c THEN v ELSE user[d]
                           /\ pc'[d] = IF d = c THEN "insert" ELSE pc[d]
    BY <1>3 DEF LoginQuery, Goto, TypeOK
  <2>2. CASE v # u
    <3>1. user[c] # u
      BY <2>1, <2>2 DEF Holders
    <3> QED
      BY <2>1, <2>2, <3>1, RedisAlone, StaysSubscribed DEF SamePart
  <2>3. CASE v = u
    <3>1. ~HasSession(u) /\ ~HasLeftover(u)
      BY <1>3, <2>3 DEF LoginQuery
    <3>2. \A s \in Server : Silent(s, u)
      BY <3>1 DEF HasLeftover, Silent, Pending
    <3>3. \A s \in Server : Silent(s, u)'
      BY <2>1, <3>2, RedisAlone DEF Kept
    <3>4. HasSession(u)' /\ \A d \in Conn : user'[d] = u => d = c
      BY <2>1, <2>3, <3>1 DEF HasSession
    <3>5. home'[c] \in Server /\ pc'[c] = "insert"
      BY <1>3, <2>1 DEF LoginQuery, At
    <3>6. ByPhase(pc[c], home[c], u)'
      BY <3>3, <3>5 DEF ByPhase, BeforeSubscribe, AfterSubscribe, AfterUnsubscribe, Silent, Pending
    <3> QED
      BY <3>3, <3>4, <3>6 DEF Subscribed
  <2> QED
    BY <2>2, <2>3
<1>4. ASSUME NEW c \in Conn, LogoutSetOffline(c)
      PROVE  Subscribed(u)'
  BY <1>4, RedisAlone, StaysSubscribed
     DEF LogoutSetOffline, At, Goto, TypeOK,
         SamePart, BeforeSubscribe, AfterSubscribe, AfterUnsubscribe
<1>5. ASSUME NEW c \in Conn, LoginInsert(c)
      PROVE  Subscribed(u)'
  BY <1>5, RedisAlone, StaysSubscribed
     DEF LoginInsert, At, Goto, TypeOK,
         SamePart, BeforeSubscribe, AfterSubscribe, AfterUnsubscribe
<1>6. ASSUME NEW c \in Conn, LoginSubscribe(c)
      PROVE  Subscribed(u)'
  <2>1. /\ home[c] \in Server /\ pc[c] = "subscribe" /\ user[c] \in User
        /\ SendCommand(c, "SUBSCRIBE") /\ UNCHANGED <<home, user, subs>>
        /\ \A d \in Conn : pc'[d] = IF d = c THEN "setOnline" ELSE pc[d]
    BY <1>6 DEF LoginSubscribe, At, Goto, TypeOK, Placed
  <2>2. CASE user[c] # u
    BY <2>1, <2>2, SendForAnother
  <2>3. CASE user[c] = u
    <3>1. Silent(home[c], u) /\ \A s \in Server \ {home[c]} : Silent(s, u)
      BY <2>1, <2>3 DEF Subscribed, ByPhase, BeforeSubscribe
    <3>2. \A s \in Server \ {home[c]} : Silent(s, u)'
      BY <2>1, <3>1, SendElsewhere, UntouchedIsKept DEF Kept
    <3>3. \A s \in Server : s = home[c] => Begun(s, u)'
      BY <2>1, <2>3, <3>1, SendHere
    <3>4. ByPhase(pc[c], home[c], u)'
      BY <2>1, <3>3 DEF ByPhase, BeforeSubscribe, AfterSubscribe, AfterUnsubscribe
    <3>5. \A d \in Conn : user'[d] = u => d = c
      BY <2>1, <2>3 DEF Presence, OneSession
    <3>6. HasSession(u)'
      BY <2>1, <2>3 DEF HasSession
    <3> QED
      BY <2>1, <3>2, <3>4, <3>5, <3>6 DEF Subscribed
  <2> QED
    BY <2>2, <2>3
<1>7. ASSUME NEW c \in Conn, LoginSetOnline(c)
      PROVE  Subscribed(u)'
  BY <1>7, RedisAlone, StaysSubscribed
     DEF LoginSetOnline, At, Goto, TypeOK,
         SamePart, BeforeSubscribe, AfterSubscribe, AfterUnsubscribe
<1>8. ASSUME NEW c \in Conn, LoginReply(c)
      PROVE  Subscribed(u)'
  BY <1>8, RedisAlone, StaysSubscribed
     DEF LoginReply, At, Goto, TypeOK,
         SamePart, BeforeSubscribe, AfterSubscribe, AfterUnsubscribe
<1>9. ASSUME NEW c \in Conn, LogoutErase(c)
      PROVE  Subscribed(u)'
  BY <1>9, RedisAlone, StaysSubscribed
     DEF LogoutErase, At, Goto, TypeOK,
         SamePart, BeforeSubscribe, AfterSubscribe, AfterUnsubscribe
<1>10. ASSUME NEW c \in Conn, LogoutUnsubscribe(c)
       PROVE  Subscribed(u)'
  <2>1. /\ home[c] \in Server /\ pc[c] = "logoutUnsubscribe" /\ user[c] \in User
        /\ SendCommand(c, "UNSUBSCRIBE") /\ UNCHANGED <<home, subs>>
        /\ \A d \in Conn : /\ pc'[d] = IF d = c THEN "idle" ELSE pc[d]
                           /\ user'[d] = IF d = c THEN NoUser ELSE user[d]
    BY <1>10 DEF LogoutUnsubscribe, At, Goto, TypeOK, Placed
  <2>2. CASE user[c] # u
    BY <2>1, <2>2, SendForAnother
  <2>3. CASE user[c] = u
    <3>1. \A s \in Server \ {home[c]} : Silent(s, u)
      BY <2>3 DEF Subscribed
    <3>2. \A s \in Server \ {home[c]} : Silent(s, u)'
      BY <2>1, <3>1, SendElsewhere, UntouchedIsKept DEF Kept
    <3>3. \A s \in Server : s = home[c] => Ending(s, u)'
      BY <2>1, <2>3, SendHere
    <3>4. \A s \in Server : Silent(s, u)' => Ending(s, u)'
      BY DEF Silent, Ending
    <3>5. \A d \in Conn : user'[d] # u
      BY <2>1, <2>3 DEF Presence, OneSession
    <3> QED
      BY <2>1, <3>2, <3>3, <3>4, <3>5 DEF Subscribed
  <2> QED
    BY <2>2, <2>3
<1>11. ASSUME NEW c \in Conn, CloseErase(c)
       PROVE  Subscribed(u)'
  <2>1. /\ pc[c] = "idle" /\ home[c] \in Server /\ UNCHANGED home
        /\ \A s \in Server : Kept(s, u)
    BY <1>11, RedisAlone DEF CloseErase, At
  <2>2. \A d \in Conn : SamePart(pc[d], pc'[d])
    BY <1>11, <2>1
       DEF CloseErase, Goto, TypeOK, SamePart, BeforeSubscribe, AfterSubscribe, AfterUnsubscribe
  <2>3. ASSUME NEW v \in User, userConnMap[home[c]][v] = c, user' = [user EXCEPT ![c] = v]
        PROVE  Subscribed(u)'
    <3>1. user[c] = u <=> v = u
      BY <1>0, <2>1, <2>3, FoundIsOwn DEF Presence
    <3>2. \A d \in Conn : user'[d] = u <=> user[d] = u
      BY <2>3, <3>1 DEF TypeOK
    <3> QED
      BY <2>1, <2>2, <3>2, StaysSubscribed
  <2>4. ASSUME \A v \in User : userConnMap[home[c]][v] # c, user' = [user EXCEPT ![c] = NoUser]
        PROVE  Subscribed(u)'
    <3>1. user[c] # u
      BY <2>1, <2>4 DEF Presence, EntryByPhase, EntryPhases
    <3>2. \A d \in Conn : user'[d] = u <=> user[d] = u
      BY <2>4, <3>1 DEF TypeOK
    <3> QED
      BY <2>1, <2>2, <3>2, StaysSubscribed
  <2> QED
    BY <1>11, <2>3, <2>4 DEF CloseErase, CloseFound, CloseNotFound
<1>12. ASSUME NEW c \in Conn, CloseUnsubscribe(c)
       PROVE  Subscribed(u)'
  <2>0. /\ home[c] \in Server /\ pc[c] = "closeUnsubscribe"
        /\ SendCommand(c, "UNSUBSCRIBE") /\ UNCHANGED subs
        /\ user'[c] \in {user[c], NoUser}
        /\ \A d \in Conn \ {c} : user'[d] = user[d] /\ pc'[d] = pc[d] /\ home'[d] = home[d]
    BY <1>12 DEF CloseUnsubscribe, CloseGoesOn, Release, At, Goto, TypeOK
  <2>2. CASE user[c] # u
    BY <2>0, <2>2, SendForAnother
  <2>3. CASE user[c] = u
    <3>0. Goto(c, "closeSetOffline") /\ UNCHANGED <<home, user>>
      BY <1>12, <2>3 DEF CloseUnsubscribe, CloseGoesOn
    <3>a. \A d \in Conn : pc'[d] = IF d = c THEN "closeSetOffline" ELSE pc[d]
      BY <3>0 DEF Goto, TypeOK
    <3>1. \A s \in Server \ {home[c]} : Silent(s, u)
      BY <2>3 DEF Subscribed
    <3>2. \A s \in Server \ {home[c]} : Silent(s, u)'
      BY <2>0, <3>0, <3>1, SendElsewhere, UntouchedIsKept DEF Kept
    <3>3. \A s \in Server : s = home[c] => Ending(s, u)'
      BY <2>0, <2>3, SendHere
    <3>4. ByPhase(pc[c], home[c], u)'
      BY <2>0, <3>0, <3>a, <3>3 DEF ByPhase, BeforeSubscribe, AfterSubscribe, AfterUnsubscribe
    <3>5. \A d \in Conn : user'[d] = u => d = c
      BY <3>0, <2>3 DEF Presence, OneSession
    <3>6. HasSession(u)'
      BY <3>0, <2>3 DEF HasSession
    <3> QED
      BY <3>0, <3>2, <3>4, <3>5, <3>6 DEF Subscribed
  <2> QED
    BY <2>2, <2>3
<1>13. ASSUME NEW c \in Conn, CloseSetOffline(c)
       PROVE  Subscribed(u)'
  <2>1. /\ pc[c] = "closeSetOffline" /\ home[c] \in Server /\ UNCHANGED redisVars
        /\ \A d \in Conn : /\ user'[d] = IF d = c THEN NoUser ELSE user[d]
                           /\ d # c => pc'[d] = pc[d] /\ home'[d] = home[d]
    BY <1>13 DEF CloseSetOffline, At, Release, Goto, TypeOK
  <2>2. \A s \in Server : Kept(s, u)
    BY <2>1, RedisAlone
  <2>3. CASE user[c] # u
    BY <2>1, <2>2, <2>3, StaysSubscribed DEF SamePart
  <2>4. CASE user[c] = u
    <3>1. Ending(home[c], u) /\ \A s \in Server \ {home[c]} : Silent(s, u)
      BY <2>1, <2>4 DEF Subscribed, ByPhase, AfterUnsubscribe
    <3>2. \A s \in Server : Silent(s, u) => Ending(s, u)
      BY DEF Silent, Ending
    <3>3. \A s \in Server : Ending(s, u)'
      <4>1. \A s \in Server : Ending(s, u)
        BY <3>1, <3>2
      <4> QED
        BY <2>2, <4>1 DEF Kept
    <3>4. \A s \in Server \ {home[c]} : Silent(s, u)'
      BY <2>2, <3>1 DEF Kept
    <3>5. \A d \in Conn : user'[d] # u
      BY <2>1, <2>4 DEF Presence, OneSession
    <3> QED
      BY <3>3, <3>4, <3>5 DEF Subscribed
  <2> QED
    BY <2>3, <2>4
<1>14. ASSUME NEW s \in Server, RedisExecutes(s)
       PROVE  Subscribed(u)'
  BY <1>14, RedisKeeps, StaysSubscribed DEF RedisExecutes, connVars, SamePart
<1>15. ASSUME NEW s \in Server, Crash(s)
       PROVE  Subscribed(u)'
  BY <1>15, EndKeepsSubscription DEF Crash
<1>16. ASSUME NEW s \in Server, ResetState(s)
       PROVE  Subscribed(u)'
  BY <1>16, RedisAlone, StaysSubscribed DEF ResetState, connVars, SamePart
<1>17. ASSUME NEW s \in Server, ResetClear(s)
       PROVE  Subscribed(u)'
  BY <1>17, RedisAlone, StaysSubscribed DEF ResetClear, connVars, SamePart
<1>18. ASSUME NEW s \in Server, ResetExit(s)
       PROVE  Subscribed(u)'
  BY <1>18, EndKeepsSubscription DEF ResetExit
<1>19. CASE UNCHANGED vars
  BY <1>19, RedisAlone, StaysSubscribed DEF vars, connVars, SamePart
<1>20. ASSUME NEW s \in Server, ObserverEnds(s)
       PROVE  Subscribed(u)'
  <2>1. \A c \in Conn : user[c] = u => home[c] # s
    BY <1>20 DEF ObserverEnds, SessionUsers
  <2> QED
    BY <1>20, <2>1, LinkLostKeepsSubscription DEF ObserverEnds, connVars
<1> QED
  BY <1>1, <1>2, <1>3, <1>4, <1>5, <1>6, <1>7, <1>8, <1>9, <1>10, <1>11, <1>12,
     <1>13, <1>14, <1>15, <1>16, <1>17, <1>18, <1>19, <1>20 DEF Next, HandlerStep

\* The commands of every phase give the agreement of the phases at rest.
LEMMA SubscribedImpliesAgreement == SInv => SubscriptionAgrees
<1> SUFFICES ASSUME SInv, NEW u \in User, Clean(u)
             PROVE  /\ \A s, t \in Server : Listens(s, u) /\ Listens(t, u) => s = t
                    /\ \A c \in Conn : user[c] = u /\ pc[c] = "idle"
                                         /\ Pending(home[c], u) = {} => u \in subs[home[c]]
                    /\ \A s \in Server : ~HasSession(u) /\ Pending(s, u) = {} =>
                           u \notin subs[s]
  BY DEF SubscriptionAgrees
<1>1. Subscribed(u)
  BY DEF SInv
<1>2. \A s, t \in Server : Listens(s, u) /\ Listens(t, u) => s = t
  BY <1>1 DEF Subscribed, Silent, Listens
<1>3. \A c \in Conn : user[c] = u /\ pc[c] = "idle" => Begun(home[c], u)
  BY <1>1 DEF Subscribed, ByPhase, AfterSubscribe
<1>4. ~HasSession(u) => \A s \in Server : Ending(s, u)
  BY <1>1 DEF Subscribed
<1> QED
  BY <1>2, <1>3, <1>4 DEF Begun, Ending

\* A user is misrouted or disturbed for good.
LEMMA CleanShrinks ==
    ASSUME [Next]_vars, NEW u \in User, Clean(u)'
    PROVE  Clean(u)
<1>1. disturbed \subseteq disturbed'
  BY DisturbedGrows
<1>2. misrouted \subseteq misrouted'
  BY DEF Next, HandlerStep, vars, stateVars, connVars, redisVars, historyVars,
         Connect, ClientCloses, LoginQuery, LoginInsert, LoginSubscribe, SendCommand,
         LoginSetOnline, LoginReply, LogoutSetOffline, LogoutErase,
         LogoutUnsubscribe, CloseErase, CloseUnsubscribe, CloseSetOffline,
         UpdateState, RedisExecutes, ObserverEnds, Crash, ResetState, ResetClear, ResetExit, ProcessEnds
<1> QED
  BY <1>1, <1>2 DEF Clean

LEMMA SInitInv == Init => SInv
<1>1. Init => \A u \in User : Subscribed(u)
  BY ConstantsAssumption DEF Init, Subscribed, Silent, Ending, Pending, HasSession
<1> QED
  BY <1>1, InitInv DEF SInv

LEMMA SStepInv == SInv /\ [Next]_vars => SInv'
<1> SUFFICES ASSUME SInv, [Next]_vars PROVE SInv'
  OBVIOUS
<1>1. IInv'
  BY StepInv DEF SInv
<1>2. ASSUME NEW u \in User, Clean(u)' PROVE Subscribed(u)'
  <2>1. Clean(u) /\ u \notin disturbed' /\ u \notin misrouted'
    BY <1>2, CleanShrinks DEF Clean
  <2>2. /\ Subscribed(u) /\ Presence(u)
        /\ TypeOK /\ Placed /\ MapEntryOwned /\ SharedAreDisturbed
    BY <2>1 DEF SInv, IInv, Clean
  <2> QED
    BY <2>1, <2>2, SubscribedStep
<1> QED
  BY <1>1, <1>2 DEF SInv

\* For a user without overlapping sessions, lost processes or lost commands,
\* Redis never pushes the channel of the user to two processes, and once its
\* commands have been executed it pushes it to the serving process while the
\* session is established and to nobody without a session: the asynchronous
\* SUBSCRIBE and UNSUBSCRIBE never leave a subscription behind.
THEOREM SubscriptionsHold == Spec => []SubscriptionAgrees
BY SInitInv, SStepInv, SubscribedImpliesAgreement, PTL DEF Spec

=============================================================================
