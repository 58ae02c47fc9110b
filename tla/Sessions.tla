------------------------------ MODULE Sessions ------------------------------
(***************************************************************************)
(* Who is online, and where.  A cluster of ChatServer processes shares one *)
(* MySQL database and one Redis.  A login leaves three traces that other   *)
(* handlers rely on: the state column of table User, the entry of          *)
(* _userConnMap in the process the client is connected to, and the Redis   *)
(* subscription of that process to the channel of the user.  The handlers  *)
(* write them one at a time, each with a call of its own, and the handlers *)
(* of different connections run in different loop threads (or processes),  *)
(* so the model has one action per call that other threads can observe.    *)
(*                                                                         *)
(* A connection may log in while it serves a session already: login asks   *)
(* the state column only, and the shipped client does it after a logout    *)
(* that onMessage has dropped with the rest of a read (modules Wire and    *)
(* Client).  LOGIN_OUT_MSG carries the id that logged in last, as that     *)
(* client sends it.  A login that is refused (unknown id, wrong password,  *)
(* state "online", a query that fails) only sends a reply, so it is a      *)
(* stuttering step of this module.                                         *)
(***************************************************************************)
EXTENDS Naturals, Sequences, FiniteSets

CONSTANTS
    Server,     \* ChatServer processes behind the load balancer
    User,       \* rows of table User (all registered)
    Conn,       \* connection slots; each is one TcpConnection at a time
    NoServer,   \* "this slot holds no connection"
    NoUser,     \* "this connection has no session"
    NoConn,     \* "this user has no entry in _userConnMap"
    PipeMax,    \* commands that fit in the socket to Redis before writes block
    Faults      \* what may go wrong in an instance, of AllFaults

\* A process dies; a process gets SIGINT; two threads race on
\* _subcribe_context; a connection to Redis breaks; a statement fails.
AllFaults == {"crash", "reset", "race", "link", "database"}

ASSUME ConstantsAssumption ==
    /\ NoServer \notin Server
    /\ NoUser \notin User
    /\ NoConn \notin Conn
    /\ PipeMax \in Nat \ {0}
    /\ Faults \subseteq AllFaults

VARIABLES
    userState,    \* table User: the state column
    userConnMap,  \* _userConnMap of each process
    home,         \* the process that serves a connection
    alive,        \* the client has not closed this connection
    pc,           \* the next call of the handler that runs for a connection
    user,         \* the user of the session a connection holds
    subPipe,      \* (UN)SUBSCRIBE commands on their way to Redis
    subs,         \* the channels Redis pushes to a process
    observing,    \* _subcribe_context works, and a thread reads it
    resetting,    \* the next call of the SIGINT handler of a process, if it runs
    disturbed,    \* history: users whose sessions overlapped, shared a
                  \* connection, or lost a process or an UPDATE
    misrouted,    \* history: users with a lost or a left-over subscription
    shared        \* history: connections that logged a user in while they
                  \* held the session or the entry of another one

stateVars == <<userState, userConnMap>>
connVars == <<home, alive, pc, user>>
redisVars == <<subPipe, subs, observing>>
historyVars == <<disturbed, misrouted, shared>>
vars == <<stateVars, connVars, redisVars, resetting, historyVars>>

\* NoUser stands for channel 0, which is no user's.
Command == [cmd: {"SUBSCRIBE"}, channel: User]
               \cup [cmd: {"UNSUBSCRIBE"}, channel: User \cup {NoUser}]

\* "idle": no handler runs.  Every other value names the call that is next.
Phase == {"idle",
          "insert", "subscribe", "setOnline", "deliver",   \* login
          "logoutErase", "logoutUnsubscribe",              \* loginout
          "closeUnsubscribe", "closeSetOffline"}           \* clientCloseException

TypeOK ==
    /\ userState \in [User -> {"online", "offline"}]
    /\ userConnMap \in [Server -> [User -> Conn \cup {NoConn}]]
    /\ home \in [Conn -> Server \cup {NoServer}]
    /\ alive \in [Conn -> BOOLEAN]
    /\ pc \in [Conn -> Phase]
    /\ user \in [Conn -> User \cup {NoUser}]
    /\ subPipe \in [Server -> Seq(Command)]
    /\ subs \in [Server -> SUBSET User]
    /\ observing \in [Server -> BOOLEAN]
    /\ resetting \in [Server -> {"no", "clear", "exit"}]
    /\ disturbed \subseteq User
    /\ misrouted \subseteq User
    /\ shared \subseteq Conn

Init ==
    /\ userState = [u \in User |-> "offline"]
    /\ userConnMap = [s \in Server |-> [u \in User |-> NoConn]]
    /\ home = [c \in Conn |-> NoServer]
    /\ alive = [c \in Conn |-> FALSE]
    /\ pc = [c \in Conn |-> "idle"]
    /\ user = [c \in Conn |-> NoUser]
    /\ subPipe = [s \in Server |-> <<>>]
    /\ subs = [s \in Server |-> {}]
    /\ observing = [s \in Server |-> TRUE]
    /\ resetting = [s \in Server |-> "no"]
    /\ disturbed = {}
    /\ misrouted = {}
    /\ shared = {}

\* UserModel::query, of which only the state is looked at, and updateState,
\* whose result no handler looks at: every handler goes on as if the
\* statement had been executed.
IsOnline(u) == userState[u] = "online"
UpdateState(u, state) ==
    \/ /\ userState' = [userState EXCEPT ![u] = state]
       /\ UNCHANGED disturbed
    \/ /\ "database" \in Faults
       /\ disturbed' = disturbed \cup {u}
       /\ UNCHANGED userState

At(c, phase) == home[c] \in Server /\ pc[c] = phase
Goto(c, phase) == pc' = [pc EXCEPT ![c] = phase]

-----------------------------------------------------------------------------
(* Clients and the load balancer.                                          *)

InNoMap(c) == \A s \in Server, u \in User : userConnMap[s][u] # c

\* A slot is free for a new TcpConnection when no map keeps the old one.
Connect(c, s) ==
    /\ home[c] = NoServer /\ InNoMap(c)
    /\ home' = [home EXCEPT ![c] = s]
    /\ alive' = [alive EXCEPT ![c] = TRUE]
    /\ shared' = shared \ {c}
    /\ UNCHANGED <<stateVars, pc, user, redisVars, resetting, disturbed, misrouted>>

\* The client exits or its network fails; the server learns of it later.
ClientCloses(c) ==
    /\ alive[c]
    /\ alive' = [alive EXCEPT ![c] = FALSE]
    /\ UNCHANGED <<stateVars, home, pc, user, redisVars, resetting, historyVars>>

-----------------------------------------------------------------------------
(* redis::subscribe and redis::unsubscribe.  Both append the command to    *)
(* the output buffer of _subcribe_context and flush it, from any loop       *)
(* thread, while the observer thread, which the first request starts,       *)
(* flushes the same buffer after every reply it reads.  Nothing locks the   *)
(* context, so a command may be lost (or sent twice, which Redis ignores),  *)
(* and a command may be garbled, which ends the connection or the process.  *)
(* On a context that has seen an error both return false, which no handler  *)
(* looks at.                                                                *)

SendCommand(c, cmd) ==
    \/ /\ observing[home[c]]
       /\ Len(subPipe[home[c]]) < PipeMax
       /\ subPipe' = [subPipe EXCEPT ![home[c]] =
                         Append(@, [cmd |-> cmd, channel |-> user[c]])]
       /\ UNCHANGED misrouted
    \/ /\ ~observing[home[c]] \/ "race" \in Faults
       /\ misrouted' = misrouted \cup ({user[c]} \ {NoUser})
       /\ UNCHANGED subPipe

\* Redis executes the oldest command of a process.
RedisExecutes(s) ==
    /\ subPipe[s] # <<>>
    /\ LET command == Head(subPipe[s])
       IN  subs' = [subs EXCEPT ![s] =
                       IF command.cmd = "SUBSCRIBE" THEN @ \cup {command.channel}
                                                    ELSE @ \ {command.channel}]
    /\ subPipe' = [subPipe EXCEPT ![s] = Tail(@)]
    /\ UNCHANGED <<stateVars, connVars, observing, resetting, historyVars>>

SessionUsers(conns) == {user[c] : c \in conns} \ {NoUser}

\* The loop of observer_channel_message ends with the first error of the
\* connection, and nothing connects again or starts another thread: until the
\* process is replaced it subscribes to nothing.
ObserverEnds(s) ==
    /\ Faults \cap {"link", "race"} # {}
    /\ observing[s]
    /\ observing' = [observing EXCEPT ![s] = FALSE]
    /\ subPipe' = [subPipe EXCEPT ![s] = <<>>]
    /\ subs' = [subs EXCEPT ![s] = {}]
    /\ misrouted' = misrouted \cup SessionUsers({c \in Conn : home[c] = s})
    /\ UNCHANGED <<stateVars, connVars, resetting, disturbed, shared>>

-----------------------------------------------------------------------------
(* ChatService::login, after the password matched.                         *)

HasSession(u) == \E d \in Conn : user[d] = u
HasLeftover(u) ==
    \E s \in Server : \/ u \in subs[s]
                      \/ \E i \in DOMAIN subPipe[s] : subPipe[s][i].channel = u

\* The users a connection stands for: the one of its session, and those whose
\* entry in a map it is.
Holders(c) ==
    {u \in User : user[c] = u \/ \E s \in Server : userConnMap[s][u] = c}

\* UserModel::query found the user offline, so the login goes ahead, whatever
\* the connection serves already.
LoginQuery(c, u) ==
    LET others == Holders(c) \ {u}
    IN  /\ At(c, "idle") /\ alive[c]
        /\ ~IsOnline(u)
        /\ Goto(c, "insert")
        /\ user' = [user EXCEPT ![c] = u]
        /\ disturbed' = disturbed \cup others
                          \cup (IF HasSession(u) \/ others # {} THEN {u} ELSE {})
        /\ misrouted' = IF HasLeftover(u) THEN misrouted \cup {u} ELSE misrouted
        /\ shared' = IF others # {} THEN shared \cup {c} ELSE shared \ {c}
        /\ UNCHANGED <<stateVars, home, alive, redisVars, resetting>>

\* unordered_map::insert keeps an entry that is already there.
LoginInsert(c) ==
    /\ At(c, "insert")
    /\ userConnMap' = [userConnMap EXCEPT ![home[c]][user[c]] =
                          IF @ = NoConn THEN c ELSE @]
    /\ Goto(c, "subscribe")
    /\ UNCHANGED <<userState, home, alive, user, redisVars, resetting, historyVars>>

LoginSubscribe(c) ==
    /\ At(c, "subscribe")
    /\ SendCommand(c, "SUBSCRIBE")
    /\ Goto(c, "setOnline")
    /\ UNCHANGED <<stateVars, home, alive, user, subs, observing, resetting, disturbed,
                   shared>>

LoginSetOnline(c) ==
    /\ At(c, "setOnline")
    /\ UpdateState(user[c], "online")
    /\ Goto(c, "deliver")
    /\ UNCHANGED <<userConnMap, home, alive, user, redisVars, resetting, misrouted, shared>>

\* The offline messages, friends and groups are read and sent to the client.
LoginReply(c) ==
    /\ At(c, "deliver")
    /\ Goto(c, "idle")
    /\ UNCHANGED <<stateVars, home, alive, user, redisVars, resetting, historyVars>>

-----------------------------------------------------------------------------
(* ChatService::loginout.                                                  *)

LogoutSetOffline(c) ==
    /\ At(c, "idle") /\ alive[c] /\ user[c] # NoUser
    /\ UpdateState(user[c], "offline")
    /\ Goto(c, "logoutErase")
    /\ UNCHANGED <<userConnMap, home, alive, user, redisVars, resetting, misrouted, shared>>

\* A bug to catch: the logout that forgets the map.
LogoutKeepsEntry(c) ==
    /\ At(c, "logoutErase")
    /\ Goto(c, "logoutUnsubscribe")
    /\ UNCHANGED <<stateVars, home, alive, user, redisVars, resetting, historyVars>>

\* The entry is erased by id, whichever connection it holds.
LogoutErase(c) ==
    /\ At(c, "logoutErase")
    /\ userConnMap' = [userConnMap EXCEPT ![home[c]][user[c]] = NoConn]
    /\ Goto(c, "logoutUnsubscribe")
    /\ UNCHANGED <<userState, home, alive, user, redisVars, resetting, historyVars>>

LogoutUnsubscribe(c) ==
    /\ At(c, "logoutUnsubscribe")
    /\ SendCommand(c, "UNSUBSCRIBE")
    /\ Goto(c, "idle")
    /\ user' = [user EXCEPT ![c] = NoUser]
    /\ UNCHANGED <<stateVars, home, alive, subs, observing, resetting, disturbed, shared>>

-----------------------------------------------------------------------------
(* ChatServer::onConnection and ChatService::clientCloseException.         *)

Release(c) ==
    /\ home' = [home EXCEPT ![c] = NoServer]
    /\ user' = [user EXCEPT ![c] = NoUser]
    /\ Goto(c, "idle")

\* The connection is found in the map of its process, which gives the user;
\* of several entries the first one that the scan meets, and only that, is
\* erased.
CloseFound(c) ==
    \E u \in User :
        /\ userConnMap[home[c]][u] = c
        /\ userConnMap' = [userConnMap EXCEPT ![home[c]][u] = NoConn]
        /\ user' = [user EXCEPT ![c] = u]

\* It is not found: the handler goes on for user 0.
CloseNotFound(c) ==
    /\ \A u \in User : userConnMap[home[c]][u] # c
    /\ user' = [user EXCEPT ![c] = NoUser]
    /\ UNCHANGED userConnMap

\* A bug to catch: waiting for an entry.
CloseOnlyFound(c) ==
    /\ At(c, "idle") /\ ~alive[c]
    /\ CloseFound(c)
    /\ Goto(c, "closeUnsubscribe")
    /\ UNCHANGED <<userState, home, alive, redisVars, resetting, historyVars>>

\* The close callback runs once no handler of the connection does.
CloseErase(c) ==
    /\ At(c, "idle") /\ ~alive[c]
    /\ CloseFound(c) \/ CloseNotFound(c)
    /\ Goto(c, "closeUnsubscribe")
    /\ UNCHANGED <<userState, home, alive, redisVars, resetting, historyVars>>

\* Only a user who was found is set offline.
CloseGoesOn(c) ==
    \/ /\ user[c] # NoUser
       /\ Goto(c, "closeSetOffline")
       /\ UNCHANGED <<home, user>>
    \/ /\ user[c] = NoUser
       /\ Release(c)

\* Two bugs to catch: the close that leaves the subscription, and the one that
\* goes on for user 0.
CloseKeepsSubscription(c) ==
    /\ At(c, "closeUnsubscribe")
    /\ CloseGoesOn(c)
    /\ UNCHANGED <<stateVars, alive, redisVars, resetting, historyVars>>

CloseForNobody(c) ==
    /\ At(c, "closeUnsubscribe")
    /\ SendCommand(c, "UNSUBSCRIBE")
    /\ Goto(c, "closeSetOffline")
    /\ UNCHANGED <<stateVars, home, alive, user, subs, observing, resetting, disturbed,
                   shared>>

\* UNSUBSCRIBE is sent for channel 0 too.
CloseUnsubscribe(c) ==
    /\ At(c, "closeUnsubscribe")
    /\ SendCommand(c, "UNSUBSCRIBE")
    /\ CloseGoesOn(c)
    /\ UNCHANGED <<stateVars, alive, subs, observing, resetting, disturbed, shared>>

\* A bug to catch: the close that leaves the user online.
CloseKeepsOnline(c) ==
    /\ At(c, "closeSetOffline")
    /\ Release(c)
    /\ UNCHANGED <<stateVars, alive, redisVars, resetting, historyVars>>

CloseSetOffline(c) ==
    /\ At(c, "closeSetOffline")
    /\ UpdateState(user[c], "offline")
    /\ Release(c)
    /\ UNCHANGED <<userConnMap, alive, redisVars, resetting, misrouted, shared>>

-----------------------------------------------------------------------------
(* The end of a process: its memory, its connections and its subscriptions *)
(* go with it, and a new process takes its place.                          *)

ProcessEnds(s) ==
    LET dropped == {c \in Conn : home[c] = s}
    IN  /\ userConnMap' = [userConnMap EXCEPT ![s] = [u \in User |-> NoConn]]
        /\ home' = [c \in Conn |-> IF c \in dropped THEN NoServer ELSE home[c]]
        /\ alive' = [c \in Conn |-> IF c \in dropped THEN FALSE ELSE alive[c]]
        /\ pc' = [c \in Conn |-> IF c \in dropped THEN "idle" ELSE pc[c]]
        /\ user' = [c \in Conn |-> IF c \in dropped THEN NoUser ELSE user[c]]
        /\ subPipe' = [subPipe EXCEPT ![s] = <<>>]
        /\ subs' = [subs EXCEPT ![s] = {}]
        /\ observing' = [observing EXCEPT ![s] = TRUE]
        /\ resetting' = [resetting EXCEPT ![s] = "no"]
        /\ disturbed' = disturbed \cup SessionUsers(dropped)
        /\ UNCHANGED <<userState, misrouted, shared>>

\* A process dies by itself, or by what the race leaves in the context.
Crash(s) == Faults \cap {"crash", "race"} # {} /\ ProcessEnds(s)

\* SIGINT, handled by the main thread while the loop threads go on.
\* UserModel::resetState makes every online user offline, the users of the
\* other processes too, unless the statement fails.
ResetState(s) ==
    /\ "reset" \in Faults /\ resetting[s] = "no"
    /\ \/ userState' = [u \in User |-> "offline"]
       \/ "database" \in Faults /\ UNCHANGED userState
    /\ resetting' = [resetting EXCEPT ![s] = "clear"]
    /\ disturbed' = disturbed \cup SessionUsers(Conn)
    /\ UNCHANGED <<userConnMap, connVars, redisVars, misrouted, shared>>

ResetClear(s) ==
    /\ resetting[s] = "clear"
    /\ userConnMap' = [userConnMap EXCEPT ![s] = [u \in User |-> NoConn]]
    /\ resetting' = [resetting EXCEPT ![s] = "exit"]
    /\ disturbed' = disturbed \cup SessionUsers({c \in Conn : home[c] = s})
    /\ UNCHANGED <<userState, connVars, redisVars, misrouted, shared>>

ResetExit(s) == resetting[s] = "exit" /\ ProcessEnds(s)

-----------------------------------------------------------------------------
HandlerStep(c) ==
    \/ LoginInsert(c) \/ LoginSubscribe(c) \/ LoginSetOnline(c) \/ LoginReply(c)
    \/ LogoutErase(c) \/ LogoutUnsubscribe(c)
    \/ CloseErase(c) \/ CloseUnsubscribe(c) \/ CloseSetOffline(c)

Next ==
    \/ \E c \in Conn :
        \/ \E s \in Server : Connect(c, s)
        \/ ClientCloses(c)
        \/ \E u \in User : LoginQuery(c, u)
        \/ LogoutSetOffline(c)
        \/ HandlerStep(c)
    \/ \E s \in Server :
        \/ RedisExecutes(s) \/ ObserverEnds(s) \/ Crash(s)
        \/ ResetState(s) \/ ResetClear(s) \/ ResetExit(s)

Spec == Init /\ [][Next]_vars

\* A handler that has started runs on, Redis reads its sockets, and reset()
\* reaches exit; nobody has to connect, log in, log out or crash.  A thread
\* that is blocked in write() because the socket is full gets its turn: the
\* kernel wakes the writers of a socket in the order they wait.
BlockingStep(c) ==
    LoginSubscribe(c) \/ LogoutUnsubscribe(c) \/ CloseUnsubscribe(c)

Fairness ==
    /\ \A c \in Conn : WF_vars(HandlerStep(c)) /\ SF_vars(BlockingStep(c))
    /\ \A s \in Server : /\ WF_vars(RedisExecutes(s))
                         /\ WF_vars(ResetClear(s) \/ ResetExit(s))

FairSpec == Spec /\ Fairness

-----------------------------------------------------------------------------
(* Properties.                                                             *)

\* The phases in which the handler of a connection has passed its erase.
Erased == {"logoutUnsubscribe", "closeUnsubscribe", "closeSetOffline"}

\* Every entry of _userConnMap, on every process and in every interleaving,
\* holds a connection that this process serves, whose session is that of the
\* user of the entry and whose logout or close handler has not passed its
\* erase: no handler sends to a connection that is gone or another user's, and
\* loginout may erase by id.  There is one exception, a connection that logged
\* in while it stood for another user: it may have several entries, of which
\* the close handler finds one, and the others then hold a dead connection;
\* but never one that another process serves.
MapEntryOwned ==
    \A s \in Server, u \in User :
        LET c == userConnMap[s][u]
        IN  c # NoConn =>
                IF c \in shared THEN home[c] \in {s, NoServer}
                ELSE home[c] = s /\ user[c] = u /\ pc[c] \notin Erased

\* The database and the maps agree.  A user whose sessions never overlapped,
\* never shared a connection with another user's and never lost a process or an
\* UPDATE, whatever happens to Redis, is shown online, and is in the map of the
\* process that serves the session, once it is established; with no session
\* the user is shown offline and is in no map, so the next login and the next
\* sender find what is true.
PresenceAgrees ==
    \A u \in User \ disturbed :
        /\ \A c \in Conn : user[c] = u /\ pc[c] = "idle" =>
               /\ userState[u] = "online"
               /\ \A s \in Server :
                      userConnMap[s][u] = IF s = home[c] THEN c ELSE NoConn
        /\ ~HasSession(u) =>
               /\ userState[u] = "offline"
               /\ \A s \in Server : userConnMap[s][u] = NoConn

\* What the handlers of other users can see of a user.
Where(u) == {s \in Server : userConnMap[s][u] # NoConn}
SeenOf(u) == IF u \in disturbed THEN [state |-> "void", places |-> {}]
                                ELSE [state |-> userState[u], places |-> Where(u)]

W == INSTANCE Whereabouts WITH Person <- User, Place <- Server,
                               seen <- [u \in User |-> SeenOf(u)]

\* Module Sessions implements module Whereabouts: in every interleaving a user
\* is registered with at most one process, is shown online only from the end of
\* a login to the start of a logout or the end of a close, and gets from one
\* process to another only by way of "offline and nowhere".
IsWhereabouts == W!Spec

Pending(s, u) == {i \in DOMAIN subPipe[s] : subPipe[s][i].channel = u}
Listens(s, u) == u \in subs[s] \/ Pending(s, u) # {}
Clean(u) == u \notin disturbed \cup misrouted

\* Redis agrees too.  For a user without overlapping sessions, lost processes
\* or lost commands, at most one process listens on the channel; when no
\* command is under way it listens exactly while the session is established,
\* so a published message reaches the one process that can deliver it.
SubscriptionAgrees ==
    \A u \in User : Clean(u) =>
        /\ \A s, t \in Server : Listens(s, u) /\ Listens(t, u) => s = t
        /\ \A c \in Conn : user[c] = u /\ pc[c] = "idle" /\ Pending(home[c], u) = {} =>
               u \in subs[home[c]]
        /\ \A s \in Server : ~HasSession(u) /\ Pending(s, u) = {} =>
               u \notin subs[s]

\* A connection the client has closed is released: the close handler is not
\* starved by the handler that was running and reaches its last call.
ClosedIsReleased ==
    \A c \in Conn : home[c] # NoServer /\ ~alive[c] ~> home[c] = NoServer

\* A user none of whose sessions has a client any more does not stay online
\* (which would refuse every later login), unless the sessions overlapped,
\* shared a connection, lost a process or lost an UPDATE; a broken connection
\* to Redis keeps nobody online.
AbandonedGoesOffline ==
    \A u \in User :
        (userState[u] = "online" /\ \A c \in Conn : user[c] = u => ~alive[c])
            ~> (userState[u] = "offline" \/ u \in disturbed)

\* What the reply of a refused login says (a user who is online is not to log
\* in again): no user has two established sessions.
NoRepeatedLogin ==
    \A c, d \in Conn : user[c] = user[d] /\ user[c] # NoUser
                        /\ pc[c] = "idle" /\ pc[d] = "idle" => c = d

\* Fail-over is invisible to the user: a user who is shown online although no
\* session is left will be able to log in again.
FailoverReadmits ==
    \A u \in User : (userState[u] = "online" /\ ~HasSession(u))
                        ~> userState[u] = "offline"

=============================================================================
