------------------------------ MODULE Delivery ------------------------------
(***************************************************************************)
(* What becomes of a message.  oneChat, groupChat and addFriend look for   *)
(* each receiver under _connMutex: a receiver in _userConnMap is sent the  *)
(* message; one whose state column says "online" gets it through Redis,    *)
(* whose observer thread looks in the map again on the other process; any  *)
(* other receiver gets a row of table OfflineMessage, which login reads    *)
(* and deletes.  The sessions are those of module Sessions; here they take *)
(* the mutex where the code does, and the reads of a login are split.      *)
(*                                                                         *)
(* A handler that holds the mutex excludes the others of its process, so   *)
(* the model may take the lock at the moment of the first read under it;   *)
(* the reads and writes under the lock that other processes can see (the   *)
(* state column, Redis, OfflineMessage) are separate steps.  A message is  *)
(* "handed" to a receiver when send() is called on a connection whose      *)
(* client is still there; what is sent to a client that is gone is lost.   *)
(***************************************************************************)
EXTENDS Sessions

CONSTANTS
    Traffic,    \* the messages the clients may send, once each
    NoMessage   \* "this handler carries no message", "this reply has no text"

\* How a message is sent: by oneChat, groupChat or addFriend.
Kind == {"one", "group", "friend"}

\* The receivers: the friend, the other rows of GroupUser, or the new friend.
ASSUME TrafficAssumption ==
    /\ \A m \in Traffic : /\ m.kind \in Kind
                          /\ m.from \in User
                          /\ m.to \in (SUBSET User) \ {{}}
                          /\ m.kind # "group" => \E u \in User : m.to = {u}
    /\ NoMessage \notin Traffic

VARIABLES
    connMutex,   \* _connMutex of each process: the connection that holds it
    step,        \* where a chat handler, or the end of a login, is
    message,     \* the message a chat handler carries
    todo,        \* the receivers the handler has not looked up yet
    target,      \* the receiver it looked up and did not find in the map
    rows,        \* the offline messages a login has read
    offlineMsg,  \* table OfflineMessage
    feed,        \* what Redis has pushed to a process and it has not handled
    publishing,  \* _publish_context of a process works
    handed,      \* how often each message was handed to each receiver
    posted,      \* the messages whose handler has started
    resent       \* history: users whose rows a failed DELETE has kept

handlerVars == <<step, message, todo, target, rows>>
mailVars == <<offlineMsg, feed, handed, posted, publishing, resent>>
dvars == <<vars, connMutex, handlerVars, mailVars>>

Step == {"none",
         "lookup", "publish", "store",   \* oneChat, groupChat, addFriend
         "remove", "reply"}              \* login, after the offline query

DTypeOK ==
    /\ connMutex \in [Server -> Conn \cup {NoConn}]
    /\ step \in [Conn -> Step]
    /\ message \in [Conn -> Traffic \cup {NoMessage}]
    /\ todo \in [Conn -> SUBSET User]
    /\ target \in [Conn -> User \cup {NoUser}]
    /\ rows \in [Conn -> SUBSET Traffic]
    /\ offlineMsg \in [User -> SUBSET Traffic]
    /\ feed \in [Server -> Seq([channel: User, message: Traffic])]
    /\ handed \in [User -> [Traffic -> Nat]]
    /\ publishing \in [Server -> BOOLEAN]
    /\ posted \subseteq Traffic
    /\ resent \subseteq User

DeliveryInit ==
    /\ connMutex = [s \in Server |-> NoConn]
    /\ step = [c \in Conn |-> "none"]
    /\ message = [c \in Conn |-> NoMessage]
    /\ todo = [c \in Conn |-> {}]
    /\ target = [c \in Conn |-> NoUser]
    /\ rows = [c \in Conn |-> {}]
    /\ offlineMsg = [u \in User |-> {}]
    /\ feed = [s \in Server |-> <<>>]
    /\ handed = [u \in User |-> [m \in Traffic |-> 0]]
    /\ publishing = [s \in Server |-> TRUE]
    /\ posted = {}
    /\ resent = {}

DInit == Init /\ DeliveryInit

Free(s) == connMutex[s] = NoConn

-----------------------------------------------------------------------------
(* oneChat, groupChat and addFriend.                                       *)

\* The handler has read its receivers (SearchFriend found the friend,
\* queryGroupUsers returned the members, or query found the new friend).
ChatStart(c, m) ==
    /\ At(c, "idle") /\ alive[c] /\ step[c] = "none"
    /\ user[c] = m.from /\ m \notin posted
    /\ posted' = posted \cup {m}
    /\ message' = [message EXCEPT ![c] = m]
    /\ todo' = [todo EXCEPT ![c] = m.to]
    /\ step' = [step EXCEPT ![c] = "lookup"]
    /\ UNCHANGED <<vars, connMutex, target, rows, offlineMsg, feed, handed, publishing, resent>>

\* A bug to catch: returning without unlocking the mutex.
ProceedLocked(c, rest) ==
    /\ todo' = [todo EXCEPT ![c] = rest]
    /\ target' = [target EXCEPT ![c] = NoUser]
    /\ step' = [step EXCEPT ![c] = IF rest = {} THEN "none" ELSE "lookup"]
    /\ message' = [message EXCEPT ![c] = IF rest = {} THEN NoMessage ELSE @]
    /\ connMutex' = [connMutex EXCEPT ![home[c]] = c]

\* The handler is done with a receiver: it returns when rest is empty, which
\* unlocks the mutex, and else keeps the mutex and takes the next one.
Proceed(c, rest) ==
    /\ todo' = [todo EXCEPT ![c] = rest]
    /\ target' = [target EXCEPT ![c] = NoUser]
    /\ step' = [step EXCEPT ![c] = IF rest = {} THEN "none" ELSE "lookup"]
    /\ message' = [message EXCEPT ![c] = IF rest = {} THEN NoMessage ELSE @]
    /\ connMutex' = [connMutex EXCEPT ![home[c]] = IF rest = {} THEN NoConn ELSE c]

\* send() on connection d of user u; bag counts what is sent.
Hand(u, d, bag) ==
    handed' = IF alive[d]
              THEN [handed EXCEPT ![u] = [m \in Traffic |-> @[m] + bag[m]]]
              ELSE handed

One(m) == [n \in Traffic |-> IF n = m THEN 1 ELSE 0]

\* A bug to catch: the new row takes the place of the others.
StoreReplaces(u, m) == offlineMsg' = [offlineMsg EXCEPT ![u] = {m}]

\* OfflineMsgModel::insert; no caller learns that the INSERT failed.
StoreOffline(u, m) ==
    \/ offlineMsg' = [offlineMsg EXCEPT ![u] = @ \cup {m}]
    \/ "database" \in Faults /\ UNCHANGED offlineMsg

\* The state UserModel::query returns: "offline" also when the query failed.
MayReadOffline(u) == ~IsOnline(u) \/ "database" \in Faults

\* Under the mutex: find the receiver in the map and, when it is not there,
\* read its state; addFriend does not read it.
ChatLookup(c) ==
    /\ step[c] = "lookup" /\ connMutex[home[c]] \in {NoConn, c}
    /\ \E u \in todo[c] :
        LET d == userConnMap[home[c]][u]
            rest == todo[c] \ {u}
        IN  \/ /\ d # NoConn
               /\ Hand(u, d, One(message[c]))
               /\ Proceed(c, rest)
            \/ /\ d = NoConn
               /\ connMutex' = [connMutex EXCEPT ![home[c]] = c]
               /\ target' = [target EXCEPT ![c] = u]
               /\ todo' = [todo EXCEPT ![c] = rest]
               /\ \/ /\ message[c].kind # "friend" /\ IsOnline(u)
                     /\ step' = [step EXCEPT ![c] = "publish"]
                  \/ /\ message[c].kind = "friend" \/ MayReadOffline(u)
                     /\ step' = [step EXCEPT ![c] = "store"]
               /\ UNCHANGED <<message, handed>>
    /\ UNCHANGED <<vars, rows, offlineMsg, feed, posted, publishing, resent>>

\* A bug to catch: the observer takes every reply for a message.
AnyReply(reply) == TRUE

\* What Redis sends to the observer thread is a message that was published, or
\* the reply to a (UN)SUBSCRIBE, whose third element is a number and no text.
HasText(reply) == reply.message # NoMessage

\* The loop of observer_channel_message hands on what has text and skips the
\* rest, so only a message waits to be handled.
Observed(queue, channel, m) ==
    LET reply == [channel |-> channel, message |-> m]
    IN  IF HasText(reply) THEN Append(queue, reply) ELSE queue

\* A bug to catch: publishing on the channel of the sender.
PublishToSender(c) ==
    /\ step[c] = "publish"
    /\ feed' = [s \in Server |->
                   IF publishing[home[c]] /\ user[c] \in subs[s]
                   THEN Observed(feed[s], user[c], message[c])
                   ELSE feed[s]]
    /\ Proceed(c, todo[c])
    /\ UNCHANGED <<vars, rows, offlineMsg, handed, posted, publishing, resent>>

\* PUBLISH pushes the message to the processes that are subscribed now; its
\* reply, the number of them, is not looked at, and neither is the result of
\* publish, which is false once the context has seen an error.
ChatPublish(c) ==
    /\ step[c] = "publish"
    /\ feed' = [s \in Server |->
                   IF publishing[home[c]] /\ target[c] \in subs[s]
                   THEN Observed(feed[s], target[c], message[c])
                   ELSE feed[s]]
    /\ Proceed(c, todo[c])
    /\ UNCHANGED <<vars, rows, offlineMsg, handed, posted, publishing, resent>>

ChatStore(c) ==
    /\ step[c] = "store"
    /\ StoreOffline(target[c], message[c])
    /\ Proceed(c, todo[c])
    /\ UNCHANGED <<vars, rows, feed, handed, posted, publishing, resent>>

-----------------------------------------------------------------------------
(* The observer thread: handleRedisSubscribeMessage, under the mutex.      *)

\* A bug to catch: dropping what the map has no receiver for.
ObserverDropsMiss(s) ==
    /\ feed[s] # <<>> /\ Free(s)
    /\ LET push == Head(feed[s])
           d == userConnMap[s][push.channel]
       IN  IF d # NoConn THEN Hand(push.channel, d, One(push.message))
                         ELSE UNCHANGED handed
    /\ feed' = [feed EXCEPT ![s] = Tail(@)]
    /\ UNCHANGED <<vars, connMutex, handlerVars, offlineMsg, posted, publishing, resent>>

ObserverHandle(s) ==
    /\ feed[s] # <<>> /\ Free(s)
    /\ LET push == Head(feed[s])
           d == userConnMap[s][push.channel]
       IN  \/ /\ d # NoConn
              /\ Hand(push.channel, d, One(push.message))
              /\ UNCHANGED offlineMsg
           \/ /\ d = NoConn
              /\ StoreOffline(push.channel, push.message)
              /\ UNCHANGED handed
    /\ feed' = [feed EXCEPT ![s] = Tail(@)]
    /\ UNCHANGED <<vars, connMutex, handlerVars, posted, publishing, resent>>

-----------------------------------------------------------------------------
(* The end of login: OfflineMsgModel::query and remove, and the reply.     *)

\* A query that fails returns no rows.
OfflineQuery(c) ==
    /\ At(c, "deliver") /\ step[c] = "none"
    /\ \E found \in {offlineMsg[user[c]]} \cup (IF "database" \in Faults THEN {{}} ELSE {}) :
        /\ rows' = [rows EXCEPT ![c] = found]
        /\ step' = [step EXCEPT ![c] = IF found = {} THEN "reply" ELSE "remove"]
    /\ UNCHANGED <<vars, connMutex, message, todo, target, mailVars>>

\* A bug to catch: the rows stay in the table.
OfflineKept(c) ==
    /\ step[c] = "remove"
    /\ step' = [step EXCEPT ![c] = "reply"]
    /\ UNCHANGED <<vars, connMutex, message, todo, target, rows, mailVars>>

\* DELETE ... WHERE userid: every row of the user.  The reply is sent even if
\* it failed, and the next login sends the same rows again.
OfflineRemove(c) ==
    /\ step[c] = "remove"
    /\ \/ /\ offlineMsg' = [offlineMsg EXCEPT ![user[c]] = {}]
          /\ UNCHANGED resent
       \/ /\ "database" \in Faults
          /\ resent' = resent \cup {user[c]}
          /\ UNCHANGED offlineMsg
    /\ step' = [step EXCEPT ![c] = "reply"]
    /\ UNCHANGED <<vars, connMutex, message, todo, target, rows, feed, handed, posted,
                   publishing>>

OfflineReply(c) ==
    /\ step[c] = "reply"
    /\ LoginReply(c)
    /\ Hand(user[c], c, [m \in Traffic |-> IF m \in rows[c] THEN 1 ELSE 0])
    /\ rows' = [rows EXCEPT ![c] = {}]
    /\ step' = [step EXCEPT ![c] = "none"]
    /\ UNCHANGED <<connMutex, message, todo, target, offlineMsg, feed, posted, publishing, resent>>

-----------------------------------------------------------------------------
(* The steps of the sessions.  The ones that touch the map take the mutex, *)
(* and a connection runs one handler at a time.                            *)

UnlockedStep(c) ==
    \/ \E s \in Server : Connect(c, s)
    \/ ClientCloses(c)
    \/ LoginSubscribe(c) \/ LoginSetOnline(c)
    \/ LogoutUnsubscribe(c) \/ CloseUnsubscribe(c) \/ CloseSetOffline(c)
    \/ step[c] = "none" /\ (LogoutSetOffline(c) \/ \E u \in User : LoginQuery(c, u))

\* A bug to catch: login inserts its connection without the mutex.
UnlockedInsert(c) ==
    /\ home[c] # NoServer
    /\ \/ LoginInsert(c)
       \/ Free(home[c]) /\ (LogoutErase(c) \/ (step[c] = "none" /\ CloseErase(c)))

LockedStep(c) ==
    /\ home[c] # NoServer /\ Free(home[c])
    /\ LoginInsert(c) \/ LogoutErase(c) \/ (step[c] = "none" /\ CloseErase(c))

SessionStep(c) ==
    /\ UnlockedStep(c) \/ LockedStep(c)
    /\ UNCHANGED <<connMutex, handlerVars, mailVars>>

\* A process ends with its mutex, its handlers and what Redis pushed to it.
ProcessLost(s) ==
    LET Lost(f, v) == [c \in Conn |-> IF home[c] = s THEN v ELSE f[c]]
    IN  /\ Crash(s) \/ ResetExit(s)
        /\ connMutex' = [connMutex EXCEPT ![s] = NoConn]
        /\ feed' = [feed EXCEPT ![s] = <<>>]
        /\ publishing' = [publishing EXCEPT ![s] = TRUE]
        /\ step' = Lost(step, "none")
        /\ message' = Lost(message, NoMessage)
        /\ todo' = Lost(todo, {})
        /\ target' = Lost(target, NoUser)
        /\ rows' = Lost(rows, {})
        /\ UNCHANGED <<offlineMsg, handed, posted, resent>>

\* Redis executes a command and replies to it, with the channel.
RedisReplies(s) ==
    /\ RedisExecutes(s)
    /\ feed' = [feed EXCEPT ![s] = Observed(@, Head(subPipe[s]).channel, NoMessage)]
    /\ UNCHANGED <<connMutex, handlerVars, offlineMsg, handed, posted, publishing, resent>>

\* SIGINT; reset() takes the mutex to clear the map.
ResetStep(s) ==
    /\ ResetState(s) \/ (Free(s) /\ ResetClear(s))
    /\ UNCHANGED <<connMutex, handlerVars, mailVars>>

\* The connection the observer thread reads breaks.  The thread still handles
\* what had reached it; what Redis had pushed after that is gone.
FeedBreaks(s) ==
    /\ ObserverEnds(s)
    /\ \E n \in 0..Len(feed[s]) : feed' = [feed EXCEPT ![s] = SubSeq(@, 1, n)]
    /\ UNCHANGED <<connMutex, handlerVars, offlineMsg, handed, posted, publishing, resent>>

\* The connection for PUBLISH breaks: nothing connects it again.
PublishBreaks(s) ==
    /\ "link" \in Faults /\ publishing[s]
    /\ publishing' = [publishing EXCEPT ![s] = FALSE]
    /\ UNCHANGED <<vars, connMutex, handlerVars, offlineMsg, feed, handed, posted, resent>>

ChatStep(c) == ChatLookup(c) \/ ChatPublish(c) \/ ChatStore(c)
OfflineStep(c) == OfflineQuery(c) \/ OfflineRemove(c) \/ OfflineReply(c)

DNext ==
    \/ \E c \in Conn :
        \/ \E m \in Traffic : ChatStart(c, m)
        \/ ChatStep(c) \/ OfflineStep(c) \/ SessionStep(c)
    \/ \E s \in Server :
        \/ ObserverHandle(s) \/ ProcessLost(s) \/ RedisReplies(s)
        \/ ResetStep(s) \/ FeedBreaks(s) \/ PublishBreaks(s)

DSpec == DInit /\ [][DNext]_dvars

\* Handlers run on and the observer thread handles what it was pushed.  Weak
\* fairness is enough for the mutex because each message is sent once: in the
\* end no handler takes the mutex from a waiting one.
DFairness ==
    /\ \A c \in Conn : WF_dvars(ChatStep(c)) /\ WF_dvars(OfflineStep(c))
    /\ \A s \in Server : WF_dvars(ObserverHandle(s))

-----------------------------------------------------------------------------
(* Properties.                                                             *)

\* Between the lookup of a receiver and the PUBLISH or INSERT that follows
\* from it, the receiver does not enter the map of this process, and the
\* mutex is still held: the decision to go through Redis or the database is
\* not overtaken by a login in another loop thread, and no two threads of a
\* process use _publish_context at a time.
DecisionStillHolds ==
    \A c \in Conn : step[c] \in {"publish", "store"} =>
        /\ connMutex[home[c]] = c
        /\ userConnMap[home[c]][target[c]] = NoConn

\* The copies of a message for a receiver: in a chat handler, in what Redis
\* pushed, in the table unless a login has read the row and is about to
\* delete it, in the reply of a login, and handed over.
Carries(c, m, u) == message[c] = m /\ (u \in todo[c] \/ target[c] = u)
Pushed(m, u) ==
    UNION {{<<s, i>> : i \in {j \in DOMAIN feed[s] :
                                 feed[s][j] = [channel |-> u, message |-> m]}} :
           s \in Server}
Reading(c, m, u) == user[c] = u /\ m \in rows[c]
Stored(m, u) == m \in offlineMsg[u] /\ ~\E c \in Conn : Reading(c, m, u)

Copies(m, u) ==
    Cardinality({c \in Conn : Carries(c, m, u)}) + Cardinality(Pushed(m, u))
    + (IF Stored(m, u) THEN 1 ELSE 0) + Cardinality({c \in Conn : Reading(c, m, u)})
    + handed[u][m]

\* No message is doubled: for a receiver without overlapping sessions, lost
\* processes, lost commands or kept rows there is never more than one copy of a
\* message, in the handlers, in Redis, in the database and at the client
\* together.
NoDuplicates ==
    \A m \in Traffic : \A u \in m.to : Clean(u) /\ u \notin resent => Copies(m, u) <= 1

\* Where a message is, for one receiver and for the sender.
PlaceOf(m, u) ==
    LET copies == Copies(m, u)
    IN  IF ~Clean(u) \/ u \in resent THEN "void"
        ELSE IF copies > 1 THEN "doubled"
        ELSE IF copies = 0 THEN IF m \in posted THEN "lost" ELSE "unsent"
        ELSE IF handed[u][m] = 1 THEN "delivered"
        ELSE IF Stored(m, u) THEN "stored" ELSE "underway"

Items == UNION {{<<m, u>> : u \in m.to} : m \in Traffic}

\* A login of u has read the offline messages and is about to delete them.
Fetching(u) ==
    Clean(u) /\ u \notin resent /\ \E c \in Conn : user[c] = u /\ step[c] = "remove"

M == INSTANCE Mailbox WITH Receiver <- User, Item <- Items,
                           place <- [i \in Items |-> PlaceOf(i[1], i[2])],
                           fetching <- {u \in User : Fetching(u)}

\* Module Delivery implements module Mailbox: whatever the interleaving of the
\* threads, processes and logins, a message for a receiver to whom something is
\* promised is in one place at a time, never comes back once it is delivered or
\* lost, and leaves the table only through a login of its receiver: the query
\* takes every row there is, and the DELETE drops those, and only those, that
\* came after the query.
IsMailbox == M!Spec

\* The sessions of a user are at rest: the user has none, or an established
\* one whose client is there and whose SUBSCRIBE has reached Redis.
Steady(u) ==
    \/ ~HasSession(u)
    \/ \E c \in Conn : /\ user[c] = u /\ pc[c] = "idle" /\ alive[c]
                       /\ Pending(home[c], u) = {}

StaleRead(u) ==
    \E c \in Conn : step[c] = "publish" /\ target[c] = u /\ ~IsOnline(u)

\* A sender publishes through a connection that is gone, or the INSERT of the
\* message fails, in a chat handler or the observer thread.
DeadPublish(u) ==
    \E c \in Conn : step[c] = "publish" /\ target[c] = u /\ ~publishing[home[c]]
FailedInsert(u) ==
    /\ "database" \in Faults /\ UNCHANGED offlineMsg
    /\ \/ \E c \in Conn : step[c] = "store" /\ target[c] = u
       \/ \E s \in Server : feed[s] # <<>> /\ Head(feed[s]).channel = u

\* The last copy of a message for a receiver without overlapping sessions,
\* lost processes or lost commands disappears only while a session of the
\* receiver is being set up or torn down, when a sender acts on a state it
\* read before the receiver logged out, with a process or a connection to
\* Redis, or with an INSERT that failed.
LossOnlyInWindows ==
    [][\A m \in posted : \A u \in m.to :
           Clean(u) /\ Copies(m, u)' = 0 /\ Copies(m, u) > 0 =>
               \/ ~Steady(u)
               \/ StaleRead(u)
               \/ DeadPublish(u)
               \/ FailedInsert(u)
               \/ \E s \in Server : Crash(s) \/ ResetExit(s) \/ ObserverEnds(s)]_dvars

\* A message does not stay in a chat handler or in the feed of a process: it
\* is handed over, stored, or lost; no handler waits for the mutex forever.
TransitEnds ==
    \A m \in Traffic : \A u \in m.to :
        LET inTransit == Pushed(m, u) # {} \/ \E c \in Conn : Carries(c, m, u)
        IN  inTransit ~> ~inTransit

\* What the documentation promises (reliable messages, complete storing and
\* forwarding of offline messages): a message that was sent is in a handler,
\* in Redis, in the database or at the client.
MessagesAreReliable ==
    \A m \in posted : \A u \in m.to : Copies(m, u) > 0

=============================================================================
