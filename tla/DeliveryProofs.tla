--------------------------- MODULE DeliveryProofs ---------------------------
(***************************************************************************)
(* Proofs about module Delivery, for every number of processes, users and  *)
(* connections, all Traffic and every set of Faults:                       *)
(*    DeliveryRefines     DSpec => Spec                                    *)
(*    DTypesHold          DSpec => []DTypeOK                               *)
(*    DecisionsHold       DSpec => []DecisionStillHolds                    *)
(*    NoMessageDoubled    DSpec => []NoDuplicates                          *)
(*    MailboxImplemented  DSpec => IsMailbox                               *)
(*    LossesExplained     DSpec => LossOnlyInWindows                       *)
(* The first one carries what is proved about the sessions over to the     *)
(* detailed module.  The next two need Handling, which ties the place a    *)
(* chat handler or a login is at to the phase of the session: as long as a *)
(* handler runs, no other handler of its connection starts, so its process *)
(* stays the same, and with it the mutex and the map it looked at.         *)
(* NoDuplicates counts; ItemInv, further down, says instead which of the   *)
(* places of a copy exclude each other.  What Redis pushes has at most one *)
(* copy because at most one process listens and what a login reads has one *)
(* because a user has one session (both in SessionsProofs), and a handler  *)
(* has one because it starts once for a message.                           *)
(***************************************************************************)
EXTENDS Delivery, SessionsProofs, FiniteSetTheorems

ChatSteps == {"lookup", "publish", "store"}
LoginSteps == {"remove", "reply"}

Handling ==
    \A c \in Conn :
        /\ step[c] \in ChatSteps =>
               pc[c] = "idle" /\ home[c] \in Server /\ message[c] \in Traffic
        /\ step[c] \in LoginSteps => pc[c] = "deliver" /\ home[c] \in Server
        /\ step[c] \in {"publish", "store"} => target[c] \in User

DInv ==
    /\ TypeOK
    /\ Placed
    /\ DTypeOK
    /\ Handling
    /\ DecisionStillHolds

-----------------------------------------------------------------------------
(* The sessions.                                                           *)

\* Every step is a step of the sessions or none.
LEMMA StepRefines == [DNext]_dvars => [Next]_vars
<1> SUFFICES ASSUME [DNext]_dvars PROVE [Next]_vars
  OBVIOUS
<1>1. ASSUME NEW c \in Conn, NEW m \in Traffic, ChatStart(c, m)
      PROVE  UNCHANGED vars
  BY <1>1 DEF ChatStart
<1>2. ASSUME NEW c \in Conn, ChatStep(c)
      PROVE  UNCHANGED vars
  BY <1>2 DEF ChatStep, ChatLookup, ChatPublish, ChatStore
<1>3. ASSUME NEW c \in Conn, OfflineStep(c)
      PROVE  [Next]_vars
  BY <1>3 DEF OfflineStep, OfflineQuery, OfflineRemove, OfflineReply, Next, HandlerStep
<1>4. ASSUME NEW c \in Conn, SessionStep(c)
      PROVE  [Next]_vars
  BY <1>4 DEF SessionStep, UnlockedStep, LockedStep, Next, HandlerStep
<1>5. ASSUME NEW s \in Server, ObserverHandle(s) \/ PublishBreaks(s)
      PROVE  UNCHANGED vars
  BY <1>5 DEF ObserverHandle, PublishBreaks
<1>6. ASSUME NEW s \in Server,
             ProcessLost(s) \/ RedisReplies(s) \/ ResetStep(s) \/ FeedBreaks(s)
      PROVE  [Next]_vars
  BY <1>6 DEF ProcessLost, RedisReplies, ResetStep, FeedBreaks, Next
<1>7. CASE UNCHANGED dvars
  BY <1>7 DEF dvars
<1> QED
  BY <1>1, <1>2, <1>3, <1>4, <1>5, <1>6, <1>7 DEF DNext

\* The messages, the mutex and the reads of a login leave the sessions as
\* module Sessions describes them.
THEOREM DeliveryRefines == DSpec => Spec
<1>1. DInit => Init
  BY DEF DInit
<1> QED
  BY <1>1, StepRefines, PTL DEF DSpec, Spec

\* So what a handler finds in the map of its process, under the mutex or not,
\* is a connection of this process that is the receiver's own, or one on which
\* several users logged in, which may be gone but is never another process's.
THEOREM DeliveryEntriesOwned == DSpec => []MapEntryOwned
BY DeliveryRefines, EntriesOwned, PTL

\* And a receiver who is shown online and is undisturbed is, for all chat
\* handlers, at the one process that serves the session.
THEOREM DeliveryPresence == DSpec => []PresenceAgrees
BY DeliveryRefines, PresenceHolds, PTL

-----------------------------------------------------------------------------
(* Types.                                                                  *)

\* send() keeps the counts.
LEMMA HandTypes ==
    ASSUME handed \in [User -> [Traffic -> Nat]], NEW u \in User, NEW d,
           NEW bag \in [Traffic -> Nat], Hand(u, d, bag)
    PROVE  handed' \in [User -> [Traffic -> Nat]]
<1>1. [m \in Traffic |-> handed[u][m] + bag[m]] \in [Traffic -> Nat]
  OBVIOUS
<1> QED
  BY <1>1 DEF Hand

\* An INSERT, done or not, keeps the table.
LEMMA StoreTypes ==
    ASSUME offlineMsg \in [User -> SUBSET Traffic], NEW u \in User, NEW m \in Traffic,
           StoreOffline(u, m)
    PROVE  offlineMsg' \in [User -> SUBSET Traffic]
BY DEF StoreOffline

\* What was published passes the filter of the observer thread, a reply does not.
LEMMA ObservedText ==
    ASSUME NEW queue, NEW u, NEW m \in Traffic
    PROVE  Observed(queue, u, m) = Append(queue, [channel |-> u, message |-> m])
BY TrafficAssumption DEF Observed, HasText

LEMMA ObservedReply == \A queue, u : Observed(queue, u, NoMessage) = queue
BY DEF Observed, HasText

\* A handler that proceeds keeps its types, and if receivers are left it keeps
\* the message.
LEMMA ProceedTypes ==
    ASSUME DTypeOK, NEW c \in Conn, home[c] \in Server, NEW rest \in SUBSET User,
           Proceed(c, rest)
    PROVE  /\ connMutex' \in [Server -> Conn \cup {NoConn}]
           /\ step' \in [Conn -> Step]
           /\ message' \in [Conn -> Traffic \cup {NoMessage}]
           /\ todo' \in [Conn -> SUBSET User]
           /\ target' \in [Conn -> User \cup {NoUser}]
           /\ step'[c] \in {"none", "lookup"}
           /\ step'[c] = "lookup" => message'[c] = message[c]
           /\ \A d \in Conn \ {c} : step'[d] = step[d] /\ message'[d] = message[d]
                                      /\ target'[d] = target[d]
           /\ \A s \in Server \ {home[c]} : connMutex'[s] = connMutex[s]
BY DEF DTypeOK, Proceed, Step

\* A handler that proceeds keeps Handling and the decisions of the others, who
\* do not hold its mutex.
LEMMA ProceedKeeps ==
    ASSUME DInv, NEW c \in Conn, home[c] \in Server, NEW rest \in SUBSET User,
           step[c] \in ChatSteps, connMutex[home[c]] \in {NoConn, c},
           Proceed(c, rest), UNCHANGED vars
    PROVE  Handling' /\ DecisionStillHolds'
<1>0. UNCHANGED <<home, pc, userConnMap>>
  BY DEF vars, connVars, stateVars
<1>1. /\ step'[c] \in {"none", "lookup"}
      /\ step'[c] = "lookup" => message'[c] = message[c]
      /\ \A d \in Conn \ {c} : step'[d] = step[d] /\ message'[d] = message[d]
                                 /\ target'[d] = target[d]
      /\ \A s \in Server \ {home[c]} : connMutex'[s] = connMutex[s]
  BY ProceedTypes DEF DInv
<1>2. Handling'
  BY <1>0, <1>1 DEF DInv, Handling, ChatSteps, LoginSteps
<1>3. ASSUME NEW d \in Conn, step'[d] \in {"publish", "store"}
      PROVE  connMutex'[home[d]] = d /\ userConnMap[home[d]][target'[d]] = NoConn
  <2>1. d # c /\ step[d] = step'[d] /\ target'[d] = target[d]
    BY <1>1, <1>3
  <2>2. connMutex[home[d]] = d /\ userConnMap[home[d]][target[d]] = NoConn /\ home[d] \in Server
    BY <1>3, <2>1 DEF DInv, DecisionStillHolds, Handling, ChatSteps
  <2>3. home[d] # home[c]
    BY <2>1, <2>2, ConstantsAssumption
  <2> QED
    BY <1>1, <2>1, <2>2, <2>3
<1> QED
  BY <1>0, <1>2, <1>3 DEF DecisionStillHolds

\* A chat handler that looks a receiver up.
LEMMA LookupStep ==
    ASSUME DInv, NEW c \in Conn, ChatLookup(c)
    PROVE  DTypeOK' /\ Handling' /\ DecisionStillHolds'
<1>0. /\ step[c] = "lookup" /\ connMutex[home[c]] \in {NoConn, c} /\ home[c] \in Server
      /\ UNCHANGED vars /\ message[c] \in Traffic /\ pc[c] = "idle"
      /\ UNCHANGED <<rows, offlineMsg, feed, posted, publishing, resent>>
  BY DEF ChatLookup, DInv, Handling, ChatSteps
<1>1. PICK u \in todo[c] :
        LET d == userConnMap[home[c]][u]
            rest == todo[c] \ {u}
        IN  \/ d # NoConn /\ Hand(u, d, One(message[c])) /\ Proceed(c, rest)
            \/ /\ d = NoConn
               /\ connMutex' = [connMutex EXCEPT ![home[c]] = c]
               /\ target' = [target EXCEPT ![c] = u]
               /\ todo' = [todo EXCEPT ![c] = rest]
               /\ \E next \in {"publish", "store"} : step' = [step EXCEPT ![c] = next]
               /\ UNCHANGED <<message, handed>>
  BY DEF ChatLookup
<1>2. u \in User /\ todo[c] \ {u} \in SUBSET User
  BY DEF DInv, DTypeOK
<1>3. ASSUME Hand(u, userConnMap[home[c]][u], One(message[c])), Proceed(c, todo[c] \ {u})
      PROVE  DTypeOK' /\ Handling' /\ DecisionStillHolds'
  <2>1. handed' \in [User -> [Traffic -> Nat]]
    <3>1. One(message[c]) \in [Traffic -> Nat]
      BY DEF One
    <3> QED
      BY <1>2, <1>3, <3>1, HandTypes DEF DInv, DTypeOK
  <2>2. DTypeOK'
    <3>1. /\ connMutex' \in [Server -> Conn \cup {NoConn}]
          /\ step' \in [Conn -> Step]
          /\ message' \in [Conn -> Traffic \cup {NoMessage}]
          /\ todo' \in [Conn -> SUBSET User]
          /\ target' \in [Conn -> User \cup {NoUser}]
      BY <1>0, <1>2, <1>3, ProceedTypes DEF DInv
    <3> QED
      BY <1>0, <2>1, <3>1 DEF DInv, DTypeOK
  <2>3. Handling' /\ DecisionStillHolds'
    BY <1>0, <1>2, <1>3, ProceedKeeps DEF ChatSteps
  <2> QED
    BY <2>2, <2>3
<1>4. ASSUME userConnMap[home[c]][u] = NoConn,
             connMutex' = [connMutex EXCEPT ![home[c]] = c],
             target' = [target EXCEPT ![c] = u],
             todo' = [todo EXCEPT ![c] = todo[c] \ {u}],
             NEW next \in {"publish", "store"}, step' = [step EXCEPT ![c] = next],
             UNCHANGED <<message, handed>>
      PROVE  DTypeOK' /\ Handling' /\ DecisionStillHolds'
  <2>0. UNCHANGED <<home, pc, userConnMap>>
    BY <1>0 DEF vars, connVars, stateVars
  <2>1. DTypeOK'
    BY <1>0, <1>2, <1>4 DEF DInv, DTypeOK, Step
  <2>2. \A d \in Conn : /\ step'[d] = IF d = c THEN next ELSE step[d]
                        /\ target'[d] = IF d = c THEN u ELSE target[d]
    BY <1>4 DEF DInv, DTypeOK
  <2>3. \A s \in Server : connMutex'[s] = IF s = home[c] THEN c ELSE connMutex[s]
    BY <1>4 DEF DInv, DTypeOK
  <2>4. Handling'
    BY <1>0, <1>2, <1>4, <2>0, <2>2 DEF DInv, Handling, ChatSteps, LoginSteps
  <2>5. ASSUME NEW d \in Conn, step'[d] \in {"publish", "store"}
        PROVE  connMutex'[home[d]] = d /\ userConnMap[home[d]][target'[d]] = NoConn
    <3>1. CASE d = c
      BY <1>0, <1>4, <2>2, <2>3, <3>1
    <3>2. CASE d # c
      <4>1. /\ connMutex[home[d]] = d /\ userConnMap[home[d]][target[d]] = NoConn
            /\ home[d] \in Server /\ target'[d] = target[d]
        BY <2>2, <2>5, <3>2 DEF DInv, DecisionStillHolds, Handling, ChatSteps
      <4>2. home[d] # home[c]
        BY <1>0, <3>2, <4>1, ConstantsAssumption
      <4> QED
        BY <2>3, <4>1, <4>2
    <3> QED
      BY <3>1, <3>2
  <2> QED
    BY <2>0, <2>1, <2>4, <2>5 DEF DecisionStillHolds
<1> QED
  BY <1>1, <1>3, <1>4

\* A chat handler that publishes or stores.
LEMMA SendStep ==
    ASSUME DInv, NEW c \in Conn, ChatPublish(c) \/ ChatStore(c)
    PROVE  DTypeOK' /\ Handling' /\ DecisionStillHolds'
<1>0. /\ step[c] \in ChatSteps /\ connMutex[home[c]] = c /\ home[c] \in Server
      /\ target[c] \in User /\ message[c] \in Traffic /\ todo[c] \in SUBSET User
      /\ Proceed(c, todo[c]) /\ UNCHANGED vars
      /\ UNCHANGED <<rows, handed, posted, publishing, resent>>
  BY DEF ChatPublish, ChatStore, DInv, Handling, DecisionStillHolds, ChatSteps, DTypeOK
<1>1. Handling' /\ DecisionStillHolds'
  BY <1>0, ProceedKeeps
<1>2. feed' \in [Server -> Seq([channel: User, message: Traffic])]
  <2>1. CASE ChatPublish(c)
    <3> DEFINE Push == [channel: User, message: Traffic]
               push == [channel |-> target[c], message |-> message[c]]
    <3>1. push \in Push
      BY <1>0
    <3>2. feed \in [Server -> Seq(Push)]
      BY DEF DInv, DTypeOK
    <3>3. feed' = [s \in Server |-> IF publishing[home[c]] /\ target[c] \in subs[s]
                                    THEN Append(feed[s], push) ELSE feed[s]]
      BY <1>0, <2>1, ObservedText DEF ChatPublish
    <3> HIDE DEF Push, push
    <3>4. \A s \in Server : feed[s] \in Seq(Push) /\ Append(feed[s], push) \in Seq(Push)
      BY <3>1, <3>2
    <3>5. feed' \in [Server -> Seq(Push)]
      BY <3>3, <3>4
    <3> QED
      BY <3>5 DEF Push
  <2>2. CASE ChatStore(c)
    BY <2>2 DEF ChatStore, DInv, DTypeOK
  <2> QED
    BY <2>1, <2>2
<1>3. offlineMsg' \in [User -> SUBSET Traffic]
  <2>1. CASE ChatPublish(c)
    BY <2>1 DEF ChatPublish, DInv, DTypeOK
  <2>2. CASE ChatStore(c)
    BY <1>0, <2>2, StoreTypes DEF ChatStore, DInv, DTypeOK
  <2> QED
    BY <2>1, <2>2
<1>4. /\ connMutex' \in [Server -> Conn \cup {NoConn}]
      /\ step' \in [Conn -> Step]
      /\ message' \in [Conn -> Traffic \cup {NoMessage}]
      /\ todo' \in [Conn -> SUBSET User]
      /\ target' \in [Conn -> User \cup {NoUser}]
  BY <1>0, ProceedTypes DEF DInv
<1> QED
  BY <1>0, <1>1, <1>2, <1>3, <1>4 DEF DInv, DTypeOK

\* A handler that starts, the end of a login, the observer thread and a broken
\* connection leave the mutexes, the maps and the chat handlers alone.
LEMMA QuietStep ==
    ASSUME DInv, UNCHANGED <<home, userConnMap, connMutex>>,
           \A c \in Conn :
               \/ UNCHANGED <<pc[c], step[c], message[c], target[c]>>
               \/ step'[c] = "none"
               \/ /\ step'[c] = "lookup" /\ pc'[c] = "idle" /\ home[c] \in Server
                  /\ message'[c] \in Traffic
               \/ step'[c] \in LoginSteps /\ pc'[c] = "deliver" /\ home[c] \in Server
    PROVE  Handling' /\ DecisionStillHolds'
<1>1. Handling'
  BY DEF DInv, Handling, ChatSteps, LoginSteps
<1>2. \A c \in Conn : step'[c] \in {"publish", "store"} =>
          step[c] = step'[c] /\ target'[c] = target[c]
  BY DEF LoginSteps
<1> QED
  BY <1>1, <1>2 DEF DInv, DecisionStillHolds

\* A handler starts.
LEMMA StartStep ==
    ASSUME DInv, NEW c \in Conn, NEW m \in Traffic, ChatStart(c, m)
    PROVE  DTypeOK' /\ Handling' /\ DecisionStillHolds'
<1>1. DTypeOK'
  BY TrafficAssumption DEF ChatStart, DInv, DTypeOK, Step
<1>2. /\ UNCHANGED <<home, userConnMap, pc, connMutex, target>>
      /\ home[c] \in Server /\ pc[c] = "idle"
  BY DEF ChatStart, At, vars, connVars, stateVars
<1>3. \A d \in Conn : /\ step'[d] = IF d = c THEN "lookup" ELSE step[d]
                      /\ message'[d] = IF d = c THEN m ELSE message[d]
  BY DEF ChatStart, DInv, DTypeOK
<1> QED
  BY <1>1, <1>2, <1>3, QuietStep

\* The end of a login.
LEMMA OfflineStepKeeps ==
    ASSUME DInv, NEW c \in Conn, OfflineStep(c)
    PROVE  DTypeOK' /\ Handling' /\ DecisionStillHolds'
<1>1. CASE OfflineQuery(c)
  <2>1. /\ UNCHANGED <<home, userConnMap, pc, connMutex, message, target>>
        /\ home[c] \in Server /\ pc[c] = "deliver" /\ user[c] \in User
    BY <1>1 DEF OfflineQuery, At, vars, connVars, stateVars, DInv, Placed
  <2>2. PICK found \in {offlineMsg[user[c]]} \cup (IF "database" \in Faults THEN {{}} ELSE {}) :
            /\ rows' = [rows EXCEPT ![c] = found]
            /\ step' = [step EXCEPT ![c] = IF found = {} THEN "reply" ELSE "remove"]
    BY <1>1 DEF OfflineQuery
  <2>3. found \in SUBSET Traffic
    BY <2>1, <2>2 DEF DInv, DTypeOK
  <2>4. DTypeOK'
    BY <1>1, <2>2, <2>3 DEF OfflineQuery, mailVars, DInv, DTypeOK, Step
  <2>5. \A d \in Conn : IF d = c THEN step'[d] \in LoginSteps ELSE step'[d] = step[d]
    BY <2>2 DEF DInv, DTypeOK, LoginSteps
  <2> QED
    BY <2>1, <2>4, <2>5, QuietStep
<1>2. CASE OfflineRemove(c)
  <2>1. /\ UNCHANGED <<home, userConnMap, pc, connMutex, message, target>>
        /\ home[c] \in Server /\ pc[c] = "deliver" /\ user[c] \in User
    BY <1>2 DEF OfflineRemove, vars, connVars, stateVars, DInv, Handling, LoginSteps, Placed
  <2>2. step' = [step EXCEPT ![c] = "reply"]
    BY <1>2 DEF OfflineRemove
  <2>3. resent' \subseteq User /\ offlineMsg' \in [User -> SUBSET Traffic]
    BY <1>2, <2>1 DEF OfflineRemove, DInv, DTypeOK
  <2>4. DTypeOK'
    BY <1>2, <2>2, <2>3 DEF OfflineRemove, DInv, DTypeOK, Step
  <2>5. \A d \in Conn : IF d = c THEN step'[d] \in LoginSteps ELSE step'[d] = step[d]
    BY <2>2 DEF DInv, DTypeOK, LoginSteps
  <2> QED
    BY <2>1, <2>4, <2>5, QuietStep
<1>3. CASE OfflineReply(c)
  <2>1. /\ UNCHANGED <<home, userConnMap, connMutex, message, target>>
        /\ user[c] \in User
    BY <1>3 DEF OfflineReply, LoginReply, At, stateVars, DInv, Placed
  <2>2. step' = [step EXCEPT ![c] = "none"] /\ pc' = [pc EXCEPT ![c] = "idle"]
    BY <1>3 DEF OfflineReply, LoginReply, Goto
  <2>3. handed' \in [User -> [Traffic -> Nat]]
    <3>1. [m \in Traffic |-> IF m \in rows[c] THEN 1 ELSE 0] \in [Traffic -> Nat]
      OBVIOUS
    <3> QED
      BY <1>3, <2>1, <3>1, HandTypes DEF OfflineReply, DInv, DTypeOK
  <2>4. DTypeOK'
    BY <1>3, <2>2, <2>3 DEF OfflineReply, DInv, DTypeOK, Step
  <2>5. \A d \in Conn : IF d = c THEN step'[d] = "none"
                                 ELSE step'[d] = step[d] /\ pc'[d] = pc[d]
    BY <2>2 DEF DInv, DTypeOK, TypeOK
  <2> QED
    BY <2>1, <2>4, <2>5, QuietStep
<1> QED
  BY <1>1, <1>2, <1>3 DEF OfflineStep

\* The observer thread handles what Redis pushed.
LEMMA ObserverStep ==
    ASSUME DInv, NEW s \in Server, ObserverHandle(s)
    PROVE  DTypeOK' /\ Handling' /\ DecisionStillHolds'
<1> DEFINE Push == [channel: User, message: Traffic]
<1>1. feed \in [Server -> Seq(Push)] /\ feed[s] # <<>>
  BY DEF ObserverHandle, DInv, DTypeOK
<1>2. Head(feed[s]) \in Push /\ Tail(feed[s]) \in Seq(Push)
  <2> HIDE DEF Push
  <2> QED
    BY <1>1
<1>3. Head(feed[s]).channel \in User /\ Head(feed[s]).message \in Traffic
  BY <1>2
<1>4. feed' \in [Server -> Seq(Push)]
  <2>1. feed' = [feed EXCEPT ![s] = Tail(@)]
    BY DEF ObserverHandle
  <2> HIDE DEF Push
  <2> QED
    BY <1>1, <1>2, <2>1
<1>5. handed' \in [User -> [Traffic -> Nat]] /\ offlineMsg' \in [User -> SUBSET Traffic]
  <2>1. One(Head(feed[s]).message) \in [Traffic -> Nat]
    BY DEF One
  <2> QED
    BY <1>3, <2>1, HandTypes, StoreTypes DEF ObserverHandle, DInv, DTypeOK
<1>6. DTypeOK'
  BY <1>4, <1>5 DEF ObserverHandle, handlerVars, DInv, DTypeOK
<1>7. UNCHANGED <<home, userConnMap, connMutex, pc, step, message, target>>
  BY DEF ObserverHandle, handlerVars, vars, connVars, stateVars
<1> QED
  BY <1>6, <1>7, QuietStep

-----------------------------------------------------------------------------
(* The steps of the sessions.                                              *)

\* A step of the sessions that leaves a connection alone while a chat handler
\* or the end of a login runs for it, and that makes no entry in a map whose
\* mutex is held, keeps the decisions.
LEMMA HeldStep ==
    ASSUME DInv, UNCHANGED <<connMutex, handlerVars>>,
           \A d \in Conn : step[d] # "none" => pc'[d] = pc[d] /\ home'[d] = home[d],
           \A s \in Server, u \in User :
               userConnMap[s][u] = NoConn /\ ~Free(s) => userConnMap'[s][u] = NoConn
    PROVE  Handling' /\ DecisionStillHolds'
<1>1. UNCHANGED <<step, message, target>>
  BY DEF handlerVars
<1>2. \A d \in Conn : step[d] \in ChatSteps \cup LoginSteps => step[d] # "none"
  BY DEF ChatSteps, LoginSteps
<1>3. Handling'
  BY <1>1, <1>2 DEF DInv, Handling, ChatSteps, LoginSteps
<1>4. ASSUME NEW d \in Conn, step[d] \in {"publish", "store"}
      PROVE  connMutex'[home'[d]] = d /\ userConnMap'[home'[d]][target[d]] = NoConn
  <2>1. /\ connMutex[home[d]] = d /\ userConnMap[home[d]][target[d]] = NoConn
        /\ home[d] \in Server /\ target[d] \in User /\ home'[d] = home[d]
    BY <1>2, <1>4 DEF DInv, Handling, DecisionStillHolds, ChatSteps
  <2>2. ~Free(home[d])
    BY <2>1, ConstantsAssumption DEF Free
  <2> QED
    BY <2>1, <2>2
<1> QED
  BY <1>1, <1>3, <1>4 DEF DecisionStillHolds

\* A call of a session handler finds its connection without a chat handler.
LEMMA SessionStepKeeps ==
    ASSUME DInv, NEW c \in Conn, SessionStep(c)
    PROVE  DTypeOK' /\ Handling' /\ DecisionStillHolds'
<1> USE ConstantsAssumption
<1>1. UNCHANGED <<connMutex, handlerVars, mailVars>>
  BY DEF SessionStep
<1>2. DTypeOK'
  BY <1>1 DEF handlerVars, mailVars, DInv, DTypeOK
<1>3. step[c] # "none" => pc[c] \in {"idle", "deliver"} /\ home[c] \in Server
  BY DEF DInv, Handling, DTypeOK, Step, ChatSteps, LoginSteps
<1>4. ASSUME NEW d \in Conn, step[d] # "none"
      PROVE  pc'[d] = pc[d] /\ home'[d] = home[d]
  <2>1. CASE UnlockedStep(c)
    <3>1. CASE \E s \in Server : Connect(c, s)
      BY <1>3, <1>4, <3>1 DEF Connect, DInv, TypeOK
    <3>2. CASE ClientCloses(c)
      BY <3>2 DEF ClientCloses
    <3>3. CASE LoginSubscribe(c) \/ LoginSetOnline(c) \/ LogoutUnsubscribe(c)
               \/ CloseUnsubscribe(c)
      BY <1>3, <1>4, <3>3
         DEF LoginSubscribe, LoginSetOnline, LogoutUnsubscribe, CloseUnsubscribe,
             CloseGoesOn, Release, At, Goto, DInv, TypeOK
    <3>4. CASE CloseSetOffline(c)
      BY <1>3, <1>4, <3>4 DEF CloseSetOffline, Release, At, Goto, DInv, TypeOK
    <3>5. CASE step[c] = "none" /\ (LogoutSetOffline(c) \/ \E u \in User : LoginQuery(c, u))
      BY <1>4, <3>5 DEF LogoutSetOffline, LoginQuery, Goto, DInv, TypeOK
    <3> QED
      BY <2>1, <3>1, <3>2, <3>3, <3>4, <3>5 DEF UnlockedStep
  <2>2. CASE LockedStep(c)
    <3>1. CASE LoginInsert(c) \/ LogoutErase(c)
      BY <1>3, <1>4, <3>1 DEF LoginInsert, LogoutErase, At, Goto, DInv, TypeOK
    <3>2. CASE step[c] = "none" /\ CloseErase(c)
      BY <1>4, <3>2
         DEF CloseErase, CloseFound, CloseNotFound, Release, Goto, DInv, TypeOK
    <3> QED
      BY <2>2, <3>1, <3>2 DEF LockedStep
  <2> QED
    BY <2>1, <2>2 DEF SessionStep
<1>5. ASSUME NEW s \in Server, NEW u \in User, userConnMap[s][u] = NoConn, ~Free(s)
      PROVE  userConnMap'[s][u] = NoConn
  <2>1. CASE UnlockedStep(c)
    <3>1. UNCHANGED userConnMap
      BY <2>1
         DEF UnlockedStep, Connect, ClientCloses, LoginSubscribe, LoginSetOnline,
             LogoutUnsubscribe, CloseUnsubscribe, CloseSetOffline, LogoutSetOffline,
             LoginQuery, stateVars
    <3> QED
      BY <1>5, <3>1
  <2>2. CASE LockedStep(c)
    <3>1. home[c] # s
      BY <1>5, <2>2 DEF LockedStep
    <3>2. CASE LoginInsert(c) \/ LogoutErase(c)
      BY <1>5, <3>1, <3>2 DEF LoginInsert, LogoutErase, DInv, TypeOK
    <3>3. CASE CloseErase(c)
      BY <1>5, <3>1, <3>3 DEF CloseErase, CloseFound, CloseNotFound, DInv, TypeOK
    <3> QED
      BY <2>2, <3>2, <3>3 DEF LockedStep
  <2> QED
    BY <2>1, <2>2 DEF SessionStep
<1>6. Handling' /\ DecisionStillHolds'
  BY <1>1, <1>4, <1>5, HeldStep
<1> QED
  BY <1>2, <1>6

\* What Redis executes or SIGINT does moves nothing of the messages.
LEMMA OutsideKeepsMail ==
    ASSUME DTypeOK, NEW s \in Server, RedisReplies(s) \/ ResetStep(s)
    PROVE  UNCHANGED <<connMutex, handlerVars, mailVars>>
<1>1. CASE RedisReplies(s)
  <2>1. feed' = feed
    BY <1>1, ObservedReply DEF RedisReplies, DTypeOK
  <2> QED
    BY <1>1, <2>1 DEF RedisReplies, handlerVars, mailVars
<1> QED
  BY <1>1 DEF ResetStep

\* Redis and SIGINT.
LEMMA OutsideStepKeeps ==
    ASSUME DInv, NEW s \in Server,
           RedisReplies(s) \/ ResetStep(s) \/ FeedBreaks(s) \/ PublishBreaks(s)
    PROVE  DTypeOK' /\ Handling' /\ DecisionStillHolds'
<1>1. UNCHANGED <<connMutex, handlerVars, home, pc>>
  BY DEF RedisReplies, ResetStep, FeedBreaks, PublishBreaks, RedisExecutes, ResetState,
         ResetClear, ObserverEnds, vars, connVars
<1>2. ASSUME NEW t \in Server, NEW u \in User, userConnMap[t][u] = NoConn, ~Free(t)
      PROVE  userConnMap'[t][u] = NoConn
  BY <1>2 DEF RedisReplies, ResetStep, FeedBreaks, PublishBreaks, RedisExecutes, ResetState,
              ResetClear, ObserverEnds, vars, stateVars, DInv, TypeOK
<1>3. Handling' /\ DecisionStillHolds'
  BY <1>1, <1>2, HeldStep
<1>4. DTypeOK'
  <2>1. CASE RedisReplies(s) \/ ResetStep(s)
    BY <2>1, OutsideKeepsMail DEF handlerVars, mailVars, DInv, DTypeOK
  <2>2. CASE PublishBreaks(s)
    BY <2>2 DEF PublishBreaks, handlerVars, DInv, DTypeOK
  <2>3. CASE FeedBreaks(s)
    <3> DEFINE Push == [channel: User, message: Traffic]
    <3>1. feed \in [Server -> Seq(Push)]
      BY DEF DInv, DTypeOK
    <3>2. PICK n \in 0..Len(feed[s]) : feed' = [feed EXCEPT ![s] = SubSeq(@, 1, n)]
      BY <2>3 DEF FeedBreaks
    <3> HIDE DEF Push
    <3>3. SubSeq(feed[s], 1, n) \in Seq(Push)
      BY <3>1
    <3>4. feed' \in [Server -> Seq(Push)]
      BY <3>1, <3>2, <3>3
    <3> QED
      BY <2>3, <3>4 DEF FeedBreaks, handlerVars, DInv, DTypeOK, Push
  <2> QED
    BY <2>1, <2>2, <2>3
<1> QED
  BY <1>3, <1>4

\* A process ends with the handlers that hold its mutex.
LEMMA LostStep ==
    ASSUME DInv, NEW s \in Server, ProcessLost(s)
    PROVE  DTypeOK' /\ Handling' /\ DecisionStillHolds'
<1>1. ProcessEnds(s)
  BY DEF ProcessLost, Crash, ResetExit
<1>2. \A c \in Conn : home[c] # s => home'[c] = home[c] /\ pc'[c] = pc[c]
  BY <1>1 DEF ProcessEnds
<1>3. \A t \in Server \ {s} : /\ userConnMap'[t] = userConnMap[t]
                              /\ connMutex'[t] = connMutex[t]
  BY <1>1 DEF ProcessLost, ProcessEnds, DInv, TypeOK, DTypeOK
<1>4. \A c \in Conn : /\ step'[c] = IF home[c] = s THEN "none" ELSE step[c]
                      /\ message'[c] = IF home[c] = s THEN NoMessage ELSE message[c]
                      /\ target'[c] = IF home[c] = s THEN NoUser ELSE target[c]
  BY DEF ProcessLost
<1>5. DTypeOK'
  <2> DEFINE Push == [channel: User, message: Traffic]
  <2>1. feed' \in [Server -> Seq(Push)]
    <3>1. feed \in [Server -> Seq(Push)] /\ feed' = [feed EXCEPT ![s] = <<>>]
      BY DEF ProcessLost, DInv, DTypeOK
    <3> HIDE DEF Push
    <3> QED
      BY <3>1
  <2>2. /\ step' \in [Conn -> Step] /\ message' \in [Conn -> Traffic \cup {NoMessage}]
        /\ todo' \in [Conn -> SUBSET User] /\ target' \in [Conn -> User \cup {NoUser}]
        /\ rows' \in [Conn -> SUBSET Traffic]
    BY DEF ProcessLost, DInv, DTypeOK, Step
  <2>3. /\ connMutex' \in [Server -> Conn \cup {NoConn}]
        /\ publishing' \in [Server -> BOOLEAN]
    BY DEF ProcessLost, DInv, DTypeOK
  <2>4. UNCHANGED <<offlineMsg, handed, posted, resent>>
    BY DEF ProcessLost
  <2> QED
    BY <2>1, <2>2, <2>3, <2>4 DEF DInv, DTypeOK
<1>6. Handling'
  BY <1>2, <1>4 DEF DInv, Handling, ChatSteps, LoginSteps
<1>7. ASSUME NEW c \in Conn, step'[c] \in {"publish", "store"}
      PROVE  connMutex'[home'[c]] = c /\ userConnMap'[home'[c]][target'[c]] = NoConn
  <2>1. home[c] # s /\ step[c] = step'[c] /\ target'[c] = target[c] /\ home'[c] = home[c]
    BY <1>2, <1>4, <1>7
  <2>2. /\ connMutex[home[c]] = c /\ userConnMap[home[c]][target[c]] = NoConn
        /\ home[c] \in Server \ {s}
    BY <1>7, <2>1 DEF DInv, Handling, DecisionStillHolds, ChatSteps
  <2> QED
    BY <1>3, <2>1, <2>2
<1> QED
  BY <1>5, <1>6, <1>7 DEF DecisionStillHolds

-----------------------------------------------------------------------------
(* The theorems.                                                           *)

LEMMA DInitInv == DInit => DInv
<1> SUFFICES ASSUME DInit PROVE DInv
  OBVIOUS
<1>1. TypeOK /\ Placed
  BY ConstantsAssumption DEF DInit, Init, TypeOK, Placed, Phase
<1>2. DTypeOK
  BY DEF DInit, DeliveryInit, DTypeOK, Step
<1>3. Handling /\ DecisionStillHolds
  BY DEF DInit, DeliveryInit, Handling, DecisionStillHolds, ChatSteps, LoginSteps
<1> QED
  BY <1>1, <1>2, <1>3 DEF DInv

LEMMA DStepInv == DInv /\ [DNext]_dvars => DInv'
<1> SUFFICES ASSUME DInv, [DNext]_dvars PROVE DInv'
  OBVIOUS
<1>1. TypeOK' /\ Placed'
  BY StepRefines, TypeStep DEF DInv
<1>2. DTypeOK' /\ Handling' /\ DecisionStillHolds'
  <2>1. CASE UNCHANGED dvars
    <3>1. DTypeOK'
      BY <2>1 DEF dvars, handlerVars, mailVars, DInv, DTypeOK
    <3>2. UNCHANGED <<home, userConnMap, connMutex, pc, step, message, target>>
      BY <2>1 DEF dvars, handlerVars, vars, connVars, stateVars
    <3> QED
      BY <3>1, <3>2, QuietStep
  <2>2. ASSUME NEW c \in Conn, ChatStep(c)
        PROVE  DTypeOK' /\ Handling' /\ DecisionStillHolds'
    BY <2>2, LookupStep, SendStep DEF ChatStep
  <2> QED
    BY <2>1, <2>2, StartStep, OfflineStepKeeps, SessionStepKeeps, ObserverStep,
       OutsideStepKeeps, LostStep DEF DNext
<1> QED
  BY <1>1, <1>2 DEF DInv

\* The handlers, the table, the feeds and the counts hold what their types say.
THEOREM DTypesHold == DSpec => []DTypeOK
BY DInitInv, DStepInv, PTL DEF DSpec, DInv

\* From the lookup of a receiver to the PUBLISH or the INSERT, a chat handler
\* holds the mutex of its process and the receiver stays out of the map of this
\* process, with any number of handlers, logins, broken connections and lost
\* processes: the decision is not overtaken, and two threads never use
\* _publish_context at a time.
THEOREM DecisionsHold == DSpec => []DecisionStillHolds
BY DInitInv, DStepInv, PTL DEF DSpec, DInv

-----------------------------------------------------------------------------
(* Where the copies of a message are.                                      *)

\* A connection carries a message, a receiver or rows only as long as the
\* handler that needs them runs.
Carrying ==
    \A c \in Conn :
        /\ step[c] \notin ChatSteps => message[c] = NoMessage
        /\ step[c] \notin {"publish", "store"} => target[c] = NoUser
        /\ target[c] \notin todo[c]
        /\ rows[c] # {} => step[c] \in LoginSteps

\* Nothing is anywhere before its handler has started.
PostedFirst ==
    /\ \A c \in Conn : message[c] \in posted \cup {NoMessage} /\ rows[c] \subseteq posted
    /\ \A s \in Server : \A i \in DOMAIN feed[s] : feed[s][i].message \in posted
    /\ \A u \in User : offlineMsg[u] \subseteq posted
    /\ \A u \in User, m \in Traffic : m \notin posted => handed[u][m] = 0

\* The receivers NoDuplicates is about.
Promised(u) == Clean(u) /\ u \notin resent

Carried(m, u) == \E c \in Conn : Carries(c, m, u)
InTable(m, u) == m \in offlineMsg[u]
Read(m, u) == \E c \in Conn : Reading(c, m, u)
Present(m, u) ==
    Carried(m, u) \/ Pushed(m, u) # {} \/ InTable(m, u) \/ Read(m, u) \/ handed[u][m] # 0

OneCarrier(m) == \A c, d \in Conn : message[c] = m /\ message[d] = m => c = d
InFlight(m, u) ==
    /\ \A p, q \in Pushed(m, u) : p = q
    /\ Carried(m, u) => Pushed(m, u) = {}
Sole(m, u) ==
    /\ Carried(m, u) \/ Pushed(m, u) # {} =>
           ~InTable(m, u) /\ ~Read(m, u) /\ handed[u][m] = 0
    /\ InTable(m, u) => handed[u][m] = 0
    /\ \A c \in Conn : Reading(c, m, u) =>
           handed[u][m] = 0 /\ (step[c] = "reply" => ~InTable(m, u))
    /\ handed[u][m] \in {0, 1}

\* A message has one handler, and one copy for a receiver in the handler or in
\* Redis; it is in the table, in a login or at the client only after that, and
\* in the table and in a login at once only until the rows are deleted.
ItemInv(m, u) ==
    /\ OneCarrier(m)
    /\ Clean(u) => InFlight(m, u)
    /\ Promised(u) => Sole(m, u)

MInv ==
    /\ SInv
    /\ DInv
    /\ Carrying
    /\ PostedFirst
    /\ \A m \in Traffic, u \in User : ItemInv(m, u)

\* What a step may do with a message for a receiver: hand over what a handler,
\* Redis or a login had, and bring back nothing that is gone.
Moved(m, u) ==
    /\ handed'[u][m] # handed[u][m] =>
           Carried(m, u) \/ Pushed(m, u) # {} \/ Read(m, u)
    /\ m \in posted /\ Present(m, u)' => Present(m, u)
    /\ m \notin posted /\ m \in posted' /\ u \in m.to => Carried(m, u)'

\* The steps that may lose a message, the ones LossOnlyInWindows names.
Window(u) ==
    \/ ~Steady(u)
    \/ StaleRead(u)
    \/ DeadPublish(u)
    \/ FailedInsert(u)
    \/ \E s \in Server : Crash(s) \/ ResetExit(s) \/ ObserverEnds(s)

\* What is proved of every step.
Explained(m, u) ==
    /\ ItemInv(m, u)'
    /\ Moved(m, u)
    /\ Clean(u) /\ Present(m, u) => Present(m, u)' \/ Window(u)

-----------------------------------------------------------------------------
(* Copies.                                                                 *)

LEMMA PushedIs ==
    ASSUME NEW m, NEW u
    PROVE  /\ \A s \in Server : \A i \in DOMAIN feed[s] :
                  <<s, i>> \in Pushed(m, u) <=> feed[s][i] = [channel |-> u, message |-> m]
           /\ \A p \in Pushed(m, u) : \E s \in Server : \E i \in DOMAIN feed[s] :
                  p = <<s, i>> /\ feed[s][i] = [channel |-> u, message |-> m]
BY DEF Pushed

LEMMA PushedIsNext ==
    ASSUME NEW m, NEW u
    PROVE  /\ \A s \in Server : \A i \in DOMAIN feed'[s] :
                  <<s, i>> \in Pushed(m, u)' <=> feed'[s][i] = [channel |-> u, message |-> m]
           /\ \A p \in Pushed(m, u)' : \E s \in Server : \E i \in DOMAIN feed'[s] :
                  p = <<s, i>> /\ feed'[s][i] = [channel |-> u, message |-> m]
BY DEF Pushed

\* Where no copy is made, the copies that are left exclude each other as before.
LEMMA FewerCopies ==
    ASSUME NEW m \in Traffic, NEW u \in User, ItemInv(m, u), OneCarrier(m)',
           Clean(u)' => Clean(u), resent \subseteq resent',
           Carried(m, u)' => Carried(m, u),
           Pushed(m, u)' # {} => Pushed(m, u) # {},
           (\A p, q \in Pushed(m, u) : p = q) => (\A p, q \in Pushed(m, u)' : p = q),
           InTable(m, u)' => InTable(m, u),
           \A c \in Conn : Reading(c, m, u)' => Reading(c, m, u)
                               /\ (step'[c] = "reply" => step[c] = "reply" \/ ~InTable(m, u)'),
           handed'[u][m] = handed[u][m],
           m \notin posted => m \notin posted'
    PROVE  ItemInv(m, u)' /\ Moved(m, u)
<1>1. Read(m, u)' => Read(m, u)
  BY DEF Read
<1>2. Moved(m, u)
  BY <1>1 DEF Moved, Present
<1>3. Clean(u)' => InFlight(m, u)'
  BY DEF ItemInv, InFlight
<1>4. ASSUME Promised(u)' PROVE Sole(m, u)'
  <2>1. Sole(m, u)
    BY <1>4 DEF ItemInv, Promised
  <2> QED
    BY <1>1, <2>1 DEF Sole
<1> QED
  BY <1>2, <1>3, <1>4 DEF ItemInv

\* The user of a session that is being set up, torn down or left by its client
\* is not steady.
LEMMA NotSteady ==
    ASSUME MInv, NEW u \in User, Clean(u), NEW c \in Conn, user[c] = u,
           pc[c] # "idle" \/ ~alive[c]
    PROVE  Window(u)
<1>1. OneSession(u)
  BY DEF MInv, SInv, IInv, Presence, Clean
<1> QED
  BY <1>1 DEF OneSession, Window, Steady, HasSession

\* What a handler finds in the map without a client is such a session.
LEMMA DeadEntry ==
    ASSUME MInv, NEW s \in Server, NEW u \in User, Clean(u),
           userConnMap[s][u] # NoConn, ~alive[userConnMap[s][u]]
    PROVE  Window(u)
<1>1. userConnMap[s][u] \in Conn
  BY DEF MInv, DInv, TypeOK
<1>2. user[userConnMap[s][u]] = u
  BY DEF MInv, SInv, IInv, Presence, OwnEntries, Clean
<1> QED
  BY <1>1, <1>2, NotSteady

LEMMA HandEffect ==
    ASSUME DTypeOK, NEW v \in User, NEW d, NEW bag \in [Traffic -> Nat], Hand(v, d, bag)
    PROVE  \A u \in User, m \in Traffic :
               handed'[u][m] = IF alive[d] /\ u = v THEN handed[u][m] + bag[m]
                                                    ELSE handed[u][m]
BY DEF Hand, DTypeOK

\* One message is handed over.
LEMMA HandOne ==
    ASSUME DTypeOK, NEW v \in User, NEW n \in Traffic, NEW d, Hand(v, d, One(n))
    PROVE  /\ \A u \in User, m \in Traffic : u # v \/ m # n => handed'[u][m] = handed[u][m]
           /\ handed'[v][n] = IF alive[d] THEN handed[v][n] + 1 ELSE handed[v][n]
<1>1. One(n) \in [Traffic -> Nat]
  BY DEF One
<1>2. \A u \in User, m \in Traffic : handed[u][m] \in Nat
  BY DEF DTypeOK
<1> QED
  BY <1>1, <1>2, HandEffect DEF One

-----------------------------------------------------------------------------
(* The chat handlers.                                                      *)

\* A handler that is done with receiver v has no copy for v any more, and the
\* copies for the others are where they were.
LEMMA Leaves ==
    ASSUME DInv, Carrying, NEW c \in Conn, NEW v \in User, NEW rest,
           \/ step[c] = "lookup" /\ v \in todo[c] /\ rest = todo[c] \ {v}
           \/ step[c] \in {"publish", "store"} /\ v = target[c] /\ rest = todo[c],
           Proceed(c, rest), UNCHANGED rows
    PROVE  /\ message[c] \in Traffic /\ Carries(c, message[c], v)
           /\ \A d \in Conn, m \in Traffic, u \in User :
                  Carries(d, m, u)' <=> Carries(d, m, u) /\ ~(d = c /\ u = v)
           /\ \A d \in Conn : /\ message'[d] \in {message[d], NoMessage}
                              /\ step'[d] = "reply" => step[d] = "reply"
           /\ Carrying'
<1>1. /\ message[c] \in Traffic /\ step[c] \in ChatSteps
      /\ target[c] \in User => step[c] \in {"publish", "store"}
  BY ConstantsAssumption DEF DInv, Handling, ChatSteps, Carrying
<1>2. todo[c] \in SUBSET User /\ rest \in SUBSET User
  BY DEF DInv, DTypeOK
<1>3. \A d \in Conn : /\ todo'[d] = IF d = c THEN rest ELSE todo[d]
                      /\ target'[d] = IF d = c THEN NoUser ELSE target[d]
                      /\ step'[d] = IF d = c THEN IF rest = {} THEN "none" ELSE "lookup"
                                             ELSE step[d]
                      /\ message'[d] = IF d = c /\ rest = {} THEN NoMessage ELSE message[d]
  BY DEF Proceed, DInv, DTypeOK
<1>4. ASSUME NEW d \in Conn, NEW m \in Traffic, NEW u \in User
      PROVE  Carries(d, m, u)' <=> Carries(d, m, u) /\ ~(d = c /\ u = v)
  <2>1. CASE d # c
    BY <1>3, <2>1 DEF Carries
  <2>2. CASE d = c
    <3>1. Carries(c, m, u)' <=> message[c] = m /\ u \in rest
      BY <1>2, <1>3, TrafficAssumption, ConstantsAssumption DEF Carries
    <3>2. u \in rest <=> (u \in todo[c] \/ target[c] = u) /\ u # v
      BY <1>1, <1>2 DEF Carrying
    <3> QED
      BY <2>2, <3>1, <3>2 DEF Carries
  <2> QED
    BY <2>1, <2>2
<1>5. Carrying'
  BY <1>1, <1>2, <1>3, ConstantsAssumption DEF Carrying, ChatSteps, LoginSteps
<1>6. Carries(c, message[c], v)
  BY DEF Carries
<1> QED
  BY <1>1, <1>3, <1>4, <1>5, <1>6

\* The copy in a handler is the only one.
LEMMA Carriage ==
    ASSUME MInv, NEW c \in Conn, NEW v \in User, NEW m \in Traffic, Carries(c, m, v)
    PROVE  /\ m \in posted
           /\ \A d \in Conn : Carries(d, m, v) => d = c
           /\ Clean(v) => Pushed(m, v) = {}
           /\ Promised(v) => ~InTable(m, v) /\ ~Read(m, v) /\ handed[v][m] = 0
<1>1. ItemInv(m, v) /\ Carried(m, v)
  BY DEF MInv, Carried
<1>2. m \in posted
  BY TrafficAssumption DEF MInv, PostedFirst, Carries
<1> QED
  BY <1>1, <1>2 DEF ItemInv, OneCarrier, InFlight, Sole, Carries

\* A step that leaves the sessions alone keeps who is promised what.
LEMMA SameUsers ==
    ASSUME UNCHANGED <<user, disturbed, misrouted>>, NEW u
    PROVE  /\ Clean(u)' <=> Clean(u)
           /\ UNCHANGED rows => \A d, m : Reading(d, m, u)' <=> Reading(d, m, u)
BY DEF Clean, Reading

\* The copies of the other items, when a handler is done with a receiver.
LEMMA OthersStay ==
    ASSUME MInv, NEW c \in Conn, NEW v \in User, NEW m \in Traffic, NEW u \in User,
           ~(m = message[c] /\ u = v),
           \A d \in Conn : /\ Carries(d, m, u)' <=> Carries(d, m, u) /\ ~(d = c /\ u = v)
                           /\ message'[d] \in {message[d], NoMessage}
                           /\ step'[d] = "reply" => step[d] = "reply",
           UNCHANGED <<user, disturbed, misrouted, rows, posted, resent>>,
           handed'[u][m] = handed[u][m],
           InTable(m, u)' <=> InTable(m, u),
           Pushed(m, u)' = Pushed(m, u)
    PROVE  Explained(m, u)
<1>1. Carried(m, u)' <=> Carried(m, u)
  BY DEF Carried, Carries
<1>2. OneCarrier(m)'
  BY TrafficAssumption DEF MInv, ItemInv, OneCarrier
<1>3. ItemInv(m, u)
  BY DEF MInv
<1>4. (Clean(u)' <=> Clean(u)) /\ \A d \in Conn : Reading(d, m, u)' <=> Reading(d, m, u)
  BY SameUsers
<1>5. ItemInv(m, u)' /\ Moved(m, u)
  BY <1>1, <1>2, <1>3, <1>4, FewerCopies
<1>6. Present(m, u)' <=> Present(m, u)
  BY <1>1, <1>4 DEF Present, Read
<1> QED
  BY <1>5, <1>6 DEF Explained

\* A step of a chat handler leaves the sessions alone.
LEMMA ChatQuiet ==
    ASSUME UNCHANGED vars
    PROVE  UNCHANGED <<user, disturbed, misrouted, subs, home, alive, pc>>
BY DEF vars, connVars, redisVars, historyVars

\* A handler finds the receiver in the map and sends.
LEMMA LookupHands ==
    ASSUME MInv, NEW c \in Conn, NEW n \in Traffic, message[c] = n,
           NEW v \in todo[c], step[c] = "lookup",
           userConnMap[home[c]][v] # NoConn,
           Hand(v, userConnMap[home[c]][v], One(n)), Proceed(c, todo[c] \ {v}),
           UNCHANGED <<vars, rows, offlineMsg, feed, posted, resent>>
    PROVE  /\ Carrying' /\ PostedFirst'
           /\ \A m \in Traffic, u \in User : Explained(m, u)
<1>1. v \in User /\ home[c] \in Server /\ DTypeOK
  BY DEF MInv, DInv, DTypeOK, Handling, ChatSteps
<1>2. /\ Carries(c, n, v)
      /\ \A d \in Conn, m \in Traffic, u \in User :
             Carries(d, m, u)' <=> Carries(d, m, u) /\ ~(d = c /\ u = v)
      /\ \A d \in Conn : /\ message'[d] \in {message[d], NoMessage}
                         /\ step'[d] = "reply" => step[d] = "reply"
      /\ Carrying'
  BY <1>1, Leaves DEF MInv
<1>3. /\ \A u \in User, m \in Traffic : u # v \/ m # n => handed'[u][m] = handed[u][m]
      /\ handed'[v][n] = IF alive[userConnMap[home[c]][v]] THEN handed[v][n] + 1
                                                             ELSE handed[v][n]
  BY <1>1, <1>2, HandOne
<1>4. /\ n \in posted
      /\ \A d \in Conn : Carries(d, n, v) => d = c
      /\ Clean(v) => Pushed(n, v) = {}
      /\ Promised(v) => ~InTable(n, v) /\ ~Read(n, v) /\ handed[v][n] = 0
  BY <1>1, <1>2, Carriage
<1>5. PostedFirst'
  BY <1>2, <1>3, <1>4 DEF MInv, PostedFirst
<1>6. UNCHANGED <<user, disturbed, misrouted>>
  BY ChatQuiet
<1>7. ASSUME NEW m \in Traffic, NEW u \in User
      PROVE  /\ InTable(m, u)' <=> InTable(m, u)
             /\ Pushed(m, u)' = Pushed(m, u)
  BY DEF InTable, Pushed
<1>8. ASSUME NEW m \in Traffic, NEW u \in User, ~(m = n /\ u = v)
      PROVE  Explained(m, u)
  BY <1>1, <1>2, <1>3, <1>6, <1>7, <1>8, OthersStay
<1>9. Explained(n, v)
  <2>1. OneCarrier(n)'
    BY <1>1, <1>2, TrafficAssumption DEF MInv, ItemInv, OneCarrier
  <2>2. ~Carried(n, v)'
    BY <1>1, <1>2, <1>4 DEF Carried
  <2>3. (Clean(v)' <=> Clean(v)) /\ (Read(n, v)' <=> Read(n, v))
    BY <1>6, SameUsers DEF Read
  <2>4. Clean(v)' => InFlight(n, v)'
    BY <1>1, <1>2, <1>4, <1>7, <2>2, <2>3 DEF InFlight
  <2>5. Promised(v)' => Sole(n, v)'
    <3>1. Promised(v)' => Promised(v)
      BY <2>3 DEF Promised
    <3>2. Promised(v)' => handed'[v][n] \in {0, 1} /\ Pushed(n, v)' = {}
      BY <1>1, <1>2, <1>3, <1>4, <1>7, <3>1 DEF Promised
    <3> QED
      BY <1>1, <1>2, <1>4, <1>7, <2>2, <2>3, <3>1, <3>2 DEF Sole, Read
  <2>6. Moved(n, v)
    BY <1>1, <1>2, <1>4 DEF Moved, Present, Carried
  <2>7. Clean(v) => Present(n, v)' \/ Window(v)
    <3>1. CASE alive[userConnMap[home[c]][v]]
      <4>1. handed'[v][n] # 0
        BY <1>1, <1>2, <1>3, <3>1 DEF DTypeOK
      <4> QED
        BY <4>1 DEF Present
    <3>2. CASE ~alive[userConnMap[home[c]][v]]
      BY <1>1, <3>2, DeadEntry
    <3> QED
      BY <3>1, <3>2
  <2> QED
    BY <2>1, <2>4, <2>5, <2>6, <2>7 DEF Explained, ItemInv
<1> QED
  BY <1>2, <1>5, <1>8, <1>9

\* A handler does not find the receiver and keeps it as its target, or starts:
\* no copy is lost, and none is made of a message that has been posted.
LEMMA NoneLeaves ==
    ASSUME MInv, NEW m \in Traffic, NEW u \in User,
           UNCHANGED <<user, disturbed, misrouted, rows, offlineMsg, feed, handed, resent>>,
           \A d \in Conn : step'[d] = "reply" => step[d] = "reply",
           OneCarrier(m)',
           m \in posted => /\ Carried(m, u)' <=> Carried(m, u)
                           /\ m \in posted',
           m \notin posted => /\ Carried(m, u)' => m \in posted'
                              /\ m \in posted' /\ u \in m.to => Carried(m, u)'
    PROVE  Explained(m, u)
<1>1. /\ Clean(u)' <=> Clean(u)
      /\ Promised(u)' <=> Promised(u)
      /\ \A d \in Conn : Reading(d, m, u)' <=> Reading(d, m, u)
      /\ Read(m, u)' <=> Read(m, u)
      /\ InTable(m, u)' <=> InTable(m, u)
      /\ Pushed(m, u)' = Pushed(m, u)
      /\ handed'[u][m] = handed[u][m]
  BY SameUsers DEF Clean, Promised, Reading, Read, InTable, Pushed
<1>2. ItemInv(m, u)
  BY DEF MInv
<1>3. CASE m \in posted
  <2>1. /\ Carried(m, u)' => Carried(m, u)
        /\ Pushed(m, u)' # {} => Pushed(m, u) # {}
        /\ (\A p, q \in Pushed(m, u) : p = q) => (\A p, q \in Pushed(m, u)' : p = q)
    BY <1>1, <1>3
  <2>2. \A d \in Conn : Reading(d, m, u)' => Reading(d, m, u)
                             /\ (step'[d] = "reply" => step[d] = "reply" \/ ~InTable(m, u)')
    BY <1>1
  <2>3. ItemInv(m, u)' /\ Moved(m, u)
    BY <1>1, <1>2, <1>3, <2>1, <2>2, FewerCopies
  <2> QED
    BY <1>1, <1>3, <2>3 DEF Explained, Present
<1>4. CASE m \notin posted
  <2>1. ~Present(m, u)
    <3>1. ~Carried(m, u) /\ ~InTable(m, u) /\ ~Read(m, u) /\ handed[u][m] = 0
      BY <1>4, TrafficAssumption
         DEF MInv, PostedFirst, Carried, Carries, InTable, Read, Reading
    <3>2. ASSUME NEW p \in Pushed(m, u) PROVE FALSE
      <4>1. PICK s \in Server : \E i \in DOMAIN feed[s] :
                feed[s][i] = [channel |-> u, message |-> m]
        BY PushedIs
      <4> QED
        BY <1>4, <4>1 DEF MInv, PostedFirst
    <3> QED
      BY <3>1, <3>2 DEF Present
  <2>2. Clean(u)' => InFlight(m, u)'
    BY <1>1, <2>1 DEF InFlight, Present
  <2>3. Promised(u)' => Sole(m, u)'
    BY <1>1, <2>1 DEF Sole, Present, Read
  <2>4. Moved(m, u)
    BY <1>1, <1>4, <2>1 DEF Moved, Present
  <2> QED
    BY <2>1, <2>2, <2>3, <2>4 DEF Explained, ItemInv
<1> QED
  BY <1>3, <1>4

LEMMA LookupKeepsTarget ==
    ASSUME MInv, NEW c \in Conn, NEW v \in todo[c], step[c] = "lookup",
           target' = [target EXCEPT ![c] = v],
           todo' = [todo EXCEPT ![c] = todo[c] \ {v}],
           NEW next \in {"publish", "store"}, step' = [step EXCEPT ![c] = next],
           UNCHANGED <<vars, message, rows, offlineMsg, feed, handed, posted, resent>>
    PROVE  /\ Carrying' /\ PostedFirst'
           /\ \A m \in Traffic, u \in User : Explained(m, u)
<1>1. /\ target[c] = NoUser /\ todo[c] \in SUBSET User
      /\ \A d \in Conn : /\ target'[d] = IF d = c THEN v ELSE target[d]
                         /\ todo'[d] = IF d = c THEN todo[c] \ {v} ELSE todo[d]
                         /\ step'[d] = IF d = c THEN next ELSE step[d]
  BY DEF MInv, Carrying, DInv, DTypeOK
<1>2. Carrying'
  BY <1>1 DEF MInv, Carrying, ChatSteps, LoginSteps
<1>3. PostedFirst'
  BY DEF MInv, PostedFirst
<1>4. ASSUME NEW d \in Conn, NEW m \in Traffic, NEW u \in User
      PROVE  Carries(d, m, u)' <=> Carries(d, m, u)
  BY <1>1, ConstantsAssumption DEF Carries
<1>5. ASSUME NEW m \in Traffic, NEW u \in User
      PROVE  Explained(m, u)
  <2>1. Carried(m, u)' <=> Carried(m, u)
    BY <1>4 DEF Carried
  <2>2. Carried(m, u) => m \in posted
    BY TrafficAssumption DEF MInv, PostedFirst, Carried, Carries
  <2>3. OneCarrier(m)'
    BY DEF MInv, ItemInv, OneCarrier
  <2>4. \A d \in Conn : step'[d] = "reply" => step[d] = "reply"
    BY <1>1
  <2> QED
    BY <2>1, <2>2, <2>3, <2>4, ChatQuiet, NoneLeaves
<1> QED
  BY <1>2, <1>3, <1>5

LEMMA LookupExplained ==
    ASSUME MInv, NEW c \in Conn, ChatLookup(c)
    PROVE  /\ Carrying' /\ PostedFirst'
           /\ \A m \in Traffic, u \in User : Explained(m, u)
<1>0. /\ step[c] = "lookup" /\ message[c] \in Traffic
      /\ UNCHANGED <<vars, rows, offlineMsg, feed, posted, resent>>
  BY DEF ChatLookup, MInv, DInv, Handling, ChatSteps
<1>1. PICK v \in todo[c] :
        \/ /\ userConnMap[home[c]][v] # NoConn
           /\ Hand(v, userConnMap[home[c]][v], One(message[c]))
           /\ Proceed(c, todo[c] \ {v})
        \/ /\ target' = [target EXCEPT ![c] = v]
           /\ todo' = [todo EXCEPT ![c] = todo[c] \ {v}]
           /\ \E next \in {"publish", "store"} : step' = [step EXCEPT ![c] = next]
           /\ UNCHANGED <<message, handed>>
  BY DEF ChatLookup
<1> QED
  BY <1>0, <1>1, LookupHands, LookupKeepsTarget

\* A handler starts with a message that is nowhere yet.
LEMMA StartExplained ==
    ASSUME MInv, NEW c \in Conn, NEW n \in Traffic, ChatStart(c, n)
    PROVE  /\ Carrying' /\ PostedFirst'
           /\ \A m \in Traffic, u \in User : Explained(m, u)
<1>1. /\ step[c] = "none" /\ message[c] = NoMessage /\ target[c] = NoUser /\ rows[c] = {}
      /\ n \notin posted /\ posted' = posted \cup {n}
      /\ UNCHANGED <<vars, target, rows, offlineMsg, feed, handed, resent>>
      /\ \A d \in Conn : /\ message'[d] = IF d = c THEN n ELSE message[d]
                         /\ todo'[d] = IF d = c THEN n.to ELSE todo[d]
                         /\ step'[d] = IF d = c THEN "lookup" ELSE step[d]
  BY DEF ChatStart, MInv, Carrying, ChatSteps, LoginSteps, DInv, DTypeOK
<1>2. n.to \in SUBSET User
  BY TrafficAssumption
<1>3. Carrying'
  BY <1>1, <1>2, ConstantsAssumption DEF MInv, Carrying, ChatSteps, LoginSteps
<1>4. PostedFirst'
  BY <1>1 DEF MInv, PostedFirst
<1>5. \A d \in Conn : message[d] # n
  BY <1>1, TrafficAssumption DEF MInv, PostedFirst
<1>6. ASSUME NEW m \in Traffic, NEW u \in User
      PROVE  Explained(m, u)
  <2>1. \A d \in Conn : Carries(d, m, u)' <=> \/ Carries(d, m, u)
                                              \/ d = c /\ m = n /\ u \in n.to
    BY <1>1, <1>5, TrafficAssumption, ConstantsAssumption DEF Carries
  <2>2. OneCarrier(m)'
    BY <1>1, <1>5, TrafficAssumption DEF MInv, ItemInv, OneCarrier
  <2>3. Carried(m, u) => m \in posted
    BY TrafficAssumption DEF MInv, PostedFirst, Carried, Carries
  <2>4. Carried(m, u)' <=> Carried(m, u) \/ (m = n /\ u \in n.to)
    BY <2>1 DEF Carried
  <2>5. \A d \in Conn : step'[d] = "reply" => step[d] = "reply"
    BY <1>1
  <2> QED
    BY <1>1, <2>2, <2>3, <2>4, <2>5, ChatQuiet, NoneLeaves
<1> QED
  BY <1>3, <1>4, <1>6

\* PUBLISH makes one push at each process that listens.
LEMMA PublishPushes ==
    ASSUME DTypeOK, NEW v \in User, NEW n \in Traffic, NEW sends \in BOOLEAN,
           feed' = [s \in Server |->
                       IF sends /\ v \in subs[s]
                       THEN Append(feed[s], [channel |-> v, message |-> n])
                       ELSE feed[s]]
    PROVE  /\ \A m \in Traffic, u \in User :
                  ~(m = n /\ u = v) => Pushed(m, u)' = Pushed(m, u)
           /\ \A p \in Pushed(n, v)' :
                  \/ p \in Pushed(n, v)
                  \/ \E s \in Server : v \in subs[s] /\ p = <<s, Len(feed[s]) + 1>>
           /\ \A s \in Server : sends /\ v \in subs[s] => Pushed(n, v)' # {}
           /\ \A s \in Server : \A i \in DOMAIN feed'[s] :
                  \/ i \in DOMAIN feed[s] /\ feed'[s][i] = feed[s][i]
                  \/ feed'[s][i].message = n
<1> DEFINE Push == [channel: User, message: Traffic]
           push == [channel |-> v, message |-> n]
<1>1. feed \in [Server -> Seq(Push)] /\ push \in Push
  BY DEF DTypeOK
<1>2. push.channel = v /\ push.message = n
  OBVIOUS
<1>3. \A s \in Server : feed'[s] = IF sends /\ v \in subs[s] THEN Append(feed[s], push)
                                                             ELSE feed[s]
  OBVIOUS
<1> HIDE DEF Push, push
<1>4. ASSUME NEW s \in Server
      PROVE  /\ sends /\ v \in subs[s] =>
                    /\ DOMAIN feed'[s] = DOMAIN feed[s] \cup {Len(feed[s]) + 1}
                    /\ feed'[s][Len(feed[s]) + 1] = push
                    /\ \A i \in DOMAIN feed[s] : feed'[s][i] = feed[s][i]
             /\ ~(sends /\ v \in subs[s]) => feed'[s] = feed[s]
  <2>1. CASE sends /\ v \in subs[s]
    <3>1. feed[s] \in Seq(Push) /\ feed'[s] = Append(feed[s], push)
      BY <1>1, <1>3, <2>1
    <3>2. DOMAIN feed'[s] = DOMAIN feed[s] \cup {Len(feed[s]) + 1}
      BY <1>1, <3>1
    <3>3. feed'[s][Len(feed[s]) + 1] = push
      BY <1>1, <3>1
    <3>4. \A i \in DOMAIN feed[s] : feed'[s][i] = feed[s][i]
      BY <1>1, <3>1
    <3> QED
      BY <2>1, <3>2, <3>3, <3>4
  <2>2. CASE ~(sends /\ v \in subs[s])
    BY <1>3, <2>2
  <2> QED
    BY <2>1, <2>2
<1>5. \A s \in Server : DOMAIN feed[s] \subseteq DOMAIN feed'[s]
                        /\ \A i \in DOMAIN feed[s] : feed'[s][i] = feed[s][i]
  BY <1>4
<1>6. \A s \in Server : \A i \in DOMAIN feed'[s] \ DOMAIN feed[s] :
          sends /\ v \in subs[s] /\ i = Len(feed[s]) + 1 /\ feed'[s][i] = push
  BY <1>4
<1>7. ASSUME NEW m \in Traffic, NEW u \in User, ~(m = n /\ u = v)
      PROVE  Pushed(m, u)' = Pushed(m, u)
  <2>1. [channel |-> u, message |-> m] # push
    BY <1>7 DEF push
  <2>2. \A p \in Pushed(m, u)' : p \in Pushed(m, u)
    <3> TAKE p \in Pushed(m, u)'
    <3>0. PICK s \in Server : \E i \in DOMAIN feed'[s] :
              p = <<s, i>> /\ feed'[s][i] = [channel |-> u, message |-> m]
      BY PushedIsNext
    <3>1. PICK i \in DOMAIN feed'[s] :
              p = <<s, i>> /\ feed'[s][i] = [channel |-> u, message |-> m]
      BY <3>0
    <3>2. i \in DOMAIN feed[s] /\ feed[s][i] = [channel |-> u, message |-> m]
      BY <1>5, <1>6, <2>1, <3>1
    <3> QED
      BY <3>1, <3>2, PushedIs
  <2>3. \A p \in Pushed(m, u) : p \in Pushed(m, u)'
    <3> TAKE p \in Pushed(m, u)
    <3>0. PICK s \in Server : \E i \in DOMAIN feed[s] :
              p = <<s, i>> /\ feed[s][i] = [channel |-> u, message |-> m]
      BY PushedIs
    <3>1. PICK i \in DOMAIN feed[s] :
              p = <<s, i>> /\ feed[s][i] = [channel |-> u, message |-> m]
      BY <3>0
    <3>2. i \in DOMAIN feed'[s] /\ feed'[s][i] = [channel |-> u, message |-> m]
      BY <1>5, <3>1
    <3> QED
      BY <3>1, <3>2, PushedIsNext
  <2> QED
    BY <2>2, <2>3
<1>8. ASSUME NEW p \in Pushed(n, v)'
      PROVE  \/ p \in Pushed(n, v)
             \/ \E s \in Server : v \in subs[s] /\ p = <<s, Len(feed[s]) + 1>>
  <2>0. PICK s \in Server : \E i \in DOMAIN feed'[s] : p = <<s, i>> /\ feed'[s][i] = push
    BY PushedIsNext DEF push
  <2>1. PICK i \in DOMAIN feed'[s] : p = <<s, i>> /\ feed'[s][i] = push
    BY <2>0
  <2>2. CASE i \in DOMAIN feed[s]
    <3>1. feed[s][i] = push
      BY <1>5, <2>1, <2>2
    <3> QED
      BY <2>1, <2>2, <3>1, PushedIs DEF push
  <2>3. CASE i \notin DOMAIN feed[s]
    BY <1>6, <2>1, <2>3
  <2> QED
    BY <2>2, <2>3
<1>9. ASSUME NEW s \in Server, sends, v \in subs[s]
      PROVE  Pushed(n, v)' # {}
  <2>1. <<s, Len(feed[s]) + 1>> \in Pushed(n, v)'
    BY <1>4, <1>9, PushedIsNext DEF push
  <2> QED
    BY <2>1
<1> QED
  BY <1>2, <1>5, <1>6, <1>7, <1>8, <1>9

\* At most one process listens on the channel of a user, and one does while the
\* user is shown online and steady.
LEMMA Listeners ==
    ASSUME MInv, NEW v \in User, Clean(v)
    PROVE  /\ \A s, t \in Server : v \in subs[s] /\ v \in subs[t] => s = t
           /\ Steady(v) /\ IsOnline(v) => \E s \in Server : v \in subs[s]
<1>1. Subscribed(v) /\ Presence(v) /\ Placed
  BY DEF MInv, SInv, IInv, Clean
<1>2. \A s, t \in Server : v \in subs[s] /\ v \in subs[t] => s = t
  BY <1>1 DEF Subscribed, Silent
<1>3. ASSUME Steady(v), IsOnline(v)
      PROVE  \E s \in Server : v \in subs[s]
  <2>1. HasSession(v)
    BY <1>1, <1>3 DEF Presence, OfflineWithoutSession, IsOnline
  <2>2. PICK e \in Conn : user[e] = v /\ pc[e] = "idle" /\ Pending(home[e], v) = {}
    BY <1>3, <2>1 DEF Steady
  <2>3. Begun(home[e], v)
    BY <1>1, <2>2 DEF Subscribed, ByPhase, AfterSubscribe
  <2>4. home[e] \in Server /\ v \in subs[home[e]]
    BY <1>1, <2>2, <2>3, ConstantsAssumption DEF Placed, Begun
  <2> QED
    BY <2>4
<1> QED
  BY <1>2, <1>3

LEMMA PublishExplained ==
    ASSUME MInv, NEW c \in Conn, ChatPublish(c)
    PROVE  /\ Carrying' /\ PostedFirst'
           /\ \A m \in Traffic, u \in User : Explained(m, u)
<1>0. /\ step[c] = "publish" /\ home[c] \in Server /\ DTypeOK /\ DInv /\ Carrying
      /\ message[c] \in Traffic /\ target[c] \in User
  BY DEF ChatPublish, MInv, DInv, Handling, ChatSteps
<1>a. PICK n \in Traffic : n = message[c]
  BY <1>0
<1>b. PICK v \in User : v = target[c]
  BY <1>0
<1>1. /\ Proceed(c, todo[c])
      /\ UNCHANGED <<vars, rows, offlineMsg, handed, posted, resent>>
      /\ feed' = [s \in Server |-> IF publishing[home[c]] /\ v \in subs[s]
                                   THEN Append(feed[s], [channel |-> v, message |-> n])
                                   ELSE feed[s]]
  BY <1>a, <1>b, ObservedText DEF ChatPublish
<1>2. /\ Carries(c, n, v)
      /\ \A d \in Conn, m \in Traffic, u \in User :
             Carries(d, m, u)' <=> Carries(d, m, u) /\ ~(d = c /\ u = v)
      /\ \A d \in Conn : /\ message'[d] \in {message[d], NoMessage}
                         /\ step'[d] = "reply" => step[d] = "reply"
      /\ Carrying'
  BY <1>0, <1>1, <1>a, <1>b, Leaves
<1>3. /\ \A m \in Traffic, u \in User :
             ~(m = n /\ u = v) => Pushed(m, u)' = Pushed(m, u)
      /\ \A p \in Pushed(n, v)' :
             \/ p \in Pushed(n, v)
             \/ \E s \in Server : v \in subs[s] /\ p = <<s, Len(feed[s]) + 1>>
      /\ \A s \in Server : publishing[home[c]] /\ v \in subs[s] => Pushed(n, v)' # {}
      /\ \A s \in Server : \A i \in DOMAIN feed'[s] :
             \/ i \in DOMAIN feed[s] /\ feed'[s][i] = feed[s][i]
             \/ feed'[s][i].message = n
  <2>1. publishing[home[c]] \in BOOLEAN
    BY <1>0 DEF DTypeOK
  <2> QED
    BY <1>0, <1>1, <2>1, PublishPushes
<1>4. /\ n \in posted
      /\ \A d \in Conn : Carries(d, n, v) => d = c
      /\ Clean(v) => Pushed(n, v) = {}
      /\ Promised(v) => ~InTable(n, v) /\ ~Read(n, v) /\ handed[v][n] = 0
  BY <1>2, Carriage
<1>5. PostedFirst'
  <2>1. \A s \in Server : \A i \in DOMAIN feed'[s] : feed'[s][i].message \in posted
    BY <1>3, <1>4 DEF MInv, PostedFirst
  <2> QED
    BY <1>1, <1>2, <2>1 DEF MInv, PostedFirst
<1>6. UNCHANGED <<user, disturbed, misrouted>>
  BY <1>1, ChatQuiet
<1>7. \A m \in Traffic, u \in User : InTable(m, u)' <=> InTable(m, u)
  BY <1>1 DEF InTable
<1>8. ASSUME NEW m \in Traffic, NEW u \in User, ~(m = n /\ u = v)
      PROVE  Explained(m, u)
  <2>1. handed'[u][m] = handed[u][m] /\ Pushed(m, u)' = Pushed(m, u)
    BY <1>1, <1>3, <1>8
  <2> QED
    BY <1>a, <1>1, <1>2, <1>6, <1>7, <1>8, <2>1, OthersStay
<1>9. Explained(n, v)
  <2>1. OneCarrier(n)'
    BY <1>2, TrafficAssumption DEF MInv, ItemInv, OneCarrier
  <2>2. ~Carried(n, v)'
    BY <1>2, <1>4 DEF Carried
  <2>3. (Clean(v)' <=> Clean(v)) /\ (Read(n, v)' <=> Read(n, v))
    BY <1>1, <1>6, SameUsers DEF Read
  <2>4. ASSUME Clean(v)' PROVE InFlight(n, v)'
    <3>1. \A s, t \in Server : v \in subs[s] /\ v \in subs[t] => s = t
      BY <2>3, <2>4, Listeners
    <3>2. \A p, q \in Pushed(n, v)' : p = q
      BY <1>3, <1>4, <2>3, <2>4, <3>1
    <3> QED
      BY <2>2, <3>2 DEF InFlight
  <2>5. ASSUME Promised(v)' PROVE Sole(n, v)'
    <3>1. ~InTable(n, v) /\ ~Read(n, v) /\ handed[v][n] = 0
      BY <1>1, <1>4, <2>3, <2>5 DEF Promised
    <3> QED
      BY <1>1, <1>7, <2>3, <3>1 DEF Sole, Read
  <2>6. Moved(n, v)
    BY <1>1, <1>2, <1>4 DEF Moved, Present, Carried
  <2>7. ASSUME Clean(v) PROVE Present(n, v)' \/ Window(v)
    <3>1. CASE ~publishing[home[c]]
      BY <1>0, <1>b, <3>1 DEF Window, DeadPublish
    <3>2. CASE ~IsOnline(v)
      BY <1>0, <1>b, <3>2 DEF Window, StaleRead
    <3>3. CASE ~Steady(v)
      BY <3>3 DEF Window
    <3>4. CASE publishing[home[c]] /\ IsOnline(v) /\ Steady(v)
      <4>1. PICK s \in Server : v \in subs[s]
        BY <2>7, <3>4, Listeners
      <4> QED
        BY <1>3, <3>4, <4>1 DEF Present
    <3> QED
      BY <3>1, <3>2, <3>3, <3>4
  <2> QED
    BY <2>1, <2>4, <2>5, <2>6, <2>7 DEF Explained, ItemInv
<1> QED
  BY <1>2, <1>5, <1>8, <1>9

\* What an INSERT does to the table.
LEMMA StoreEffect ==
    ASSUME DTypeOK, NEW v \in User, NEW n \in Traffic, StoreOffline(v, n)
    PROVE  /\ \A m \in Traffic, u \in User :
                  ~(m = n /\ u = v) => (InTable(m, u)' <=> InTable(m, u))
           /\ \/ InTable(n, v)'
              \/ "database" \in Faults /\ UNCHANGED offlineMsg
           /\ \A u \in User : offlineMsg'[u] \subseteq offlineMsg[u] \cup {n}
<1>1. CASE offlineMsg' = [offlineMsg EXCEPT ![v] = @ \cup {n}]
  <2>1. \A u \in User : offlineMsg'[u] = IF u = v THEN offlineMsg[u] \cup {n}
                                                  ELSE offlineMsg[u]
    BY <1>1 DEF DTypeOK
  <2> QED
    BY <2>1 DEF InTable
<1>2. CASE "database" \in Faults /\ UNCHANGED offlineMsg
  BY <1>2 DEF InTable
<1> QED
  BY <1>1, <1>2 DEF StoreOffline

LEMMA StoreExplained ==
    ASSUME MInv, NEW c \in Conn, ChatStore(c)
    PROVE  /\ Carrying' /\ PostedFirst'
           /\ \A m \in Traffic, u \in User : Explained(m, u)
<1>0. /\ step[c] = "store" /\ DTypeOK /\ DInv /\ Carrying
      /\ message[c] \in Traffic /\ target[c] \in User
  BY DEF ChatStore, MInv, DInv, Handling, ChatSteps
<1>a. PICK n \in Traffic : n = message[c]
  BY <1>0
<1>b. PICK v \in User : v = target[c]
  BY <1>0
<1>1. /\ Proceed(c, todo[c]) /\ StoreOffline(v, n)
      /\ UNCHANGED <<vars, rows, feed, handed, posted, resent>>
  BY <1>a, <1>b DEF ChatStore
<1>2. /\ Carries(c, n, v)
      /\ \A d \in Conn, m \in Traffic, u \in User :
             Carries(d, m, u)' <=> Carries(d, m, u) /\ ~(d = c /\ u = v)
      /\ \A d \in Conn : /\ message'[d] \in {message[d], NoMessage}
                         /\ step'[d] = "reply" => step[d] = "reply"
      /\ Carrying'
  BY <1>0, <1>1, <1>a, <1>b, Leaves
<1>3. /\ \A m \in Traffic, u \in User :
             ~(m = n /\ u = v) => (InTable(m, u)' <=> InTable(m, u))
      /\ \/ InTable(n, v)'
         \/ "database" \in Faults /\ UNCHANGED offlineMsg
      /\ \A u \in User : offlineMsg'[u] \subseteq offlineMsg[u] \cup {n}
  BY <1>0, <1>1, StoreEffect
<1>4. /\ n \in posted
      /\ \A d \in Conn : Carries(d, n, v) => d = c
      /\ Clean(v) => Pushed(n, v) = {}
      /\ Promised(v) => ~InTable(n, v) /\ ~Read(n, v) /\ handed[v][n] = 0
  BY <1>2, Carriage
<1>5. PostedFirst'
  <2>1. \A u \in User : offlineMsg'[u] \subseteq posted
    BY <1>3, <1>4 DEF MInv, PostedFirst
  <2> QED
    BY <1>1, <1>2, <2>1 DEF MInv, PostedFirst
<1>6. UNCHANGED <<user, disturbed, misrouted>>
  BY <1>1, ChatQuiet
<1>7. \A m \in Traffic, u \in User : Pushed(m, u)' = Pushed(m, u)
  BY <1>1 DEF Pushed
<1>8. ASSUME NEW m \in Traffic, NEW u \in User, ~(m = n /\ u = v)
      PROVE  Explained(m, u)
  BY <1>a, <1>1, <1>2, <1>3, <1>6, <1>7, <1>8, OthersStay
<1>9. Explained(n, v)
  <2>1. OneCarrier(n)'
    BY <1>2, TrafficAssumption DEF MInv, ItemInv, OneCarrier
  <2>2. ~Carried(n, v)'
    BY <1>2, <1>4 DEF Carried
  <2>3. (Clean(v)' <=> Clean(v)) /\ (Read(n, v)' <=> Read(n, v))
    BY <1>1, <1>6, SameUsers DEF Read
  <2>4. Clean(v)' => InFlight(n, v)'
    BY <1>4, <1>7, <2>2, <2>3 DEF InFlight
  <2>5. ASSUME Promised(v)' PROVE Sole(n, v)'
    <3>1. Pushed(n, v) = {} /\ ~Read(n, v) /\ handed[v][n] = 0
      BY <1>1, <1>4, <2>3, <2>5 DEF Promised
    <3> QED
      BY <1>1, <1>7, <2>2, <2>3, <3>1 DEF Sole, Read
  <2>6. Moved(n, v)
    BY <1>1, <1>2, <1>4 DEF Moved, Present, Carried
  <2>7. Present(n, v)' \/ Window(v)
    BY <1>0, <1>b, <1>3 DEF Present, Window, FailedInsert
  <2> QED
    BY <2>1, <2>4, <2>5, <2>6, <2>7 DEF Explained, ItemInv
<1> QED
  BY <1>2, <1>5, <1>8, <1>9

-----------------------------------------------------------------------------
(* The observer thread.                                                    *)

\* Taking the first push of a process removes this push and no other.
LEMMA TailPushes ==
    ASSUME DTypeOK, NEW s \in Server, NEW v \in User, NEW n \in Traffic,
           feed[s] # <<>>, Head(feed[s]) = [channel |-> v, message |-> n],
           feed' = [feed EXCEPT ![s] = Tail(@)]
    PROVE  /\ Pushed(n, v) # {}
           /\ (\A p, q \in Pushed(n, v) : p = q) => Pushed(n, v)' = {}
           /\ \A m \in Traffic, u \in User :
                  /\ (\A p, q \in Pushed(m, u) : p = q) => (\A p, q \in Pushed(m, u)' : p = q)
                  /\ Pushed(m, u)' # {} => Pushed(m, u) # {}
                  /\ ~(m = n /\ u = v) => (Pushed(m, u) # {} => Pushed(m, u)' # {})
           /\ \A t \in Server : \A i \in DOMAIN feed'[t] :
                  \E j \in DOMAIN feed[t] : feed'[t][i] = feed[t][j]
<1> DEFINE Push == [channel: User, message: Traffic]
           Old(t, i) == IF t = s THEN i + 1 ELSE i
<1>1. feed \in [Server -> Seq(Push)]
  BY DEF DTypeOK
<1> HIDE DEF Push
<1>2. feed[s] \in Seq(Push) /\ feed'[s] = Tail(feed[s])
  BY <1>1
<1>3. /\ \A i \in DOMAIN feed'[s] : /\ i \in Nat \ {0} /\ i + 1 \in DOMAIN feed[s]
                                    /\ feed'[s][i] = feed[s][i + 1]
      /\ 1 \in DOMAIN feed[s] /\ feed[s][1] = Head(feed[s])
      /\ \A i \in DOMAIN feed[s] : i \in Nat /\ (i = 1 \/ i - 1 \in DOMAIN feed'[s])
  <2> DEFINE q == feed[s]
             r == feed'[s]
  <2>1. q \in Seq(Push) /\ q # <<>> /\ r = Tail(q)
    BY <1>2
  <2> HIDE DEF q, r
  <2>2. \A i \in DOMAIN r : i \in Nat \ {0} /\ i + 1 \in DOMAIN q /\ r[i] = q[i + 1]
    BY <2>1
  <2>3. 1 \in DOMAIN q /\ q[1] = Head(q)
    BY <2>1
  <2>4. \A i \in DOMAIN q : i \in Nat /\ (i = 1 \/ i - 1 \in DOMAIN r)
    BY <2>1
  <2> QED
    BY <2>2, <2>3, <2>4 DEF q, r
<1>4. \A t \in Server \ {s} : feed'[t] = feed[t]
  BY <1>1
<1>5. \A t \in Server : \A i \in DOMAIN feed'[t] :
          Old(t, i) \in DOMAIN feed[t] /\ feed'[t][i] = feed[t][Old(t, i)]
  BY <1>3, <1>4
<1>6. <<s, 1>> \in Pushed(n, v)
  BY <1>3, PushedIs
<1>7. \A m \in Traffic, u \in User : \A p \in Pushed(m, u)' :
          \E t \in Server : \E i \in DOMAIN feed'[t] :
              p = <<t, i>> /\ <<t, Old(t, i)>> \in Pushed(m, u)
  <2> TAKE m \in Traffic, u \in User
  <2> TAKE p \in Pushed(m, u)'
  <2>1. PICK t \in Server : \E i \in DOMAIN feed'[t] :
            p = <<t, i>> /\ feed'[t][i] = [channel |-> u, message |-> m]
    BY PushedIsNext
  <2>2. PICK i \in DOMAIN feed'[t] :
            p = <<t, i>> /\ feed'[t][i] = [channel |-> u, message |-> m]
    BY <2>1
  <2>3. <<t, Old(t, i)>> \in Pushed(m, u)
    BY <1>5, <2>2, PushedIs
  <2> QED
    BY <2>2, <2>3
<1>8. ASSUME NEW m \in Traffic, NEW u \in User, \A p, q \in Pushed(m, u) : p = q,
             NEW p \in Pushed(m, u)', NEW q \in Pushed(m, u)'
      PROVE  p = q
  <2>1. PICK t \in Server : \E i \in DOMAIN feed'[t] :
            p = <<t, i>> /\ <<t, Old(t, i)>> \in Pushed(m, u)
    BY <1>7
  <2>2. PICK i \in DOMAIN feed'[t] : p = <<t, i>> /\ <<t, Old(t, i)>> \in Pushed(m, u)
    BY <2>1
  <2>3. PICK t1 \in Server : \E j \in DOMAIN feed'[t1] :
            q = <<t1, j>> /\ <<t1, Old(t1, j)>> \in Pushed(m, u)
    BY <1>7
  <2>4. PICK j \in DOMAIN feed'[t1] : q = <<t1, j>> /\ <<t1, Old(t1, j)>> \in Pushed(m, u)
    BY <2>3
  <2>5. t = t1 /\ Old(t, i) = Old(t, j)
    BY <1>8, <2>2, <2>4
  <2>6. i = j
    <3>1. CASE t = s
      BY <1>3, <2>2, <2>4, <2>5, <3>1
    <3>2. CASE t # s
      BY <2>5, <3>2
    <3> QED
      BY <3>1, <3>2
  <2> QED
    BY <2>2, <2>4, <2>5, <2>6
<1>9. ASSUME \A p, q \in Pushed(n, v) : p = q
      PROVE  Pushed(n, v)' = {}
  <2> SUFFICES ASSUME NEW p \in Pushed(n, v)' PROVE FALSE
    OBVIOUS
  <2>1. PICK t \in Server : \E i \in DOMAIN feed'[t] : <<t, Old(t, i)>> \in Pushed(n, v)
    BY <1>7
  <2>2. PICK i \in DOMAIN feed'[t] : <<t, Old(t, i)>> \in Pushed(n, v)
    BY <2>1
  <2>3. <<t, Old(t, i)>> = <<s, 1>>
    BY <1>6, <1>9, <2>2
  <2> QED
    BY <1>3, <2>2, <2>3
<1>10. ASSUME NEW m \in Traffic, NEW u \in User, ~(m = n /\ u = v), Pushed(m, u) # {}
       PROVE  Pushed(m, u)' # {}
  <2>1. PICK p \in Pushed(m, u) : TRUE
    BY <1>10
  <2>2. PICK t \in Server : \E i \in DOMAIN feed[t] :
            p = <<t, i>> /\ feed[t][i] = [channel |-> u, message |-> m]
    BY PushedIs
  <2>3. PICK i \in DOMAIN feed[t] : feed[t][i] = [channel |-> u, message |-> m]
    BY <2>2
  <2>4. CASE t = s
    <3>1. i # 1
      <4>1. [channel |-> u, message |-> m] # [channel |-> v, message |-> n]
        BY <1>10
      <4> QED
        BY <1>3, <2>3, <2>4, <4>1
    <3>2. i - 1 \in DOMAIN feed'[s] /\ feed'[s][i - 1] = [channel |-> u, message |-> m]
      <4>1. i \in Nat /\ i - 1 \in DOMAIN feed'[s]
        BY <1>3, <2>3, <2>4, <3>1
      <4>2. (i - 1) + 1 = i
        BY <4>1
      <4> QED
        BY <1>3, <2>3, <2>4, <4>1, <4>2
    <3>3. <<s, i - 1>> \in Pushed(m, u)'
      BY <3>2, PushedIsNext
    <3> QED
      BY <3>3
  <2>5. CASE t # s
    <3>1. <<t, i>> \in Pushed(m, u)'
      BY <1>4, <2>3, <2>5, PushedIsNext
    <3> QED
      BY <3>1
  <2> QED
    BY <2>4, <2>5
<1>11. \A m \in Traffic, u \in User : Pushed(m, u)' # {} => Pushed(m, u) # {}
  BY <1>7
<1> QED
  BY <1>5, <1>6, <1>8, <1>9, <1>10, <1>11

LEMMA ObserverExplained ==
    ASSUME MInv, NEW s \in Server, ObserverHandle(s)
    PROVE  /\ Carrying' /\ PostedFirst'
           /\ \A m \in Traffic, u \in User : Explained(m, u)
<1>0. DTypeOK /\ feed[s] # <<>> /\ feed' = [feed EXCEPT ![s] = Tail(@)]
      /\ UNCHANGED <<vars, handlerVars, posted, resent>>
  BY DEF ObserverHandle, MInv, DInv
<1>1. Head(feed[s]) \in [channel: User, message: Traffic]
  <2> DEFINE Push == [channel: User, message: Traffic]
  <2>1. feed[s] \in Seq(Push)
    BY <1>0 DEF DTypeOK
  <2> HIDE DEF Push
  <2>2. Head(feed[s]) \in Push
    BY <1>0, <2>1
  <2> QED
    BY <2>2 DEF Push
<1>a. PICK v \in User, n \in Traffic : Head(feed[s]) = [channel |-> v, message |-> n]
  BY <1>1
<1>2. /\ Pushed(n, v) # {}
      /\ (\A p, q \in Pushed(n, v) : p = q) => Pushed(n, v)' = {}
      /\ \A m \in Traffic, u \in User :
             /\ (\A p, q \in Pushed(m, u) : p = q) => (\A p, q \in Pushed(m, u)' : p = q)
             /\ Pushed(m, u)' # {} => Pushed(m, u) # {}
             /\ ~(m = n /\ u = v) => (Pushed(m, u) # {} => Pushed(m, u)' # {})
      /\ \A t \in Server : \A i \in DOMAIN feed'[t] :
             \E j \in DOMAIN feed[t] : feed'[t][i] = feed[t][j]
  BY <1>0, <1>a, TailPushes
<1>3. \/ /\ userConnMap[s][v] # NoConn
         /\ Hand(v, userConnMap[s][v], One(n))
         /\ UNCHANGED offlineMsg
      \/ StoreOffline(v, n) /\ UNCHANGED handed
  BY <1>a DEF ObserverHandle
<1>4. /\ \A m \in Traffic, u \in User : ~(m = n /\ u = v) =>
             /\ handed'[u][m] = handed[u][m]
             /\ InTable(m, u)' <=> InTable(m, u)
      /\ \A u \in User : offlineMsg'[u] \subseteq offlineMsg[u] \cup {n}
  <2>1. CASE Hand(v, userConnMap[s][v], One(n)) /\ UNCHANGED offlineMsg
    BY <1>0, <2>1, HandOne DEF InTable
  <2>2. CASE StoreOffline(v, n) /\ UNCHANGED handed
    BY <1>0, <2>2, StoreEffect
  <2> QED
    BY <1>3, <2>1, <2>2
<1>5. n \in posted
  <2>1. PICK p \in Pushed(n, v) : TRUE
    BY <1>2
  <2>2. PICK t \in Server : \E i \in DOMAIN feed[t] :
            feed[t][i] = [channel |-> v, message |-> n]
    BY PushedIs
  <2> QED
    BY <2>2 DEF MInv, PostedFirst
<1>6. PostedFirst'
  <2>1. \A u \in User : offlineMsg'[u] \subseteq posted
    BY <1>4, <1>5 DEF MInv, PostedFirst
  <2>2. \A t \in Server : \A i \in DOMAIN feed'[t] : feed'[t][i].message \in posted
    BY <1>2 DEF MInv, PostedFirst
  <2>3. \A u \in User, m \in Traffic : m \notin posted => handed'[u][m] = 0
    BY <1>4, <1>5 DEF MInv, PostedFirst
  <2> QED
    BY <1>0, <2>1, <2>2, <2>3 DEF MInv, PostedFirst, handlerVars
<1>7. Carrying'
  BY <1>0 DEF MInv, Carrying, handlerVars
<1>8. ASSUME NEW m \in Traffic, NEW u \in User
      PROVE  /\ UNCHANGED <<user, disturbed, misrouted, rows, step, posted, resent>>
             /\ Clean(u)' <=> Clean(u)
             /\ Promised(u)' <=> Promised(u)
             /\ Carried(m, u)' <=> Carried(m, u)
             /\ \A c \in Conn : Reading(c, m, u)' <=> Reading(c, m, u)
             /\ Read(m, u)' <=> Read(m, u)
             /\ OneCarrier(m)'
             /\ ItemInv(m, u)
  BY <1>0, ChatQuiet, SameUsers
     DEF handlerVars, Clean, Promised, Carried, Carries, Read, Reading, OneCarrier, MInv,
         ItemInv
<1>9. ASSUME NEW m \in Traffic, NEW u \in User, ~(m = n /\ u = v)
      PROVE  Explained(m, u)
  <2>1. /\ handed'[u][m] = handed[u][m] /\ (InTable(m, u)' <=> InTable(m, u))
        /\ (\A p, q \in Pushed(m, u) : p = q) => (\A p, q \in Pushed(m, u)' : p = q)
        /\ Pushed(m, u)' # {} <=> Pushed(m, u) # {}
    BY <1>2, <1>4, <1>9
  <2>2. ItemInv(m, u)' /\ Moved(m, u)
    BY <1>8, <2>1, FewerCopies
  <2>3. Present(m, u)' <=> Present(m, u)
    BY <1>8, <2>1 DEF Present
  <2> QED
    BY <2>2, <2>3 DEF Explained
<1>10. Explained(n, v)
  <2>1. Clean(v) => InFlight(n, v) /\ ~Carried(n, v) /\ Pushed(n, v)' = {}
    BY <1>2, <1>8 DEF ItemInv, InFlight
  <2>2. Promised(v) => ~InTable(n, v) /\ ~Read(n, v) /\ handed[v][n] = 0
    BY <1>2, <1>8 DEF ItemInv, Sole
  <2>3. Clean(v)' => InFlight(n, v)'
    BY <1>8, <2>1 DEF InFlight
  <2>4. Promised(v) => Clean(v)
    BY DEF Promised
  <2>5. \/ /\ userConnMap[s][v] # NoConn /\ (InTable(n, v)' <=> InTable(n, v))
           /\ handed'[v][n] = IF alive[userConnMap[s][v]] THEN handed[v][n] + 1
                                                            ELSE handed[v][n]
        \/ /\ handed'[v][n] = handed[v][n]
           /\ InTable(n, v)' \/ ("database" \in Faults /\ UNCHANGED offlineMsg)
    BY <1>0, <1>3, HandOne, StoreEffect DEF InTable
  <2>6. ASSUME Promised(v)' PROVE Sole(n, v)'
    <3>1. /\ ~Carried(n, v)' /\ ~Read(n, v)' /\ Pushed(n, v)' = {}
          /\ ~InTable(n, v) /\ handed[v][n] = 0
      BY <1>8, <2>1, <2>2, <2>4, <2>6
    <3>2. handed'[v][n] \in {0, 1} /\ (InTable(n, v)' => handed'[v][n] = 0)
      BY <2>5, <3>1
    <3> QED
      BY <3>1, <3>2 DEF Sole, Read
  <2>7. Moved(n, v)
    BY <1>2, <1>5 DEF Moved, Present
  <2>8. ASSUME Clean(v) PROVE Present(n, v)' \/ Window(v)
    <3>1. CASE /\ userConnMap[s][v] # NoConn /\ alive[userConnMap[s][v]]
               /\ handed'[v][n] = handed[v][n] + 1
      <4>1. handed[v][n] \in Nat
        BY <1>0 DEF DTypeOK
      <4> QED
        BY <3>1, <4>1 DEF Present
    <3>2. CASE userConnMap[s][v] # NoConn /\ ~alive[userConnMap[s][v]]
      BY <2>8, <3>2, DeadEntry
    <3>3. CASE InTable(n, v)'
      BY <3>3 DEF Present
    <3>4. CASE "database" \in Faults /\ UNCHANGED offlineMsg
      BY <1>0, <1>a, <3>4 DEF Window, FailedInsert
    <3> QED
      BY <2>5, <3>1, <3>2, <3>3, <3>4
  <2> QED
    BY <1>8, <2>3, <2>6, <2>7, <2>8 DEF Explained, ItemInv
<1> QED
  BY <1>6, <1>7, <1>9, <1>10

-----------------------------------------------------------------------------
(* The end of a login.                                                     *)

LEMMA QueryExplained ==
    ASSUME MInv, NEW c \in Conn, OfflineQuery(c)
    PROVE  /\ Carrying' /\ PostedFirst'
           /\ \A m \in Traffic, u \in User : Explained(m, u)
<1>0. /\ step[c] = "none" /\ rows[c] = {} /\ user[c] \in User
      /\ UNCHANGED <<vars, message, todo, target, offlineMsg, feed, handed, posted, resent>>
  BY DEF OfflineQuery, At, mailVars, MInv, Carrying, LoginSteps, DInv, Placed
<1>1. PICK found \in {offlineMsg[user[c]]} \cup (IF "database" \in Faults THEN {{}} ELSE {}) :
          /\ rows' = [rows EXCEPT ![c] = found]
          /\ step' = [step EXCEPT ![c] = IF found = {} THEN "reply" ELSE "remove"]
  BY DEF OfflineQuery
<1>2. /\ found \subseteq offlineMsg[user[c]]
      /\ \A d \in Conn : /\ rows'[d] = IF d = c THEN found ELSE rows[d]
                         /\ step'[d] = IF d # c THEN step[d]
                                       ELSE IF found = {} THEN "reply" ELSE "remove"
  BY <1>1 DEF MInv, DInv, DTypeOK
<1>3. Carrying'
  <2>1. /\ step[c] \notin ChatSteps /\ step'[c] \in LoginSteps
        /\ step'[c] \notin ChatSteps /\ step'[c] \notin {"publish", "store"}
    BY <1>0, <1>2 DEF ChatSteps, LoginSteps
  <2>2. \A d \in Conn \ {c} : step'[d] = step[d] /\ rows'[d] = rows[d]
    BY <1>2
  <2> QED
    BY <1>0, <2>1, <2>2 DEF MInv, Carrying
<1>4. PostedFirst'
  <2>1. \A d \in Conn : rows'[d] \subseteq posted
    BY <1>0, <1>2 DEF MInv, PostedFirst
  <2> QED
    BY <1>0, <2>1 DEF MInv, PostedFirst
<1>5. ASSUME NEW m \in Traffic, NEW u \in User
      PROVE  Explained(m, u)
  <2>1. /\ Clean(u)' <=> Clean(u)
        /\ Promised(u)' <=> Promised(u)
        /\ Carried(m, u)' <=> Carried(m, u)
        /\ Pushed(m, u)' = Pushed(m, u)
        /\ InTable(m, u)' <=> InTable(m, u)
        /\ handed'[u][m] = handed[u][m]
        /\ OneCarrier(m)'
        /\ ItemInv(m, u)
        /\ user' = user
    BY <1>0, ChatQuiet, SameUsers
       DEF Clean, Promised, Carried, Carries, Pushed, InTable, OneCarrier, MInv, ItemInv
  <2>2. ASSUME NEW d \in Conn
        PROVE  Reading(d, m, u)' => \/ d # c /\ Reading(d, m, u) /\ step'[d] = step[d]
                                    \/ d = c /\ InTable(m, u) /\ step'[d] = "remove"
    BY <1>2, <2>1 DEF Reading, InTable
  <2>3. Read(m, u) => Read(m, u)'
    BY <1>0, <1>2, <2>1 DEF Read, Reading
  <2>4. Read(m, u)' => Read(m, u) \/ InTable(m, u)
    BY <2>2 DEF Read
  <2>5. Clean(u)' => InFlight(m, u)'
    BY <2>1 DEF ItemInv, InFlight
  <2>6. ASSUME Promised(u)' PROVE Sole(m, u)'
    <3>1. Sole(m, u)
      BY <2>1, <2>6 DEF ItemInv
    <3>2. Carried(m, u)' \/ Pushed(m, u)' # {} =>
              ~InTable(m, u)' /\ ~Read(m, u)' /\ handed'[u][m] = 0
      BY <2>1, <2>4, <3>1 DEF Sole
    <3>3. \A d \in Conn : Reading(d, m, u)' =>
              handed'[u][m] = 0 /\ (step'[d] = "reply" => ~InTable(m, u)')
      BY <2>1, <2>2, <3>1 DEF Sole
    <3>4. /\ InTable(m, u)' => handed'[u][m] = 0
          /\ handed'[u][m] \in {0, 1}
      BY <2>1, <3>1 DEF Sole
    <3> QED
      BY <3>2, <3>3, <3>4 DEF Sole
  <2>7. Present(m, u)' <=> Present(m, u)
    BY <2>1, <2>3, <2>4 DEF Present
  <2>8. Moved(m, u)
    BY <1>0, <2>1, <2>7 DEF Moved
  <2> QED
    BY <2>1, <2>5, <2>6, <2>7, <2>8 DEF Explained, ItemInv
<1> QED
  BY <1>3, <1>4, <1>5

LEMMA RemoveExplained ==
    ASSUME MInv, NEW c \in Conn, OfflineRemove(c)
    PROVE  /\ Carrying' /\ PostedFirst'
           /\ \A m \in Traffic, u \in User : Explained(m, u)
<1>0. /\ step[c] = "remove" /\ user[c] \in User /\ pc[c] = "deliver"
      /\ UNCHANGED <<vars, message, todo, target, rows, feed, handed, posted>>
      /\ resent \subseteq resent'
  BY DEF OfflineRemove, MInv, DInv, Placed, Handling, LoginSteps
<1>1. \A d \in Conn : step'[d] = IF d = c THEN "reply" ELSE step[d]
  BY DEF OfflineRemove, MInv, DInv, DTypeOK
<1>2. /\ \A u \in User \ {user[c]} : offlineMsg'[u] = offlineMsg[u]
      /\ offlineMsg'[user[c]] = {} \/ user[c] \in resent'
      /\ \A u \in User : offlineMsg'[u] \subseteq offlineMsg[u]
  BY <1>0 DEF OfflineRemove, MInv, DInv, DTypeOK
<1>3. Carrying'
  BY <1>0, <1>1 DEF MInv, Carrying, ChatSteps, LoginSteps
<1>4. PostedFirst'
  BY <1>0, <1>2 DEF MInv, PostedFirst
<1>5. ASSUME NEW m \in Traffic, NEW u \in User
      PROVE  Explained(m, u)
  <2>1. /\ Clean(u)' <=> Clean(u)
        /\ Promised(u)' => Promised(u)
        /\ Carried(m, u)' <=> Carried(m, u)
        /\ Pushed(m, u)' = Pushed(m, u)
        /\ handed'[u][m] = handed[u][m]
        /\ \A d \in Conn : Reading(d, m, u)' <=> Reading(d, m, u)
        /\ Read(m, u)' <=> Read(m, u)
        /\ OneCarrier(m)'
        /\ ItemInv(m, u)
    BY <1>0, ChatQuiet, SameUsers
       DEF Clean, Promised, Carried, Carries, Pushed, Read, Reading, OneCarrier, MInv, ItemInv
  <2>2. /\ InTable(m, u)' => InTable(m, u)
        /\ u # user[c] => (InTable(m, u)' <=> InTable(m, u))
        /\ u = user[c] => ~InTable(m, u)' \/ ~Promised(u)'
    BY <1>2 DEF InTable, Promised
  <2>3. Clean(u)' => InFlight(m, u)'
    BY <2>1 DEF ItemInv, InFlight
  <2>4. ASSUME Promised(u)' PROVE Sole(m, u)'
    <3>1. Sole(m, u)
      BY <2>1, <2>4 DEF ItemInv
    <3>2. \A d \in Conn : Reading(d, m, u)' =>
              handed'[u][m] = 0 /\ (step'[d] = "reply" => ~InTable(m, u)')
      <4> TAKE d \in Conn
      <4>1. CASE d = c
        BY <2>1, <2>2, <2>4, <3>1, <4>1 DEF Sole, Reading
      <4>2. CASE d # c
        BY <1>1, <2>1, <2>2, <3>1, <4>2 DEF Sole
      <4> QED
        BY <4>1, <4>2
    <3> QED
      BY <2>1, <2>2, <3>1, <3>2 DEF Sole
  <2>5. Moved(m, u)
    BY <1>0, <2>1, <2>2 DEF Moved, Present
  <2>6. ASSUME Clean(u), Present(m, u) PROVE Present(m, u)' \/ Window(u)
    <3>1. CASE u = user[c]
      BY <1>0, <2>6, <3>1, NotSteady
    <3>2. CASE u # user[c]
      BY <2>1, <2>2, <2>6, <3>2 DEF Present
    <3> QED
      BY <3>1, <3>2
  <2> QED
    BY <2>1, <2>3, <2>4, <2>5, <2>6 DEF Explained, ItemInv
<1> QED
  BY <1>3, <1>4, <1>5

LEMMA ReplyExplained ==
    ASSUME MInv, NEW c \in Conn, OfflineReply(c)
    PROVE  /\ Carrying' /\ PostedFirst'
           /\ \A m \in Traffic, u \in User : Explained(m, u)
<1>0. /\ step[c] = "reply" /\ user[c] \in User /\ pc[c] = "deliver" /\ DTypeOK
      /\ UNCHANGED <<message, todo, target, offlineMsg, feed, posted, resent>>
      /\ UNCHANGED <<user, disturbed, misrouted>>
  BY DEF OfflineReply, LoginReply, historyVars, MInv, DInv, Placed, Handling, LoginSteps
<1>1. \A d \in Conn : /\ rows'[d] = IF d = c THEN {} ELSE rows[d]
                      /\ step'[d] = IF d = c THEN "none" ELSE step[d]
  BY <1>0 DEF OfflineReply, DTypeOK
<1>2. \A u \in User, m \in Traffic :
          handed'[u][m] = IF alive[c] /\ u = user[c] /\ m \in rows[c] THEN handed[u][m] + 1
                                                                      ELSE handed[u][m]
  <2> DEFINE bag == [m \in Traffic |-> IF m \in rows[c] THEN 1 ELSE 0]
  <2>1. bag \in [Traffic -> Nat] /\ Hand(user[c], c, bag)
    BY DEF OfflineReply
  <2>2. \A u \in User, m \in Traffic :
            handed'[u][m] = IF alive[c] /\ u = user[c] THEN handed[u][m] + bag[m]
                                                        ELSE handed[u][m]
    BY <1>0, <2>1, HandEffect
  <2>3. \A u \in User, m \in Traffic : handed[u][m] \in Nat
    BY <1>0 DEF DTypeOK
  <2> QED
    BY <2>2, <2>3
<1>3. Carrying'
  BY <1>0, <1>1 DEF MInv, Carrying, ChatSteps, LoginSteps
<1>4. PostedFirst'
  <2>1. \A d \in Conn : rows[d] \subseteq posted
    BY DEF MInv, PostedFirst
  <2>2. \A u \in User, m \in Traffic : m \notin posted => handed'[u][m] = 0
    BY <1>2, <2>1 DEF MInv, PostedFirst
  <2> QED
    BY <1>0, <1>1, <2>2 DEF MInv, PostedFirst
<1>5. ASSUME NEW m \in Traffic, NEW u \in User
      PROVE  Explained(m, u)
  <2>1. /\ Clean(u)' <=> Clean(u)
        /\ Promised(u)' <=> Promised(u)
        /\ Carried(m, u)' <=> Carried(m, u)
        /\ Pushed(m, u)' = Pushed(m, u)
        /\ InTable(m, u)' <=> InTable(m, u)
        /\ OneCarrier(m)'
        /\ ItemInv(m, u)
    BY <1>0
       DEF Clean, Promised, Carried, Carries, Pushed, InTable, OneCarrier, MInv, ItemInv
  <2>2. \A d \in Conn : Reading(d, m, u)' <=> d # c /\ Reading(d, m, u)
    BY <1>0, <1>1 DEF Reading
  <2>3. CASE ~Reading(c, m, u)
    <3>1. /\ \A d \in Conn : Reading(d, m, u)' <=> Reading(d, m, u)
          /\ Read(m, u)' <=> Read(m, u)
      BY <2>2, <2>3 DEF Read
    <3>2. handed'[u][m] = handed[u][m]
      BY <1>0, <1>2, <2>3 DEF Reading
    <3>3. \A d \in Conn : step'[d] = "reply" => step[d] = "reply"
      BY <1>1
    <3>4. ItemInv(m, u)' /\ Moved(m, u)
      BY <1>0, <2>1, <3>1, <3>2, <3>3, FewerCopies
    <3>5. Present(m, u)' <=> Present(m, u)
      BY <2>1, <3>1, <3>2 DEF Present
    <3> QED
      BY <3>4, <3>5 DEF Explained
  <2>4. CASE Reading(c, m, u)
    <3>1. u = user[c] /\ m \in rows[c] /\ Read(m, u)
      BY <2>4 DEF Reading, Read
    <3>2. handed'[u][m] = IF alive[c] THEN handed[u][m] + 1 ELSE handed[u][m]
      BY <1>2, <3>1
    <3>3. Clean(u)' => InFlight(m, u)'
      BY <2>1 DEF ItemInv, InFlight
    <3>4. ASSUME Promised(u)' PROVE Sole(m, u)'
      <4>1. Sole(m, u) /\ OneSession(u)
        BY <2>1, <3>4 DEF ItemInv, Promised, Clean, MInv, SInv, IInv, Presence
      <4>2. ~Read(m, u)'
        BY <2>2, <2>4, <4>1 DEF Read, Reading, OneSession
      <4>3. ~Carried(m, u) /\ Pushed(m, u) = {} /\ handed[u][m] = 0 /\ ~InTable(m, u)
        BY <1>0, <2>4, <3>1, <4>1 DEF Sole
      <4> QED
        BY <2>1, <3>2, <4>2, <4>3 DEF Sole, Read
    <3>5. Moved(m, u)
      BY <1>0, <3>1 DEF Moved, Present
    <3>6. ASSUME Clean(u) PROVE Present(m, u)' \/ Window(u)
      <4>1. CASE alive[c]
        <5>1. handed'[u][m] # 0
          BY <1>0, <3>2, <4>1 DEF DTypeOK
        <5> QED
          BY <5>1 DEF Present
      <4>2. CASE ~alive[c]
        BY <3>1, <3>6, <4>2, NotSteady
      <4> QED
        BY <4>1, <4>2
    <3> QED
      BY <2>1, <3>3, <3>4, <3>5, <3>6 DEF Explained, ItemInv
  <2> QED
    BY <2>3, <2>4
<1> QED
  BY <1>3, <1>4, <1>5

-----------------------------------------------------------------------------
(* The steps of the sessions.                                              *)

\* A step that leaves the messages alone, and the user of a login that has
\* read its rows.
LEMMA QuietExplained ==
    ASSUME MInv, UNCHANGED <<handlerVars, offlineMsg, feed, handed, posted, resent>>,
           \A d \in Conn : rows[d] # {} => user'[d] = user[d],
           \A u \in User : Clean(u)' => Clean(u)
    PROVE  /\ Carrying' /\ PostedFirst'
           /\ \A m \in Traffic, u \in User : Explained(m, u)
<1>1. Carrying' /\ PostedFirst'
  BY DEF MInv, Carrying, PostedFirst, handlerVars
<1>2. ASSUME NEW m \in Traffic, NEW u \in User
      PROVE  Explained(m, u)
  <2>1. /\ Carried(m, u)' <=> Carried(m, u)
        /\ Pushed(m, u)' = Pushed(m, u)
        /\ InTable(m, u)' <=> InTable(m, u)
        /\ OneCarrier(m)'
        /\ ItemInv(m, u)
        /\ step' = step
    BY DEF handlerVars, Carried, Carries, Pushed, InTable, OneCarrier, MInv, ItemInv
  <2>2. \A d \in Conn : Reading(d, m, u)' <=> Reading(d, m, u)
    BY DEF Reading, handlerVars
  <2>3. Read(m, u)' <=> Read(m, u)
    BY <2>2 DEF Read
  <2>4. ItemInv(m, u)' /\ Moved(m, u)
    BY <2>1, <2>2, FewerCopies
  <2> QED
    BY <2>1, <2>3, <2>4 DEF Explained, Present
<1> QED
  BY <1>1, <1>2

\* A session keeps its user while its login has rows to delete or to send.
LEMMA ReaderKeepsUser ==
    ASSUME MInv, NEW c \in Conn, SessionStep(c), NEW d \in Conn,
           rows[d] # {} \/ step[d] = "remove"
    PROVE  user'[d] = user[d]
<1>1. step[d] # "none" /\ pc[d] = "deliver" /\ home[d] \in Server
  BY DEF MInv, Carrying, DInv, Handling, LoginSteps
<1>2. CASE UnlockedStep(c)
  <2>1. CASE \/ \E s \in Server : Connect(c, s)
             \/ ClientCloses(c) \/ LoginSubscribe(c) \/ LoginSetOnline(c)
    BY <2>1 DEF Connect, ClientCloses, LoginSubscribe, LoginSetOnline
  <2>2. CASE LogoutUnsubscribe(c) \/ CloseUnsubscribe(c) \/ CloseSetOffline(c)
    BY <1>1, <2>2 DEF LogoutUnsubscribe, CloseUnsubscribe, CloseGoesOn, CloseSetOffline,
                      Release, At, MInv, DInv, TypeOK
  <2>3. CASE step[c] = "none" /\ (LogoutSetOffline(c) \/ \E u \in User : LoginQuery(c, u))
    BY <1>1, <2>3 DEF LogoutSetOffline, LoginQuery, MInv, DInv, TypeOK
  <2> QED
    BY <1>2, <2>1, <2>2, <2>3 DEF UnlockedStep
<1>3. CASE LockedStep(c)
  <2>1. CASE LoginInsert(c) \/ LogoutErase(c)
    BY <2>1 DEF LoginInsert, LogoutErase
  <2>2. CASE step[c] = "none" /\ CloseErase(c)
    BY <1>1, <2>2 DEF CloseErase, CloseFound, CloseNotFound, MInv, DInv, TypeOK
  <2> QED
    BY <1>3, <2>1, <2>2 DEF LockedStep
<1> QED
  BY <1>2, <1>3 DEF SessionStep

LEMMA SessionExplained ==
    ASSUME MInv, NEW c \in Conn, SessionStep(c), \A u \in User : Clean(u)' => Clean(u)
    PROVE  /\ Carrying' /\ PostedFirst'
           /\ \A m \in Traffic, u \in User : Explained(m, u)
<1>1. UNCHANGED <<handlerVars, offlineMsg, feed, handed, posted, resent>>
  BY DEF SessionStep, mailVars
<1> QED
  BY <1>1, ReaderKeepsUser, QuietExplained

LEMMA OutsideUnread ==
    ASSUME MInv, NEW s \in Server, RedisReplies(s) \/ ResetStep(s) \/ PublishBreaks(s)
    PROVE  UNCHANGED <<handlerVars, offlineMsg, feed, handed, posted, resent, user>>
<1>1. CASE RedisReplies(s) \/ ResetStep(s)
  <2>1. UNCHANGED <<connMutex, handlerVars, mailVars>>
    BY <1>1, OutsideKeepsMail DEF MInv, DInv
  <2>2. user' = user
    BY <1>1 DEF RedisReplies, ResetStep, RedisExecutes, ResetState, ResetClear, connVars
  <2> QED
    BY <2>1, <2>2 DEF mailVars
<1> QED
  BY <1>1 DEF PublishBreaks, vars, connVars

LEMMA OutsideExplained ==
    ASSUME MInv, NEW s \in Server, RedisReplies(s) \/ ResetStep(s) \/ PublishBreaks(s),
           \A u \in User : Clean(u)' => Clean(u)
    PROVE  /\ Carrying' /\ PostedFirst'
           /\ \A m \in Traffic, u \in User : Explained(m, u)
<1>1. UNCHANGED <<handlerVars, offlineMsg, feed, handed, posted, resent, user>>
  BY OutsideUnread
<1> QED
  BY <1>1, QuietExplained

\* A broken connection or a lost process takes copies with it.
LEMMA BreakExplained ==
    ASSUME MInv, NEW s \in Server, FeedBreaks(s), \A u \in User : Clean(u)' => Clean(u)
    PROVE  /\ Carrying' /\ PostedFirst'
           /\ \A m \in Traffic, u \in User : Explained(m, u)
<1>1. UNCHANGED <<handlerVars, user, offlineMsg, handed, posted, resent>> /\ ObserverEnds(s)
  BY DEF FeedBreaks, ObserverEnds, connVars
<1>2. \A t \in Server : \A i \in DOMAIN feed'[t] :
          i \in DOMAIN feed[t] /\ feed'[t][i] = feed[t][i]
  <2> DEFINE Push == [channel: User, message: Traffic]
  <2>1. feed \in [Server -> Seq(Push)]
    BY DEF MInv, DInv, DTypeOK
  <2>2. PICK n \in 0..Len(feed[s]) : feed' = [feed EXCEPT ![s] = SubSeq(@, 1, n)]
    BY DEF FeedBreaks
  <2> HIDE DEF Push
  <2>3. feed[s] \in Seq(Push) /\ feed'[s] = SubSeq(feed[s], 1, n)
    BY <2>1, <2>2
  <2>4. \A i \in DOMAIN feed'[s] : i \in DOMAIN feed[s] /\ feed'[s][i] = feed[s][i]
    <3> DEFINE q == feed[s]
               r == feed'[s]
    <3>1. q \in Seq(Push) /\ n \in 0..Len(q) /\ r = SubSeq(q, 1, n)
      BY <2>3
    <3> HIDE DEF q, r
    <3>2. \A i \in DOMAIN r : i \in DOMAIN q /\ r[i] = q[i]
      BY <3>1
    <3> QED
      BY <3>2 DEF q, r
  <2>5. \A t \in Server \ {s} : feed'[t] = feed[t]
    BY <2>1, <2>2
  <2> QED
    BY <2>4, <2>5
<1>3. Carrying' /\ PostedFirst'
  BY <1>1, <1>2 DEF MInv, Carrying, PostedFirst, handlerVars
<1>4. ASSUME NEW m \in Traffic, NEW u \in User
      PROVE  Explained(m, u)
  <2>1. Pushed(m, u)' \subseteq Pushed(m, u)
    <3> SUFFICES ASSUME NEW p \in Pushed(m, u)' PROVE p \in Pushed(m, u)
      OBVIOUS
    <3>1. PICK t \in Server : \E i \in DOMAIN feed'[t] :
              p = <<t, i>> /\ feed'[t][i] = [channel |-> u, message |-> m]
      BY PushedIsNext
    <3> QED
      BY <1>2, <3>1, PushedIs
  <2>2. /\ Carried(m, u)' <=> Carried(m, u)
        /\ InTable(m, u)' <=> InTable(m, u)
        /\ \A d \in Conn : Reading(d, m, u)' <=> Reading(d, m, u)
        /\ OneCarrier(m)'
        /\ ItemInv(m, u)
        /\ UNCHANGED <<step, handed, posted, resent>>
    BY <1>1
       DEF handlerVars, Carried, Carries, InTable, Reading, OneCarrier, MInv, ItemInv
  <2>3. ItemInv(m, u)' /\ Moved(m, u)
    BY <2>1, <2>2, FewerCopies
  <2> QED
    BY <1>1, <2>3 DEF Explained, Window
<1> QED
  BY <1>3, <1>4

LEMMA LostExplained ==
    ASSUME MInv, NEW s \in Server, ProcessLost(s), \A u \in User : Clean(u)' => Clean(u)
    PROVE  /\ Carrying' /\ PostedFirst'
           /\ \A m \in Traffic, u \in User : Explained(m, u)
<1>1. /\ Crash(s) \/ ResetExit(s)
      /\ UNCHANGED <<offlineMsg, handed, posted, resent>>
      /\ \A t \in Server : feed'[t] = IF t = s THEN <<>> ELSE feed[t]
      /\ \A d \in Conn :
             /\ step'[d] = IF home[d] = s THEN "none" ELSE step[d]
             /\ message'[d] = IF home[d] = s THEN NoMessage ELSE message[d]
             /\ todo'[d] = IF home[d] = s THEN {} ELSE todo[d]
             /\ target'[d] = IF home[d] = s THEN NoUser ELSE target[d]
             /\ rows'[d] = IF home[d] = s THEN {} ELSE rows[d]
  BY DEF ProcessLost, MInv, DInv, DTypeOK
<1>2. \A d \in Conn : user'[d] = IF home[d] = s THEN NoUser ELSE user[d]
  BY <1>1 DEF Crash, ResetExit, ProcessEnds
<1>3. Carrying'
  BY <1>1 DEF MInv, Carrying, ChatSteps
<1>4. PostedFirst'
  BY <1>1 DEF MInv, PostedFirst
<1>5. ASSUME NEW m \in Traffic, NEW u \in User
      PROVE  Explained(m, u)
  <2>1. Pushed(m, u)' \subseteq Pushed(m, u)
    <3> SUFFICES ASSUME NEW p \in Pushed(m, u)' PROVE p \in Pushed(m, u)
      OBVIOUS
    <3>1. PICK t \in Server : \E i \in DOMAIN feed'[t] :
              p = <<t, i>> /\ feed'[t][i] = [channel |-> u, message |-> m]
      BY PushedIsNext
    <3>2. feed'[t] = feed[t]
      BY <1>1, <3>1
    <3> QED
      BY <3>1, <3>2, PushedIs
  <2>2. \A d \in Conn : /\ Carries(d, m, u)' => Carries(d, m, u)
                        /\ Reading(d, m, u)' => Reading(d, m, u)
                        /\ step'[d] = "reply" => step[d] = "reply"
    BY <1>1, <1>2, TrafficAssumption, ConstantsAssumption DEF Carries, Reading
  <2>3. Carried(m, u)' => Carried(m, u)
    BY <2>2 DEF Carried
  <2>4. OneCarrier(m)' /\ ItemInv(m, u)
    BY <1>1, TrafficAssumption DEF MInv, ItemInv, OneCarrier
  <2>5. InTable(m, u)' <=> InTable(m, u)
    BY <1>1 DEF InTable
  <2>6. ItemInv(m, u)' /\ Moved(m, u)
    BY <1>1, <2>1, <2>2, <2>3, <2>4, <2>5, FewerCopies
  <2> QED
    BY <1>1, <2>6 DEF Explained, Window
<1> QED
  BY <1>3, <1>4, <1>5

-----------------------------------------------------------------------------
(* All steps.                                                              *)

LEMMA AllExplained ==
    ASSUME MInv, [DNext]_dvars
    PROVE  MInv' /\ \A m \in Traffic, u \in User : Explained(m, u)
<1>1. \A u \in User : Clean(u)' => Clean(u)
  BY StepRefines, CleanShrinks
<1>2. /\ Carrying' /\ PostedFirst'
      /\ \A m \in Traffic, u \in User : Explained(m, u)
  <2>1. CASE UNCHANGED dvars
    <3>1. UNCHANGED <<handlerVars, offlineMsg, feed, handed, posted, resent, user>>
      BY <2>1 DEF dvars, mailVars, vars, connVars
    <3> QED
      BY <1>1, <3>1, QuietExplained
  <2>2. ASSUME NEW c \in Conn, NEW m \in Traffic, ChatStart(c, m)
        PROVE  /\ Carrying' /\ PostedFirst'
               /\ \A n \in Traffic, u \in User : Explained(n, u)
    BY <2>2, StartExplained
  <2>3. ASSUME NEW c \in Conn, ChatStep(c)
        PROVE  /\ Carrying' /\ PostedFirst'
               /\ \A m \in Traffic, u \in User : Explained(m, u)
    BY <2>3, LookupExplained, PublishExplained, StoreExplained DEF ChatStep
  <2>4. ASSUME NEW c \in Conn, OfflineStep(c)
        PROVE  /\ Carrying' /\ PostedFirst'
               /\ \A m \in Traffic, u \in User : Explained(m, u)
    BY <2>4, QueryExplained, RemoveExplained, ReplyExplained DEF OfflineStep
  <2>5. ASSUME NEW c \in Conn, SessionStep(c)
        PROVE  /\ Carrying' /\ PostedFirst'
               /\ \A m \in Traffic, u \in User : Explained(m, u)
    BY <1>1, <2>5, SessionExplained
  <2>6. ASSUME NEW s \in Server, ObserverHandle(s)
        PROVE  /\ Carrying' /\ PostedFirst'
               /\ \A m \in Traffic, u \in User : Explained(m, u)
    BY <2>6, ObserverExplained
  <2>7. ASSUME NEW s \in Server, ProcessLost(s)
        PROVE  /\ Carrying' /\ PostedFirst'
               /\ \A m \in Traffic, u \in User : Explained(m, u)
    BY <1>1, <2>7, LostExplained
  <2>8. ASSUME NEW s \in Server, RedisReplies(s) \/ ResetStep(s) \/ PublishBreaks(s)
        PROVE  /\ Carrying' /\ PostedFirst'
               /\ \A m \in Traffic, u \in User : Explained(m, u)
    BY <1>1, <2>8, OutsideExplained
  <2>9. ASSUME NEW s \in Server, FeedBreaks(s)
        PROVE  /\ Carrying' /\ PostedFirst'
               /\ \A m \in Traffic, u \in User : Explained(m, u)
    BY <1>1, <2>9, BreakExplained
  <2> QED
    BY <2>1, <2>2, <2>3, <2>4, <2>5, <2>6, <2>7, <2>8, <2>9 DEF DNext
<1>3. SInv'
  BY StepRefines, SStepInv DEF MInv
<1>4. DInv'
  BY DStepInv DEF MInv
<1> QED
  BY <1>2, <1>3, <1>4 DEF MInv, Explained

LEMMA MInitInv == DInit => MInv
<1> SUFFICES ASSUME DInit PROVE MInv
  OBVIOUS
<1>1. SInv /\ DInv
  BY SInitInv, DInitInv DEF DInit
<1>2. Carrying
  BY ConstantsAssumption DEF DInit, DeliveryInit, Carrying, ChatSteps
<1>3. PostedFirst
  BY DEF DInit, DeliveryInit, PostedFirst
<1>4. ASSUME NEW m \in Traffic, NEW u \in User
      PROVE  ItemInv(m, u)
  <2>1. ~Carried(m, u) /\ ~InTable(m, u) /\ handed[u][m] = 0 /\ OneCarrier(m)
    BY TrafficAssumption
       DEF DInit, DeliveryInit, Carried, Carries, InTable, OneCarrier
  <2>2. \A c \in Conn : ~Reading(c, m, u)
    BY DEF DInit, DeliveryInit, Reading
  <2>3. Pushed(m, u) = {}
    BY DEF DInit, DeliveryInit, Pushed
  <2> QED
    BY <2>1, <2>2, <2>3 DEF ItemInv, InFlight, Sole
<1> QED
  BY <1>1, <1>2, <1>3, <1>4 DEF MInv

\* A step after which less is promised to a receiver moves no message.
LEMMA DisturbingSteps ==
    ASSUME MInv, [DNext]_dvars, NEW m \in Traffic, NEW u \in User, Clean(u), ~Clean(u)'
    PROVE  Copies(m, u)' = Copies(m, u) \/ Window(u)
<1>1. ASSUME UNCHANGED <<handlerVars, offlineMsg, feed, handed, posted, resent>>,
             \A d \in Conn : rows[d] # {} => user'[d] = user[d]
      PROVE  Copies(m, u)' = Copies(m, u)
  <2>1. \A d \in Conn : /\ Carries(d, m, u)' <=> Carries(d, m, u)
                        /\ Reading(d, m, u)' <=> Reading(d, m, u)
    BY <1>1 DEF Carries, Reading, handlerVars
  <2>2. /\ {d \in Conn : Carries(d, m, u)}' = {d \in Conn : Carries(d, m, u)}
        /\ {d \in Conn : Reading(d, m, u)}' = {d \in Conn : Reading(d, m, u)}
        /\ Stored(m, u)' <=> Stored(m, u)
        /\ Pushed(m, u)' = Pushed(m, u)
    BY <1>1, <2>1 DEF Stored, Pushed
  <2> QED
    BY <1>1, <2>2 DEF Copies
<1>2. CASE UNCHANGED <<disturbed, misrouted>>
  BY <1>2 DEF Clean
<1>3. ASSUME NEW c \in Conn,
             (\E n \in Traffic : ChatStart(c, n)) \/ ChatStep(c) \/ OfflineStep(c)
      PROVE  UNCHANGED <<disturbed, misrouted>>
  BY <1>3 DEF ChatStart, ChatStep, ChatLookup, ChatPublish, ChatStore, OfflineStep,
              OfflineQuery, OfflineRemove, OfflineReply, LoginReply, vars, historyVars
<1>4. ASSUME NEW s \in Server, ObserverHandle(s)
      PROVE  UNCHANGED <<disturbed, misrouted>>
  BY <1>4 DEF ObserverHandle, vars, historyVars
<1>5. CASE UNCHANGED dvars
  BY <1>2, <1>5 DEF dvars, vars, historyVars
<1>6. ASSUME NEW c \in Conn, SessionStep(c)
      PROVE  Copies(m, u)' = Copies(m, u)
  <2>1. UNCHANGED <<handlerVars, offlineMsg, feed, handed, posted, resent>>
    BY <1>6 DEF SessionStep, mailVars
  <2> QED
    BY <1>1, <1>6, <2>1, ReaderKeepsUser
<1>7. ASSUME NEW s \in Server, RedisReplies(s) \/ ResetStep(s) \/ PublishBreaks(s)
      PROVE  Copies(m, u)' = Copies(m, u)
  <2>1. UNCHANGED <<handlerVars, offlineMsg, feed, handed, posted, resent, user>>
    BY <1>7, OutsideUnread
  <2> QED
    BY <1>1, <2>1
<1>8. ASSUME NEW s \in Server, ProcessLost(s) \/ FeedBreaks(s)
      PROVE  Window(u)
  BY <1>8 DEF ProcessLost, FeedBreaks, Window
<1> QED
  BY <1>2, <1>3, <1>4, <1>5, <1>6, <1>7, <1>8 DEF DNext

-----------------------------------------------------------------------------
(* Counting.                                                               *)

LEMMA CountOne ==
    ASSUME NEW S, \A x, y \in S : x = y
    PROVE  Cardinality(S) = IF S = {} THEN 0 ELSE 1
<1>1. CASE S = {}
  BY <1>1, FS_EmptySet
<1>2. CASE S # {}
  <2>1. PICK x \in S : TRUE
    BY <1>2
  <2>2. S = {x}
    BY <2>1
  <2> QED
    BY <1>2, <2>2, FS_Singleton
<1> QED
  BY <1>1, <1>2

\* A message that is nowhere counts nothing, one that is somewhere counts for
\* a receiver with clean sessions, and counts one if no DELETE failed either.
CountsRight(m, u) ==
    /\ ~Present(m, u) => Copies(m, u) = 0
    /\ Clean(u) /\ Present(m, u) => Copies(m, u) # 0
    /\ Promised(u) => Copies(m, u) = IF Present(m, u) THEN 1 ELSE 0

LEMMA CountsHold ==
    ASSUME MInv, NEW m \in Traffic, NEW u \in User
    PROVE  CountsRight(m, u)
<1> DEFINE carriers == {c \in Conn : Carries(c, m, u)}
           readers == {c \in Conn : Reading(c, m, u)}
           pushes == Pushed(m, u)
<1>1. handed[u][m] \in Nat
  BY DEF MInv, DInv, DTypeOK
<1>2. /\ carriers # {} <=> Carried(m, u)
      /\ readers # {} <=> Read(m, u)
  BY DEF Carried, Read
<1>3. \A x, y \in carriers : x = y
  BY DEF MInv, ItemInv, OneCarrier, Carries
<1>4. Clean(u) => \A x, y \in readers : x = y
  BY DEF MInv, SInv, IInv, Clean, Presence, OneSession, Reading
<1>5. Clean(u) => \A x, y \in pushes : x = y
  BY DEF MInv, ItemInv, InFlight
<1>6. Stored(m, u) <=> InTable(m, u) /\ ~Read(m, u)
  BY DEF Stored, InTable, Read
<1>7. Copies(m, u) = Cardinality(carriers) + Cardinality(pushes)
                     + (IF Stored(m, u) THEN 1 ELSE 0) + Cardinality(readers)
                     + handed[u][m]
  BY DEF Copies
<1>8. Present(m, u) <=> \/ carriers # {} \/ pushes # {} \/ Stored(m, u)
                        \/ readers # {} \/ handed[u][m] # 0
  BY <1>2, <1>6 DEF Present
<1>9. Promised(u) => Clean(u) /\ Sole(m, u) /\ InFlight(m, u)
  BY DEF MInv, ItemInv, Promised
<1>10. Promised(u) =>
           /\ carriers # {} => pushes = {}
           /\ carriers # {} \/ pushes # {} => ~Stored(m, u) /\ readers = {} /\ handed[u][m] = 0
           /\ Stored(m, u) => readers = {} /\ handed[u][m] = 0
           /\ readers # {} => handed[u][m] = 0
           /\ handed[u][m] \in {0, 1}
  BY <1>2, <1>6, <1>9 DEF Sole, InFlight
<1> HIDE DEF carriers, readers, pushes
<1>11. Cardinality(carriers) = IF carriers = {} THEN 0 ELSE 1
  BY <1>3, CountOne
<1>12. Clean(u) => /\ Cardinality(readers) = IF readers = {} THEN 0 ELSE 1
                   /\ Cardinality(pushes) = IF pushes = {} THEN 0 ELSE 1
  BY <1>4, <1>5, CountOne
<1>13. ASSUME ~Present(m, u) PROVE Copies(m, u) = 0
  <2>1. /\ Cardinality(carriers) = 0 /\ Cardinality(pushes) = 0 /\ ~Stored(m, u)
        /\ Cardinality(readers) = 0 /\ handed[u][m] = 0
    BY <1>8, <1>13, FS_EmptySet
  <2> QED
    BY <1>7, <2>1
<1>14. Clean(u) /\ Present(m, u) => Copies(m, u) # 0
  BY <1>1, <1>7, <1>8, <1>11, <1>12
<1>15. Promised(u) => Copies(m, u) = IF Present(m, u) THEN 1 ELSE 0
  BY <1>1, <1>7, <1>8, <1>9, <1>10, <1>11, <1>12
<1> QED
  BY <1>13, <1>14, <1>15 DEF CountsRight

Counted == \A m \in Traffic, u \in User : CountsRight(m, u)

LEMMA MInvHolds == DSpec => []MInv /\ []Counted
<1>1. MInv /\ [DNext]_dvars => MInv'
  BY AllExplained
<1>2. MInv => Counted
  BY CountsHold DEF Counted
<1> QED
  BY MInitInv, <1>1, <1>2, PTL DEF DSpec

-----------------------------------------------------------------------------
(* The theorems.                                                           *)

LEMMA ReceiversAreUsers == \A m \in Traffic : m.to \subseteq User
BY TrafficAssumption

\* No message is doubled for a receiver without overlapping sessions, lost
\* processes, lost commands or kept rows, whatever handlers, observer threads,
\* logins and logouts of any number of processes do at the same time.
THEOREM NoMessageDoubled == DSpec => []NoDuplicates
<1>1. Counted => NoDuplicates
  BY ReceiversAreUsers DEF Counted, CountsRight, Promised, NoDuplicates
<1> QED
  BY <1>1, MInvHolds, PTL

\* The last copy disappears only in a step that LossOnlyInWindows names: with a
\* session of the receiver being set up or torn down, after a state that was
\* read too early, through a broken connection, with a process or with an
\* INSERT.  No other interleaving loses a message.
THEOREM LossesExplained == DSpec => LossOnlyInWindows
<1> DEFINE Lossless ==
      \A m \in posted : \A u \in m.to :
          Clean(u) /\ Copies(m, u)' = 0 /\ Copies(m, u) > 0 =>
              \/ ~Steady(u)
              \/ StaleRead(u)
              \/ DeadPublish(u)
              \/ FailedInsert(u)
              \/ \E s \in Server : Crash(s) \/ ResetExit(s) \/ ObserverEnds(s)
<1>1. MInv /\ Counted /\ Counted' /\ [DNext]_dvars => Lossless
  <2> SUFFICES ASSUME MInv, Counted, Counted', [DNext]_dvars,
                      NEW m \in posted, NEW u \in m.to, Clean(u),
                      Copies(m, u)' = 0, Copies(m, u) > 0
               PROVE  Window(u)
    BY DEF Window
  <2>1. m \in Traffic /\ u \in User
    BY ReceiversAreUsers DEF MInv, DInv, DTypeOK
  <2>2. CountsRight(m, u) /\ CountsRight(m, u)'
    BY <2>1 DEF Counted
  <2>3. Present(m, u)
    BY <2>2 DEF CountsRight
  <2>4. CASE Clean(u)'
    <3>1. ~Present(m, u)'
      BY <2>2, <2>4 DEF CountsRight
    <3> QED
      BY <2>1, <2>3, <3>1, AllExplained DEF Explained
  <2>5. CASE ~Clean(u)'
    BY <2>1, <2>5, DisturbingSteps
  <2> QED
    BY <2>4, <2>5
<1>2. DSpec => [][Lossless]_dvars
  BY <1>1, MInvHolds, PTL DEF DSpec
<1> QED
  BY <1>2 DEF LossOnlyInWindows

\* Where PlaceOf puts a message.
PlaceRight(m, u) ==
    /\ ~Promised(u) => PlaceOf(m, u) = "void"
    /\ Promised(u) =>
           PlaceOf(m, u) = IF ~Present(m, u) THEN IF m \in posted THEN "lost" ELSE "unsent"
                           ELSE IF handed[u][m] = 1 THEN "delivered"
                           ELSE IF Stored(m, u) THEN "stored" ELSE "underway"
    /\ m \notin posted => ~Present(m, u)
    /\ Promised(u) => Sole(m, u)
    /\ handed[u][m] \in Nat

LEMMA PlacesHold ==
    ASSUME MInv, NEW m \in Traffic, NEW u \in User
    PROVE  PlaceRight(m, u)
<1>1. CountsRight(m, u)
  BY CountsHold
<1>2. ASSUME m \notin posted PROVE ~Present(m, u)
  <2>1. ~Carried(m, u) /\ ~InTable(m, u) /\ ~Read(m, u) /\ handed[u][m] = 0
    BY <1>2, TrafficAssumption
       DEF MInv, PostedFirst, Carried, Carries, InTable, Read, Reading
  <2>2. ASSUME NEW p \in Pushed(m, u) PROVE FALSE
    <3>1. PICK s \in Server : \E i \in DOMAIN feed[s] :
              feed[s][i] = [channel |-> u, message |-> m]
      BY PushedIs
    <3> QED
      BY <1>2, <3>1 DEF MInv, PostedFirst
  <2> QED
    BY <2>1, <2>2 DEF Present
<1>3. Promised(u) => Sole(m, u)
  BY DEF MInv, ItemInv
<1>4. handed[u][m] \in Nat
  BY DEF MInv, DInv, DTypeOK
<1>5. ~Promised(u) => PlaceOf(m, u) = "void"
  BY DEF PlaceOf, Promised
<1>6. Promised(u) =>
          PlaceOf(m, u) = IF ~Present(m, u) THEN IF m \in posted THEN "lost" ELSE "unsent"
                          ELSE IF handed[u][m] = 1 THEN "delivered"
                          ELSE IF Stored(m, u) THEN "stored" ELSE "underway"
  BY <1>1 DEF PlaceOf, Promised, CountsRight
<1> QED
  BY <1>2, <1>3, <1>4, <1>5, <1>6 DEF PlaceRight

\* Messages stay posted and users stay unpromised.
LEMMA HistoryGrows ==
    ASSUME [DNext]_dvars
    PROVE  /\ posted \subseteq posted'
           /\ \A u \in User : Promised(u)' => Promised(u)
<1>1. posted \subseteq posted' /\ resent \subseteq resent'
  BY DEF DNext, ChatStart, ChatStep, ChatLookup, ChatPublish, ChatStore, OfflineStep,
         OfflineQuery, OfflineRemove, OfflineReply, SessionStep, ObserverHandle,
         ProcessLost, RedisReplies, ResetStep, FeedBreaks, PublishBreaks, dvars, mailVars
<1>2. \A u \in User : Clean(u)' => Clean(u)
  BY StepRefines, CleanShrinks
<1> QED
  BY <1>1, <1>2 DEF Promised

\* The two ends of a login of u, as module Mailbox sees them.
Taking(c, u) == OfflineQuery(c) /\ user[c] = u /\ step'[c] = "remove"
Emptying(c, u) == OfflineRemove(c) /\ user[c] = u

\* The store of u and the logins that have fetched it are left alone: rows are
\* only added, and no login reads one that no login has read.
StoreKept(u) ==
    /\ offlineMsg[u] \subseteq offlineMsg'[u]
    /\ \A d \in Conn, m \in Traffic : Reading(d, m, u)' => Reading(d, m, u)
    /\ \A d \in Conn : user'[d] = u /\ step'[d] = "remove"
                           <=> user[d] = u /\ step[d] = "remove"

LEMMA StoreGrows ==
    ASSUME DTypeOK, NEW v, NEW m, StoreOffline(v, m), NEW u \in User
    PROVE  offlineMsg[u] \subseteq offlineMsg'[u]
BY DEF StoreOffline, DTypeOK

\* A step that is neither end of a login of u keeps the store of u.
LEMMA StoreStays ==
    ASSUME MInv, [DNext]_dvars, NEW u \in User, Promised(u)',
           \A c \in Conn : ~Taking(c, u) /\ ~Emptying(c, u)
    PROVE  StoreKept(u)
<1>0. DTypeOK /\ TypeOK /\ Carrying
  BY DEF MInv, DInv
<1>1. ASSUME UNCHANGED <<rows, step, offlineMsg>>,
             \A d \in Conn : rows[d] # {} \/ step[d] = "remove" => user'[d] = user[d]
      PROVE  StoreKept(u)
  BY <1>1 DEF StoreKept, Reading
<1>2. CASE UNCHANGED dvars
  BY <1>1, <1>2 DEF dvars, handlerVars, mailVars, vars, connVars
<1>3. ASSUME NEW c \in Conn, NEW m \in Traffic, ChatStart(c, m)
      PROVE  StoreKept(u)
  BY <1>0, <1>3 DEF ChatStart, StoreKept, Reading, vars, connVars, DTypeOK
<1>4. ASSUME NEW c \in Conn, ChatStep(c)
      PROVE  StoreKept(u)
  <2>1. UNCHANGED <<rows, user>>
    BY <1>4 DEF ChatStep, ChatLookup, ChatPublish, ChatStore, vars, connVars
  <2>2. \A d \in Conn : step'[d] = "remove" <=> step[d] = "remove"
    BY <1>0, <1>4 DEF ChatStep, ChatLookup, ChatPublish, ChatStore, Proceed, DTypeOK
  <2>3. offlineMsg[u] \subseteq offlineMsg'[u]
    BY <1>0, <1>4, StoreGrows DEF ChatStep, ChatLookup, ChatPublish, ChatStore
  <2> QED
    BY <2>1, <2>2, <2>3 DEF StoreKept, Reading
<1>5. ASSUME NEW c \in Conn, OfflineStep(c)
      PROVE  StoreKept(u)
  <2>1. CASE OfflineQuery(c)
    <3>1. PICK found \in SUBSET Traffic :
              /\ rows' = [rows EXCEPT ![c] = found]
              /\ step' = [step EXCEPT ![c] = IF found = {} THEN "reply" ELSE "remove"]
              /\ user[c] \in User
      <4>1. user[c] \in User
        BY <2>1 DEF OfflineQuery, At, MInv, DInv, Placed
      <4>2. PICK found \in {offlineMsg[user[c]]}
                               \cup (IF "database" \in Faults THEN {{}} ELSE {}) :
                /\ rows' = [rows EXCEPT ![c] = found]
                /\ step' = [step EXCEPT ![c] = IF found = {} THEN "reply" ELSE "remove"]
        BY <2>1 DEF OfflineQuery
      <4>3. found \in SUBSET Traffic
        BY <1>0, <4>1, <4>2 DEF DTypeOK
      <4> QED
        BY <4>1, <4>2, <4>3
    <3>2. UNCHANGED <<user, offlineMsg>> /\ step[c] = "none"
      BY <2>1 DEF OfflineQuery, vars, connVars, mailVars
    <3>3. user[c] = u => found = {}
      BY <1>0, <2>1, <3>1 DEF Taking, DTypeOK
    <3> QED
      BY <1>0, <3>1, <3>2, <3>3 DEF StoreKept, Reading, DTypeOK
  <2>2. CASE OfflineRemove(c)
    <3>1. user[c] # u
      BY <2>2 DEF Emptying
    <3>2. UNCHANGED <<user, rows>> /\ step' = [step EXCEPT ![c] = "reply"]
      BY <2>2 DEF OfflineRemove, vars, connVars
    <3>3. offlineMsg'[u] = offlineMsg[u]
      BY <1>0, <2>2, <3>1 DEF OfflineRemove, DTypeOK
    <3> QED
      BY <1>0, <3>1, <3>2, <3>3 DEF StoreKept, Reading, DTypeOK
  <2>3. CASE OfflineReply(c)
    BY <1>0, <2>3 DEF OfflineReply, LoginReply, StoreKept, Reading, DTypeOK
  <2> QED
    BY <1>5, <2>1, <2>2, <2>3 DEF OfflineStep
<1>6. ASSUME NEW c \in Conn, SessionStep(c)
      PROVE  StoreKept(u)
  BY <1>1, <1>6, ReaderKeepsUser DEF SessionStep, handlerVars, mailVars
<1>7. ASSUME NEW s \in Server, ObserverHandle(s)
      PROVE  StoreKept(u)
  <2>1. UNCHANGED <<rows, step, user>>
    BY <1>7 DEF ObserverHandle, handlerVars, vars, connVars
  <2>2. offlineMsg[u] \subseteq offlineMsg'[u]
    BY <1>0, <1>7, StoreGrows DEF ObserverHandle
  <2> QED
    BY <2>1, <2>2 DEF StoreKept, Reading
<1>8. ASSUME NEW s \in Server, ProcessLost(s)
      PROVE  StoreKept(u)
  <2>1. ProcessEnds(s)
    BY <1>8 DEF ProcessLost, Crash, ResetExit
  <2>2. \A d \in Conn : home[d] = s => user[d] # u
    BY <2>1, ConstantsAssumption DEF ProcessEnds, SessionUsers, Promised, Clean
  <2>3. \A d \in Conn : /\ rows'[d] = IF home[d] = s THEN {} ELSE rows[d]
                        /\ step'[d] = IF home[d] = s THEN "none" ELSE step[d]
                        /\ user'[d] = IF home[d] = s THEN NoUser ELSE user[d]
    BY <1>8, <2>1 DEF ProcessLost, ProcessEnds
  <2>4. offlineMsg' = offlineMsg
    BY <1>8 DEF ProcessLost
  <2> QED
    BY <2>2, <2>3, <2>4 DEF StoreKept, Reading
<1>9. ASSUME NEW s \in Server, RedisReplies(s) \/ ResetStep(s) \/ PublishBreaks(s)
      PROVE  StoreKept(u)
  BY <1>1, <1>9, OutsideUnread DEF handlerVars
<1>10. ASSUME NEW s \in Server, FeedBreaks(s)
       PROVE  StoreKept(u)
  BY <1>1, <1>10 DEF FeedBreaks, ObserverEnds, handlerVars, connVars
<1> QED
  BY <1>2, <1>3, <1>4, <1>5, <1>6, <1>7, <1>8, <1>9, <1>10 DEF DNext

\* A user has one session, so one login at most has fetched the store.
LEMMA OneReader ==
    ASSUME MInv, NEW u \in User, Promised(u), NEW c \in Conn, NEW d \in Conn,
           user[c] = u, user[d] = u
    PROVE  c = d
BY DEF MInv, SInv, IInv, Presence, OneSession, Promised, Clean

-----------------------------------------------------------------------------
(* The four ways of module Mailbox.                                        *)

LEMMA PlacesOnly ==
    ASSUME NEW m \in Traffic, NEW u \in User, PlaceRight(m, u)
    PROVE  PlaceOf(m, u) \in M!Place
BY DEF PlaceRight, M!Place

LEMMA PlaceForgotten ==
    ASSUME NEW m \in Traffic, NEW u \in User, PlaceRight(m, u), PlaceRight(m, u)',
           ~Promised(u)'
    PROVE  <<PlaceOf(m, u), PlaceOf(m, u)'>> \in M!Forget
BY PlacesOnly DEF PlaceRight, M!Forget

LEMMA PlaceTravels ==
    ASSUME NEW m \in Traffic, NEW u \in m.to, u \in User,
           PlaceRight(m, u), PlaceRight(m, u)', Moved(m, u), posted \subseteq posted',
           Promised(u), Promised(u)', Stored(m, u) => Stored(m, u)'
    PROVE  <<PlaceOf(m, u), PlaceOf(m, u)'>> \in M!Travel
<1> DEFINE before == PlaceOf(m, u)
           after == PlaceOf(m, u)'
<1>1. before = after => <<before, after>> \in M!Travel
  BY PlacesOnly DEF M!Travel, M!Stay
<1>2. ASSUME <<before, after>> \in
                 {<<"unsent", "underway">>, <<"underway", "delivered">>,
                  <<"underway", "stored">>, <<"underway", "lost">>}
      PROVE  <<before, after>> \in M!Travel
  BY <1>2 DEF M!Travel
<1>3. /\ Sole(m, u) /\ Sole(m, u)'
      /\ before = IF ~Present(m, u) THEN IF m \in posted THEN "lost" ELSE "unsent"
                  ELSE IF handed[u][m] = 1 THEN "delivered"
                  ELSE IF Stored(m, u) THEN "stored" ELSE "underway"
      /\ after = IF ~Present(m, u)' THEN IF m \in posted' THEN "lost" ELSE "unsent"
                 ELSE IF handed'[u][m] = 1 THEN "delivered"
                 ELSE IF Stored(m, u)' THEN "stored" ELSE "underway"
      /\ m \notin posted => ~Present(m, u)
      /\ m \notin posted' => ~Present(m, u)'
  BY DEF PlaceRight
<1> SUFFICES <<before, after>> \in M!Travel
  OBVIOUS
<1> HIDE DEF before, after
<1>4. CASE ~Present(m, u) /\ m \notin posted
  <2>1. CASE m \notin posted'
    BY <1>1, <1>3, <1>4, <2>1
  <2>2. CASE m \in posted'
    <3>1. Carried(m, u)'
      BY <1>4, <2>2 DEF Moved
    <3>2. Present(m, u)' /\ handed'[u][m] = 0 /\ ~Stored(m, u)'
      BY <1>3, <3>1 DEF Present, Sole, Stored, InTable
    <3>3. before = "unsent" /\ after = "underway"
      BY <1>3, <1>4, <2>2, <3>2
    <3> QED
      BY <1>2, <3>3
  <2> QED
    BY <2>1, <2>2
<1>5. CASE ~Present(m, u) /\ m \in posted
  <2>1. ~Present(m, u)' /\ m \in posted'
    BY <1>5 DEF Moved
  <2>2. before = "lost" /\ after = "lost"
    BY <1>3, <1>5, <2>1
  <2> QED
    BY <1>1, <2>2
<1>6. CASE Present(m, u) /\ handed[u][m] = 1
  <2>1. handed'[u][m] = 1
    BY <1>3, <1>6 DEF Moved, Sole, Read
  <2>2. Present(m, u)'
    BY <2>1 DEF Present
  <2>3. before = "delivered" /\ after = "delivered"
    BY <1>3, <1>6, <2>1, <2>2
  <2> QED
    BY <1>1, <2>3
<1>7. CASE Present(m, u) /\ handed[u][m] # 1 /\ Stored(m, u)
  <2>1. Stored(m, u)' /\ InTable(m, u)'
    BY <1>7 DEF Stored, InTable
  <2>2. Present(m, u)' /\ handed'[u][m] # 1
    BY <1>3, <2>1 DEF Present, Sole
  <2>3. before = "stored" /\ after = "stored"
    BY <1>3, <1>7, <2>1, <2>2
  <2> QED
    BY <1>1, <2>3
<1>8. CASE Present(m, u) /\ handed[u][m] # 1 /\ ~Stored(m, u)
  <2>1. m \in posted'
    BY <1>3, <1>8
  <2>2. before = "underway" /\ after \in {"lost", "delivered", "stored", "underway"}
    BY <1>3, <1>8, <2>1
  <2> QED
    BY <1>1, <1>2, <2>2
<1> QED
  BY <1>4, <1>5, <1>6, <1>7, <1>8

\* What stays where it was, whatever the table and the logins do around it.
LEMMA PlaceStays ==
    ASSUME NEW m \in Traffic, NEW u \in User, PlaceRight(m, u), PlaceRight(m, u)',
           Promised(u), Promised(u)', UNCHANGED <<message, todo, target, feed, handed, posted>>,
           Stored(m, u)' <=> Stored(m, u), Read(m, u)' <=> Read(m, u)
    PROVE  PlaceOf(m, u)' = PlaceOf(m, u)
<1>1. Carried(m, u)' <=> Carried(m, u)
  BY DEF Carried, Carries
<1>2. Pushed(m, u)' = Pushed(m, u)
  BY DEF Pushed
<1>3. /\ InTable(m, u) \/ Read(m, u) <=> Stored(m, u) \/ Read(m, u)
      /\ InTable(m, u)' \/ Read(m, u)' <=> Stored(m, u)' \/ Read(m, u)'
  BY DEF Stored, InTable, Read
<1>4. Present(m, u)' <=> Present(m, u)
  BY <1>1, <1>2, <1>3 DEF Present
<1> QED
  BY <1>4 DEF PlaceRight

\* The query of a login takes every row there is.
LEMMA PlaceFetched ==
    ASSUME MInv, NEW m \in Traffic, NEW u \in User, PlaceRight(m, u), PlaceRight(m, u)',
           Promised(u), Promised(u)', NEW c \in Conn, Taking(c, u)
    PROVE  <<PlaceOf(m, u), PlaceOf(m, u)'>> \in M!StoreTo("underway")
<1>0. DTypeOK /\ Carrying
  BY DEF MInv, DInv
<1>1. /\ step[c] = "none" /\ user[c] = u
      /\ UNCHANGED <<message, todo, target, offlineMsg, feed, handed, posted, user>>
  BY DEF Taking, OfflineQuery, vars, connVars, mailVars
<1>2. rows' = [rows EXCEPT ![c] = offlineMsg[u]]
  BY <1>0 DEF Taking, OfflineQuery, DTypeOK
<1>3. rows[c] = {}
  BY <1>0, <1>1 DEF Carrying, LoginSteps
<1>4. /\ ~Read(m, u)
      /\ Read(m, u)' <=> InTable(m, u)
      /\ Stored(m, u) <=> InTable(m, u)
      /\ ~Stored(m, u)'
  <2>1. \A d \in Conn : user[d] = u => d = c
    BY <1>1, OneReader
  <2>2. /\ rows'[c] = offlineMsg[u]
        /\ \A d \in Conn : Reading(d, m, u)' <=> d = c /\ m \in offlineMsg[u]
    BY <1>0, <1>1, <1>2, <2>1 DEF Reading, DTypeOK
  <2>3. \A d \in Conn : ~Reading(d, m, u)
    BY <1>3, <2>1 DEF Reading
  <2> QED
    BY <1>1, <2>2, <2>3 DEF Read, Stored, InTable
<1>5. CASE ~InTable(m, u)
  <2>1. ~Stored(m, u) /\ PlaceOf(m, u)' = PlaceOf(m, u)
    BY <1>1, <1>4, <1>5, PlaceStays
  <2>2. PlaceOf(m, u) \in M!Place \ {"stored"}
    BY <2>1, PlacesOnly DEF PlaceRight
  <2> QED
    BY <2>1, <2>2 DEF M!StoreTo, M!Stay
<1>6. CASE InTable(m, u)
  <2>1. Stored(m, u) /\ Present(m, u) /\ handed[u][m] = 0
    BY <1>4, <1>6 DEF Present, PlaceRight, Sole
  <2>2. Read(m, u)' /\ ~Stored(m, u)' /\ handed'[u][m] = 0
    BY <1>1, <1>4, <1>6, <2>1
  <2>3. Present(m, u)'
    BY <2>2 DEF Present
  <2>4. PlaceOf(m, u) = "stored" /\ PlaceOf(m, u)' = "underway"
    BY <2>1, <2>2, <2>3 DEF PlaceRight
  <2> QED
    BY <2>4 DEF M!StoreTo
<1> QED
  BY <1>5, <1>6

\* The DELETE of a login drops what came after its query, and only that.
LEMMA PlaceCleared ==
    ASSUME MInv, NEW m \in Traffic, NEW u \in User, PlaceRight(m, u), PlaceRight(m, u)',
           Promised(u), Promised(u)', NEW c \in Conn, Emptying(c, u)
    PROVE  <<PlaceOf(m, u), PlaceOf(m, u)'>> \in M!StoreTo("lost")
<1>0. DTypeOK
  BY DEF MInv, DInv
<1>1. /\ user[c] = u
      /\ UNCHANGED <<message, todo, target, rows, feed, handed, posted, user>>
  BY DEF Emptying, OfflineRemove, vars, connVars
<1>2. offlineMsg'[u] = {}
  BY <1>0, <1>1 DEF Emptying, OfflineRemove, Promised, DTypeOK
<1>3. ~InTable(m, u)' /\ ~Stored(m, u)' /\ (Read(m, u)' <=> Read(m, u))
  BY <1>1, <1>2 DEF InTable, Stored, Read, Reading
<1>4. CASE ~Stored(m, u)
  <2>1. PlaceOf(m, u)' = PlaceOf(m, u)
    BY <1>1, <1>3, <1>4, PlaceStays
  <2>2. PlaceOf(m, u) \in M!Place \ {"stored"}
    BY <1>4, PlacesOnly DEF PlaceRight
  <2> QED
    BY <2>1, <2>2 DEF M!StoreTo, M!Stay
<1>5. CASE Stored(m, u)
  <2>1. InTable(m, u) /\ ~Read(m, u)
    BY <1>5 DEF Stored, InTable, Read
  <2>2. /\ Present(m, u) /\ handed[u][m] = 0 /\ ~Carried(m, u)
        /\ Pushed(m, u) = {} /\ m \in posted
    BY <2>1 DEF Present, PlaceRight, Sole
  <2>3. ~Carried(m, u)' /\ Pushed(m, u)' = {}
    BY <1>1, <2>2 DEF Carried, Carries, Pushed
  <2>4. ~Present(m, u)' /\ m \in posted'
    BY <1>1, <1>3, <2>1, <2>2, <2>3 DEF Present
  <2>5. PlaceOf(m, u) = "stored" /\ PlaceOf(m, u)' = "lost"
    BY <1>5, <2>2, <2>4 DEF PlaceRight
  <2> QED
    BY <2>5 DEF M!StoreTo
<1> QED
  BY <1>4, <1>5

-----------------------------------------------------------------------------
(* The refinement.                                                         *)

AllPlaces == \A m \in Traffic, u \in User : PlaceRight(m, u)
Places == [i \in Items |-> PlaceOf(i[1], i[2])]
Fetchers == {u \in User : Fetching(u)}

\* What holds of every step of the messages of u holds of M!Moves(u).
LEMMA MovesAre ==
    ASSUME NEW u \in User, NEW S,
           \A m \in Traffic : u \in m.to => <<PlaceOf(m, u), PlaceOf(m, u)'>> \in S
    PROVE  {<<Places[i], Places'[i]>> : i \in M!To(u)} \subseteq S
<1>1. ASSUME NEW i \in M!To(u)
      PROVE  <<Places[i], Places'[i]>> \in S
  <2>1. i \in Items /\ i[2] = u
    BY DEF M!To
  <2>2. PICK m \in Traffic : \E v \in m.to : i = <<m, v>>
    BY <2>1 DEF Items
  <2>3. u \in m.to /\ i = <<m, u>>
    BY <2>1, <2>2
  <2>4. Places[i] = PlaceOf(m, u) /\ Places'[i] = PlaceOf(m, u)'
    BY <2>1, <2>3 DEF Places
  <2> QED
    BY <2>3, <2>4
<1> QED
  BY <1>1

LEMMA OneReceiver ==
    ASSUME MInv, MInv', AllPlaces, AllPlaces', [DNext]_dvars, NEW u \in User
    PROVE  M!Step(u, {<<Places[i], Places'[i]>> : i \in M!To(u)},
                  u \in Fetchers, u \in Fetchers')
<1> DEFINE moves == {<<Places[i], Places'[i]>> : i \in M!To(u)}
           before == u \in Fetchers
           after == u \in Fetchers'
<1>1. \A m \in Traffic : PlaceRight(m, u) /\ PlaceRight(m, u)'
  BY DEF AllPlaces
<1>2. /\ posted \subseteq posted' /\ (Promised(u)' => Promised(u))
      /\ \A m \in Traffic : Moved(m, u)
  BY HistoryGrows, AllExplained DEF Explained
<1>3. /\ before <=> Promised(u) /\ \E d \in Conn : user[d] = u /\ step[d] = "remove"
      /\ after <=> Promised(u)' /\ \E d \in Conn : user'[d] = u /\ step'[d] = "remove"
  BY DEF Fetchers, Fetching, Promised
<1>4. CASE ~Promised(u)'
  <2>1. ~after
    BY <1>3, <1>4
  <2>2. moves \subseteq M!Forget
    BY <1>1, <1>4, MovesAre, PlaceForgotten
  <2> QED
    BY <2>1, <2>2 DEF M!Step
<1>5. ASSUME Promised(u)', NEW c \in Conn, Taking(c, u)
      PROVE  M!Step(u, moves, before, after)
  <2>1. user[c] = u /\ user'[c] = u /\ step[c] = "none" /\ step'[c] = "remove"
    BY <1>5 DEF Taking, OfflineQuery, vars, connVars
  <2>2. ~before /\ after
    BY <1>2, <1>3, <1>5, <2>1, OneReader
  <2>3. moves \subseteq M!StoreTo("underway")
    BY <1>1, <1>2, <1>5, MovesAre, PlaceFetched
  <2> QED
    BY <2>2, <2>3 DEF M!Step
<1>6. ASSUME Promised(u)', NEW c \in Conn, Emptying(c, u)
      PROVE  M!Step(u, moves, before, after)
  <2>1. /\ user[c] = u /\ user' = user /\ step[c] = "remove"
        /\ step' = [step EXCEPT ![c] = "reply"] /\ step \in [Conn -> Step]
    BY <1>6 DEF Emptying, OfflineRemove, vars, connVars, MInv, DInv, DTypeOK
  <2>2. before /\ ~after
    BY <1>2, <1>3, <1>6, <2>1, OneReader
  <2>3. moves \subseteq M!StoreTo("lost")
    BY <1>1, <1>2, <1>6, MovesAre, PlaceCleared
  <2> QED
    BY <2>2, <2>3 DEF M!Step
<1>7. ASSUME Promised(u)', \A c \in Conn : ~Taking(c, u) /\ ~Emptying(c, u)
      PROVE  M!Step(u, moves, before, after)
  <2>1. StoreKept(u)
    BY <1>7, StoreStays
  <2>2. before <=> after
    BY <1>2, <1>3, <1>7, <2>1 DEF StoreKept
  <2>3. \A m \in Traffic : Stored(m, u) => Stored(m, u)'
    BY <2>1 DEF StoreKept, Stored
  <2>4. moves \subseteq M!Travel
    BY <1>1, <1>2, <1>7, <2>3, MovesAre, PlaceTravels
  <2> QED
    BY <2>2, <2>4 DEF M!Step
<1> QED
  BY <1>4, <1>5, <1>6, <1>7

LEMMA MailboxStep ==
    ASSUME MInv, MInv', AllPlaces, AllPlaces', [DNext]_dvars
    PROVE  M!Next
<1>1. Places' \in [Items -> M!Place]
  <2>1. ASSUME NEW i \in Items PROVE PlaceOf(i[1], i[2])' \in M!Place
    <3>1. PICK m \in Traffic : \E u \in m.to : i = <<m, u>>
      BY DEF Items
    <3>2. PICK u \in m.to : i = <<m, u>>
      BY <3>1
    <3>3. u \in User /\ PlaceRight(m, u)'
      BY ReceiversAreUsers DEF AllPlaces
    <3> QED
      BY <3>2, <3>3 DEF PlaceRight, M!Place
  <2> QED
    BY <2>1 DEF Places
<1>2. Fetchers' \subseteq User
  BY DEF Fetchers
<1>3. \A u \in User : M!Step(u, {<<Places[i], Places'[i]>> : i \in M!To(u)},
                             u \in Fetchers, u \in Fetchers')
  BY OneReceiver
<1> QED
  BY <1>1, <1>2, <1>3 DEF M!Next, M!Moves, Places, Fetchers

LEMMA MailboxInit == ASSUME DInit PROVE M!Init
<1>1. ASSUME NEW i \in Items PROVE PlaceOf(i[1], i[2]) = "unsent"
  <2>1. PICK m \in Traffic : \E u \in m.to : i = <<m, u>>
    BY DEF Items
  <2>2. PICK u \in m.to : i = <<m, u>>
    BY <2>1
  <2>3. u \in User /\ MInv
    BY ReceiversAreUsers, MInitInv
  <2>4. PlaceRight(m, u)
    BY <2>3, PlacesHold
  <2>5. m \notin posted /\ Promised(u)
    BY DEF DInit, Init, DeliveryInit, Promised, Clean
  <2> QED
    BY <2>2, <2>4, <2>5 DEF PlaceRight
<1>2. \A u \in User : ~Fetching(u)
  BY DEF DInit, DeliveryInit, Fetching
<1> QED
  BY <1>1, <1>2 DEF M!Init

\* Module Delivery implements module Mailbox: for every receiver a message is
\* in one place at a time, delivered and lost are final, and the table keeps
\* what was stored until a login of the receiver, whose query takes every row
\* there is and whose DELETE drops those, and only those, that came after it.
THEOREM MailboxImplemented == DSpec => IsMailbox
<1>1. MInv => AllPlaces
  BY PlacesHold DEF AllPlaces
<1>2. MInv /\ MInv' /\ AllPlaces /\ AllPlaces' /\ [DNext]_dvars =>
          [M!Next]_<<[i \in Items |-> PlaceOf(i[1], i[2])], {u \in User : Fetching(u)}>>
  BY MailboxStep
<1>3. DInit => M!Init
  BY MailboxInit
<1> QED
  BY <1>1, <1>2, <1>3, MInvHolds, PTL DEF DSpec, IsMailbox, M!Spec

=============================================================================
