----------------------------- MODULE MCDelivery -----------------------------
(* One sender, one receiver who logs in and out on the other connections,   *)
(* and for group messages a member who never logs in.  The sender is logged *)
(* in on cs from the start and stays: a reachable state, and it leaves the  *)
(* interleavings of a delivery with the sessions of the receiver.           *)
EXTENDS Delivery, TLC

CONSTANTS sender, receiver, absent, cs, ss

Message(kind, to) == [kind |-> kind, from |-> sender, to |-> to]
OneChat == Message("one", {receiver})
GroupChat == Message("group", {receiver, absent})
FriendRequest == Message("friend", {receiver})

\* Two messages for one receiver meet in the table, in Redis and in a login.
OneTraffic == {OneChat}
PairTraffic == {OneChat, FriendRequest}
GroupTraffic == {GroupChat}

MCInit ==
    /\ userState = [u \in User |-> IF u = sender THEN "online" ELSE "offline"]
    /\ userConnMap = [s \in Server |-> [u \in User |->
                         IF s = ss /\ u = sender THEN cs ELSE NoConn]]
    /\ home = [c \in Conn |-> IF c = cs THEN ss ELSE NoServer]
    /\ alive = [c \in Conn |-> c = cs]
    /\ pc = [c \in Conn |-> "idle"]
    /\ user = [c \in Conn |-> IF c = cs THEN sender ELSE NoUser]
    /\ subPipe = [s \in Server |-> <<>>]
    /\ subs = [s \in Server |-> IF s = ss THEN {sender} ELSE {}]
    /\ observing = [s \in Server |-> TRUE]
    /\ resetting = [s \in Server |-> "no"]
    /\ disturbed = {}
    /\ misrouted = {}
    /\ shared = {}
    /\ DeliveryInit

SenderStays ==
    /\ home'[cs] = ss /\ user'[cs] = sender /\ alive'[cs] /\ pc'[cs] = "idle"
    /\ \A c \in Conn \ {cs} : user'[c] \in {receiver, NoUser}

\* Only the sender's process publishes.
OthersDoNotPublish == \A s \in Server \ {ss} : publishing'[s]

\* A row whose DELETE fails is handed over at every login: twice is enough.
MaxHanded == 2
HandedBounded == \A u \in User, m \in Traffic : handed'[u][m] <= MaxHanded

MCNext == DNext /\ SenderStays /\ OthersDoNotPublish /\ HandedBounded

MCSpec == MCInit /\ [][MCNext]_dvars
MCFairSpec == MCSpec /\ DFairness

\* The clients of the receiver do not go away either.
QuietNext == MCNext /\ \A c \in Conn : alive[c] => alive'[c]
QuietSpec == MCInit /\ [][QuietNext]_dvars
=============================================================================
