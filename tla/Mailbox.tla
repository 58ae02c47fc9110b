------------------------------ MODULE Mailbox ------------------------------
(***************************************************************************)
(* What a sender is promised, without processes, threads, Redis or tables: *)
(* every message is in one place at a time for each of its receivers.  One *)
(* that was sent is underway; from there it is delivered, stored or lost.  *)
(* A stored message stays where it is until the receiver logs in, and a    *)
(* login has two ends: it fetches all that is stored, which then is        *)
(* underway, and it clears the store, which loses what was stored in       *)
(* between.  Delivered is final, so nothing is delivered twice, and lost   *)
(* is final, so nothing comes back from nowhere.  Nothing is promised any  *)
(* more ("void") to a receiver whose sessions overlapped or shared a       *)
(* connection, or lost a process, a command or a statement.  Module        *)
(* Delivery implements this one.                                           *)
(***************************************************************************)
CONSTANTS
    Receiver,
    Item        \* the pairs of a message and a receiver

VARIABLES
    place,      \* where an item is
    fetching    \* the receivers whose login has fetched and not cleared yet

Place == {"unsent", "underway", "stored", "delivered", "lost", "void"}

To(u) == {i \in Item : i[2] = u}

Init ==
    /\ place = [i \in Item |-> "unsent"]
    /\ fetching = {}

\* What a step does to the messages of u: where each was, and where it is now.
Moves(u) == {<<place[i], place'[i]>> : i \in To(u)}

Stay(places) == {<<p, p>> : p \in places}

\* Any number of the messages move on, and none leaves the store.
Travel ==
    Stay(Place) \cup
    {<<"unsent", "underway">>,
     <<"underway", "delivered">>, <<"underway", "stored">>, <<"underway", "lost">>}

\* The whole store goes to p, and nothing else moves.
StoreTo(p) == Stay(Place \ {"stored"}) \cup {<<"stored", p>>}

\* The promise ends, for all the messages together.
Forget == Place \X {"void"}

\* One receiver: the messages travel, a login fetches, a login clears, or the
\* promise ends.
Step(u, moves, before, after) ==
    \/ before = after /\ moves \subseteq Travel
    \/ ~before /\ after /\ moves \subseteq StoreTo("underway")
    \/ before /\ ~after /\ moves \subseteq StoreTo("lost")
    \/ ~after /\ moves \subseteq Forget

\* A group message goes underway for all its receivers, and the end of a
\* process ends the promise to many, so several receivers may move in one step.
Next ==
    /\ place' \in [Item -> Place]
    /\ fetching' \subseteq Receiver
    /\ \A u \in Receiver :
        LET moves == Moves(u)
        IN  Step(u, moves, u \in fetching, u \in fetching')

Spec == Init /\ [][Next]_<<place, fetching>>

=============================================================================
