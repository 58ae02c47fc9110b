---------------------------- MODULE Whereabouts ----------------------------
(***************************************************************************)
(* What the senders of a cluster may rely on about a user, without         *)
(* connections and handlers: the state that is shown and the processes     *)
(* that have the user in their map.  A user is                              *)
(*    away      shown offline, at no process,                              *)
(*    passing   shown offline, at one process: coming in or logging out,   *)
(*    here      shown online, at one process,                              *)
(*    closing   shown online, at no process: the connection was closed,    *)
(* and changes process only by being away in between.  "Void" is a user    *)
(* whose sessions overlapped, shared a connection with another user's, or  *)
(* lost a process or a statement: nothing is promised any more.  Module    *)
(* Sessions implements this one.                                           *)
(***************************************************************************)
CONSTANTS Person, Place

VARIABLE seen

Seen(state, places) == [state |-> state, places |-> places]
Void == Seen("void", {})
Away == Seen("offline", {})
Passing(p) == Seen("offline", {p})
Here(p) == Seen("online", {p})
Closing == Seen("online", {})

ComesIn(before, after, p) ==
    \/ before = Away /\ after = Passing(p)
    \/ before = Passing(p) /\ after = Here(p)

LogsOut(before, after, p) ==
    \/ before = Here(p) /\ after = Passing(p)
    \/ before = Passing(p) /\ after = Away

Closes(before, after, p) ==
    \/ before = Here(p) /\ after = Closing
    \/ before = Closing /\ after = Away

Moves(before, after) ==
    \/ after = before
    \/ after = Void
    \/ \E p \in Place :
        ComesIn(before, after, p) \/ LogsOut(before, after, p) \/ Closes(before, after, p)

Init == seen = [u \in Person |-> Away]

\* A process that ends takes many users with it, so several may move at once.
Next == \A u \in Person : Moves(seen[u], seen'[u])

Spec == Init /\ [][Next]_seen

=============================================================================
