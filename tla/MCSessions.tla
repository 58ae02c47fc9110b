----------------------------- MODULE MCSessions -----------------------------
(* One or two processes and two users; the number of connections and the    *)
(* faults are set by each configuration.                                    *)
EXTENDS Sessions, TLC

Symmetry == Permutations(Conn) \cup Permutations(User) \cup Permutations(Server)

\* A bound: a behaviour is followed until every user is disturbed and one of
\* them misrouted, after which only the types and the entries are promised.
SomethingPromised == disturbed # User \/ misrouted = {}

\* A bound on runs with liveness: while any connection but the first is open,
\* only one user has left a trace.  So several users share the first
\* connection, and the sessions of one overlap on all of them.  The bound holds
\* up clients who connect or log in, and no handler.
FirstConn == CHOOSE c \in Conn : TRUE
FirstUser == CHOOSE u \in User : TRUE
NoTrace(u) ==
    /\ ~HasSession(u) /\ ~IsOnline(u) /\ ~HasLeftover(u) /\ Where(u) = {}
    /\ u \notin disturbed \cup misrouted
ShareOrOverlap ==
    \/ \A c \in Conn \ {FirstConn} : home[c] = NoServer
    \/ \A u \in User \ {FirstUser} : NoTrace(u)
=============================================================================
