SPECIFICATION Spec
CONSTANTS
    Server = {s1, s2}
    User = {u1, u2}
    Conn = {c1, c2}
    s1 = s1
    s2 = s2
    u1 = u1
    u2 = u2
    c1 = c1
    c2 = c2
    NoServer = NoServer
    NoUser = NoUser
    NoConn = NoConn
    PipeMax = 1
    Faults = {"crash", "link", "database"}
SYMMETRY Symmetry
INVARIANT TypeOK
INVARIANT MapEntryOwned
INVARIANT PresenceAgrees
INVARIANT SubscriptionAgrees
PROPERTY IsWhereabouts
CONSTRAINT SomethingPromised
