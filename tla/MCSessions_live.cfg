SPECIFICATION FairSpec
CONSTANTS
    Server = {s1}
    User = {u1, u2}
    Conn = {c1, c2}
    s1 = s1
    u1 = u1
    u2 = u2
    c1 = c1
    c2 = c2
    NoServer = NoServer
    NoUser = NoUser
    NoConn = NoConn
    PipeMax = 1
    Faults = {"crash", "reset", "race", "link", "database"}
PROPERTY ClosedIsReleased
PROPERTY AbandonedGoesOffline
CONSTRAINT ShareOrOverlap
