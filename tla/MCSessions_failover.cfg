SPECIFICATION FairSpec
CONSTANTS
    Server = {s1}
    User = {u1}
    Conn = {c1, c2}
    s1 = s1
    u1 = u1
    c1 = c1
    c2 = c2
    NoServer = NoServer
    NoUser = NoUser
    NoConn = NoConn
    PipeMax = 1
    Faults = {"crash"}
PROPERTY FailoverReadmits
