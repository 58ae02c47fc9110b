SPECIFICATION QuietSpec
CONSTANTS
    Server = {s1, s2}
    User = {u1, u2, u3}
    Conn = {c1, c2}
    s1 = s1
    s2 = s2
    u1 = u1
    u2 = u2
    u3 = u3
    c1 = c1
    c2 = c2
    sender = u1
    receiver = u2
    absent = u3
    cs = c1
    ss = s1
    NoServer = NoServer
    NoUser = NoUser
    NoConn = NoConn
    NoMessage = NoMessage
    PipeMax = 1
    Faults = {}
    Traffic <- OneTraffic
INVARIANT MessagesAreReliable
