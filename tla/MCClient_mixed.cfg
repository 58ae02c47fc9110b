SPECIFICATION CSpec
CONSTANTS
    User = {u1, u2}
    NoUser = NoUser
    RequestMax = 2
    ReplyMax = 3
INVARIANT WaitIsAnswered
