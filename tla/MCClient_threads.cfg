SPECIFICATION CFairSpec
CONSTANTS
    User = {u1, u2}
    NoUser = NoUser
    RequestMax = 2
    ReplyMax = 3
INVARIANT CTypeOK
INVARIANT LoggedInIsServed
INVARIANT ServedIsKnown
INVARIANT InTurns
PROPERTY FirstAnswerComes
