SPECIFICATION GSpec
CONSTANTS
    User = {u1, u2}
    u1 = u1
    u2 = u2
    NoGroup = NoGroup
    NoUser = NoUser
    MaxGroup = 2
    MayFail = FALSE
INVARIANT MembersHaveGroup
