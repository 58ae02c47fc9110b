SPECIFICATION LSpec
CONSTANTS
    User = {u1, u2}
    u1 = u1
    u2 = u2
    NoGroup = NoGroup
    NoUser = NoUser
    MaxGroup = 1
    MayFail = TRUE
    RequestMax = 3
    ReplyMax = 3
SYMMETRY UserSymmetry
CHECK_DEADLOCK FALSE
INVARIANT LTypeOK
INVARIANT FriendsAreStored
INVARIANT GroupsAreStored
INVARIANT MembersShownAreRight
INVARIANT GTypeOK
INVARIANT CreatorIsUnique
INVARIANT FriendshipIsMutual
