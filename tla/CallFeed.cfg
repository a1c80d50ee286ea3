SPECIFICATION FairSpec
CONSTANTS
    Calls = {c1}
    Sockets = {s1, s2}
    Pages = {s1}
    MaxUnread = 2
    MaxFaults = 1
CHECK_DEADLOCK FALSE
INVARIANTS
    TypeOK
    FollowsCalls
PROPERTIES
    CardsKept
    EndedLeavesFeed
