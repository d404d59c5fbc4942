SPECIFICATION FairSpec
CONSTANTS
    Sockets = {w1, w2}
    NConns = 2
    Senders = {1}
    MaxBlocks = 4
INVARIANTS
    WaitersInv
PROPERTIES
    WaitsAgain
    FollowsOrEnds
CHECK_DEADLOCK FALSE
