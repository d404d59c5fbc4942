SPECIFICATION FairSpec
CONSTANTS
    w1 = w1
    w2 = w2
    Sockets = {w1, w2}
    maxsize = 2
    MaxEvents = 4
INVARIANTS
    QueueInv
PROPERTIES
    ImplementsFeed
    WritesOrEnds
CHECK_DEADLOCK FALSE
