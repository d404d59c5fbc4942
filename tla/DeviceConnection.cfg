SPECIFICATION FairSpec
CONSTANTS
    Gets = {r1, r2}
    Posts = {r3}
    Apps = {}
    Commands = {c1}
    PENDING_REQ_CNT = 2
    Reader = Reader
    CloseCallback = CloseCallback
    NoReply = NoReply
INVARIANTS
    PendingInv
    OneCommandAtATime
    ReplyBelongs
PROPERTIES
    NoOverwriteBeforeRead
    EveryCallReturns
CHECK_DEADLOCK FALSE
