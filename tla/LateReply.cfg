SPECIFICATION Spec
CONSTANTS
    Gets = {r1, r2}
    Posts = {r3}
    Apps = {}
    Commands = {c1}
    PENDING_REQ_CNT = 2
    Reader = Reader
    CloseCallback = CloseCallback
    NoReply = NoReply
INVARIANT
    OkMeansExecuted
CHECK_DEADLOCK FALSE
