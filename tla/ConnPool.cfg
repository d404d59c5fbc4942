SPECIFICATION FairSpec
CONSTANTS
    Conns = {c1, c2}
    Sns = {sn1}
    Sn <- OneNode
    MaxPieces = 2
    MaxLines = 2
    MaxPings = 1
    NoConn = NoConn
INVARIANTS
    PoolInv
    OnlineExact
PROPERTIES
    NothingLingers
    LateTimers
CHECK_DEADLOCK FALSE
