SPECIFICATION FairSpec
CONSTANTS
    NBuilds = 2
    NPolls = 2
    NConns = 2
    RETRIES = 3
    MaxReports = 2
    Plans <- OverlapOrReconnect
INVARIANTS
    BuildsInv
PROPERTIES
    SilentOnlyIfKilled
    HandedInOrder
    NothingLost
    EverythingEnds
CHECK_DEADLOCK FALSE
