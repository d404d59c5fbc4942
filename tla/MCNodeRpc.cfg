CONSTANTS
    Plans <- APlans
    Resources <- AResources
    Embedded <- AEmbedded
    RxCap = 12
    TxCap = 6
    TxThreshold = 4
    DrainMax = 1
    EventMax = 2

SPECIFICATION FairSpec
INVARIANTS BrokenLinesExplained CallsWhole HeardInOrder HangsOnlyHurt
PROPERTIES Drains
CHECK_DEADLOCK FALSE
