\* The code's own limits: five events in one go, a hundred in the queue.
CONSTANTS
    Plans <- SixEvents
    Resources <- AResources
    Embedded <- AEmbedded
    RxCap = 12
    TxCap = 40
    TxThreshold = 20
    DrainMax = 5
    EventMax = 100

SPECIFICATION Spec
INVARIANT EventsReported
CHECK_DEADLOCK FALSE
