CONSTANTS
    Bytes = {1, 2}
    Capacity = 3
    Longest = 4
    Tokens = {1, 2, 3}
    MaxSize = 2
    Ttl = 1
    Period = 1
    LastTime = 3
    Changes = 1
    Nodes = {1, 2}
    Plans <- BuildPlans
SPECIFICATION PartsSpec
INVARIANTS TimersServed BytesMoved PinsDriven CryptoRight TextsRight ProgramSeen RowsFresh
    BuildsWhatWasAsked
PROPERTIES IsFifo
CHECK_DEADLOCK FALSE
