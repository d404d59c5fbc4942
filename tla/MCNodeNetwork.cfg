SPECIFICATION FairSpec
CONSTANTS
    TRIES = 2
    RESEND = 2
    Worlds <- MCWorlds
    MaxFaults = 1
INVARIANTS
    TimersInv

    
CHECK_DEADLOCK FALSE
