SPECIFICATION FairSpec
CONSTANTS
    N = 4
    Compensable <- MCCompensable
    Unwired = {4}
    MaxRetries <- MCRetries
    Cancellers <- MCCancellers
    MaxFaults = 1
    MayCrash = TRUE
INVARIANTS
    Durability
    RollsBack
PROPERTIES
    StatusMachine
    EverythingReturns
    CancelStopsSaga
CHECK_DEADLOCK FALSE
