SPECIFICATION FairSpec
CONSTANTS
    r1 = r1
    r2 = r2
    NRows = 3
    Poison <- OnePoison
    Relays <- TwoRelays
    BatchSize = 2
    FaultKinds <- AllFaults
    MaxFaults = 2
INVARIANTS
    NothingLostOrInvented
PROPERTIES
    ExactlyOnceInEffect
    DrainsWhileAlive
CHECK_DEADLOCK FALSE
