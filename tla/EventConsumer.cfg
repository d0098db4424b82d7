SPECIFICATION FairSpec
CONSTANTS
    r1 = r1
    r2 = r2
    good = good
    bad = bad
    junk = junk
    Replicas <- MCReplicas
    Msgs <- AllMsgs
    Poison <- MCPoison
    Corrupt <- MCCorrupt
    MaxRetries = 1
    MsgTimeout = 20
    AckWait = 30
    FaultKinds <- AllFaults
    MaxFaults = 2

    
    
    
PROPERTIES
    EventuallySettled
CHECK_DEADLOCK FALSE
