SPECIFICATION Spec
CONSTANTS
    v1 = v1
    v2 = v2
    c1 = c1
    c2 = c2
    w1 = w1
    w2 = w2
    Versions <- MCVersions
    Callers <- MCCallers
    Writers <- MCWriters
    FailureThreshold = 1
    SuccessThreshold = 2
    MaxProbes = 1
    ResetTimeout = 2
    CallTimeout = 1
    TotalWeight = 1
    Burst = 1
    MaxChanges = 2
    MaxFaults = 1
INVARIANTS
    HalfOpenIsProbed
    
    OneStable
SYMMETRY Sym
CHECK_DEADLOCK FALSE
