SPECIFICATION Spec
CONSTANTS
    a = a
    b = b
    v1 = v1
    v2 = v2
    NoVersion = NoVersion
    NoKey = ""
    Callers <- MCCallers
    Versions <- MCVersions
    Keys = {"k"}
    MaxAttempts = 2
    MaxCalls = 3
    MaxFaults = 1
INVARIANTS
    OneProduction
    
    
    LifecycleHonest
SYMMETRY Sym
CHECK_DEADLOCK FALSE
