SPECIFICATION FairSpec
CONSTANTS
    a = a
    b = b
    c = c
    c1 = c1
    c2 = c2
    Unknown = Unknown
    Steps <- MCSteps
    MaxRetries <- MCRetries
    Unwired <- MCUnwired
    Calls <- MCCalls
    MaxFaults = 1
INVARIANTS
    LevelsAreLongestPaths
    ParentsFirst
    
    OneRunPerKey
PROPERTY
    CallsReturn
CHECK_DEADLOCK FALSE
