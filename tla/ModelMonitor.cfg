SPECIFICATION Spec
CONSTANTS
    completed = completed
    failed = failed
    e1 = e1
    e2 = e2
    e3 = e3
    NoEvent = NoEvent
    Handlers <- MCHandlers
    Events <- MCEvents
    WindowSize = 2
    Timed = TRUE
    MinSamples = 2
    AutoRetrain = TRUE
    MaxDeliver = 2
    MaxFaults = 1
    MaxAdmin = 1
INVARIANTS
    AlarmIsEarned
    AlarmLossExplained
    WindowIsExact
    
SYMMETRY Sym
CHECK_DEADLOCK FALSE
