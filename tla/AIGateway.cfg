SPECIFICATION Spec
CONSTANTS
    c1 = c1
    c2 = c2
    Chats <- MCChats
    Providers = {"ollama", "stub"}
    Order <- MCOrder
    NoPin = "none"
    AllowList = {"ollama"}
    FailureThreshold = 1
    SuccessThreshold = 1
    MaxProbes = 1
    ResetTimeout = 1
    Budget = 1
    MaxUse = 2
    MaxEntries = 1
    MaxFaults = 1
INVARIANTS
    AnswersAreWhole
    OvershootBounded
SYMMETRY Sym
CHECK_DEADLOCK FALSE
