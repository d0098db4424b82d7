SPECIFICATION FairSpec
CONSTANTS
    c1 = c1
    c2 = c2
    Chats <- MCChats
    Providers = {"ollama"}
    Order <- MCOrder
    NoPin = "none"
    AllowList = {"ollama"}
    FailureThreshold = 1
    SuccessThreshold = 1
    MaxProbes = 1
    ResetTimeout = 1
    Budget = 1
    MaxUse = 1
    MaxEntries = 1
    MaxFaults = 0
PROPERTY
    ProviderRejoins
