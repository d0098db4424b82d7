SPECIFICATION StoreSpec
CONSTANTS
    a = a
    b = b
    e1 = e1
    e2 = e2
    Callers <- MCCallers
    Entities <- MCEntities
    Times = {1, 2}
    Keys = {"k"}
    NoKey = ""
    MaxLog = 3
    MaxStoreFaults = 1
INVARIANTS
    
    OnlineIsLatest
    HistoryIsExact
SYMMETRY Sym
CHECK_DEADLOCK FALSE
