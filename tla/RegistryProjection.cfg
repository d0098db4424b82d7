SPECIFICATION ProjSpec
CONSTANTS
    v1 = v1
    v2 = v2
    NoVersion = NoVersion
    ModelVersions <- MCVersions
    MaxDeliver = 2
    MaxEvents = 3
    MaxProjFaults = 1
INVARIANTS
    NeverAhead
    
    AnnouncedIsVisible
SYMMETRY Sym
CHECK_DEADLOCK FALSE
