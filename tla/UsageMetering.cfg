SPECIFICATION MeterSpec
CONSTANTS
    a = a
    b = b
    d = d
    x = x
    k1 = k1
    k2 = k2
    NoKey = NoKey
    Calls <- AllCalls
    Key <- AllKeys
    Qty <- AllQty
    Occurred <- AllOccurred
    Included = 1
    Limit = 3
    Price = 1
    MaxQuantity = 4
    MaxAmount = 3
    MicrosPerCent = 2
    Periods = 2
    MaxInFlight = 4
    MaxCloses = 1
    MaxPortFaults = 1
INVARIANTS
    Idempotent
    LedgerMatchesOutbox
    AllowanceHonoured
    NoFalseAlarm
CHECK_DEADLOCK FALSE
