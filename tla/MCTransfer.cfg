SPECIFICATION ServiceSpec
CONSTANTS
    p1 = p1
    p2 = p2
    k1 = k1
    k2 = k2
    k3 = k3
    k4 = k4
    k5 = k5
    External = External
    None = None
    Wallets <- MCUsers
    Half = 8
    Procs <- MCProcs
    Calls <- MCCalls
    Requests <- MCRequests
    Verified <- MCUsers
    Supported <- MCSupported
    Level <- MCLevel
    LimitsByLevel <- MCLimits
    DaysPerMonth = 2
    LastDay = 2
    MaxCalls = 4
    Overlap = FALSE
CHECK_DEADLOCK FALSE
SYMMETRY Symmetry
INVARIANTS
    ServiceTypeOK
    NoOverdraft
    SpendingCaps
    ReceiptMatches
