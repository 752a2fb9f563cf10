SPECIFICATION ServiceSpec
CONSTANTS
    p1 = p1
    p2 = p2
    k1 = k1
    k2 = k2
    k3 = k3
    k4 = k4
    k5 = k5
    External = External
    None = None
    Wallets <- MCUsers
    Half = 8
    Procs <- MCProcs
    Calls <- RaceCalls
    Requests <- RaceRequests
    Verified <- MCUsers
    Supported <- MCSupported
    Level <- MCLevel
    LimitsByLevel <- Generous
    DaysPerMonth = 2
    LastDay = 0
    MaxCalls = 3
    Overlap = TRUE
CHECK_DEADLOCK FALSE
SYMMETRY Symmetry
INVARIANT NoOverdraft
