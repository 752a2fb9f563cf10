SPECIFICATION Spec
CONSTANTS
    p1 = p1
    p2 = p2
    c1 = c1
    c2 = c2
    a = a
    proxy = proxy
    None = None
    Procs <- MCProcs
    Phones <- OnePhone
    Codes <- MCCodes
    MaxAttempts = 1
    Clients <- OneClient
    Limit = 2
    Window = 1
    LastTick = 2
    MaxCalls = 2
    MaxFaults = 1
CHECK_DEADLOCK FALSE
SYMMETRY Symmetry
INVARIANT RegisteredHasCode
