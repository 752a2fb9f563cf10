SPECIFICATION Spec
CONSTANTS
    f1 = f1
    f2 = f2
    Procs <- MCFlows
    RefreshTTL = 2
    IdleTimeout = 1
    LastTick = 0
    MaxCalls = 3
    MaxFaults = 0
CHECK_DEADLOCK FALSE
SYMMETRY Symmetry
INVARIANT EndedIsOver
