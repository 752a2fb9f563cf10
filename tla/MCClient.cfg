SPECIFICATION Spec
CONSTANTS
    f1 = f1
    f2 = f2
    Procs <- MCFlows
    RefreshTTL = 2
    IdleTimeout = 1
    LastTick = 3
    MaxCalls = 4
    MaxFaults = 1
CHECK_DEADLOCK FALSE
SYMMETRY Symmetry
INVARIANTS
    TypeOK
    SecondUseIsDetected
    AbsoluteWindow
    RevokedForGood
PROPERTY FailureIsDue
