SPECIFICATION Spec
CONSTANTS
    Pages <- MCPages
    MaxEntries = 4
    MaxDepth = 4
    MaxPops = 2
    MaxMissed = 2
CHECK_DEADLOCK FALSE
INVARIANTS
    TypeOK
    StackMatchesSheets
    ExitsAtRoot
PROPERTY BackSparesSheets
