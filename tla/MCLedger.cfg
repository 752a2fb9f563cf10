SPECIFICATION FairSpec
CONSTANTS
    p1 = p1
    p2 = p2
    k1 = k1
    k2 = k2
    external = external
    unknown = unknown
    None = None
    Wallets <- MCWallets
    Half = 8
    Procs <- MCProcs
    Keys <- MCKeys
    SystemAccounts <- MCSystem
    Requests <- MCRequests
    MaxRetries = 2
    MaxCalls = 3
    MaxFaults = 2
CHECK_DEADLOCK FALSE
INVARIANTS
    TypeOK
    AtMostOncePerKey
    NoDrift
    JournalBalances
    AnswerIsRecorded
    NoWaitCycle
PROPERTIES
    FailureIsExplained
    ImplementsAbstract
    EveryCallReturns
