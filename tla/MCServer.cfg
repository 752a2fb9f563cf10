SPECIFICATION FairServer
CONSTANTS
    old = old
    new = new
    edited = edited
    a = a
    b = b
    s1 = s1
    s2 = s2
    NoOne = NoOne
    Ghost = Ghost
    Runners <- MCRunners
    Contents <- MCContents
    Dir <- MCDir
    Slots <- MCSlots
    Configs <- MCConfigs
    PoolSize = 1
    MaxRuns = 2
    MaxFaults = 1
    MaxRequests = 2
    MaxStatements = 2
CHECK_DEADLOCK FALSE
INVARIANTS
    ServerTypeOK
    SchemaIsRecorded
    SnapshotIsFresh
    ReadyToServe
PROPERTIES
    EveryRunReturns
    OrderlyExit
    Settles
