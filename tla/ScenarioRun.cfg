SPECIFICATION Spec
CONSTANTS
    Nodes <- MCNodes
    Env <- MCEnv
    Setups <- All
    Threads = {"w1", "w2"}
INVARIANTS
    TypeOK
    PlaceholdersAreResolved
    MemoryIsKept
    CacheIsOwn
    FailureStopsScenario
    VerdictIsRight
CHECK_DEADLOCK FALSE
