SPECIFICATION MCSpec
CONSTANTS
    Size = 2
    MaxQueue = 2
    MaxRequests = 3
    MaxThreads = 5
    MaxFaults = 2
    PoolSize = 2
    MaxInstances = 5
    MaxUses = 2
    Threads = {"t1", "t2"}
    Clients = {"ann", "bob"}
    MaxSessions = 2
    MaxTokens = 1
    MaxRegistrations = 1
    MaxServed = 2
    MaxCookies = 1
    Lifetime = 1
    Candidates <- Overlapping
    Paths <- OverlappingPaths
    MaxRoutes = 3
    MaxSettings = 1
    MaxAsked = 1
    Sizes = {2}
    MaxBlocks = 2
    HeapStart = 2
    InitialSize = 4
    PreGrown = 6
    MaxSize = 10
    Limits = {0, 8}
    MaxCount = 2
    MaxGrowth = 3
    LogSize = 1
    MaxKey = 3
    PerPages = {0, 2}
    MaxPerPage = 2
    MaxHandlers = 2
    MaxCalls = 2
    MaxInserts = 2
    MaxChanges = 1
INVARIANTS
    TypesOK
    RequestsAccounted
    WorkConserving
    AnswersReachRequests
    PoolsKeepCapacity
    AccessConsistent
    RoutingExact
    MemoryIntact
    CleanBetweenRequests
    BridgeAnswersExact
    TextsExact
PROPERTIES
    StartedInOrder
    ImplementsContract
CHECK_DEADLOCK FALSE
