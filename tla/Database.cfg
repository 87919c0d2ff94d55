SPECIFICATION MCSpec
CONSTANTS
    MaxCalls = 3
    TimeoutStages = {"posted", "running", "writing", "finished"}
    Workers = {w1, w2}
    Pools = {TRUE, FALSE}
    Faults = {TRUE, FALSE}
    MaxRuns = 3
    Conns = {c1, c2}
    Limit = 2
    MaxRequests = 4
    Threads = {t1, t2}
    Count = 2
    MaxMigrationRuns = 2
    MaxRollbacks = 1
    MaxFaults = 1
INVARIANTS
    TypesOK
    CallsExact
    SqliteTransactions
    ConnectionsAccounted
    MigrationsRecorded
PROPERTIES
    EveryCallReturns
CHECK_DEADLOCK FALSE
