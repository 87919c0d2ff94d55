SPECIFICATION MCSpec
CONSTANTS
    Calls = {c1, c2}
    MaxQueue = 1
    Handlers = {TRUE, FALSE}
    Stores = {"memory", "redis"}
    Timeout = 1
    Drain = 1
    Watchdog = 2
    MaxTime = 3
    MaxFrames = 3
    Sockets = {s1, s2, s3}
    Rooms = {r1, r2}
    MaxClients = 2
    MaxCalls = 2
    MaxStops = 1
INVARIANTS
    TypesOK
    DrainExact
    FramesComplete
    RoomsMatchConnections
PROPERTIES
    WorkEnds
CHECK_DEADLOCK FALSE
