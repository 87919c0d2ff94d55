SPECIFICATION Spec
CONSTANTS
    Calls = {c1, c2}
    MaxQueue = 1
    Handlers = {TRUE}
    Stores = {"redis"}
    Timeout = 1
    Drain = 1
    Watchdog = 2
    MaxTime = 3
INVARIANTS
    InFlightDrained
CHECK_DEADLOCK FALSE
