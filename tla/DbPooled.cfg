SPECIFICATION Spec
CONSTANTS
    Workers = {w1, w2}
    Pools = {TRUE}
    Faults = {FALSE}
    MaxRuns = 2
INVARIANTS
    AllOrNothing
CHECK_DEADLOCK FALSE
