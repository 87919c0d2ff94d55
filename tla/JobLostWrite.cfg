SPECIFICATION Spec
CONSTANTS
    Jobs = {1}
    Limits = {1}
    MaxJobsPerPoll = 1
    MaxFaults = 1
    MaxLives = 1
INVARIANTS
    StatusResolves
CHECK_DEADLOCK FALSE
