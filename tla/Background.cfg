SPECIFICATION MCSpec
CONSTANTS
    Jobs = {1, 2}
    Limits = {2}
    MaxJobsPerPoll = 2
    MaxFaults = 1
    MaxLives = 2
    Names = {n1, n2}
    Crons = {{1, 2, 3, 4, 5}, {2, 4}}
    Horizon = 3
    MaxDelay = 3
    MaxEntries = 3
    MaxTime = 3
INVARIANTS
    TypesOK
    TableConsistent
    OneTimerPerName
PROPERTIES
    SettledForGood
    FiresAtTicks
    WorkGetsDone
CHECK_DEADLOCK FALSE
