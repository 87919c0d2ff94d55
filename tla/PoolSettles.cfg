SPECIFICATION FairSpec
CONSTANTS
    Size = 2
    MaxQueue = 1
    MaxRequests = 2
    MaxThreads = 8
    MaxFaults = 2
PROPERTIES
    EveryRequestSettles
    SlotsRefilled
CHECK_DEADLOCK FALSE
