\* Lives that end in a shutdown that has settled: no crash, no failed write.
SPECIFICATION Spec
CONSTANTS
    Request <- Asked
    Expiry = 2
    MaxTasks = 2
    Crashes = FALSE
    MaxTime = 1
    MaxRequests = 2
    MaxLives = 2
    MaxFaults = 0
INVARIANT DeletedStaysDeleted
CHECK_DEADLOCK FALSE
