\* Two lives of a session, ended by a crash or a shutdown, with a write that fails.
SPECIFICATION Spec
CONSTANTS
    Request <- LoopAndOnce
    Expiry = 2
    MaxTasks = 2
    Crashes = TRUE
    MaxTime = 2
    MaxRequests = 2
    MaxLives = 2
    MaxFaults = 1
INVARIANTS
    CreatedIsSaved
    PanelShowsTasks
PROPERTIES
    FiresAreSpaced
    RemovedIsFinal
    LeavesFileForCause
\* The session may have ended for good.
CHECK_DEADLOCK FALSE
