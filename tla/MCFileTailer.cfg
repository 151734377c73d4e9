SPECIFICATION FairSpec
CONSTANTS
    N = 2
    MaxInodes = 3
    MaxSize = 2
    Setups <- MCSetups
    MaxFaults = 1
    WatchedFaults = FALSE
INVARIANTS
    InOrder
    NothingSkipped
    ResumesAtSaved
PROPERTIES
    EventuallyCaughtUp
CHECK_DEADLOCK FALSE
