SPECIFICATION Spec
CONSTANTS
    N = 1
    MaxInodes = 2
    MaxSize = 2
    Setups <- WatchedSetup
    MaxFaults = 1
    WatchedFaults = TRUE
INVARIANTS
    NothingSkipped
CHECK_DEADLOCK FALSE
