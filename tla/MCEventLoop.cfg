SPECIFICATION LoopSpec
CONSTANTS
    Threads = {t1, t2}
    Ids = {i1, i2}
    None = None
    Rps <- MCRps
    Interval <- MCInterval
    Places = 1
    Idle = 3
    MaxDelay = 1
    MaxClock = 5
    MaxCalls = 3
    MaxDepth = 2
    Slots = {s1, s2}
    MaxWork = 2
    MaxPools = 2
    Writers = {w1, w2}
    Pieces = 2
    MaxRequests = 3
    Clients = {c1, c2}
CHECK_DEADLOCK FALSE
INVARIANTS
    NeverOverRate
    NothingForgotten
    NoDanglingWait
    MainWorkIsRun
    FreedLast
    KeptWhileHeld
    HandledOnce
    ProbeFreedLast
    SharedBindIsKept
PROPERTIES
    DeniedCostsNothing
    EveryAwaitReturns
    WorkLeavesList
    JoinReturns
    PendingMoves
    AnsweredEnds
    ProbeEnds
