SPECIFICATION FairSpec
CONSTANT
    Clients <- AllClients
INVARIANTS
    LockedWhileOpen
    FreedWhenClosed
    ParsedOnce
PROPERTIES
    SteadyKeepsCrawling
    SteadyOneshotEnds
CHECK_DEADLOCK FALSE
