SPECIFICATION StoresSpec
CONSTANTS
    s1 = s1
    s2 = s2
    Series <- MCSeries
    Clock <- MCClock
    Ttls <- MCTtls
    Never = 100
    Span0 = 2
    LvnSize = 2
    MaxSeries = 2
    short1 = short1
    short2 = short2
    long = long
    NoData = NoData
    Data <- MCData
    ByteLen <- MCByteLen
    Size = 4
    SyncMaxBytes = 3
    Names = {1, 2, 3}
    Hashes <- MCHashes
    PerServer = 4
    HashMin = 5
    HashMax = 13
    Clients = {c1, c2}
    Periodic = {c1}
    Schedulers = {s}
    MaxTimers = 3
INVARIANTS
    NoneMissed
    SamePrimary
    WithinRow
    OneOwner
PROPERTIES
    ImplementsDeadlines
    ImplementsBoundedLog
    Drains
