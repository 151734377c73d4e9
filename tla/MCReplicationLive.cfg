SPECIFICATION FairSpec
CONSTANTS
    s0 = s0
    s1 = s1
    Series <- MCSeries
    Primary <- MCPrimary
    N = 2
    ReplicaFactor = 2
    Data <- Records
    NoData = NoData
    Size = 3
    ByteLen <- MCByteLen
    SyncMaxBytes = 2
    Unfit <- MCUnfit
    Polled = {0}
    MaxSamples = 2
    MaxFaults = 1
    MaxRestarts = 1
INVARIANTS
    InOrder
PROPERTIES
    EventuallySettled
