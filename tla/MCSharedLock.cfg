SPECIFICATION SettledSpec
CONSTANTS
    a = a
    b = b
    NoNode = NoNode
    Nodes <- MCNodes
    Outcomes <- MCUp
    Lease = 6
    WarmUp = 1
    MaxLosses = 1
    MaxRestarts = 0
INVARIANTS
    Held
PROPERTY
    ExactlyOnce
