SPECIFICATION Spec
CONSTANTS
    a = a
    b = b
    NoNode = NoNode
    Nodes <- MCNodes
    Outcomes <- MCUp
    Lease = 6
    WarmUp = 16
    MaxLosses = 0
    MaxRestarts = 0
INVARIANT
    OneCrawler
