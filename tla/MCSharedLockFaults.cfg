SPECIFICATION Spec
CONSTANTS
    a = a
    b = b
    NoNode = NoNode
    Nodes <- MCNodes
    Outcomes <- MCUp
    Lease = 1
    WarmUp = 1
    MaxLosses = 0
    MaxRestarts = 1
PROPERTY
    AgreementLasts
SYMMETRY Swap
