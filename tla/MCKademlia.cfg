\* Every sequence of calls, with two active nodes per bucket.
CONSTANTS
    ID = {0, 4, 6, 8, 10, 12}
    NodeID = {0, 4, 6, 8, 10, 12}
    NoNode = NoNode
    Root = 0
    Depth <- MCDepth
    MaxDepth = 4
    K = 2
    PingInterval = 1
    PingTimeout = 2
SPECIFICATION TableSpec
INVARIANTS
    TableWellFormed
    ActiveWereHeard
PROPERTIES
    PingedBeforeDropped
    ReachKept
    SilentNotActive
