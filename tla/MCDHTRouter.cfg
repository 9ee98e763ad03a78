\* Four nodes, with a few messages, changes and ticks in any order.
CONSTANTS
    ID = {0, 16, 18, 20, 24}
    NodeID = {0, 16, 18, 20}
    NoNode = NoNode
    Depth <- MCDepth
    MaxDepth = 4
    K = 1
    PingInterval = 1
    PingTimeout = 2
    LocalBlacklists = TRUE
    MaxInFlight = 0
    Warm <- MCStar
    MaxSends = 2
    MaxChanges = 1
    MaxTicks = 1
    MaxNet = 1
SPECIFICATION Spec
INVARIANTS
    RoutersWellFormed
PROPERTIES
    ImplementsKeyRouting
CHECK_DEADLOCK FALSE
