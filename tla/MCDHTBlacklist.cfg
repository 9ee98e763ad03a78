\* Is nothing sent to a blacklisted node?
CONSTANTS
    ID = {0, 16, 18, 20, 24}
    NodeID = {0, 16, 18, 20}
    NoNode = NoNode
    Depth <- MCDepth
    MaxDepth = 4
    K = 1
    PingInterval = 1
    PingTimeout = 2
    LocalBlacklists = TRUE
    MaxInFlight = 0
    Warm <- MCStar
    MaxSends = 2
    MaxChanges = 0
    MaxTicks = 0
    MaxNet = 1
SPECIFICATION Spec
PROPERTY NoneToBlacklisted
CHECK_DEADLOCK FALSE
