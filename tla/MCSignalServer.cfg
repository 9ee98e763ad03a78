\* Two nodes and three connections: one of the nodes connects again.
CONSTANTS
    Node = {n1, n2}
    NoNode = NoNode
    MaxConnections = 3
    MaxEvents = 1
    TTL = 2
    MaxWire = 1
    MaxRequests = 1
SPECIFICATION FairSpec
INVARIANTS
    ListConsistent
PROPERTIES
    LeavesForAReason
    GoneNodesLeave
CHECK_DEADLOCK FALSE
