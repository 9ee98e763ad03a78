\* Two nodes, three connections, and the signalling server that sends on them.
CONSTANTS
    Node = {n1, n2}
    NoNode = NoNode
    MaxConnections = 3
    MaxEvents = 1
    TTL = 2
    MaxWire = 1
    MaxRequests = 1
SPECIFICATION Spec
INVARIANTS
    IndexFindsConnection
SYMMETRY MCSymmetry
CHECK_DEADLOCK FALSE
