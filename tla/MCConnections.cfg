\* Two peers, of which one connection is always wanted and a second one every other tick.
CONSTANTS
    Peer = {p1, p2}
    TwoLn <- MCTwoLn
    FillConnected = 2
    ConnectingTimeout = 0
    Interval = 1
    Timeout = 1
    MaxFaults = 1
    MaxQueue = 2
SPECIFICATION FairSpec
INVARIANTS
    ListsConsistent
    WatchedAreConnected
PROPERTIES
    DeadPeersLeave
CHECK_DEADLOCK FALSE
