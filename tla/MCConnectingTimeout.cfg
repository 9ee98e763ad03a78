\* Does a node that never comes up leave the connecting list?
CONSTANTS
    Peer = {p1, p2}
    TwoLn <- MCTwoLn
    FillConnected = 2
    ConnectingTimeout = 1
    Interval = 1
    Timeout = 1
    MaxFaults = 1
    MaxQueue = 2
SPECIFICATION FairSpec
INVARIANTS
    ConnectingTimesOut
CHECK_DEADLOCK FALSE
