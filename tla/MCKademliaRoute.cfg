\* Is the wrong branch used when a needed bucket is empty?
CONSTANTS
    ID = {0, 4, 6, 8, 10, 12}
    NodeID = {0, 4, 6, 8, 10, 12}
    NoNode = NoNode
    Root = 0
    Depth <- MCDepth
    MaxDepth = 4
    K = 2
    PingInterval = 1
    PingTimeout = 2
SPECIFICATION TableSpec
INVARIANT WrongBranchUsed
