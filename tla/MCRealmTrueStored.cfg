\* Is a flo stored whenever upsert_flo returned true?
CONSTANTS
    NodeID = {0}
    Root = 0
    FloID = {1, 2, 3, 4, 5}
    RealmID = 4
    Version = {0, 1}
    NoFlo = NoFlo
    MaxDepth = 2
    MaxSpace = 14
    Overhead = 1
    CuckooSize = 1
    FloSize <- MCFloSize
    Parent <- MCNoParent
    Depth <- MCDepth
SPECIFICATION StorageSpec
INVARIANT TrueMeansStored
