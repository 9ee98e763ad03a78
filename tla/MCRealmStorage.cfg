\* Every sequence of calls on a storage that three or four flos fill.
CONSTANTS
    NodeID = {0}
    Root = 0
    FloID = {1, 2, 3, 4, 5}
    RealmID = 4
    Version = {0, 1}
    NoFlo = NoFlo
    MaxDepth = 2
    MaxSpace = 14
    Overhead = 1
    CuckooSize = 4
    FloSize <- MCFloSize
    Parent <- MCParent
    Depth <- MCDepth
SPECIFICATION StorageSpec
INVARIANTS
    StorageTypeOK
    IndexMatchesFlos
    SizeMatchesFlos
    RealmKept
    OverrunOnlyByCuckoos
PROPERTIES
    FurthestFirst
    NoDowngrade
    UpsertReturns
