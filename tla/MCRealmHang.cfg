\* Does every upsert_flo return when the cuckoos of the realm's flo grow?
CONSTANTS
    NodeID = {0}
    Root = 0
    FloID = {1, 2, 3, 4, 5}
    RealmID = 4
    Version = {0, 1}
    NoFlo = NoFlo
    MaxDepth = 2
    MaxSpace = 14
    Overhead = 1
    CuckooSize = 3
    FloSize <- MCFloSize
    Parent <- MCRealmParent
    Depth <- MCDepth
SPECIFICATION StorageSpec
PROPERTY AlwaysReturns
