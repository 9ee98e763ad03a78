\* Two nodes, too small for all flos, lossy links, restarts.
CONSTANTS
    NodeID = {0, 7}
    FloID = {1, 2, 4}
    RealmID = 4
    Version = {0, 1}
    NoFlo = NoFlo
    NoRealm = NoRealm
    MaxDepth = 2
    MaxSpace = 10
    Overhead = 1
    CuckooSize = 1
    FloSize <- MCFloSize
    Parent <- MCParent
    Depth <- MCDepth
    Neighbours <- MCPair
    Evil = {}
    Config <- MCPairConfig
    SystemRealmID = 4
    UserFlo <- MCUserFlo
    Reader = {0}
    Lossy = TRUE
    MaxStores = 3
    MaxCrashes = 1
    MaxNet = 2
SPECIFICATION Spec
INVARIANTS
    TypeOK
    StoredIsDurable
