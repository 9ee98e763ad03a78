\* Three nodes in a line, room for everything, reliable links, one restart.
CONSTANTS
    NodeID = {0, 3, 7}
    FloID = {1, 4}
    RealmID = 4
    Version = {0, 1}
    NoFlo = NoFlo
    NoRealm = NoRealm
    MaxDepth = 2
    MaxSpace = 100
    Overhead = 1
    CuckooSize = 1
    FloSize <- MCFloSize
    Parent <- MCParent
    Depth <- MCDepth
    Neighbours <- MCLine
    Evil = {}
    Config <- MCRealmConfig
    SystemRealmID = 4
    UserFlo <- MCUserFlo
    Reader = {0}
    Lossy = FALSE
    MaxStores = 3
    MaxCrashes = 1
    MaxNet = 1
SPECIFICATION FairSpec
PROPERTIES
    ImplementsReplicas
    Converges
