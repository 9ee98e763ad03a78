\* Do two neighbours learn the same cuckoos?  Node 3, whose flos are cuckoos,
\* reaches them only through the router.
CONSTANTS
    NodeID = {0, 3, 7}
    FloID = {1, 2, 4, 5}
    RealmID = 4
    Version = {0}
    NoFlo = NoFlo
    NoRealm = NoRealm
    MaxDepth = 2
    MaxSpace = 100
    Overhead = 1
    CuckooSize = 1
    FloSize <- MCFloSize
    Parent <- MCParent
    Depth <- MCDepth
    Neighbours <- MCPair
    Evil = {}
    Config <- MCCuckooConfig
    SystemRealmID = 9
    UserFlo <- MCCuckooUser
    Reader = {}
    Lossy = FALSE
    MaxStores = 4
    MaxCrashes = 0
    MaxNet = 1
SPECIFICATION FairSpec
PROPERTIES
    CuckoosConverge
