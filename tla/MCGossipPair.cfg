\* Two nodes, descriptions of nodes, and one fault: a disconnection, a lost
\* message, a restart, or a failed or torn write of the file.
CONSTANTS
    Node = {"a", "b"}
    Category = {"TextMessage", "NodeInfo"}
    Link <- MCPair
    Event <- MCPairEvents
    Unique <- MCUnique
    MaxEvents <- MCMaxEvents
    WarmUp = 1
    MaxFaults = 1
    MaxQueue = 1
SPECIFICATION FairSpec
INVARIANTS
    EventsWellFormed
    EventsAreDurable
PROPERTY
    GossipSettles
