\* Three nodes in a line, and more messages than a node keeps.
CONSTANTS
    Node = {"a", "b", "c"}
    Category = {"TextMessage", "NodeInfo"}
    Link <- MCLine
    Event <- MCLineEvents
    Unique <- MCUnique
    MaxEvents <- MCMaxEvents
    WarmUp = 1
    MaxFaults = 0
    MaxQueue = 1
SPECIFICATION FairSpec
PROPERTIES
    OldestGoFirst
    GossipSettles
