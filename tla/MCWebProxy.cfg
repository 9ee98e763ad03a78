\* Two requests, bodies of two chunks in a channel for one, and one message lost.
CONSTANTS
    Request = {r1, r2}
    Node = {n1}
    Chunks = 2
    Capacity = 1
    MaxLists = 1
    MaxFaults = 1
SPECIFICATION FairSpec
INVARIANTS
    ResponsesConsistent
PROPERTIES
    GetReturns
    ReaderEnds
CHECK_DEADLOCK FALSE
