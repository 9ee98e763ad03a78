\* One request, answered by a proxy over a network that loses nothing.
CONSTANTS
    Request = {r1}
    Node = {n1}
    Chunks = 2
    Capacity = 2
    MaxLists = 0
    MaxFaults = 0
SPECIFICATION Spec
INVARIANTS
    BodyInOrder
CHECK_DEADLOCK FALSE
