SPECIFICATION MCSpec
CONSTANTS
    PartitionCount = 2
    Boots = {1, 2}
    MaxFaults = 1
    Stopping = {1}
INVARIANTS
    CacheIsProof
    NoResurrection
PROPERTIES
    ViewsInOrder
    Converges
CHECK_DEADLOCK FALSE
