SPECIFICATION FairSpec
CHECK_DEADLOCK FALSE
CONSTANTS
    NumMessages = 3
    NumPartitions = 2
    Keys = {"a", "b"}
    KeyOf <- ThreeKeys
    HashOf <- Hashes
    Bindings <- Bound
    MaxFaults = 1
    Capacity = 1
INVARIANTS
    OneHome
    WholeOrPrefix
    KeyOrder
    MergeKeepsOrder
    ClosesReachAll
PROPERTIES
    ClosedStreamEnds
    Arrives
