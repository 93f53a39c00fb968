SPECIFICATION FairSpec
CONSTANTS
    NumChunks = 3
    First <- MCFirst
    StartOffset = 1
    Passes <- MCPassChunks
    SingleActive = TRUE
    Answer = 1
    Capacity = 1
INVARIANTS
    OneChunkInFlight
    InOrder
    NoGap
    OffsetIsMessages
PROPERTIES
    ImplementsSubscription
    EverythingArrives
    StreamEnds
    TasksEnd
CHECK_DEADLOCK FALSE
