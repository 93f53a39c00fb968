SPECIFICATION Spec
CONSTANTS
    NumChunks = 3
    First <- MCFirst
    StartOffset = 0
    Passes <- MCPassSome
    SingleActive = FALSE
    Answer = 0
    Capacity = 1
INVARIANTS
    OffsetIsMessages
CHECK_DEADLOCK FALSE
