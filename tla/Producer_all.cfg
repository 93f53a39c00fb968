SPECIFICATION FairSpec
CONSTANTS
    Singles = {m1, m2}
    Batches <- MCPair
    OwnId <- MCOwnId
    BatchSize = 2
    UsizeMod = 8
    MaxBuilds = 2
    MaxCalls = 2
    m1 = m1
    m2 = m2
    m3 = m3
    m4 = m4
    Timer = Timer
    NoWorker = NoWorker
INVARIANTS
    CountIsQueue
    StoredOnce
    CallbackIsMine
    NoPanic
    NothingLost
    SequenceAhead
PROPERTIES
    EveryMessageAnswered
    ConfirmTriggersCallback
CHECK_DEADLOCK FALSE
