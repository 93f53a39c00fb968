SPECIFICATION Spec
CONSTANTS
    Singles = {m1, m2}
    Batches <- MCNoBatch
    OwnId <- MCNoOwnId
    BatchSize = 1
    UsizeMod = 8
    MaxBuilds = 1
    MaxCalls = 2
    m1 = m1
    m2 = m2
    m3 = m3
    m4 = m4
    Timer = Timer
    NoWorker = NoWorker
INVARIANTS
    ConfirmedIsStored
CHECK_DEADLOCK FALSE
