SPECIFICATION FairSpec
CHECK_DEADLOCK FALSE
CONSTANTS
    MaxConns = 3
    Nodes = {n1, n2}
    Host = n1
    Heartbeat = 4
    MaxFrameSize = 5
    Tunes <- TwoTunes
    MaxRetunes = 1
    MaxMoves = 1
    MaxLost = 1
INVARIANTS
    BothSidesAgree
    BeatsAsAgreed
    AtTheRightNode
    NothingLeftBehind
PROPERTY
    CallReturns
