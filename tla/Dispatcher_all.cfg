SPECIFICATION FairSpec
CONSTANTS
    Calls = {k1, k2, u1}
    Closers = {k1, k2}
    Updates = {u1}
    Pushes = {}
    ServerId <- MCServerId
    IdMod = 3
    NoCall = NoCall
INVARIANTS
    AnswerIsMine
    WaitingIsRegistered
    NoHeartbeatOnClosedChannel
PROPERTIES
    ImplementsRpcService
    WaitingCallsReturn
    CloseEndsDispatcher
CHECK_DEADLOCK FALSE
