SPECIFICATION FairSpec
CONSTANTS
    Calls = {c1}
    Closers = {}
    Updates = {}
    Pushes = {}
    ServerId <- MCServerId
    IdMod = 1
    NoCall = NoCall
PROPERTIES
    EveryCallReturns
CHECK_DEADLOCK FALSE
