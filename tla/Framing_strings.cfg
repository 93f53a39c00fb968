SPECIFICATION Spec
CONSTANTS
    MaxReference = 2
    Conversations <- StringConversation
    Frame <- FrameOf
    Decoded <- DecodeResponse
    Encoded <- EncodeRequest
    FirstFrame <- FrameLength
    Understood <- Meaning
    Sliced <- SlicedResponse
INVARIANT PartialFrameWaits
CHECK_DEADLOCK FALSE
