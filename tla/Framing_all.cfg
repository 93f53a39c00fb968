SPECIFICATION Spec
CONSTANTS
    MaxReference = 2
    Conversations <- AllConversations
    Frame <- FrameOf
    Decoded <- DecodeResponse
    Encoded <- EncodeRequest
    FirstFrame <- FrameLength
    Understood <- Meaning
    Sliced <- SlicedResponse
INVARIANTS
    ConversationFits
    ReceivedIsSent
    RequestsUnderstood
CHECK_DEADLOCK FALSE
