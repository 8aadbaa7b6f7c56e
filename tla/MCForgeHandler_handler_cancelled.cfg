SPECIFICATION Spec
CONSTANTS
    Hellos <- MCPipelined
    PeerFrames = {"HAPROXY_HELLO", "NOTIFY"}
    Replies <- MCEmptyReply
    ErrorTextLens = {40}
    OwnMaxFrameSize = 4096
    MaxConcurrentFrames = 2
    IdsLen <- MCShortIds
    UnencodableIds = {}
    HandlerMayCancel = TRUE
    StubbornIds = {}
    PeerMayStall = FALSE
    Tls = FALSE
    MaxFrames = 2
CHECK_DEADLOCK FALSE
INVARIANTS
    EveryNotifyAcked
