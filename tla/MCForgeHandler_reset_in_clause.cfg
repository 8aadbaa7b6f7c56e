SPECIFICATION Spec
CONSTANTS
    Hellos <- MCPipelined
    PeerFrames = {"HAPROXY_HELLO", "NOTIFY", "MALFORMED"}
    Replies <- MCEmptyReply
    ErrorTextLens = {40}
    OwnMaxFrameSize = 4096
    MaxConcurrentFrames = 2
    IdsLen <- MCShortIds
    UnencodableIds = {}
    HandlerMayCancel = FALSE
    StubbornIds = {}
    PeerMayStall = FALSE
    Tls = FALSE
    MaxFrames = 2
CHECK_DEADLOCK FALSE
INVARIANTS
    ConnectionErrorsGraceful
