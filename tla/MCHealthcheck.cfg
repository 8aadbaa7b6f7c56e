SPECIFICATION ClientSpec
CONSTANTS
    Hellos <- MCHellos
    PeerFrames = {"HAPROXY_HELLO", "OVERSIZED"}
    Replies <- MCReplies
    ErrorTextLens = {}
    OwnMaxFrameSize = 4096
    AgentSizes = {60, 80, 100, 4096, 16384}
    MaxConcurrentFrames = 1
    IdsLen <- MCShortIds
    UnencodableIds = {}
    HandlerMayCancel = FALSE
    StubbornIds = {}
    PeerMayStall = FALSE
    Tls = FALSE
    MaxFrames = 1
CHECK_DEADLOCK FALSE
INVARIANTS
    HealthyMeansNegotiated
    UnhealthyHasReason
PROPERTIES
    CheckEnds
    CheckAnswered
