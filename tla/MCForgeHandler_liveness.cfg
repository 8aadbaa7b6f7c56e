SPECIFICATION LoopSpec
CONSTANTS
    Hellos <- MCEither
    PeerFrames = {"HAPROXY_HELLO", "NOTIFY", "HAPROXY_DISCONNECT"}
    Replies <- MCEmptyReply
    ErrorTextLens = {40}
    OwnMaxFrameSize = 4096
    MaxConcurrentFrames = 2
    IdsLen <- MCShortIds
    UnencodableIds = {}
    HandlerMayCancel = FALSE
    StubbornIds = {3}
    PeerMayStall = TRUE
    Tls = TRUE
    MaxFrames = 3
CHECK_DEADLOCK FALSE
PROPERTIES
    TeardownCompletes
    NotifyAnsweredOrOver
    HangupEndsConnection
