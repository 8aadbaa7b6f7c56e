SPECIFICATION Spec
CONSTANTS
    Hellos <- MCEither
    PeerFrames = {"HAPROXY_HELLO", "NOTIFY", "HAPROXY_DISCONNECT", "OVERSIZED"}
    Replies <- MCShortReplies
    ErrorTextLens = {40}
    OwnMaxFrameSize = 4096
    MaxConcurrentFrames = 2
    IdsLen <- MCShortIds
    UnencodableIds = {3}
    HandlerMayCancel = FALSE
    StubbornIds = {2, 3, 4}
    PeerMayStall = TRUE
    Tls = TRUE
    MaxFrames = 4
CHECK_DEADLOCK FALSE
INVARIANTS
    ConnectionInv
    EveryNotifyAcked
    NoAckAfterErrorReport
    SerialWithoutPipelining
PROPERTIES
    KeepsPromise
