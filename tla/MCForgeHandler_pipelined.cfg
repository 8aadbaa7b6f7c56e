SPECIFICATION Spec
CONSTANTS
    Hellos <- MCAnyHello
    PeerFrames = {"HAPROXY_HELLO", "NOTIFY", "HAPROXY_DISCONNECT", "MALFORMED", "OVERSIZED", "OTHER", "MISTYPED"}
    Replies <- MCReplies
    ErrorTextLens = {20, 400}
    OwnMaxFrameSize = 4096
    MaxConcurrentFrames = 2
    IdsLen <- MCLongIds
    UnencodableIds = {4}
    HandlerMayCancel = TRUE
    StubbornIds = {}
    PeerMayStall = FALSE
    Tls = FALSE
    MaxFrames = 4
CHECK_DEADLOCK FALSE
INVARIANTS
    TypeOK
    SlotAccounting
    InFlightBound
    AckAtMostOnce
    HelloFirst
    OnlyIncompatibleRefused
    FramesFit
    SalvageAlwaysFits
    ErrorsReported
PROPERTIES
    NoDispatchWhileAborting
