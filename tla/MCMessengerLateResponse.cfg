SPECIFICATION FairSpec
CHECK_DEADLOCK FALSE
PROPERTIES CancelledServeReturns
CONSTANTS
    host = host
    guest = guest
    c1 = c1
    c2 = c2
    c3 = c3
    None = None
    Ends <- BothEnds
    Peer <- Across
    Calls <- BothCalls
    CallID <- TwoIDs
    CallLen <- SmallLens
    Replayable = {}
    IDs = {1, 2}
    MaxRetries <- NoRetries
    MaxMessageSize <- NoLimit
    MaxMessageSizeReceived <- NoLimit
    FailingHandlers = {}
    UnknownHandlers = {}
    MayClose = {}
    ReplyLens = {1}
    CallType <- ReqReq
    CallEnd <- FromHost
    RequireAcknowledge <- AllFalse
    WireCap = 4
    Cancellable = {c1, host}
    Removable = {}
    Stalling = {}
