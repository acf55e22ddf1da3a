SPECIFICATION FairSpec
CHECK_DEADLOCK FALSE
INVARIANTS PendingResponsesExact
PROPERTIES RequestCompletes CancelledCallReturns
CONSTANTS
    host = host
    guest = guest
    c1 = c1
    c2 = c2
    c3 = c3
    None = None
    Ends <- BothEnds
    Peer <- Across
    Calls <- ThreeCalls
    CallEnd <- HostTwice
    CallID <- Repeated
    CallType <- AllReq
    CallLen <- OneLarge
    Replayable = {}
    ReplyLens = {1}
    IDs = {1, 2}
    RequireAcknowledge <- AllFalse
    MaxRetries <- NoRetries
    MaxMessageSize <- Limit20
    MaxMessageSizeReceived <- NoLimit
    WireCap = 0
    Cancellable = {c1, c2}
    FailingHandlers = {guest}
    UnknownHandlers = {}
    Removable = {}
    MayClose = {}
    Stalling = {guest}
