SPECIFICATION Spec
CHECK_DEADLOCK FALSE
INVARIANTS TypeOK AckMeansHandled ResponseMeansHandled RunsBounded PendingAcksExact PendingResponsesExact
PROPERTIES ImplementsChannel
CONSTANTS
    host = host
    guest = guest
    c1 = c1
    c2 = c2
    c3 = c3
    None = None
    Ends <- BothEnds
    Peer <- Across
    Calls <- BothCalls
    CallEnd <- FromBoth
    CallID <- TwoIDs
    CallType <- ReqEvt
    CallLen <- SmallLens
    Replayable = {c1, guest}
    ReplyLens = {0, 1, 5}
    IDs = {1, 2}
    RequireAcknowledge <- AllTrue
    MaxRetries <- OneRetry
    MaxMessageSize <- NoLimit
    MaxMessageSizeReceived <- Limit4
    WireCap = 1
    Cancellable = {host}
    FailingHandlers = {host}
    UnknownHandlers = {host}
    Removable = {guest}
    MayClose = {guest}
    Stalling = {}
