SPECIFICATION FairSpec
CHECK_DEADLOCK FALSE
INVARIANTS SingleLoop PingAccounted
PROPERTIES LivePeerSeen  
CONSTANTS
    host = host
    guest = guest
    h1 = h1
    h2 = h2
    g1 = g1
    None = None
    Ends <- BothEnds
    Peer <- Across
    Loops <- ThreeLoops
    LoopEnd <- HostTwice
    Capacity = 1
    MayCancel = {h1}
    MayCrash = {guest}
    MayReport = {guest}
    LateReport = FALSE
    MaxGivenUp = 1
    MaxAcks = 1
