SPECIFICATION FairSpec
CHECK_DEADLOCK FALSE
INVARIANTS TypeOK FinalIsWhole SuccessMeansInstalled RefusalMeansNotInstalled TempsOwned SessionKept
 
CONSTANTS
    s1 = s1
    s2 = s2
    id = id
    d1 = d1
    None = None
    Senders <- TwoSenders
    IDs = {id}
    TransferID <- OneID
    Dests = {d1}
    Dest <- OneDest
    GivenSHA256 <- SecondGiven
    Bytes = {0, 1}
    MaxLen = 1
    RequireAcknowledge = TRUE
    Retries <- FirstRetries
    MaxChanges = 1
    Failures = {"plan", "disk", "rename", "conn"}
