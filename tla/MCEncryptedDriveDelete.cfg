SPECIFICATION EncSpec
CHECK_DEADLOCK FALSE
INVARIANTS EphemeralImageRemoved
CONSTANTS
    Procs = {p1, p2}
    Methods = {"luks"}
    Ephemeral = TRUE
    ReadOnly = FALSE
    Failures = {}
    CryptFailures = {}
    InitialImages = {TRUE}
    InitialKeys = {"reusable"}
