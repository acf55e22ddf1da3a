SPECIFICATION EncSpec
CHECK_DEADLOCK FALSE
INVARIANTS MapperClosed QuietUnmount IOOnMountedImage
PROPERTIES DataPreserved ImplementsDrive
CONSTANTS
    Procs = {p1, p2, p3}
    Methods = {"luks"}
    Ephemeral = TRUE
    ReadOnly = FALSE
    Failures = {"mount", "umount", "rmdir", "rmimage"}
    CryptFailures = {"truncate", "luksFormat", "luksOpen", "mkfs"}
    InitialImages = {TRUE, FALSE}
    InitialKeys = {"reusable", "oneShot"}
