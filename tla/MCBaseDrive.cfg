SPECIFICATION FairSpec
CHECK_DEADLOCK FALSE
INVARIANTS MountedIsComplete QuietUnmount SingleUnmounter UnmountingIsTemporary IOOnMountedImage PanicOnlyAfterDelete
PROPERTIES UnmountReturns ImplementsDrive
CONSTANTS
    Procs = {p1, p2, p3}
    Methods = {"guestmount", "loop"}
    Ephemeral = TRUE
    ReadOnly = FALSE
    Failures = {"mount", "umount", "detach"}
