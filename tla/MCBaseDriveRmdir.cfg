SPECIFICATION Spec
CHECK_DEADLOCK FALSE
INVARIANTS UnmountingIsTemporary
CONSTANTS
    Procs = {p1, p2}
    Methods = {"guestmount", "loop"}
    Ephemeral = TRUE
    ReadOnly = FALSE
    Failures = {"rmdir"}
