SPECIFICATION FairSpec
CHECK_DEADLOCK FALSE
PROPERTIES CallsReturn
CONSTANTS
    Procs = {p1, p2}
    IDs = {d1, d2}
    None = None
