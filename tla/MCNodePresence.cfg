SPECIFICATION Spec
CONSTANTS
    None = None  Loop = Loop
    w = w  c1 = c1  c2 = c2  t1 = t1  t2 = t2
    Nodes = {w}
    Conns = {c1, c2}
    Timers = {t1, t2}
    Disturbances = {"http", "evict", "restart", "quiet", "delete", "fail"}
SYMMETRY Symmetry
CHECK_DEADLOCK FALSE
INVARIANTS
    PresenceInv
    OutagesTold
PROPERTIES
    SuccessorKept
