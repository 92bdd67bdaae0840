SPECIFICATION FairSpec
CONSTANTS
    None = None
    w = w  c1 = c1  c2 = c2  r1 = r1  r2 = r2
    Nodes = {w}
    Versions = {1, 2}
    First = 1
    Targets = {0, 2}
    Req = {r1}
    Conns = {c1}
    MaxAsk = 2
    MaxTroubles = 1
CHECK_DEADLOCK FALSE
INVARIANTS
    OtaInv
PROPERTIES
    VerdictHolds
    UpgradeEnds
