SPECIFICATION OpsSpec
CONSTANTS
    None = None
    u1 = u1  u2 = u2  r1 = r1  r2 = r2  k1 = k1  k2 = k2  kk = kk
    Users = {u1, u2}
    Callers = {r1, r2}
    ApiKeys = {k1, k2, None}
    Clip <- MCClip
    Refs = {kk}
    ProbeCosts = {0, 1, 2}
    Amounts = {2}
    MaxJournal = 3
SYMMETRY Symmetry
CHECK_DEADLOCK FALSE
INVARIANTS
    OpsTypeOK
    NeverNegative
    SnapshotChain
    KeyOnce
    RefundsBacked
