SPECIFICATION Spec
CONSTANTS
    None = None
    u1 = u1  u2 = u2  r1 = r1  r2 = r2  c1 = c1
    Users = {u1, u2}
    Req = {r1, r2}
    Codes = {c1}
    Refs <- MCRefs
    Configs <- MCConfigs
    CodePoints = {1}
    MaxUses = 1
    MaxDay = 3
    MaxGen = 1
    MaxLedger = 2
SYMMETRY Symmetry
CHECK_DEADLOCK FALSE
INVARIANTS
    TypeOK
    AccountMatchesJournal
    StreakNeverOverstated
    CheckinsPaid
    CodeWithinLimit
