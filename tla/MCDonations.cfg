SPECIFICATION Spec
CONSTANTS
    None = None
    u1 = u1  n1 = n1  n2 = n2  s1 = s1  r1 = r1  r2 = r2
    Users = {u1}
    Nodes = {n1, n2}
    Applied = {n1}
    Req = {r1, r2}
    Refs <- MCRefs
    SettingPool = {s1}
    Configs <- MCConfigs
    Settings <- MCSettings
    SentKeys <- MCSentKeys
    MaxPerUser = 1
    MaxDay = 2
    MaxKey = 2
    MaxDef = 2
    MaxStarted = 4
SYMMETRY Symmetry
CHECK_DEADLOCK FALSE
INVARIANTS
    DonationsInv
    DonationMatchesJournal
    PoolInv
