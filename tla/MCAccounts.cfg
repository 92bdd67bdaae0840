SPECIFICATION Spec
CONSTANTS
    None = None
    e1 = e1  e2 = e2  x1 = x1  r1 = r1  r2 = r2
    Users = {1, 2, 3}
    Seed = 1
    Emails = {e1, e2}
    Captchas = {x1}
    Req = {r1, r2}
    MaxTry = 2
    Bodies <- MCBodies
    First <- MCFirst
    Inputs <- MCInputs
    MaxCode = 2
    MaxStarted = 4
    MaxRestarts = 1
SYMMETRY MCSymmetry
CHECK_DEADLOCK FALSE
INVARIANTS
    AccountsInv
    AdminRemains
    VerifiedByOwner
