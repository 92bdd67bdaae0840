SPECIFICATION Spec
CONSTANTS
    None = None
    u1 = u1  u2 = u2  cd = cd  wh = wh  mn = mn  r1 = r1  r2 = r2
    Users = {u1}
    Products = {wh, mn}
    Refs = {1, 2}
    Cards = {}
    Orders = {1, 2}
    Req = {r1}
    Catalogue <- MCCatalogue
    Patches <- StockPatches
    Replies = {"ok", "failed", "error"}
    Disturbances = {"put"}
    MaxQty = 2
    TopUps = {4}
    MaxLedger = 3
CHECK_DEADLOCK FALSE
INVARIANTS
    StockInv
PROPERTIES
    ProcessingEnds
