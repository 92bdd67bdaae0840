SPECIFICATION Spec
CONSTANTS
    None = None
    u1 = u1  u2 = u2  cd = cd  wh = wh  mn = mn  r1 = r1  r2 = r2
    Users = {u1}
    Products = {cd}
    Refs = {1, 2}
    Cards = {1, 2}
    Orders = {1, 2}
    Req = {r1}
    Catalogue <- MCCatalogue
    Patches <- MCPatches
    Replies = {"ok", "error", "pending"}
    Disturbances = {"put", "delete", "restart"}
    MaxQty = 1
    TopUps = {2}
    MaxLedger = 3
CHECK_DEADLOCK FALSE
INVARIANTS
    ShopInv
    MoneyFollowsStatus
PROPERTIES
    EscrowSpec
