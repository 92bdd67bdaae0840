------------------------------- MODULE MCShop -------------------------------
(* Shop for TLC: cd starts as a webhook product and may be edited into one  *)
(* by card with another price, wh and mn are limited in stock and per user. *)
EXTENDS Shop, TLC

CONSTANTS u1, u2, cd, wh, mn, r1, r2

Row(price, delivery, stock, limit) ==
    [price |-> price, delivery |-> delivery, stock |-> stock, limit |-> limit,
     sold |-> 0, enabled |-> TRUE]
MCCatalogue ==
    [p \in Products |-> CASE p = cd -> Row(1, "webhook", -1, 0)
                          [] p = wh -> Row(1, "webhook", 3, 2)
                          [] p = mn -> Row(2, "manual", 1, 1)]
MCPatches == {[price |-> 2, delivery |-> "cdk"]}
StockPatches == {[enabled |-> FALSE]}
=============================================================================
