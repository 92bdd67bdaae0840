---------------------------- MODULE OrderEscrow -----------------------------
(***************************************************************************)
(* What the shop promises about points, without products, stock, webhooks  *)
(* or handlers: buying moves the price from the wallet of the buyer into   *)
(* an escrow, and from there it goes exactly one way, once: to the shop or *)
(* back to the buyer.                                                      *)
(***************************************************************************)
EXTENDS Integers

CONSTANTS Users, Orders, Nobody

VARIABLES wallet,      \* [Users -> Nat]
          escrow       \* [Orders -> what was paid, by whom, where it is]

evars == <<wallet, escrow>>

NoEscrow == [state |-> "none", user |-> Nobody, amount |-> 0]

Init ==
    /\ wallet = [u \in Users |-> 0]
    /\ escrow = [o \in Orders |-> NoEscrow]

\* Points earned elsewhere.
Earn(u) ==
    /\ wallet'[u] > wallet[u]
    /\ wallet' = [wallet EXCEPT ![u] = wallet'[u]]
    /\ UNCHANGED escrow

\* The price is whatever left the wallet, and it is not nothing.
Buy(o, u) ==
    /\ escrow[o].state = "none"
    /\ 0 <= wallet'[u] /\ wallet'[u] < wallet[u]
    /\ wallet' = [wallet EXCEPT ![u] = wallet'[u]]
    /\ \E s \in {"held", "settled"} :
          escrow' = [escrow EXCEPT ![o] = [state |-> s, user |-> u,
                                           amount |-> wallet[u] - wallet'[u]]]

Settle(o) ==
    /\ escrow[o].state = "held"
    /\ escrow' = [escrow EXCEPT ![o].state = "settled"]
    /\ UNCHANGED wallet

Return(o) ==
    /\ escrow[o].state = "held"
    /\ escrow' = [escrow EXCEPT ![o].state = "returned"]
    /\ wallet' = [wallet EXCEPT ![escrow[o].user] = @ + escrow[o].amount]

Next ==
    \/ \E u \in Users : Earn(u)
    \/ \E o \in Orders : \/ Settle(o)
                         \/ Return(o)
                         \/ \E u \in Users : Buy(o, u)

Spec == Init /\ [][Next]_evars
=============================================================================
