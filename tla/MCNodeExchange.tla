--------------------------- MODULE MCNodeExchange ---------------------------
(* NodeExchange for TLC: two handlers ask one node over a connection that     *)
(* may break; one slot and a buffer of one frame.                             *)
EXTENDS NodeExchange, TLC

CONSTANTS n1, c1, r1, r2

MCNodeOf == [c \in Conns |-> n1]
=============================================================================
