-------------------------------- MODULE MCOta -------------------------------
(* Ota for TLC: one node, by connection or by HTTP, and two versions.         *)
EXTENDS Ota, TLC

CONSTANTS w, c1, c2, r1, r2
=============================================================================
