------------------------------ MODULE MCAgent ------------------------------
(* Agent for TLC: two keys and two versions to change to. *)
EXTENDS Agent, TLC

CONSTANTS k1, k2
=============================================================================
