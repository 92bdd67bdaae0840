--------------------------- MODULE MCNodePresence ---------------------------
(* NodePresence for TLC: one node, that dials in or is checked by HTTP.     *)
EXTENDS NodePresence, TLC

CONSTANTS w, c1, c2, t1, t2

Symmetry == Permutations({c1, c2}) \cup Permutations({t1, t2})
=============================================================================
