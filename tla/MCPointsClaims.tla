--------------------------- MODULE MCPointsClaims ---------------------------
(* PointsClaims for TLC: two handlers race for the claims of a user who may *)
(* be deleted meanwhile, over the change of a day.                          *)
EXTENDS PointsClaims, TLC

CONSTANTS u1, u2, r1, r2, c1

MCRefs == {u1, u2, c1} \cup ({u1, u2} \X (1..4))
Rules(base, signup) ==
    [enabled |-> TRUE, checkin |-> TRUE, base |-> base, bonus |-> 1, cap |-> 2,
     signup |-> signup]
MCConfigs == {Rules(1, 2), Rules(0, 0)}
Symmetry == Permutations({r1, r2}) \cup Permutations({u1, u2})
=============================================================================
