---------------------------- MODULE MCPointsOps -----------------------------
(* PointsOps for TLC: two handlers race for two users.  The two API keys    *)
(* are clipped to the same stored key, as long ones with a common prefix.   *)
EXTENDS PointsOps, TLC

CONSTANTS u1, u2, r1, r2, k1, k2, kk

MCClip == [k \in {k1, k2} |-> kk]
Symmetry == Permutations({r1, r2}) \cup Permutations({u1, u2})
=============================================================================
