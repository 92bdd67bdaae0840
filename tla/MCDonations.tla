----------------------------- MODULE MCDonations ----------------------------
(* Donations for TLC: one donor and two node ids, the rules as they are or *)
(* the rewards switched off; two requests at a time.                       *)
EXTENDS Donations, TLC

CONSTANTS u1, n1, n2, s1, r1, r2

MCRefs == {n1, n2} \cup ({n1, n2} \X (1..4))
Rules(b, d) == [on |-> TRUE, donate |-> TRUE,
                bonus |-> [idc |-> b, home |-> b + 1], daily |-> [idc |-> d, home |-> d]]
MCConfigs == {Rules(1, 1), Rules(0, 0)}
MCSettings == {<<0, TRUE>>}
MCSentKeys == {0, 9, None}
Symmetry == Permutations({r1, r2})
=============================================================================
