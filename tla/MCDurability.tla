---------------------------- MODULE MCDurability ----------------------------
(* Instances of Durability for TLC. *)
EXTENDS Durability, TLC

CONSTANTS k1, k2, v1, v2

MCOneKey == {k1}
MCKeys == {k1, k2}
MCVals == {v1, v2}
MCOneVal == {v1}
Symmetric == Permutations(MCKeys) \cup Permutations(MCVals)

=============================================================================
