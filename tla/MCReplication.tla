---------------------------- MODULE MCReplication ---------------------------
(* Instances of Replication for TLC. *)
EXTENDS Replication, TLC

CONSTANTS k1, k2

MCKeys == {k1, k2}
Symmetric == Permutations(MCKeys)

=============================================================================
