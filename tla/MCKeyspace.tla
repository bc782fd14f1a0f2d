----------------------------- MODULE MCKeyspace -----------------------------
(* Instances of Keyspace for TLC. *)
EXTENDS Keyspace

CONSTANTS k1, k2, c1, c2

MCKeys == {k1, k2}
MCClients == {c1, c2}
Symmetric == Permutations(MCKeys) \cup Permutations(MCClients)

AllOps == {"SET", "SET NX", "SET XX", "SETNX", "MSET", "DEL", "EXPIRE",
           "PERSIST", "RENAME", "INCR", "DECR", "APPEND"}

=============================================================================
