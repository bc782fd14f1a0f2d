---------------------------- MODULE MCLifecycle -----------------------------
(***************************************************************************)
(* Lifecycle for TLC.  Ids, goroutines and engines are interchangeable.    *)
(***************************************************************************)
EXTENDS Lifecycle, TLC

Symmetry == Permutations(Ids) \cup Permutations(Slots) \cup Permutations(Engines)
=============================================================================
