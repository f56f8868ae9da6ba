-------------------------- MODULE MCSpikeManager ----------------------------
(* SpikeManager for TLC. *)
EXTENDS SpikeManager, TLC

Symmetry == Permutations(Calls) \cup Permutations(Keys)
=============================================================================
