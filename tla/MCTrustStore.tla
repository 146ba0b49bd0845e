---------------------------- MODULE MCTrustStore ----------------------------
(* TrustStore for TLC, with the symmetry of its plain sets.                *)
EXTENDS TrustStore, TLC

Symmetry == Permutations(Uuid) \cup Permutations(Key)
=============================================================================
