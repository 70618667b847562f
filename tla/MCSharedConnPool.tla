-------------------------- MODULE MCSharedConnPool --------------------------
(* Small instances of SharedConnPool for TLC. *)
EXTENDS SharedConnPool, TLC

Symmetry == Permutations(Callers) \cup Permutations(Dials) \cup Permutations(Gens)
=============================================================================
