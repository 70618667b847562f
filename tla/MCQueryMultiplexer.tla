------------------------- MODULE MCQueryMultiplexer -------------------------
(* QueryMultiplexer for TLC. *)
EXTENDS QueryMultiplexer, TLC

Symmetry == Permutations(Queries) \cup Permutations(Conns)

\* Nothing is claimed once an ID has been aliased, and aliased stays true, so
\* the safety run does not go on from such a state.
NotAliased == ~aliased
=============================================================================
