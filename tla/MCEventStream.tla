--------------------------- MODULE MCEventStream ---------------------------
(* Small instances of EventStream for TLC.                                  *)
EXTENDS StreamRefinement, TLC

CONSTANTS k1, k2, k3

\* Two shards, one of them with two keys, so that a write can evict.
MCShardOf == (k1 :> 1) @@ (k2 :> 1) @@ (k3 :> 2)

\* k1 and k2 are alike under MCShardOf, and so are the values.
Symmetry == Permutations({k1, k2}) \cup Permutations(Value)

\* Two shards with one key each.
MCShardOf2 == (k1 :> 1) @@ (k2 :> 2)
=============================================================================
