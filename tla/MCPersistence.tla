--------------------------- MODULE MCPersistence ---------------------------
(* Small instances of Persistence for TLC.                                  *)
EXTENDS Persistence, TLC

CONSTANTS k1, k2

\* Each key has its own shard.
MCShardOf == k1 :> 1 @@ k2 :> 2

\* One shard for every key.
MCShardOf1 == [k \in Key |-> 1]

Symmetry == Permutations(Value)
=============================================================================
