--------------------------- MODULE MCReplication ---------------------------
(***************************************************************************)
(* Instances of Replication for TLC.                                       *)
(***************************************************************************)
EXTENDS Replication

CONSTANTS k1, k2, c1, v1

\* Every key in a shard of its own, or all keys in one shard.
MCShardOf == [k \in Key |-> IF NumShards = 1 \/ k = k1 THEN 1 ELSE 2]
=============================================================================
