------------------------------- MODULE MCNode -------------------------------
(* A small instance of Node for TLC.                                        *)
EXTENDS Node, TLC

CONSTANTS k1, k2

\* Each key has its own shard.
MCShardOf == k1 :> 1 @@ k2 :> 2
=============================================================================
