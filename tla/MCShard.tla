------------------------------ MODULE MCShard ------------------------------
(* Small instances of Shard for TLC.                                        *)
EXTENDS Shard

CONSTANTS k1, k2, k3

\* Integers of one digit or a sign and a digit, and a longer text.
MCValueLen(v) == IF v = Text THEN 3 ELSE IF v < 0 THEN 2 ELSE 1

\* Room for two items of three; and a limit on memory, for which one write may
\* have to evict two items, in a shard that also applies events.
MCSetup ==
    [kind : Kinds, maxEntries : {2}, maxMemory : {0}, follower : {FALSE},
     maxOps : {5}]
    \cup
    [kind : Kinds \ {"noeviction"}, maxEntries : {3}, maxMemory : {7},
     follower : {TRUE}, maxOps : {4}]

Symmetry == Permutations(Key)
=============================================================================
