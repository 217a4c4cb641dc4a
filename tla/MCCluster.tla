----------------------------- MODULE MCCluster ------------------------------
EXTENDS Cluster, TLC

\* The nodes other than Self are interchangeable.
Others == Permutations(Node \ {Self})
=============================================================================
