----------------------------- MODULE MCCluster ------------------------------
EXTENDS Cluster, TLC

Symmetry == Permutations(Node) \cup Permutations(Conn)
=============================================================================
