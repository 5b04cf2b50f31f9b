--------------------------- MODULE MCClusterLease ---------------------------
(* ClusterLease with nodes that TLC may permute. *)
EXTENDS ClusterLease, TLC

Symmetry == Permutations(Node)
=============================================================================
