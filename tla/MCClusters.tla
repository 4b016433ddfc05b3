----------------------------- MODULE MCClusters -----------------------------
(***************************************************************************)
(* Clusters with one cluster, initially stored with credentials c0 or not  *)
(* yet created.                                                            *)
(***************************************************************************)
EXTENDS Clusters, TLC

CONSTANT c0

MCClusterIDs == {1}
MCCredentials == Gets \cup {c0}
MCSymmetry == Permutations(Gets)
=============================================================================
