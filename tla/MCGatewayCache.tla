--------------------------- MODULE MCGatewayCache ---------------------------
(***************************************************************************)
(* GatewayCache with two clusters and room for one or two clients.         *)
(***************************************************************************)
EXTENDS GatewayCache, TLC

CONSTANTS f1, f2

MCClusters == {1, 2}
MCFingerprints == {f1, f2}
MCSymmetry == Permutations(Gets) \cup Permutations(MCFingerprints)
=============================================================================
