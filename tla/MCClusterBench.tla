--------------------------- MODULE MCClusterBench ---------------------------
(***************************************************************************)
(* Instances of ClusterBench for TLC.                                      *)
(***************************************************************************)
EXTENDS ClusterBench
=============================================================================
