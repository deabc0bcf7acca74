---------------------------- MODULE MCShardGroup ----------------------------
(***************************************************************************)
(* Instances of ShardGroup for TLC.                                        *)
(***************************************************************************)
EXTENDS ShardService, TLC

\* no action singles out a node: the self-campaign of node 1 is an election
NodeSymmetry == Permutations(Nodes)
=============================================================================
