--------------------------- MODULE MCRaftStorage ---------------------------
(***************************************************************************)
(* RaftStorage for TLC: its constants are numbers and are given in the     *)
(* configurations.                                                         *)
(***************************************************************************)
EXTENDS RaftStorage
=============================================================================
