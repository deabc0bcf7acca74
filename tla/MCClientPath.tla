---------------------------- MODULE MCClientPath ----------------------------
(***************************************************************************)
(* Instance of ClientPath for TLC.                                         *)
(***************************************************************************)
EXTENDS ClientPath

CONSTANTS c1, c2, a, b

\* two clients share shard a; the first also uses shard b
MCRoute == [r \in Requests |-> IF r = <<c1, 2>> THEN b ELSE a]

\* the last request of the second client is malformed
MCMalformed == {<<c2, MaxRequests>>}
=============================================================================
