-------------------------- MODULE MCPeerTransport --------------------------
(***************************************************************************)
(* Two nodes whose hardware differs: a has two CPUs more than b, and with  *)
(* num_shards left alone one shard more.  The messages of a are one more   *)
(* than the way to b holds.                                                *)
(***************************************************************************)
EXTENDS PeerTransport, Placement, TLC

CONSTANTS a, b

MCTopology ==
  [n \in {a, b} |->
     IF n = a
     THEN <<[node_id |-> 0, cpu_ids |-> <<>>], [node_id |-> 1, cpu_ids |-> <<0, 1, 2>>]>>
     ELSE <<[node_id |-> 0, cpu_ids |-> <<0>>]>>]

MCGroups == [n \in {a, b} |-> ShardIds(MCTopology[n], Auto)]

MCMaxMessages == [n \in {a, b} |-> IF n = a THEN (0 :> 2) @@ (1 :> 6) ELSE (0 :> 0)]

MCBurst == [n \in {a, b} |-> IF n = a THEN (0 :> 1) @@ (1 :> 6) ELSE (0 :> 1)]

MCMaxConns == [l \in {a, b} \X {a, b} |-> IF l[1] = a THEN 2 ELSE 1]
=============================================================================
