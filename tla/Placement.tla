----------------------------- MODULE Placement -----------------------------
(***************************************************************************)
(* Which shards a node runs (numa/placement.rs).  A topology is a sequence *)
(* of NUMA nodes, each with the sequence of its CPUs.  Every node computes *)
(* its placement alone, from its own hardware.                             *)
(***************************************************************************)
EXTENDS Naturals, Sequences
LOCAL INSTANCE SequencesExt

CONSTANT Auto  \* num_shards left to the hardware (None)

UsedNodes(topology) == SelectSeq(topology, LAMBDA node : node.cpu_ids # <<>>)

\* the first CPU of every NUMA node is the acceptor's
AcceptorCpus(topology) ==
  [i \in 1..Len(UsedNodes(topology)) |-> UsedNodes(topology)[i].cpu_ids[1]]

SpareCpus(topology) ==
  FlattenSeq([i \in 1..Len(UsedNodes(topology)) |-> Tail(UsedNodes(topology)[i].cpu_ids)])

\* with a single CPU the shard shares it with the acceptor
AvailableCpus(topology) ==
  IF SpareCpus(topology) = <<>> THEN <<AcceptorCpus(topology)[1]>>
  ELSE SpareCpus(topology)

TargetShards(topology, num_shards) ==
  LET max_shards == Len(AvailableCpus(topology)) IN
  IF num_shards = Auto \/ num_shards > max_shards THEN max_shards ELSE num_shards

ShardCpus(topology, num_shards) ==
  SubSeq(AvailableCpus(topology), 1, TargetShards(topology, num_shards))

\* the ids of the shards, which are the ids of the Raft groups
ShardIds(topology, num_shards) == 0..(Len(ShardCpus(topology, num_shards)) - 1)
=============================================================================
