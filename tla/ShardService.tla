---------------------------- MODULE ShardService ----------------------------
(***************************************************************************)
(* A Raft group as a StreamService: the log of a stream is what the node   *)
(* that knows most of the commit index holds for it, in the order of the   *)
(* raft log, and the clients have been told what they have been told.      *)
(***************************************************************************)
EXTENDS ShardGroup

Furthest == CHOOSE n \in Nodes : \A m \in Nodes : raft[m].committed <= raft[n].committed

\* where the raft log of r holds the committed commands of stream s
Places(r, s) ==
  {i \in 1..r.committed : r.log[i].cmd # NoCmd /\ r.log[i].cmd.stream = s}

\* the number of elements of S up to i
Rank(S, i) == Cardinality({j \in S : j <= i})

Nth(S, k) == CHOOSE i \in S : Rank(S, i) = k

RecordOf(c) == [w |-> c.w, epoch |-> c.epoch]

CommittedRecords(r, s) ==
  [k \in 1..Cardinality(Places(r, s)) |-> RecordOf(r.log[Nth(Places(r, s), k)].cmd)]

Logs == [s \in Streams |-> CommittedRecords(raft[Furthest], s)]

Service == INSTANCE StreamService WITH log <- Logs, told <- reply

\* While one leader serves, the group implements StreamService: every write is
\* committed at most once and only if it was taken, positions are dense and
\* epochs in order, a fenced write is never committed, and Ok names the place of
\* the client's own write.
ServesStreams == Service!Spec
=============================================================================
