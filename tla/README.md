# Verification of wal_server

TLA+ models of the WAL server in `src/`, TLC configurations that check them on
small instances, and TLAPS proofs, for every instance, of all their invariants
and action properties and of the refinement.  `PROJECT.json` lists components, runs, mutants, the map from
definitions to source lines, findings, hazards and theorems.

## 1. The system

A node runs one thread per shard, one acceptor thread and one peer-transport
thread.  A stream id is hashed to a shard; shard *k* of all nodes form Raft
group *k*.  Clients send WRITE, READ, ACK and GET_STATUS requests.

| component | state | operations | correct when |
|---|---|---|---|
| stream table (`shard/stream_state.rs`) | per stream: max epoch, next, commit and consumed positions, last entry, tail cache | allocate_append, rollback_uncommitted_append, mark_appended, mark_committed, advance_consumed, read_from_tail, observe_recovered, snapshot | positions are handed out once, commit never passes next, the cache keeps to its limit |
| shard engine (`shard/engine.rs`) | RawNode, table, WAL, index, pending writes, request_seq, observed role | one turn: requests or raft messages, tick, drive_ready, role change, run_gc | replicas agree, every client is answered once and truthfully, reads serve committed entries |
| raft-rs (external) | term, role, log, commit, applied | step, propose, ready, advance | as Raft |
| raft storage (`raft/storage.rs`) | hard state, entries, snapshot, one file | set_hardstate, append, apply_snapshot, create_snapshot, compact, open | the file is a log raft-rs can start from, at every crash point |
| WAL (`wal/*.rs`) | segment files, current segment, index | append, rotate, sync, open and replay, truncate, remove, read | every applied entry not yet consumed can be read, across crashes |
| mailboxes (`channel/mod.rs`) | bounded channels, eventfds | try_send, notify, drain | no request or wake-up is lost |
| acceptor (`net/acceptor.rs`) | connections, response queues | read, parse, route, drain responses | answers reach their connection |
| peer transport (`net/peer.rs`) | queue and connection per peer, raft channels of the mailboxes | poll, batch, connect, write, parse, hand over | no node blocks itself, no message is stepped twice; loss is left to Raft |
| placement (`numa/placement.rs`), codec, router | none | pure functions | round trip, totality |
| server start-up (`server.rs`, `config.rs`) | threads, channels | start | a part that fails does not stop the others |
| `bin/cluster_bench.rs` | highest written and read, done | write with retry, follow, report | it ends, and counts what is written |

Interaction: the acceptor hands requests to a shard by a bounded channel and an
eventfd; the engine proposes to raft-rs, dispatches its messages through the
transport, applies committed entries to WAL, index and table, and answers
through the response channel.  Everything inside a shard is one task; what can
interleave is other nodes, messages, clients, crashes, and the points inside a
turn at which messages or answers have already left.

What is hard here: a change of leader with entries proposed but not applied;
a crash between two of the three writes of one Ready; replay on top of a
snapshot that is older than the table it holds; segment rotation and garbage
collection against the index; bounded queues that block in a cycle.  The list,
line by line, is `hazards` in `PROJECT.json`.

## 2. Modules

| module | models | state and actions |
|---|---|---|
| `StreamState` | one entry of the stream table | operators from a stream state to a stream state; used by `ShardGroup` |
| `ShardGroup` | a Raft group: the engine of every node, raft-rs, the raft file, the WAL as the sequence of its records with the index and what was removed, the table, pending writes, clients | one action per request (`WriteNotLeader`, `WriteFenced`, `WritePropose`, `Consume`), per kind of raft message (`Step…`, `BecomeLeader`), `Tick`, `ApplyAppendEntry`, `Advance` (end of the turn), `RunGc`, `Restart`, `ReplayRecord`, `OpenDone` |
| `ShardGroupProofs` | theorems about `ShardGroup`: types, tables, pending writes and clients | |
| `ReplicationProofs` | theorems about `ShardGroup`: the consensus, on top of `ShardGroupProofs` | |
| `AgreementProofs` | theorems about `ShardGroup`: what is applied, read, positioned and recovered, and the refinement of `StreamService` by a group with one leader; on top of `ReplicationProofs` and `ShardService` | |
| `WalLog` | segments, index, replay, garbage collection under crashes | `Open`, `OpenFails`, `OpenEmpty`, `FirstHeader`, `AppendWithLogIndex`, `Rotate`, `Header`, `Sync`, `Consume`, `RunGc`, `Crash` |
| `WalLogProofs` | theorems about `WalLog` | |
| `RaftStorage` | PersistentStorage under drive_ready | `Step…` (a turn's messages with set_hardstate), `ApplySnapshot`, `AppendEntries`, `CreateSnapshot`, `Compact`, `Advance`, `Crash` |
| `RaftStorageProofs` | theorems about `RaftStorage` | |
| `ClientPath` | a request's way through one node: acceptor, connection tasks, mailbox, eventfd, event loop | clients `Ask`, `HangUp`; tasks `Accept`, `Flush`, `FlushWrite`, `WriteFails`, `ReadSome`, `ReadEnds`, `ReadTimesOut`, `ProtocolError`, `ParseMore`, `ParseFrame`, `Notify`, `Refuse`; drainer `DrainResponses`; engine `Wake`, `DrainEventfd`, `HandleClientRequest`, `Processed`, `OtherBranch`, `AnswerPending`, `TurnEnds` |
| `ClientPathProofs` | theorems about `ClientPath` | |
| `StreamService` | what a client may rely on: a log per stream, and what clients are told | `Submit`, `Refuse`, `Abandon`, `Commit`, `Acknowledge` |
| `ShardService` | `ShardGroup` as a `StreamService` | the refinement mapping |
| `Placement` | which shards a node runs | pure operators |
| `PeerTransport` | raft messages between nodes: raft side of the event loops, mailboxes, run loop, senders, connections, inbound tasks | engine `Wake`, `Step`, `Ready`, `Dispatch`, `Stop`; run loop `TakeOutbound`, `PlaceHeld`; sender `TakeBatch`, `Connect`, `ConnectFails`, `WriteFrame`, `WriteFails`, `WriteUnnoticed`; network `Break`; inbound task `ReadFrames`, `Deliver`, `Notify`, `DropUnknown` |
| `PeerTransportProofs` | theorems about `PeerTransport` | |
| `ClusterBench` | cluster_bench against a stream of a cluster | raft-rs `LeaderMoves`, `Commit`; engines `Propose` (in `WriterSend`), `Apply`, `Skip`, `StepDown`; `Writer…`, `Reader…`, `Report…` |
| `ClusterBenchProofs` | theorems about `ClusterBench` | |
| `MC…` | instances for TLC: symmetry of the nodes (`MCShardGroup`); the log the WAL is fed with (`MCWalLog`); which request goes to which shard and which is malformed (`MCClientPath`); the hardware of two nodes, from which `Placement` computes their groups (`MCPeerTransport`); nothing (`MCRaftStorage`, `MCClusterBench`) | |

### ShardGroup

* `raft[n]` is what raft-rs believes (`persisted`, `committed`, `since` =
  what ready has handed out, `applied`), `disk[n]` the file.  The two differ
  only in what is volatile: role, persisted, since and applied.
* A turn is cut where others can notice: handling plus drive_ready up to the
  dispatch of messages is one step, since nothing has left before; each entry
  applied is one (an answer may leave, and the process may die in between); the
  rest of the turn is one, merged into the step before it when it has nothing
  to apply and no change of role to report.  A crash between the writes *inside*
  the first step is the subject of `RaftStorage`.
* `sent[t]` is what the leader of term *t* dispatched last.  A follower may
  receive any prefix of it late, repeatedly or never, which covers loss, delay,
  duplication and reordering in the transport.
* `wal[n]` is every record a node has written, in order; it only grows.  What
  can be read of it is what `index[n]` (StreamLogIndex) leads to, and `gone[n]`
  are the records in segments that run_gc has removed.  `RunGc` happens between
  two turns, as in `run`: it truncates the index below the consumed positions
  and removes each segment but the current one that no index entry points into,
  *whether or not a snapshot covers its records*.  `ReplayRecord` replays what
  is left.  A segment holds SegmentRecords records, and writing its last one
  rotates, as in append_with_log_index; bytes, headers and torn records are
  `WalLog`'s.
* An election is one step in which a minimal majority stores the term and votes;
  votes that do not elect have the effect of a message of a higher term.
* The raft log is kept whole in the model; compaction is `RaftStorage`'s.
* `payload` is the number of its write.  `own` in `disk` and `w` in commands
  exist for the properties only.
* rollback: the code rolls pending positions back one call at a time, highest
  first; `RollbackTarget` states the result of the calls together.  The lemma
  `RollbackSound` shows that it exists and respects `commit`.

### WalLog

The engine feeds the WAL a fixed sequence of committed entries (two streams; a
position that occurs twice, since a change of leader can commit one twice).  An
entry is redelivered after a restart if it lies above the snapshot.  Crash
outcomes follow from what has been synced: the last record of the current file
while its append is under way, and a file created but not synced, may be
present, lost, torn (`CrashTears`) or without header (`CrashBeheads`).  A
headless file that was written to has records where its header belongs: two
records always fill the 64 bytes that make `open` look for a header, one may or
may not, hence `MayFail` and `MustFail`.

### RaftStorage

Every call ends in `persist()`, a write and a rename, so that the file equals
the state in memory between calls and a crash of the process falls between two
calls.  raft-rs is any log a leader may send that agrees with what is committed
(`LeaderLogs`).  The first entry of a term is the leader's empty one and is
skipped, as in drive_ready.  `known` records what this node ever learned to be
committed.

### ClientPath

* `task[c]` and `engine[s]` are program counters, cut at every await of
  handle_connection and at every point of the engine's turn where the acceptor's
  thread can touch the mailbox.  The acceptor is one thread: between try_send
  and notify_eventfd (`task = "notify"`) shards run, other tasks do not.
* A request is `<<c, k>>`, the *k*-th of connection *c*, and so is its answer.
  The wire format has no request id, so a client can tell answers apart only by
  their order: `AnswersInOrder` says that this works.
* Bytes are counted in halves of a frame, so that a read may end inside one.
  decode_request looks at the header first: a bad one is refused before the
  payload is there.
* The drainer is taken one answer at a time; the code empties all channels
  before it sleeps for 100 microseconds and lets other tasks run.  The flush of
  a connection holds its queue borrowed over the writes (`Borrowed`), and an answer that arrives in between makes the
  drainer panic.
* What the engine decides is `ShardGroup`'s subject; here it answers at once or
  keeps the request and answers in a later turn.
* `dropped` is a history variable: the answers `send_response` could not put
  into a full channel.

### StreamService, ShardService and the refinement

`StreamService` has two variables, the logs and what every client was told.
`Commit` is stated by what it may do to the logs (grow at their ends, each write
once, epochs in order, only writes that were taken and not fenced), since a
commit of a group may bring several records.  The mapping of `ShardService`
takes as log of a stream the committed commands of the node with the largest
commit index, counted in the order of the raft log (`Places`, `Nth`), and the
clients' replies as they are.  It does not look at the positions the commands
carry: that these number the records of a stream without a gap is part of what
the refinement says, through `Acknowledge`.  Internal steps (elections,
appends, applying without a client, snapshots, consumption) are stutters.
`ServesStreams` is the whole specification `Service!Spec`, and holds as long as
one leader serves: TLC checks it on an instance, `OneLeaderServes` proves it for
all (section 4).  That it does not hold over a change of leader is what
FailoverLsn and FailoverAck show.

### PeerTransport

* Queues, batches and connections are sequences of messages with their
  capacities as constants.  A message is its shard, its target node and a number.
* The transport of a node is one thread: between try_send and notify_eventfd of
  an inbound task (`Signalling`) no other task of that node runs, but shards do.
* `conns[l]` holds every connection made on a link with the task that reads it,
  since after a reconnect the old task may still have frames in parse_buf.  A
  connection that breaks loses any unread tail, a frame cut in half included;
  the sender may find out late (`WriteUnnoticed`).
* A shard that stops (`open` or `run` fails, which `start` only logs) leaves its
  channels connected: `start` holds both ends.  So its inbound channel fills.
* raft-rs makes up to MaxMessages messages, in bursts, at the end of any turn.

### ClusterBench

The benchmark is modelled as it is, the cluster as far as a benchmark can tell:
which nodes take themselves for the leader (`leads`), the log of each as it leads
or last led, what is committed, and of each engine next position, `request_seq`,
pending writes, how far it has applied and which positions it serves.  `Propose`,
`Apply`, `Skip` and `StepDown` are `WritePropose`, `ApplyAppendEntry`, the entries
an engine passes by and `FailPending` of `ShardGroup`, on one stream.  So the
weaknesses of a change of leader are here, too: a new leader that lags hands out
positions again, request ids of two leaders collide, and a skipped entry leaves a
hole.  raft-rs is weaker than in `ShardGroup`: a new leader has what is committed
and any part of some former leader's further entries, and the leader's entries
commit when they do.  Reads are served by any node of `leads`; a deposed one is
among them until `StepDown`, and `Discover` may find it.

Processes do not crash here, and the benchmark sends no ACK, so that run_gc
finds nothing to do: it truncates only below a consumed position.  Every attempt
is a write of its own.  The writer keeps the attempts whose answers its stream
will bring in `conn`, so that a stream reused after a timeout would bring a late
answer.  Loads of the shared atomics are steps of their own.

Since the program breaks `StreamService` over a change of leader, so do the
benchmark's numbers: what `DoneMeansWritten` says of the log, and `WrittenGrows`,
hold as long as the leader has not changed (`moved`).  Without that condition TLC
finds both violated within seconds.  That the answer counted last is the one to
the last attempt holds in any case.

## 3. Runs

Sizes are distinct states; times are for two workers.

| run | instance | shows |
|---|---|---|
| Failover | 3 nodes, 2 elections, 1 write, a snapshot at every chance; 70k, 15 s | `ReplicasAgree`, `AppliedIsDurable`, `NoForgottenClient`, `AnsweredOnce` |
| StableLeader | 2 nodes, 1 election, 2 writes, 2 epochs, a consumer, run_gc with segments of one record, a snapshot at every chance, 1 restart; 202k, 30 s | what holds while one leader serves: `ServesStreams` (refinement), `AckedIsReadable`, `ReadsStable`; with it `ReadsCommitted`, `CommitIsRecoverable` |
| Answered | 2 nodes, 2 elections, 2 writes, 1 restart, `FairSpec`; 88k, 1 min | `EveryWriteAnswered`, `ReplicasConverge`, `PendingDistinct`, `TablesSound`, `TermPositions`, `ReadsCommitted`, `TypeOK` |
| Wal | 2 streams, 4 entries, 2 records a segment, 2 crashes that may lose, tear or behead unsynced writes, `FairSpec`; 353k, 25 s | `CleanlyReadable` (every applied, unconsumed entry can be read as long as crashes lost unsynced writes cleanly), `IndexSound`, `FreshSegment`, `EventuallyReclaimed`, `TypeOK` |
| Storage | 5 entries, 3 terms, 2 crashes; 31k | `OneLog`, `StoredIsBelieved`, `CallsSucceed`, `TermNeverBack`, `TypeOK` |
| Clients | 2 connections with 2 requests each, 2 shards, channels of capacity 1, partial reads, a malformed request, hang-ups, `FairSpec`; 120k, 1 min | `NoLostWakeup`, `AnswersInOrder`, `NeverPanics`, `EveryRequestAnswered`, `TypeOK` |
| Peers | 2 nodes with 2 and 1 shards, 8 messages, queues of 1, batches of 2, a link that breaks once, a shard that stops, `FairSpec`; 363k, 1 min | `NoLostRaftWakeup`, `SteppedOnce`, `InOrder`, `StuckBehindAnother`, `TransportSettles`, `TypeOK` |
| Bench | 2 nodes, 1 reader, 2 appends, 1 fault (a leader change, a timeout or a failed search), `FairSpec`; 334k, 25 s | `DoneMeansWritten`, `WrittenGrows`, `BenchEnds` |

Runs that end in a counterexample, each a finding:

| run | what the code does |
|---|---|
| FailoverLsn | a new leader allocates positions before it has applied its predecessor's entries: two committed entries share a position |
| FailoverAck | request ids are per node; applying the old leader's entry answers Ok to another client |
| WalTorn | records appended behind a torn one are not seen by the next replay |
| StorageOrder | the hard state is stored before the entries its commit index covers: after a crash in between, entries that were to be overwritten are taken for committed |

LsnUnique and AckImpliesCommitted are about the positions in the raft log what
`ServesStreams` is about the positions clients see: the run StableLeader shows
that the promise is kept while one leader serves, the two runs how a change of
leader breaks it.  Likewise `WalTorn` drops the condition of CleanlyReadable in `Wal`.

Some properties excuse a behaviour of the code and show that it is the only
cause of what they exclude.  Each excuse is reached, in its run or where it says so:

* `Skipped` in `ReplicasConverge`: entries that become deliverable in advance()
  are in the LightReady, of which the engine sends the messages and drops the
  entries, and a received snapshot (`StepSnapshotInstall`) is stored but never
  reaches the running stream table.  Such a replica stays behind while it runs,
  and after a restart as well when it has taken a snapshot past the skipped
  entry in the meantime, whose table lacks it; although a test polls every node until it has caught up
  (src/tests/raft_cluster.rs:457).  `ReplicasConverge` compares commit positions
  only: a replica with a hole below its commit position counts as converged.
  With two nodes a committed entry is in both logs, so that Answered reaches the
  first case only; the second is reached in Failover, and `ReplicasConverge` was
  checked with it once, on three nodes with two terms, two writes, no restart and
  SnapshotInterval = 1 (95k states).
* `Blocking` in `StuckBehindAnother`: a shard that has stopped lets its inbound
  channel fill; the inbound task then waits with the frames of all groups behind
  it, so that shards of *other* groups on other nodes hang in
  dispatch_raft_messages, heartbeats included (the groups of a cluster are meant
  to be independent: test `two_raft_groups_replicate_independently_across_the_same_cluster`).
  The other way to block is a circle of two healthy shards that each fill the
  way to the other (`dispatch` in `Blocking`).  It takes as many messages both
  ways as all queues hold and is not reached at the bounds of Peers; with
  MaxMessages of 8 on both nodes it is.  In the program that would be
  some 40,000 messages, more than raft-rs keeps under way.
* `LeftEarly` in `BenchEnds`: a reader loads highest_written before
  writer_done; the last append may fall in between, the reader ends, and the
  reporter waits for ever.
* `Hole` in `BenchEnds`: after a change of leader a reader may ask for a position
  that the new leader has skipped.  It answers ErrNotFound, and that branch
  (src/src/bin/cluster_bench.rs:201) asks the same address again and never searches.
  Without this excuse, as without `LeftEarly`, TLC finds the benchmark running for
  ever.
* `dropped` in `EveryRequestAnswered`: a full response channel drops answers.

Relatives of the findings, in the models but without a run of their own:

* Epochs are not in order over a change of leader, for the reason of
  FailoverLsn: a lower epoch is accepted after a higher one has committed.
* After a reconnect messages of one shard can be stepped out of order (drop the
  condition of `InOrder`); Raft copes with it.
* Nodes whose CPUs differ run different groups, when num_shards is left alone,
  and route a stream to different groups: `Placement`, and the instance of
  Peers, in which one node drops the frames of a group it does not run.
  The comment "None = auto-detect (num_cpus - 1)" (src/src/config.rs:21) is right
  for one NUMA node only; with two, two CPUs are the acceptor's (`AcceptorCpus`).
  num_shards = 0 gives no shard at all, and the router then divides by zero.
* A crash between the creation of a segment and its header leaves a file that is
  written to without one; a later open fails (`OpenFails` of WalLog, reached in
  Wal).
* In the window of StorageOrder, when the log is too short for the commit index,
  RawNode::new panics at every start (`pc = "failed"` in RaftStorage, reached in
  Storage).
* A client that sends a second request before it has the answer to the first
  (`Window = 2` in Clients.cfg) breaks `NeverPanics`: its second answer may
  arrive while the first is being written.  It breaks `AnswersInOrder` too: two
  shards, or a refusal that goes straight to the socket, answer out of order.
  The repository's own clients wait for each answer, and no document promises
  more.

**Bounds.**  Three nodes are the least with a minority, and with a follower that
needs a snapshot (Failover); two suffice where the history of one node matters
and how it comes back from its files (StableLeader, Answered).  Three terms allow
a leader, its successor, and entries of both in one log.  Two writes are enough
for two clients to be confused with each other and for a position to be taken
twice; in Failover one write races the change of leader.  The tail cache holds
one record, so that both read paths occur.  SnapshotInterval (64 in the code) is 1
in Failover and StableLeader, so that a snapshot is taken after every entry, and 64,
out of reach, elsewhere.  In the WAL
two records a segment make four entries rotate twice, and two crashes let a
recovery be followed by another one; acknowledged offsets go up to 1, which is
what lets the first segment be removed.  On the client path capacity 1 makes both
channels fill with two clients; the first client uses both shards, the second
shares one with it.  In Peers all queues hold one message: eight messages are one
more than the way from a shard of one node to a stopped shard of the other holds,
so that the sender's event loop hangs; one reconnect gives two inbound tasks of
one link.  In Bench one fault makes an attempt time out and commit late, or
the leader change under an attempt, with each of the consequences named above.  In
StableLeader a segment holds one record, so that run_gc removes records above the
snapshot as well as below.

The bounds keep every run within a minute or two.  For the safety properties
they no longer decide much, since all are proved without bounds (section 4).  Larger instances were checked once, with the same results: Failover
with two writes (766k states), StableLeader on three nodes without a restart
(675k), Answered with SnapshotInterval 2 and 3, Wal with offsets up to 2 (2.3M),
Bench with three appends (2.9M), its `BenchInv` with two faults (10.3M), `EveryWriteAnswered` on three nodes
with one write and no restart.

**Deadlock** is checked in `Clients`, whose loops never end.  Elsewhere writes,
terms, messages and crashes are bounded, or the benchmark ends, so that every run reaches states in which nothing
is left to do.

**Fairness.**  `FairSpec` of `ShardGroup` asks that some node goes on while any
node can receive a message or continue its turn: the loop in `run` never stops
polling and raft-rs resends what was not acknowledged.  No request, election or
crash is assumed to happen.  `FairSpec` of `WalLog` asks that an
append under way is finished and that run_gc, which the loop calls at an
interval, runs again and again; no consumer has to acknowledge anything.
`FairSpec` of `ClientPath` asks that every task, every engine and the drainer go
on (the runtimes poll what is ready); that a branch of select! that is ready
again and again is taken in the end (`ReadSome`, `Wake`: select! polls its
branches in random order); and that a write in hand is answered in the end
(`AnswerPending`, which is `EveryWriteAnswered` of ShardGroup).  No client has to
ask or to hang up.  `FairSpec` of `PeerTransport` asks that event loops, run
loops, senders and inbound tasks go on when they can: all of them poll or sleep
and try again.  That messages are made, that a shard stops or a connection breaks
is never assumed.  `FairSpec` of `ClusterBench` asks that the threads run and
that a leader that stays commits and applies what it has taken (`EveryWriteAnswered`
again), and that its messages reach a deposed one in the end; the faults are bounded.
No entry has to be skipped.

## 4. Proofs

Each proof module has its theorems for all values of the constants that satisfy
the module's named assumption (`GroupAssumption`, `WalAssumption`, ...), which
asks for natural numbers where a number is meant (positive ones where zero makes no
sense, such as SnapshotInterval and SegmentRecords), a finite set of nodes, and in
`GroupAssumption` more than one of them: a group of one has no messages, and raft-rs
commits there without any.  The bounds on terms, writes, crashes and restarts are constants like any
other, so that a theorem holds whatever they are.  Every inductive invariant was
first checked by TLC on the instance of its run.

| module | theorems (the property of the runs they state) | inductive invariant |
|---|---|---|
| `ShardGroupProofs` | `FilesHold`, `TypeCorrect` (`TypeOK`), `TablesAreSound` (`TablesSound`), `PendingAreDistinct` (`PendingDistinct`), `NoClientForgotten` (`NoForgottenClient`), `ClientsAnsweredOnce` (`AnsweredOnce`) | `Inv`, `FilesInv` |
| `ReplicationProofs` | `CommittedLogsAgree`, `CommittedNeverChanges` | `Replicated` |
| `AgreementProofs` | `ReplicasNeverDiverge` (`ReplicasAgree`), `AppliedIsOnDisk` (`AppliedIsDurable`), `ReadsAreCommitted` (`ReadsCommitted`), `PositionsAscend` (`TermPositions`), `CommitSurvivesCrash` (`CommitIsRecoverable`) | `AppliedInv`, `PosPart`, `CursorPart` and `RecoverPart` |
| `AgreementProofs`, while one term is won | `OneLeaderServes` (the refinement `ServesStreams`), `AckedStaysReadable` (`AckedIsReadable`), `ReadsStayStable` (`ReadsStable`), `PositionsStayUnique` (`LsnUnique`), `AckedIsCommitted` (`AckImpliesCommitted`); `OneTermOneElection` | `OneInv` |
| `RaftStorageProofs` | `StorageTypeCorrect` (`TypeOK`), `FileIsOneLog` (`OneLog`), `FileHoldsTheLog` (`StoredIsBelieved`), `StorageCallsSucceed` (`CallsSucceed`), `PromiseKept` (`TermNeverBack`) | `StorageInv` |
| `WalLogProofs` | `WalTypeCorrect` (`TypeOK`), `IndexIsSound` (`IndexSound`), `SegmentsAreFresh` (`FreshSegment`), `ReadableUnlessTorn` (`CleanlyReadable`) | `Structure`, `Contents` |
| `ClientPathProofs` | `PathTypeCorrect` (`TypeOK`), `WakeupNeverLost` (`NoLostWakeup`); for Window = 1 `AnswersKeepOrder` (`AnswersInOrder`), `AcceptorNeverPanics` (`NeverPanics`) | `Inv`, `OneInv` |
| `PeerTransportProofs` | `TransportTypeCorrect` (`TypeOK`), `RaftWakeupNeverLost` (`NoLostRaftWakeup`), `StepsOnce` (`SteppedOnce`), `StepsInOrder` (`InOrder`) | `TypeInv`, `OrderInv` |
| `ClusterBenchProofs` | `DoneIsWritten` (`DoneMeansWritten`), `WrittenOnlyGrows` (`WrittenGrows`) | `BenchInv` |

**The group.**  `Inv` (`InvHolds`) is the conjunction of

* `CoreInv`: types and, for every node, `GoodRaft` (applied, since and
  committed in this order inside the log), `GoodDisk` (the file agrees with
  raft-rs between steps), `GoodSnap` and `GoodDispatch`.
  Without them the log accesses of a step, and so the types of its result, are
  not known to be defined;
* `TableInv`: every table, *and every table inside a snapshot, on disk or on
  its way* (`GoodSnap`), has commit at most next.  A restart or a replay starts
  from a snapshot, so the property of the live tables alone is not inductive;
* `ClientInv`: pending writes of a node have distinct request ids no greater
  than `request_seq` and distinct positions below next; a write is pending at
  one node at most, and only there is its client waiting (`PendingUnique`,
  `WaitersPending`); only a node that leads, or has yet to notice that it no
  longer does, has pending writes (`RoleInv`).

The argument is one lemma per action.  `NodeStepCore`, `DriveReadyCore` and
`QuietTurn` hold what all message steps have in common, `RollbackSound` what
the roll-back does, and `FinalStays` that no action touches a final answer.

`FilesInv` adds that the index leads to no record in a segment that is gone: run_gc
removes no segment its own truncation left an entry in, an append goes to the current
segment, which is never removed, and a replay indexes what it has found on disk.

**The consensus.**  `Replicated` says that witnesses L (the leader of each term)
and Q (the nodes that voted for it) exist with which `RepInv` holds.  The model
keeps neither, and the proof chooses the new ones when a term begins.

* Two logs are compared through the log of a term, which is what its leader
  dispatched (`sent`): up to each of its entries, a log is the log of that
  entry's term (`NodeLogs`, `TermLogs`).  This is log matching, and one leader
  per term is what makes it inductive (`LeaderPart`).
* `KeptPart`: what a node has acknowledged in a term, it still has, as long as
  all later leaders it knows had it.  `SafePart`: what a voter had
  acknowledged, the leader it elected has, if those in between had it.
  Both are conditional, because an acknowledged entry that never commits may go.
* `CommitPart`: a committed entry is below one of its own term that a majority
  has acknowledged (`Settled`).  That every later leader has it follows from the
  two conditionals and the intersection of two majorities, by the least term that
  would be a counterexample.

**What is applied.**  `AppliedInv` traces every record of a WAL and every entry of
a tail cache to an entry its node has committed, and notes that snapshots carry no
cache.  `PosPart` says that the positions in the log of a term ascend and that the
table of its leader lies above all of them; it does not survive a change of term,
which is FailoverLsn.  `CursorPart` puts the cursor of a running node above its
snapshot, so that `RecoverPart` (a commit position comes from the snapshot or from a
record above it that was written to the WAL) is kept by an append.  The record itself
may be collected; the entry it was made of is committed in the raft file
(`AppliedIsDurable`), above the snapshot, and is applied again after a restart.  This
is what `CommitIsRecoverable` says.

**One leader.**  The last theorems of `AgreementProofs` are about behaviours in
which one term is won (`OneElection`), by any node, with any number of nodes,
writes, streams, epochs, snapshots and crashes; the leader may die and come back
as a follower.  With MaxTerm = 2, as in StableLeader, these are all behaviours
(`OneTermOneElection`).  `LsnUnique` and `AckImpliesCommitted` are among them:
FailoverLsn and FailoverAck need their change of leader.  The parts of `OneInv`
relate two pieces of state each:

* `GivenPart`: below the next position of any table, be it live, in a snapshot
  on disk or on its way, and below any position in a log, every position was
  given to a command.  That of the live tables alone is not inductive, since a
  restart goes back to a snapshot;
* `WritePart`: a write is proposed once, and no longer unsent or fenced then;
* `RequestPart`: the request ids of a leader's entries are distinct, and every
  pending write is one of these entries.  This is what a second leader breaks
  in FailoverAck;
* `TailFindable`: what is in a tail cache and not consumed, the index leads to
  (`Findable`), so that a record that leaves the cache is found through it;
* `AckedPart`: a leader has written every write with an Ok to its WAL, at the
  position of the Ok and below the commit position, and the index leads to it
  until a consumer has passed it (`Served`).  It needs that who leads now led when
  the Ok was given (`LedBefore`), which is false after a second election, and
  that the entry applied is the one the client waits for (`AnswersOwn`);
* `NoticedPart` with `TermPart`: an engine that saw itself lead leads until its
  process dies, because a node only moves to terms that were won or that others
  are in.

`AckedIsReadable` then follows from `Served` and `ReadsCommitted`, since one
position has one committed write (`OnePlace`); `ReadsStable` from the same and
from the fact that, while a process runs, no commit position goes back and what is
findable stays so: an index entry goes only for a newer one of the same position, or
by run_gc below the consumed position (`FindableStays`).

The refinement is proved step by step.  `ReplyMoves` sorts the steps by what they
do to the answers: a refusal, a proposal, the answers at the end of a leader's
turn or process, an entry applied, or nothing.  `RankIsNumber` and `NthIsNumber`
count: positions that ascend and have no gap number the places they are found
at, so that the record at place *k* carries position *k - 1* (`LinesUp`).  With
`CommittedNeverChanges` the logs only grow at their ends, whichever node knows
most (`FurthestMoves`, `LogsMove`); they are sound because the one leader proposed
in the order of its log (`LogsAreGood`).  `ServiceStep` puts these together.

**The raft file.**  `StorageInv` says at each call of drive_ready how far file and
log agree (`Stations`), that raft-rs hands out only what was learned to be committed,
and that the part of the file a snapshot stands for is what was committed there,
although, after a crash in the window of StorageOrder, the rest of it need not be
(`SnapshotSound`).  This is why `OneLog` and `CallsSucceed` survive a window that
breaks more than they promise.

**The WAL.**  `Structure` adds to `IndexSound` where an append under way stands: its
record is the last of its file and not yet indexed, and a file that a crash may
remove is empty.  `Contents` says, as long as no crash damaged a file, that an
unacknowledged entry up to the snapshot is in a whole record while the process is
down, and one up to the cursor in the index while it is up.  Garbage collection and
replay keep each of them because the consumed positions of index and snapshot are
behind the acknowledged ones (`Behind`).

**The client path.**  `NoLostWakeup` is inductive once types are known: a request
enters a mailbox only together with a task at "notify", that task leaves "notify"
only by setting the eventfd of the shard it routed to, the eventfd is cleared only by
an engine that goes on to "process", and an engine leaves "process" only with its
mailbox empty.  `Inv` (`PathInvHolds`) adds to the types what keeps them: `Flow`
(every half frame written is in the socket, in parse_buf or parsed), `Flushing` and
`HandingOver`.  For clients that wait for each answer, `OneInv` (`OneUnderWay`) says
that the request a connection waits for is in one place only: its shard (mailbox,
engine or response channel), the response queue, the batch of a flush, or a refusal.
So no answer can be on its way while another is being written.  With a larger
window both theorems are false, as section 3 says.

**The transport.**  `OrderInv` lines up everything between two event loops: what
the shard has yet to hand over, the hand of the run loop, the sender's batch and
queue, the connections, and what was received.  Messages of one shard to one node
ascend along this line, except on a connection's way to the receiver once there is
a second one; a message that was received is on no connection any more.

**The benchmark.**  `BenchInv` has a part that holds over any changes of leader: an
attempt waits at one node at most (`PendingInv`), so that it is answered once; and
the stream of the writer holds at most the answer to the attempt under way
(`WriterInv`).  As long as the leader stays, `StaysInv` says in addition that place
*i* of its log holds the entry with request id *i* and position *i - 1*, that its
counters stand at the end of it, that nobody else holds a waiting attempt, that an Ok
names the place of the record, and that the attempt under way can only be committed
behind highest_written, because it was made later.

Only model-checked:

* liveness under fairness, which is out of the prover's reach, like ENABLED and
  induction over data: `EveryWriteAnswered`, `ReplicasConverge`,
  `EventuallyReclaimed`, `EveryRequestAnswered`, `StuckBehindAnother`,
  `TransportSettles`, `BenchEnds`;
* that the mappings of the runs' instances (`Placement`, `MCWalLog`) are what
  they should be: the theorems hold for any groups and any log.

## 5. Not modelled

* ShardGroup counts segments in records and has no torn or headless files: those are
  in WalLog, which in turn takes the committed entries as given.  Removing a segment
  and evicting its reader cannot fail.
* ClusterBench has no crashes, and a weaker raft-rs than ShardGroup, see there.
* ShardGroup assumes an unreliable network and a response channel that never
  fills; PeerTransport and ClientPath have the channels but not the engine's
  decisions.  The three are not composed in one state space.
* Frames of raft messages that do not parse: a peer of this program never sends
  one, and a connection that breaks inside a frame never completes it.
* What clients of a shard that has stopped see (its mailbox fills, then
  ErrShardUnavailable).
* A read cancelled by select! in handle_connection: whether its bytes are lost
  is decided by the I/O driver, and ClientPath takes it as not done.
* The response eventfd, which is written and cleared but never waited for.
* Power failure under `persist()`, which never calls fsync; directory entries
  of new segments, which are not synced either, are covered in WalLog by "lost".
* Disk and channel errors that end the shard's thread.
* Membership changes, flow control and message sizes in raft-rs (the code uses
  none of the former).
* The write batcher (unused), parsing of configuration and arguments, CPU
  affinity and NUMA detection, the hash of the router, wal_bench, deadlines of
  cluster_bench, metrics (empty).

## 6. Plan

1. *(done)* `StreamState`, `ShardGroup`, its runs and first theorems; `WalLog`;
   `RaftStorage`; `ClientPath` and its first theorems.
2. *(done)* `PeerTransport` with `Placement`; `StreamService`, the refinement by
   a group with one leader, and `ClusterBench`, a client of a group that may change its
   leader.
3. *(done)* Proofs of every safety invariant and action property that holds for
   any number of elections, with Raft's safety argument for the group.
4. *(done)* Proofs of what holds while one leader serves: `AckedIsReadable`,
   `ReadsStable` and, step by step, the refinement `ServesStreams`.
5. *(open)* What the service promises over a change of leader.  It cannot be
   `StreamService` before FailoverLsn and FailoverAck are repaired in the code: a
   leader that applies its predecessors' entries before it takes writes, and
   request ids that are unique in the group.  With both, `OneElection` should fall
   out of the theorems above.
