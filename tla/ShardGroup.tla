----------------------------- MODULE ShardGroup -----------------------------
(***************************************************************************)
(* One Raft group of the WAL server: the ShardEngine of every node         *)
(* (shard/engine.rs) driving raft-rs (external), its PersistentStorage     *)
(* (raft/storage.rs), its WAL and its stream table, and the clients that   *)
(* wait for an answer to a write.                                          *)
(*                                                                         *)
(* One turn of a node's event loop is cut where others can notice: the     *)
(* handler of a request or message with the first half of drive_ready (up  *)
(* to the dispatch of messages), each entry applied, and the rest of the   *)
(* turn.  pc says where the loop stands:                                   *)
(*   "select"  waiting in select!                                          *)
(*   "apply"   in drive_ready, applying the committed entries it took      *)
(*   "open"    restarting: replaying the WAL                               *)
(* A turn handles one request or message.  The code drains the whole queue *)
(* first; a longer batch has the effect of some single message that is     *)
(* also modelled (a longer prefix, a later commit index, a later term).    *)
(***************************************************************************)
EXTENDS StreamState, FiniteSets

CONSTANTS
  Nodes,            \* the voters of the group (config.peers)
  Streams,          \* stream ids routed to this shard
  Epochs,           \* writer epochs clients use
  MaxTerm,          \* bound: terms 2..MaxTerm can be won
  MaxWrites,        \* bound: write requests issued by clients
  MaxRestarts,      \* bound: process crashes in all
  ConsumerOffsets,  \* offsets consumers acknowledge
  SnapshotInterval, \* SNAPSHOT_INTERVAL (64 in the code)
  SegmentRecords,   \* segment_max_bytes, in records
  NoCmd             \* the empty data of a no-op entry

Terms == 1..MaxTerm
Writes == 1..MaxWrites

Commands ==
  [rid : Nat, w : Writes, stream : Streams, epoch : Epochs, lsn : Nat]

ASSUME GroupAssumption ==
  /\ IsFiniteSet(Nodes) /\ Cardinality(Nodes) > 1
  /\ Epochs \subseteq Nat
  /\ ConsumerOffsets \subseteq Nat
  /\ MaxTerm \in Nat \ {0} /\ MaxWrites \in Nat /\ MaxRestarts \in Nat
  /\ SnapshotInterval \in Nat \ {0} /\ SegmentRecords \in Nat \ {0}
  /\ NoCmd \notin Commands

VARIABLES
  raft,        \* raft[n]: the RawNode (external)
  disk,        \* disk[n]: the PersistentState file
  wal,         \* wal[n]: the records ever appended to the WAL, in append order
  gone,        \* gone[n]: those of them whose segments run_gc has removed
  index,       \* index[n]: those of them the StreamLogIndex points to
  streams,     \* streams[n][s]: the StreamStateTable
  pending,     \* pending[n]: the PendingClientWrites by request_id
  requestSeq,  \* requestSeq[n]: request_seq
  observed,    \* observed[n]: observed_role
  pc, cursor,  \* where the event loop stands; the next entry to apply
  sent,        \* sent[t]: what the leader of term t dispatched last
  acked,       \* acked[t][m]: the highest append m acknowledged in term t
  reply,       \* reply[w]: what the client of write w was told
  restarts

netVars == <<sent, acked>>
walVars == <<wal, gone, index>>
engineVars == <<walVars, streams, pending, requestSeq, observed>>
vars == <<raft, disk, wal, gone, index, streams, pending, requestSeq, observed,
          pc, cursor, sent, acked, reply, restarts>>

Majority(Q) == 2 * Cardinality(Q) > Cardinality(Nodes)

\* one vote beyond a majority has the effect of a message of the new term
Electorates ==
  {Q \in SUBSET Nodes : Majority(Q) /\ \A v \in Q : ~Majority(Q \ {v})}

(***************************************************************************)
(* A fresh shard: storage.open has stored the bootstrap entry (index 1,    *)
(* term 1, committed) and the first drive_ready has skipped it.            *)
(***************************************************************************)
Bootstrap == [term |-> 1, cmd |-> NoCmd]
EmptyTable == [s \in Streams |-> NewStream]
NoSnapshot == [index |-> 0, data |-> EmptyTable]

NewRaft ==
  [role |-> "follower", term |-> 1, log |-> <<Bootstrap>>,
   persisted |-> 1, committed |-> 1, since |-> 1, applied |-> 1]

NewDisk ==
  [term |-> 1, commit |-> 1, log |-> <<Bootstrap>>,
   snap |-> NoSnapshot, own |-> TRUE]

Init ==
  /\ raft = [n \in Nodes |-> NewRaft]
  /\ disk = [n \in Nodes |-> NewDisk]
  /\ wal = [n \in Nodes |-> <<>>]
  /\ gone = [n \in Nodes |-> {}]
  /\ index = [n \in Nodes |-> {}]
  /\ streams = [n \in Nodes |-> EmptyTable]
  /\ pending = [n \in Nodes |-> {}]
  /\ requestSeq = [n \in Nodes |-> 0]
  /\ observed = [n \in Nodes |-> "follower"]
  /\ pc = [n \in Nodes |-> "select"]
  /\ cursor = [n \in Nodes |-> 2]
  /\ sent = [t \in Terms |-> [log |-> <<>>, commit |-> 0, snap |-> NoSnapshot]]
  /\ acked = [t \in Terms |-> [n \in Nodes |-> 0]]
  /\ reply = [w \in Writes |-> [status |-> "unsent", lsn |-> 0]]
  /\ restarts = 0

-----------------------------------------------------------------------------
(***************************************************************************)
(* drive_ready up to the messages.  ready() hands out the committed        *)
(* entries that were already persisted; the hard state, a received         *)
(* snapshot and the new entries are stored; then the messages leave: what  *)
(* a leader has, or a follower's acknowledgement.                          *)
(***************************************************************************)
IsLeader(n) == raft[n].role = "leader"

DeliverUncommitted(r) == r.persisted  \* mutant

Deliverable(r) == Min2(r.committed, r.persisted)

Taken(r) == [r EXCEPT !.since = Max2(@, Deliverable(r))]

\* advance(): see Advance below
Ended(r) ==
  [role |-> r.role, term |-> r.term, log |-> r.log,
   persisted |-> Len(r.log), committed |-> r.committed,
   since |-> Max2(r.since, Min2(r.committed, Len(r.log))), applied |-> r.since]

\* the entries of the batch still to apply; the ones without data are skipped
ToApply(r, from) == {i \in from..r.since : r.log[i].cmd # NoCmd}

StoredWithoutCommit(r, snap, own) ==  \* mutant: set_hardstate left out
  [term |-> r.term, commit |-> 1, log |-> r.log, snap |-> snap, own |-> own]

\* own: the snapshot in the file was taken by this node (for the properties)
Stored(r, snap, own) ==
  [term |-> r.term, commit |-> r.committed, log |-> r.log,
   snap |-> snap, own |-> own]

Dispatched(r, snap) == [log |-> r.log, commit |-> r.committed, snap |-> snap]

(***************************************************************************)
(* Go on with the turn from index `from'.  When no entry is left to apply  *)
(* and the role is the one observed before, the rest of the turn touches   *)
(* nothing but raft-rs and is part of the same step.                       *)
(***************************************************************************)
Proceed(n, r, from) ==
  LET more == ToApply(r, from) # {} \/ observed[n] # r.role IN
  /\ raft' = [raft EXCEPT ![n] = IF more THEN r ELSE Ended(r)]
  /\ cursor' = [cursor EXCEPT ![n] = IF more THEN from ELSE Ended(r).since + 1]
  /\ pc' = [pc EXCEPT ![n] = IF more THEN "apply" ELSE "select"]

DriveReady(n, r, ack) ==
  /\ Proceed(n, Taken(r), cursor[n])
  /\ disk' = [disk EXCEPT ![n] = Stored(r, @.snap, @.own)]
  /\ sent' = IF r.role = "leader"
             THEN [sent EXCEPT ![r.term] = Dispatched(r, disk[n].snap)] ELSE sent
  /\ acked' = [acked EXCEPT ![r.term][n] = Max2(@, ack)]

IdleTick(n) == FALSE  \* mutant: no drive_ready after a tick

\* a turn of the timer branch: after a restart, committed entries to deliver
Tick(n) ==
  /\ pc[n] = "select"
  /\ raft[n].since < Deliverable(raft[n])
  /\ DriveReady(n, raft[n], 0)
  /\ UNCHANGED <<engineVars, reply, restarts>>

-----------------------------------------------------------------------------
(***************************************************************************)
(* Client requests (handle_client_request).  Writes are issued in the      *)
(* order of their numbers; a payload is the number of its write.           *)
(***************************************************************************)
NextWrite(w) ==
  /\ reply[w].status = "unsent"
  /\ \A v \in Writes : v < w => reply[v].status # "unsent"

Answer(w, status) ==
  reply' = [reply EXCEPT ![w] = [status |-> status, lsn |-> 0]]

WriteNotLeader(n, w) ==
  /\ pc[n] = "select" /\ NextWrite(w)
  /\ ~IsLeader(n)
  /\ Answer(w, "not_leader")
  /\ UNCHANGED <<raft, disk, engineVars, pc, cursor, netVars, restarts>>

WriteFenced(n, w, s, epoch) ==
  /\ pc[n] = "select" /\ NextWrite(w)
  /\ IsLeader(n)
  /\ Fenced(streams[n][s], epoch)
  /\ Answer(w, "fenced")
  /\ UNCHANGED <<raft, disk, engineVars, pc, cursor, netVars, restarts>>

WritePropose(n, w, s, epoch) ==
  LET r == raft[n]
      cmd == [rid |-> requestSeq[n] + 1, w |-> w, stream |-> s, epoch |-> epoch,
              lsn |-> streams[n][s].next]
  IN
  /\ pc[n] = "select" /\ NextWrite(w)
  /\ IsLeader(n)
  /\ ~Fenced(streams[n][s], epoch)
  /\ streams' = [streams EXCEPT ![n][s] = AllocateAppend(@, epoch)]
  /\ requestSeq' = [requestSeq EXCEPT ![n] = @ + 1]
  /\ pending' = [pending EXCEPT ![n] = @ \cup {cmd}]
  /\ DriveReady(n, [r EXCEPT !.log = Append(@, [term |-> r.term, cmd |-> cmd])], 0)
  /\ Answer(w, "waiting")
  /\ UNCHANGED <<walVars, observed, restarts>>

\* OpCode::Ack: any node takes any offset; a lower one changes nothing
Consume(n, s, offset) ==
  /\ pc[n] = "select"
  /\ offset > streams[n][s].consumed
  /\ streams' = [streams EXCEPT ![n][s] = AdvanceConsumed(@, offset)]
  /\ UNCHANGED <<raft, disk, walVars, pending, requestSeq, observed, pc, cursor,
                 netVars, reply, restarts>>

-----------------------------------------------------------------------------
(***************************************************************************)
(* raft-rs (external), as process_raft_messages drives it.  sent[t] holds  *)
(* what the leader of term t has dispatched; a follower may receive any    *)
(* prefix of it, late, again or never.                                     *)
(***************************************************************************)
LastTerm(l) == l[Len(l)].term

UpToDate(l, m) ==
  \/ LastTerm(l) > LastTerm(m)
  \/ LastTerm(l) = LastTerm(m) /\ Len(l) >= Len(m)

Follow(r, t) ==
  [role |-> "follower", term |-> t, log |-> r.log, persisted |-> r.persisted,
   committed |-> r.committed, since |-> r.since, applied |-> r.applied]

Lead(r, t) ==
  [role |-> "leader", term |-> t,
   log |-> Append(r.log, [term |-> t, cmd |-> NoCmd]), persisted |-> r.persisted,
   committed |-> r.committed, since |-> r.since, applied |-> r.applied]

(***************************************************************************)
(* An election in one step: a candidate collects the votes of Q for a new  *)
(* term.  Every voter has stored the term before it answers; the winner    *)
(* appends an empty entry and dispatches it.                               *)
(***************************************************************************)
BecomeLeader(n, Q, t) ==
  LET Voted(v) == IF v = n THEN Lead(raft[v], t) ELSE Follow(raft[v], t) IN
  /\ n \in Q /\ ~IsLeader(n)
  /\ \A v \in Q : /\ pc[v] = "select" /\ raft[v].term < t
                  /\ UpToDate(raft[n].log, raft[v].log)
  /\ raft' = [v \in Nodes |-> IF v \in Q THEN Taken(Voted(v)) ELSE raft[v]]
  /\ disk' = [v \in Nodes |->
                IF v \in Q THEN Stored(Voted(v), disk[v].snap, disk[v].own) ELSE disk[v]]
  /\ sent' = [sent EXCEPT ![t] = Dispatched(Voted(n), disk[n].snap)]
  /\ pc' = [v \in Nodes |-> IF v \in Q THEN "apply" ELSE pc[v]]
  /\ UNCHANGED <<engineVars, cursor, acked, reply, restarts>>

\* any message of a later term turns the node into a follower of that term
StepHigherTerm(n, m) ==
  /\ pc[n] = "select"
  /\ disk[m].term > raft[n].term
  /\ DriveReady(n, Follow(raft[n], disk[m].term), 0)
  /\ UNCHANGED <<engineVars, reply, restarts>>

\* the first index at which the first k entries of l disagree with log
Conflict(log, l, k) ==
  CHOOSE i \in 1..k :
    /\ i > Len(log) \/ log[i].term # l[i].term
    /\ \A j \in 1..(i - 1) : j <= Len(log) /\ log[j].term = l[j].term

Agrees(log, l, k) == k <= Len(log) /\ log[k].term = l[k].term

Appended(r, l, k) ==
  IF Agrees(r.log, l, k) THEN r
  ELSE [role |-> r.role, term |-> r.term, log |-> SubSeq(l, 1, k),
        persisted |-> Min2(r.persisted, Conflict(r.log, l, k) - 1),
        committed |-> r.committed, since |-> r.since, applied |-> r.applied]

Hears(n, t) ==
  /\ pc[n] = "select"
  /\ t > raft[n].term \/ (t = raft[n].term /\ ~IsLeader(n))

(***************************************************************************)
(* MsgAppend of term t that brings the follower up to index k and tells it *)
(* of commit index c.  One that would change nothing is left out.          *)
(***************************************************************************)
StepAppend(n, t, k, c) ==
  LET r == Follow(raft[n], t) IN
  /\ Hears(n, t)
  /\ k >= r.committed /\ c <= Min2(k, sent[t].commit)
  /\ t > raft[n].term \/ k > acked[t][n] \/ c > r.committed
  /\ DriveReady(n, [Appended(r, sent[t].log, k) EXCEPT !.committed = Max2(@, c)], k)
  /\ UNCHANGED <<engineVars, reply, restarts>>

(***************************************************************************)
(* MsgSnapshot of term t: ignored below the commit index; when the log     *)
(* already holds that index only the commit moves.                         *)
(***************************************************************************)
StepSnapshotKnown(n, t) ==
  LET r == Follow(raft[n], t)
      i == sent[t].snap.index
  IN
  /\ Hears(n, t)
  /\ i > r.committed /\ Agrees(r.log, sent[t].log, i)
  /\ DriveReady(n, [r EXCEPT !.committed = i], i)
  /\ UNCHANGED <<engineVars, reply, restarts>>

(***************************************************************************)
(* Otherwise the log is replaced by the snapshot and drive_ready calls     *)
(* apply_snapshot on the store.  The stream table, the index and the WAL   *)
(* stay as they are.                                                       *)
(***************************************************************************)
Restored(r, l, i) ==
  [role |-> r.role, term |-> r.term, log |-> SubSeq(l, 1, i),
   persisted |-> Min2(r.persisted, i), committed |-> i, since |-> i,
   applied |-> r.applied]

StepSnapshotInstall(n, t) ==
  LET r == Follow(raft[n], t)
      i == sent[t].snap.index
      q == Restored(r, sent[t].log, i)
  IN
  /\ Hears(n, t)
  /\ i > r.committed /\ ~Agrees(r.log, sent[t].log, i)
  /\ Proceed(n, q, i + 1)
  /\ disk' = [disk EXCEPT ![n] = Stored(q, sent[t].snap, FALSE)]
  /\ acked' = [acked EXCEPT ![t][n] = Max2(@, i)]
  /\ UNCHANGED <<engineVars, sent, reply, restarts>>

\* MsgAppendResponse: an entry of the leader's term stored by a quorum commits
StepAppendResponse(n, c) ==
  LET r == raft[n] IN
  /\ pc[n] = "select"
  /\ IsLeader(n)
  /\ c > r.committed /\ c <= r.persisted /\ r.log[c].term = r.term
  /\ Majority({m \in Nodes : m = n \/ acked[r.term][m] >= c})
  /\ DriveReady(n, [r EXCEPT !.committed = c], 0)
  /\ UNCHANGED <<engineVars, reply, restarts>>

-----------------------------------------------------------------------------
(***************************************************************************)
(* apply_append_entry: the record goes to the WAL and is synced, the table *)
(* moves on, the client waiting under the command's request_id is told Ok, *)
(* and maybe_snapshot_raft_state runs.  raft_log.applied is still the end  *)
(* of the previous batch.  A leader offers a new snapshot from then on.    *)
(***************************************************************************)
SnapshotDue(n) == raft[n].applied >= disk[n].snap.index + SnapshotInterval

SnapshotAtBatchEnd(r) == r.since  \* mutant: the whole batch counts as applied

SnapshotIndex(r) == r.applied

TakeSnapshot(i, table) ==
  [index |-> i, data |-> [s \in Streams |-> SnapshotOf(table[s])]]

KeepResolved(ps, rid) == ps  \* mutant: get instead of remove

\* pending_writes.remove
Resolve(ps, rid) == {p \in ps : p.rid # rid}

Applied(st, i, c) ==
  MarkCommitted(MarkAppended(st, c.epoch, i, c.lsn, c.w), i, c.lsn)

\* StreamLogIndex::insert: an older record of the same position is forgotten
Superseded(ix, records, x) ==
  {k \in ix : records[k].stream = x.stream /\ records[k].lsn = x.lsn}

Inserted(ix, records, x, k) == (ix \ Superseded(ix, records, x)) \cup {k}

RecordFor(i, c) ==
  [index |-> i, w |-> c.w, stream |-> c.stream, epoch |-> c.epoch, lsn |-> c.lsn]

ApplyAppendEntry(n) ==
  LET todo == ToApply(raft[n], cursor[n])
      i == CHOOSE j \in todo : \A k \in todo : j <= k
      c == raft[n].log[i].cmd
      table == [streams[n] EXCEPT ![c.stream] = Applied(@, i, c)]
      snap == TakeSnapshot(SnapshotIndex(raft[n]), table)
  IN
  /\ pc[n] = "apply" /\ todo # {}
  /\ wal' = [wal EXCEPT ![n] = Append(@, RecordFor(i, c))]
  /\ index' = [index EXCEPT ![n] =
       Inserted(@, wal[n], RecordFor(i, c), Len(wal[n]) + 1)]
  /\ streams' = [streams EXCEPT ![n] = table]
  /\ pending' = [pending EXCEPT ![n] = Resolve(@, c.rid)]
  /\ reply' = [w \in Writes |->
       IF \E p \in pending[n] : p.rid = c.rid /\ p.w = w
       THEN [status |-> "ok",
             lsn |-> (CHOOSE p \in pending[n] : p.rid = c.rid /\ p.w = w).lsn]
       ELSE reply[w]]
  /\ disk' = IF SnapshotDue(n)
             THEN [disk EXCEPT ![n] =
                     [term |-> @.term, commit |-> @.commit, log |-> @.log,
                      snap |-> snap, own |-> TRUE]]
             ELSE disk
  /\ sent' = IF SnapshotDue(n) /\ IsLeader(n)
             THEN [sent EXCEPT ![raft[n].term] = Dispatched(raft[n], snap)] ELSE sent
  /\ Proceed(n, raft[n], i + 1)
  /\ UNCHANGED <<gone, requestSeq, observed, acked, restarts>>

(***************************************************************************)
(* The end of the iteration.  advance() marks the entries persisted and    *)
(* moves past every entry that has thereby become deliverable: those are   *)
(* in the LightReady, of which the engine only sends the messages.  Then   *)
(* log_raft_state_if_changed fails the pending writes of a deposed leader. *)
(***************************************************************************)
DeposedMissed(n) == FALSE  \* mutant: the change of role is not noticed

Deposed(n) == observed[n] = "leader" /\ ~IsLeader(n)

PendingLsns(n, s) == {p.lsn : p \in {q \in pending[n] : q.stream = s}}

RolledBack(n) ==
  [streams EXCEPT ![n] =
     [s \in Streams |-> RollbackUncommittedAppends(@[s], PendingLsns(n, s))]]

FailedReplies(n, status) ==
  [w \in Writes |-> IF \E p \in pending[n] : p.w = w
                    THEN [status |-> status, lsn |-> 0] ELSE reply[w]]

FailWithoutDrain(n) ==  \* mutant: iterates over pending_writes, keeps it
  /\ streams' = RolledBack(n)
  /\ reply' = FailedReplies(n, "not_leader")
  /\ pending' = pending

FailPending(n) ==
  /\ streams' = RolledBack(n)
  /\ reply' = FailedReplies(n, "not_leader")
  /\ pending' = [pending EXCEPT ![n] = {}]

Advance(n) ==
  /\ pc[n] = "apply" /\ ToApply(raft[n], cursor[n]) = {}
  /\ raft' = [raft EXCEPT ![n] = Ended(@)]
  /\ cursor' = [cursor EXCEPT ![n] = Ended(raft[n]).since + 1]
  /\ IF Deposed(n) THEN FailPending(n) ELSE UNCHANGED <<streams, pending, reply>>
  /\ observed' = [observed EXCEPT ![n] = raft[n].role]
  /\ pc' = [pc EXCEPT ![n] = "select"]
  /\ UNCHANGED <<disk, walVars, requestSeq, netVars, restarts>>

(***************************************************************************)
(* run_gc, called by the loop at an interval: the index forgets what was   *)
(* consumed, then every segment but the current one that no index entry    *)
(* points into is removed.                                                 *)
(***************************************************************************)
SegmentOf(k) == (k - 1) \div SegmentRecords

CurrentSegment(n) == SegmentOf(Len(wal[n]) + 1)

TruncatedThrough(n) ==  \* mutant: drops the boundary too
  {k \in index[n] : wal[n][k].lsn > streams[n][wal[n][k].stream].consumed}

Truncated(n) ==
  {k \in index[n] : wal[n][k].lsn >= streams[n][wal[n][k].stream].consumed}

Removed(n) ==
  {k \in 1..Len(wal[n]) : /\ SegmentOf(k) # CurrentSegment(n)
                          /\ \A j \in Truncated(n) : SegmentOf(j) # SegmentOf(k)}

RunGc(n) ==
  /\ pc[n] = "select"
  /\ index[n] # Truncated(n) \/ ~(Removed(n) \subseteq gone[n])
  /\ index' = [index EXCEPT ![n] = Truncated(n)]
  /\ gone' = [gone EXCEPT ![n] = @ \cup Removed(n)]
  /\ UNCHANGED <<raft, disk, wal, streams, pending, requestSeq, observed, pc,
                 cursor, netVars, reply, restarts>>

-----------------------------------------------------------------------------
(***************************************************************************)
(* A crash of the process at any point, and ShardEngine::open: the raft    *)
(* state and the table of the snapshot are loaded, then WalWriter::open    *)
(* replays what is left of the WAL and rebuilds the index, one record a    *)
(* step.  The clients' connections are gone.                               *)
(***************************************************************************)
Reopened(d) ==
  [role |-> "follower", term |-> d.term, log |-> d.log,
   persisted |-> Len(d.log), committed |-> d.commit,
   since |-> d.snap.index, applied |-> d.snap.index]

Restart(n) ==
  /\ restarts < MaxRestarts
  /\ restarts' = restarts + 1
  /\ raft' = [raft EXCEPT ![n] = Reopened(disk[n])]
  /\ streams' = [streams EXCEPT ![n] = disk[n].snap.data]
  /\ pending' = [pending EXCEPT ![n] = {}]
  /\ reply' = FailedReplies(n, "lost")
  /\ requestSeq' = [requestSeq EXCEPT ![n] = 0]
  /\ observed' = [observed EXCEPT ![n] = "follower"]
  /\ pc' = [pc EXCEPT ![n] = "open"]
  /\ cursor' = [cursor EXCEPT ![n] = 1]
  /\ index' = [index EXCEPT ![n] = {}]
  /\ UNCHANGED <<disk, wal, gone, netVars>>

ReplayFrom(d) == d.snap.index

Replayed(st, d, x) ==
  IF x.index > ReplayFrom(d)
  THEN ObserveRecovered(st, x.epoch, x.index, x.lsn, x.w) ELSE st

ToReplay(n) == {k \in cursor[n]..Len(wal[n]) : k \notin gone[n]}

ReplayRecord(n) ==
  LET k == CHOOSE j \in ToReplay(n) : \A l \in ToReplay(n) : j <= l
      x == wal[n][k]
  IN
  /\ pc[n] = "open" /\ ToReplay(n) # {}
  /\ index' = [index EXCEPT ![n] = Inserted(@, wal[n], x, k)]
  /\ streams' = [streams EXCEPT ![n][x.stream] = Replayed(@, disk[n], x)]
  /\ cursor' = [cursor EXCEPT ![n] = k + 1]
  /\ UNCHANGED <<raft, disk, wal, gone, pending, requestSeq, observed, pc, netVars,
                 reply, restarts>>

OpenDone(n) ==
  /\ pc[n] = "open" /\ ToReplay(n) = {}
  /\ pc' = [pc EXCEPT ![n] = "select"]
  /\ cursor' = [cursor EXCEPT ![n] = raft[n].since + 1]
  /\ UNCHANGED <<raft, disk, engineVars, netVars, reply, restarts>>

-----------------------------------------------------------------------------
Receive(n) ==
  \/ \E m \in Nodes : StepHigherTerm(n, m)
  \/ \E t \in Terms : \E k \in 1..Len(sent[t].log), c \in 1..sent[t].commit :
        StepAppend(n, t, k, c)
  \/ \E t \in Terms : StepSnapshotKnown(n, t) \/ StepSnapshotInstall(n, t)
  \/ \E c \in 1..Len(raft[n].log) : StepAppendResponse(n, c)

Engine(n) ==
  \/ Tick(n) \/ ApplyAppendEntry(n) \/ Advance(n)
  \/ RunGc(n) \/ ReplayRecord(n) \/ OpenDone(n)

Request(n) ==
  \/ \E w \in Writes : WriteNotLeader(n, w)
  \/ \E w \in Writes, s \in Streams, e \in Epochs :
        WriteFenced(n, w, s, e) \/ WritePropose(n, w, s, e)
  \/ \E s \in Streams, o \in ConsumerOffsets : Consume(n, s, o)

Next ==
  \E n \in Nodes :
    \/ Request(n) \/ Receive(n) \/ Engine(n) \/ Restart(n)
    \/ \E Q \in Electorates, t \in Terms : BecomeLeader(n, Q, t)

Spec == Init /\ [][Next]_vars

\* The loops keep running and raft-rs resends what was not acknowledged: while
\* some node can receive or go on with its turn, some node does.  No request,
\* election or crash has to happen.
FairSpec ==
  Spec /\ WF_vars((\E n \in Nodes : Engine(n)) \/ (\E n \in Nodes : Receive(n)))

-----------------------------------------------------------------------------
(***************************************************************************)
(* Types.                                                                  *)
(***************************************************************************)
Statuses == {"unsent", "waiting", "ok", "not_leader", "fenced", "lost"}

Entries == [term : Terms, cmd : Commands \cup {NoCmd}]

TailRecords == [lsn : Nat, entry_id : Nat, payload : Writes]

StreamStates ==
  [max_epoch : Nat, next : Nat, commit : Nat, consumed : Nat,
   last_entry : Nat,
   tail : {t \in Seq(TailRecords) : Len(t) <= TailCacheEntries}]

Snapshots == [index : Nat, data : [Streams -> StreamStates]]

Roles == {"follower", "leader"}

RaftStates ==
  [role : Roles, term : Terms, log : Seq(Entries),
   persisted : Nat, committed : Nat, since : Nat, applied : Nat]

DiskStates ==
  [term : Terms, commit : Nat, log : Seq(Entries), snap : Snapshots, own : BOOLEAN]

WalRecords ==
  [index : Nat, w : Writes, stream : Streams, epoch : Epochs, lsn : Nat]

\* Types: among them, the tail cache keeps to config.tail_cache_entries, and the
\* index points to records whose segments are there.
TypeOK ==
  /\ raft \in [Nodes -> RaftStates]
  /\ disk \in [Nodes -> DiskStates]
  /\ wal \in [Nodes -> Seq(WalRecords)]
  /\ gone \in [Nodes -> SUBSET Nat] /\ index \in [Nodes -> SUBSET Nat]
  /\ \A n \in Nodes : /\ gone[n] \subseteq 1..Len(wal[n])
                      /\ index[n] \subseteq (1..Len(wal[n])) \ gone[n]
  /\ streams \in [Nodes -> [Streams -> StreamStates]]
  /\ pending \in [Nodes -> SUBSET Commands]
  /\ requestSeq \in [Nodes -> Nat]
  /\ observed \in [Nodes -> Roles]
  /\ pc \in [Nodes -> {"select", "apply", "open"}]
  /\ cursor \in [Nodes -> Nat]
  /\ sent \in [Terms -> [log : Seq(Entries), commit : Nat, snap : Snapshots]]
  /\ acked \in [Terms -> [Nodes -> Nat]]
  /\ reply \in [Writes -> [status : Statuses, lsn : Nat]]
  /\ restarts \in 0..MaxRestarts

-----------------------------------------------------------------------------
(***************************************************************************)
(* read_stream: a position below commit is served from the tail cache, or  *)
(* from the WAL through the index, as long as the index has it.            *)
(***************************************************************************)
IndexHits(n, s, lsn) ==
  {k \in index[n] : wal[n][k].stream = s /\ wal[n][k].lsn = lsn}

NotFound == 0

BeyondLastCommit(st, lsn) == lsn + 1 >= st.commit  \* mutant: off by one

BeyondCommit(st, lsn) == lsn >= st.commit

ReadStream(n, s, lsn) ==
  LET st == streams[n][s]
      hits == IndexHits(n, s, lsn)
  IN  IF BeyondCommit(st, lsn) THEN NotFound
      ELSE IF TailHits(st, lsn) # {} THEN ReadFromTail(st, lsn).payload
      ELSE IF hits # {} THEN wal[n][CHOOSE k \in hits : TRUE].w
      ELSE NotFound

Lsns == 0..(MaxWrites - 1)

-----------------------------------------------------------------------------
(***************************************************************************)
(* Safety, whatever elections, crashes and snapshots happen.               *)
(***************************************************************************)

\* What one replica has applied at an index is what every node that takes this
\* index for committed has there: no two replicas ever apply different entries.
ReplicasAgree ==
  \A n, m \in Nodes : \A k \in 1..Len(wal[n]) :
    LET x == wal[n][k]
        c == raft[m].log[x.index].cmd
    IN  x.index <= raft[m].committed =>
          /\ c # NoCmd /\ c.w = x.w /\ c.stream = x.stream
          /\ c.epoch = x.epoch /\ c.lsn = x.lsn

\* What a node has applied, its raft file already holds as committed: a crash
\* never finds the WAL ahead of the raft log it is derived from.
AppliedIsDurable ==
  \A n \in Nodes : \A i \in 1..Len(wal[n]) :
    LET x == wal[n][i] IN
    /\ x.index <= disk[n].commit
    /\ disk[n].log[x.index].cmd # NoCmd
    /\ disk[n].log[x.index].cmd.w = x.w

\* The commit position a node reports for a stream can be rebuilt from its own
\* raft file: the snapshot and the committed entries above it, which a restart
\* applies again.  The WAL records above the snapshot may be gone by then.
RecoveredCommits(n, s) ==
  LET d == disk[n] IN
  {d.snap.data[s].commit} \cup
  {d.log[i].cmd.lsn + 1 : i \in {j \in (d.snap.index + 1)..d.commit :
     d.log[j].cmd # NoCmd /\ d.log[j].cmd.stream = s}}

CommitIsRecoverable ==
  \A n \in Nodes, s \in Streams : disk[n].own =>
    \E c \in RecoveredCommits(n, s) : streams[n][s].commit <= c

\* commit never passes next: rolling back a deposed leader's appends does not
\* hand out committed positions again.
TablesSound ==
  \A n \in Nodes, s \in Streams : CommittedIsAllocated(streams[n][s])

\* A node never promises one position to two waiting clients.
PendingDistinct ==
  \A n \in Nodes : \A p, q \in pending[n] :
    /\ p.lsn < streams[n][p.stream].next
    /\ p # q => p.rid # q.rid /\ (p.stream # q.stream \/ p.lsn # q.lsn)

\* A client that waits is remembered by a node that still leads, or that is
\* in the turn at whose end it fails its pending writes.
NoForgottenClient ==
  \A w \in Writes : reply[w].status = "waiting" =>
    \E n \in Nodes : /\ \E p \in pending[n] : p.w = w
                     /\ IsLeader(n) \/ pc[n] = "apply"

\* The entries one leader proposes for a stream take strictly increasing
\* positions, and no writer epoch goes back.
TermPositions ==
  \A n \in Nodes : \A i, j \in 1..Len(raft[n].log) :
    LET a == raft[n].log[i]
        b == raft[n].log[j]
    IN  (/\ i < j /\ a.term = b.term /\ a.cmd # NoCmd /\ b.cmd # NoCmd
         /\ a.cmd.stream = b.cmd.stream)
        => a.cmd.lsn < b.cmd.lsn /\ a.cmd.epoch <= b.cmd.epoch

\* A read that finds something returns the payload of a committed entry for
\* exactly that stream and position.
ReadsCommitted ==
  \A n \in Nodes, s \in Streams, lsn \in Lsns :
    LET w == ReadStream(n, s, lsn) IN
    w # NotFound =>
      \E m \in Nodes : \E i \in 1..raft[m].committed :
        LET c == raft[m].log[i].cmd IN
        c # NoCmd /\ c.stream = s /\ c.lsn = lsn /\ c.w = w

\* A client is answered once.
Final == {"ok", "not_leader", "fenced", "lost"}

AnsweredOnce ==
  [][\A w \in Writes : reply[w].status \in Final => reply'[w] = reply[w]]_vars

-----------------------------------------------------------------------------
(***************************************************************************)
(* What holds while one leader serves, like ServesStreams of ShardService; *)
(* a change of leader breaks LsnUnique and AckImpliesCommitted.            *)
(***************************************************************************)

\* Committed entries of a stream never share a position.
LsnUnique ==
  \A n \in Nodes : \A i, j \in 1..raft[n].committed :
    LET a == raft[n].log[i].cmd
        b == raft[n].log[j].cmd
    IN  i # j /\ a # NoCmd /\ b # NoCmd /\ a.stream = b.stream => a.lsn # b.lsn

\* An Ok tells the client a position at which its own write is committed.
AckImpliesCommitted ==
  \A w \in Writes : reply[w].status = "ok" =>
    \E m \in Nodes : \E i \in 1..raft[m].committed :
      LET c == raft[m].log[i].cmd IN
      c # NoCmd /\ c.w = w /\ c.lsn = reply[w].lsn

\* A leader has applied every acknowledged write at the position it acknowledged
\* and serves it there, until a consumer has acknowledged a later position: what
\* run_gc takes away, nobody needs any more.
AckedIsReadable ==
  \A n \in Nodes, w \in Writes : IsLeader(n) /\ reply[w].status = "ok" =>
    \E k \in 1..Len(wal[n]) :
      LET x == wal[n][k] IN
      /\ x.w = w /\ x.lsn = reply[w].lsn
      /\ \/ ReadStream(n, x.stream, x.lsn) = w
         \/ x.lsn < streams[n][x.stream].consumed

\* What a node has served for a position, it serves until it restarts or a
\* consumer has acknowledged a later position there, and never anything else.
ReadsStable ==
  [][\A n \in Nodes, s \in Streams, lsn \in Lsns :
       LET w == ReadStream(n, s, lsn) IN
       w # NotFound /\ pc'[n] # "open" =>
         \/ ReadStream(n, s, lsn)' = w
         \/ ReadStream(n, s, lsn)' = NotFound /\ lsn < streams'[n][s].consumed]_vars

-----------------------------------------------------------------------------
(***************************************************************************)
(* Liveness, under FairSpec.                                               *)
(***************************************************************************)

Waiting == {w \in Writes : reply[w].status = "waiting"}

\* Every write that was taken is answered: whenever clients wait, a time comes
\* when none does.
EveryWriteAnswered == (Waiting # {}) ~> (Waiting = {})

\* The cursor of node m has passed an entry for position lsn or a later one of
\* s that is not in its WAL: it came with the LightReady of advance(), which the
\* engine does not look at, or with a snapshot, which reaches only the store.
Skipped(m, s, lsn) ==
  \E i \in 1..Min2(cursor[m] - 1, Len(raft[m].log)) :
    LET c == raft[m].log[i].cmd IN
    /\ c # NoCmd /\ c.stream = s /\ c.lsn >= lsn
    /\ \A k \in 1..Len(wal[m]) : wal[m][k].index # i

Converged ==
  \A n, m \in Nodes, s \in Streams :
    LET served == streams[n][s].commit IN
    served <= streams[m][s].commit \/ Skipped(m, s, served - 1)

\* Once a leader stays, every replica comes to serve what any of them serves,
\* unless it has skipped the entry, which is the one way to stay behind.
ReplicasConverge == <>[](\E n \in Nodes : IsLeader(n)) => <>[]Converged
=============================================================================
