--------------------------- MODULE AgreementProofs ---------------------------
(***************************************************************************)
(* What follows from the replicated log for the parts of a shard that a    *)
(* client sees: the WAL, the tail caches and the reads served from them,   *)
(* the positions a leader hands out and, while one leader serves, the      *)
(* whole service.                                                          *)
(***************************************************************************)
EXTENDS ReplicationProofs, ShardService

(***************************************************************************)
(* A record of the WAL, or one in the tail cache of stream s, was taken    *)
(* from an entry that its node has committed.                              *)
(***************************************************************************)
Recorded(r, x) ==
  /\ x.index \in 1..r.committed
  /\ r.log[x.index].cmd # NoCmd
  /\ r.log[x.index].cmd.w = x.w /\ r.log[x.index].cmd.stream = x.stream
  /\ r.log[x.index].cmd.epoch = x.epoch /\ r.log[x.index].cmd.lsn = x.lsn

Committed(r, s, lsn, w) ==
  \E i \in 1..r.committed :
    /\ r.log[i].cmd # NoCmd /\ r.log[i].cmd.stream = s
    /\ r.log[i].cmd.lsn = lsn /\ r.log[i].cmd.w = w

Cached(r, s, tail) ==
  \A i \in 1..Len(tail) : Committed(r, s, tail[i].lsn, tail[i].payload)

\* a snapshot carries no tail cache
Bare(snap) == \A s \in Streams : snap.data[s].tail = <<>>

WalPart == \A n \in Nodes : \A k \in 1..Len(wal[n]) : Recorded(raft[n], wal[n][k])
TailPart == \A n \in Nodes, s \in Streams : Cached(raft[n], s, streams[n][s].tail)
SnapPart == (\A n \in Nodes : Bare(disk[n].snap)) /\ (\A t \in Terms : Bare(sent[t].snap))

AppliedInv == WalPart /\ TailPart /\ SnapPart

-----------------------------------------------------------------------------
\* a bounded nonempty set of naturals has a greatest element
LEMMA GreatestNat ==
  ASSUME NEW S \in SUBSET Nat, S # {}, NEW b \in Nat, \A k \in S : k <= b
  PROVE  \E m \in S : \A k \in S : k <= m
<1> DEFINE T == {b - k : k \in S}
<1>1. T \in SUBSET Nat /\ T # {}
  <2>1. \A k \in S : b - k \in Nat
    OBVIOUS
  <2> QED
    BY <2>1
<1>2. PICK d \in T : \A e \in T : d <= e
  <2> HIDE DEF T
  <2> QED
    BY <1>1, LeastNat
<1>3. PICK m \in S : d = b - m
  BY <1>2
<1>4. ASSUME NEW k \in S PROVE k <= m
  <2>1. b - k \in T /\ d <= b - k
    BY <1>2
  <2> QED
    BY <1>3, <2>1
<1> QED
  BY <1>4

(***************************************************************************)
(* The operations of the tail cache drop records and add the given one.    *)
(***************************************************************************)
Within(p, q) == \A i \in 1..Len(p) : \E j \in 1..Len(q) : p[i] = q[j]

LEMMA PushTailHas ==
  ASSUME NEW tail \in Tails, NEW x \in TailRecords
  PROVE  \A i \in 1..Len(PushTail(tail, x)) :
           \/ PushTail(tail, x)[i] = x
           \/ \E j \in 1..Len(tail) : PushTail(tail, x)[i] = tail[j]
<1> DEFINE t == Append(tail, x)
           m == Max2(Len(t) - TailCacheEntries, 0) + 1
           p == SubSeq(t, m, Len(t))
<1>1. /\ t \in Seq(TailRecords) /\ Len(t) \in Nat /\ Len(tail) \in Nat
      /\ Len(t) = Len(tail) + 1 /\ t[Len(tail) + 1] = x
      /\ \A i \in 1..Len(tail) : t[i] = tail[i]
  BY AppendProperties, LenProperties DEF Tails
<1>2. m \in Nat \ {0}
  BY <1>1, TailCacheAssumption DEF Max2
<1>3. \A i \in 1..Len(t) : t[i] \in TailRecords
  BY <1>1, ElementOfSeq
<1> HIDE DEF t, m
<1>4. \A i \in 1..Len(t) : t[i] = x \/ \E j \in 1..Len(tail) : t[i] = tail[j]
  <2> SUFFICES ASSUME NEW i \in 1..Len(t)
      PROVE  t[i] = x \/ \E j \in 1..Len(tail) : t[i] = tail[j]
    OBVIOUS
  <2>1. i \in 1..Len(tail) \/ t[i] = x
    BY <1>1
  <2> QED
    BY <1>1, <2>1
<1>5. /\ Len(p) = IF m <= Len(t) THEN Len(t) - m + 1 ELSE 0
      /\ \A i \in 1..(Len(t) - m + 1) : p[i] = t[m + i - 1]
  <2>1. \A i \in m..Len(t) : t[i] \in TailRecords
    BY <1>1, <1>2, <1>3
  <2> QED
    BY <1>1, <1>2, <2>1, SubSeqProperties
<1> HIDE DEF p
<1>6. ASSUME NEW i \in 1..Len(p)
      PROVE  p[i] = t[m + i - 1] /\ m + i - 1 \in 1..Len(t)
  BY <1>1, <1>2, <1>5
<1>7. PushTail(tail, x) = p
  BY DEF PushTail, p, t, m
<1> QED
  BY <1>4, <1>6, <1>7

LEMMA DropConsumedHas ==
  ASSUME NEW tail \in Tails, NEW c \in Nat
  PROVE  Within(DropConsumed(tail, c), tail)
<1> DEFINE live == {i \in 1..Len(tail) : tail[i].lsn >= c}
           m == CHOOSE i \in live : \A j \in live : i <= j
           p == SubSeq(tail, m, Len(tail))
<1>1. tail \in Seq(TailRecords) /\ Len(tail) \in Nat
  BY LenProperties DEF Tails
<1>2. CASE live = {}
  BY <1>2 DEF DropConsumed, Within
<1>3. CASE live # {}
  <2>1. live \in SUBSET Nat
    BY <1>1
  <2>2. m \in live
    <3> HIDE DEF live
    <3>1. \E i \in live : \A j \in live : i <= j
      BY <1>3, <2>1, LeastNat
    <3> QED
      BY <3>1
  <2> HIDE DEF m
  <2>3. m \in 1..Len(tail)
    BY <2>2
  <2>4. \A i \in 1..Len(tail) : tail[i] \in TailRecords
    BY <1>1, ElementOfSeq
  <2>5. /\ Len(p) = IF m <= Len(tail) THEN Len(tail) - m + 1 ELSE 0
        /\ \A i \in 1..(Len(tail) - m + 1) : p[i] = tail[m + i - 1]
    <3>1. \A i \in m..Len(tail) : tail[i] \in TailRecords
      BY <1>1, <2>3, <2>4
    <3> QED
      BY <1>1, <2>3, <3>1, SubSeqProperties
  <2> HIDE DEF p
  <2>6. ASSUME NEW i \in 1..Len(p)
        PROVE  p[i] = tail[m + i - 1] /\ m + i - 1 \in 1..Len(tail)
    BY <1>1, <2>3, <2>5
  <2>7. DropConsumed(tail, c) = p
    BY <1>3 DEF DropConsumed, p, m
  <2> QED
    BY <2>6, <2>7 DEF Within
<1> QED
  BY <1>2, <1>3

LEMMA PushCached ==
  ASSUME NEW r, NEW s, NEW tail \in Tails, NEW x \in TailRecords,
         Cached(r, s, tail), Committed(r, s, x.lsn, x.payload)
  PROVE  Cached(r, s, PushTail(tail, x))
  BY PushTailHas DEF Cached

LEMMA DropCached ==
  ASSUME NEW r, NEW s, NEW tail \in Tails, NEW c \in Nat, Cached(r, s, tail)
  PROVE  Cached(r, s, DropConsumed(tail, c))
  BY DropConsumedHas DEF Cached, Within

\* what is committed stays so
LEMMA RecordedStays ==
  ASSUME Shapes, Shapes', Stable, NEW n \in Nodes, NEW x, Recorded(raft[n], x)
  PROVE  Recorded(raft'[n], x)
<1>1. /\ raft[n].committed \in Nat /\ raft'[n].committed \in Nat
      /\ raft[n].committed <= raft'[n].committed
      /\ raft'[n].log[x.index] = raft[n].log[x.index]
  BY DEF Shapes, Stable, Recorded
<1> QED
  BY <1>1 DEF Recorded

LEMMA CommittedStays ==
  ASSUME Shapes, Shapes', Stable, NEW n \in Nodes, NEW s, NEW lsn, NEW w,
         Committed(raft[n], s, lsn, w)
  PROVE  Committed(raft'[n], s, lsn, w)
<1>1. /\ raft[n].committed \in Nat /\ raft'[n].committed \in Nat
      /\ raft[n].committed <= raft'[n].committed
      /\ \A i \in 1..raft[n].committed : raft'[n].log[i] = raft[n].log[i]
  BY DEF Shapes, Stable
<1> QED
  BY <1>1 DEF Committed

LEMMA CachedStays ==
  ASSUME Shapes, Shapes', Stable, NEW n \in Nodes, NEW s, NEW tail, Cached(raft[n], s, tail)
  PROVE  Cached(raft'[n], s, tail)
  BY CommittedStays DEF Cached

-----------------------------------------------------------------------------
(***************************************************************************)
(* Steps that append nothing to a WAL and add nothing to a tail cache.     *)
(***************************************************************************)
TailsKept == \A n \in Nodes, s \in Streams : streams'[n][s].tail = streams[n][s].tail

LEMMA QuietApplied ==
  ASSUME Shapes, Shapes', Stable, AppliedInv, wal' = wal, TailsKept
  PROVE  WalPart' /\ TailPart'
<1>1. ASSUME NEW n \in Nodes, NEW k \in 1..Len(wal[n])
      PROVE  Recorded(raft'[n], wal[n][k])
  BY RecordedStays DEF AppliedInv, WalPart
<1>2. ASSUME NEW n \in Nodes, NEW s \in Streams
      PROVE  Cached(raft'[n], s, streams[n][s].tail)
  BY CachedStays DEF AppliedInv, TailPart
<1> QED
  BY <1>1, <1>2 DEF WalPart, TailPart, TailsKept

LEMMA DriveSnaps ==
  ASSUME CoreInv, SnapPart, NEW n \in Nodes, NEW r, NEW ack, DriveReady(n, r, ack)
  PROVE  SnapPart'
<1>1. \A m \in Nodes : disk'[m].snap = disk[m].snap
  BY DEF CoreInv, DriveReady, Stored
<1>2. \A t \in Terms : sent'[t].snap = sent[t].snap \/ sent'[t].snap = disk[n].snap
  BY DEF CoreInv, DriveReady, Dispatched
<1> QED
  BY <1>1, <1>2 DEF SnapPart

LEMMA ReceiveApplied ==
  ASSUME Inv, Shapes, Shapes', Stable, AppliedInv, NEW n \in Nodes, Receive(n) \/ Tick(n)
  PROVE  AppliedInv'
<1>1. wal' = wal /\ streams' = streams
  BY DEF Receive, Tick, StepHigherTerm, StepAppend, StepSnapshotKnown,
         StepSnapshotInstall, StepAppendResponse, engineVars, walVars
<1>2. SnapPart'
  <2>1. CASE \E r, ack : DriveReady(n, r, ack)
    BY <2>1, DriveSnaps DEF Inv, AppliedInv
  <2>2. ASSUME NEW t \in Terms, StepSnapshotInstall(n, t) PROVE SnapPart'
    <3>1. \A m \in Nodes : disk'[m].snap = disk[m].snap \/ disk'[m].snap = sent[t].snap
      BY <2>2 DEF StepSnapshotInstall, Inv, CoreInv, Stored
    <3>2. sent' = sent
      BY <2>2 DEF StepSnapshotInstall
    <3> QED
      BY <3>1, <3>2 DEF AppliedInv, SnapPart
  <2> QED
    BY <2>1, <2>2 DEF Receive, Tick, StepHigherTerm, StepAppend, StepSnapshotKnown,
                      StepAppendResponse
<1> QED
  BY <1>1, <1>2, QuietApplied DEF AppliedInv, TailsKept

LEMMA ElectApplied ==
  ASSUME Inv, Shapes, Shapes', Stable, AppliedInv, NEW n \in Nodes, NEW V \in Electorates,
         NEW t \in Terms, BecomeLeader(n, V, t)
  PROVE  AppliedInv'
<1>1. wal' = wal /\ streams' = streams
  BY DEF BecomeLeader, engineVars, walVars
<1>2. \A m \in Nodes : disk'[m].snap = disk[m].snap
  BY DEF BecomeLeader, Stored
<1>3. \A u \in Terms : sent'[u].snap = sent[u].snap \/ sent'[u].snap = disk[n].snap
  BY DEF BecomeLeader, Inv, CoreInv, Dispatched
<1> QED
  BY <1>1, <1>2, <1>3, QuietApplied DEF AppliedInv, SnapPart, TailsKept

\* a turn that only answers, or changes nothing but the loop
LEMMA IdleApplied ==
  ASSUME Shapes, Shapes', Stable, AppliedInv, TailsKept, UNCHANGED <<disk, wal, netVars>>
  PROVE  AppliedInv'
<1>1. SnapPart'
  BY DEF AppliedInv, SnapPart, netVars
<1> QED
  BY <1>1, QuietApplied DEF AppliedInv

LEMMA ProposeApplied ==
  ASSUME Inv, Shapes, Shapes', Stable, AppliedInv, NEW n \in Nodes, NEW w \in Writes,
         NEW s \in Streams, NEW e \in Epochs, WritePropose(n, w, s, e)
  PROVE  AppliedInv'
<1> DEFINE st == AllocateAppend(streams[n][s], e)
<1>1. wal' = wal /\ streams' = [streams EXCEPT ![n][s] = st]
  BY DEF WritePropose, walVars
<1>2. st \in SoundStreams /\ st.tail = streams[n][s].tail
  <2>1. streams[n][s] \in SoundStreams /\ e \in Nat
    BY GroupAssumption DEF Inv, TableInv
  <2> QED
    BY <2>1, AllocateSound DEF AllocateAppend
<1> HIDE DEF st
<1>3. TailsKept
  BY <1>1, <1>2, StreamStep DEF Inv, TailsKept
<1>4. SnapPart'
  BY DriveSnaps DEF WritePropose, Inv, AppliedInv
<1> QED
  BY <1>1, <1>3, <1>4, QuietApplied DEF AppliedInv

LEMMA AdvanceApplied ==
  ASSUME Inv, Shapes, Shapes', Stable, AppliedInv, NEW n \in Nodes, Advance(n)
  PROVE  AppliedInv'
<1>1. UNCHANGED <<disk, wal, netVars>> /\ (streams' = streams \/ streams' = RolledBack(n))
  BY DEF Advance, FailPending, walVars
<1>2. CASE streams' = streams
  BY <1>1, <1>2, IdleApplied DEF TailsKept
<1>3. CASE streams' = RolledBack(n)
  <2>1. ASSUME NEW s \in Streams, NEW lsns
        PROVE  RollbackUncommittedAppends(streams[n][s], lsns).tail = streams[n][s].tail
    <3>1. streams[n][s] \in StreamStates
      BY DEF Inv, TableInv, SoundStreams
    <3> QED
      BY <3>1 DEF RollbackUncommittedAppends, StreamStates
  <2>2. ASSUME NEW m \in Nodes, NEW s \in Streams
        PROVE  streams'[m][s] = IF m = n
               THEN RollbackUncommittedAppends(streams[n][s], PendingLsns(n, s))
               ELSE streams[m][s]
    BY <1>3 DEF RolledBack, Inv, TableInv
  <2>3. TailsKept
    BY <2>1, <2>2 DEF TailsKept
  <2> QED
    BY <1>1, <2>3, IdleApplied
<1> QED
  BY <1>1, <1>2, <1>3

-----------------------------------------------------------------------------
(***************************************************************************)
(* Steps that move the tables.                                             *)
(***************************************************************************)
LEMMA ConsumeApplied ==
  ASSUME Inv, Shapes, Shapes', Stable, AppliedInv, NEW n \in Nodes, NEW s \in Streams,
         NEW o \in ConsumerOffsets, Consume(n, s, o)
  PROVE  AppliedInv'
<1> DEFINE old == streams[n][s]
           st == AdvanceConsumed(old, o)
<1>1. /\ streams' = [streams EXCEPT ![n][s] = st]
      /\ UNCHANGED <<raft, disk, wal, netVars>>
  BY DEF Consume, walVars
<1>2. old \in SoundStreams /\ o \in Nat
  BY GroupAssumption DEF Inv, TableInv
<1>3. st \in SoundStreams
  BY <1>2, ConsumeSound
<1>4. Cached(raft[n], s, st.tail)
  <2>1. old.tail \in Tails /\ Max2(old.consumed, o) \in Nat /\ Cached(raft[n], s, old.tail)
    BY <1>2 DEF SoundStreams, StreamStates, Tails, Max2, AppliedInv, TailPart
  <2>2. st.tail = DropConsumed(old.tail, Max2(old.consumed, o))
    BY DEF AdvanceConsumed
  <2> HIDE DEF old, st
  <2> QED
    BY <2>1, <2>2, DropCached
<1> HIDE DEF st, old
<1>5. TailPart'
  BY <1>1, <1>3, <1>4, StreamStep DEF Inv, AppliedInv, TailPart
<1> QED
  BY <1>1, <1>5 DEF AppliedInv, WalPart, SnapPart, netVars

\* marking a record of stream s appended and committed
LEMMA MarkCached ==
  ASSUME NEW r, NEW s, NEW st \in SoundStreams, NEW e \in Nat, NEW i \in Nat,
         NEW l \in Nat, NEW w \in Writes, Cached(r, s, st.tail), Committed(r, s, l, w)
  PROVE  Cached(r, s, MarkCommitted(MarkAppended(st, e, i, l, w), i, l).tail)
<1> DEFINE x == [lsn |-> l, entry_id |-> i, payload |-> w]
<1>1. x \in TailRecords /\ x.lsn = l /\ x.payload = w /\ st.tail \in Tails
  BY DEF TailRecords, SoundStreams, StreamStates, Tails
<1>2. MarkCommitted(MarkAppended(st, e, i, l, w), i, l).tail = PushTail(st.tail, x)
  BY DEF MarkCommitted, MarkAppended
<1> HIDE DEF x
<1> QED
  BY <1>1, <1>2, PushCached

LEMMA ReplayApplied ==
  ASSUME Inv, Shapes, Shapes', Stable, AppliedInv, NEW n \in Nodes, ReplayRecord(n)
  PROVE  AppliedInv'
<1>0. PICK k \in 1..Len(wal[n]) :
        /\ wal[n][k] \in WalRecords /\ pc[n] = "open"
        /\ streams' = [streams EXCEPT ![n][wal[n][k].stream] =
                         Replayed(streams[n][wal[n][k].stream], disk[n], wal[n][k])]
        /\ cursor' = [cursor EXCEPT ![n] = k + 1]
        /\ UNCHANGED <<raft, disk, wal, pc, netVars>>
  BY ReplayView
<1> DEFINE x == wal[n][k]
           old == streams[n][x.stream]
           st == Replayed(old, disk[n], x)
           mark == ObserveRecovered(old, x.epoch, x.index, x.lsn, x.w)
<1>1. /\ streams' = [streams EXCEPT ![n][x.stream] = st]
      /\ UNCHANGED <<raft, disk, wal, netVars>>
  BY <1>0
<1>2. x \in WalRecords /\ Recorded(raft[n], x)
  BY <1>0 DEF AppliedInv, WalPart
<1> HIDE DEF x
<1>3. /\ x.stream \in Streams /\ x.epoch \in Nat /\ x.index \in Nat
      /\ x.lsn \in Nat /\ x.w \in Writes
  BY <1>2, GroupAssumption DEF WalRecords
<1>4. old \in SoundStreams /\ Cached(raft[n], x.stream, old.tail)
  BY <1>3 DEF Inv, TableInv, AppliedInv, TailPart
<1> HIDE DEF old
<1>5. Committed(raft[n], x.stream, x.lsn, x.w)
  BY <1>2 DEF Recorded, Committed
<1>6. mark \in SoundStreams /\ Cached(raft[n], x.stream, mark.tail)
  BY <1>3, <1>4, <1>5, MarkSound, MarkCached DEF ObserveRecovered
<1> HIDE DEF mark
<1>7. st = mark \/ st = old
  BY DEF Replayed, mark
<1>8. st \in SoundStreams /\ Cached(raft[n], x.stream, st.tail)
  BY <1>4, <1>6, <1>7
<1> HIDE DEF st
<1>9. TailPart'
  BY <1>1, <1>3, <1>8, StreamStep DEF Inv, AppliedInv, TailPart
<1> QED
  BY <1>1, <1>9 DEF AppliedInv, WalPart, SnapPart, netVars

LEMMA RestartApplied ==
  ASSUME Inv, Shapes, Shapes', Stable, AppliedInv, NEW n \in Nodes, Restart(n)
  PROVE  AppliedInv'
<1>1. /\ streams' = [streams EXCEPT ![n] = disk[n].snap.data]
      /\ UNCHANGED <<disk, wal, netVars>>
  BY DEF Restart
<1>2. ASSUME NEW m \in Nodes, NEW s \in Streams
      PROVE  streams'[m][s].tail = <<>> \/ streams'[m][s].tail = streams[m][s].tail
  BY <1>1 DEF Inv, TableInv, AppliedInv, SnapPart, Bare
<1>3. ASSUME NEW m \in Nodes, NEW s \in Streams
      PROVE  Cached(raft'[m], s, streams'[m][s].tail)
  <2>1. Cached(raft'[m], s, streams[m][s].tail)
    BY CachedStays DEF AppliedInv, TailPart
  <2>2. Cached(raft'[m], s, <<>>)
    BY DEF Cached
  <2> QED
    BY <1>2, <2>1, <2>2
<1>4. ASSUME NEW m \in Nodes, NEW k \in 1..Len(wal[m]) PROVE Recorded(raft'[m], wal[m][k])
  BY RecordedStays DEF AppliedInv, WalPart
<1> QED
  BY <1>1, <1>3, <1>4 DEF AppliedInv, WalPart, TailPart, SnapPart, netVars

LEMMA ApplyApplied ==
  ASSUME Inv, Shapes, Shapes', Stable, AppliedInv, NEW n \in Nodes, ApplyAppendEntry(n)
  PROVE  AppliedInv'
<1> DEFINE todo == ToApply(raft[n], cursor[n])
           i == CHOOSE j \in todo : \A k \in todo : j <= k
           c == raft[n].log[i].cmd
           old == streams[n][c.stream]
           st == Applied(old, i, c)
           table == [streams[n] EXCEPT ![c.stream] = st]
           snap == TakeSnapshot(SnapshotIndex(raft[n]), table)
           x == [index |-> i, w |-> c.w, stream |-> c.stream, epoch |-> c.epoch,
                 lsn |-> c.lsn]
<1>1. /\ todo # {}
      /\ wal' = [wal EXCEPT ![n] = Append(@, x)]
      /\ streams' = [streams EXCEPT ![n] = table]
      /\ \A m \in Nodes : disk'[m].snap = disk[m].snap \/ disk'[m].snap = snap
      /\ \A t \in Terms : sent'[t].snap = sent[t].snap \/ sent'[t].snap = snap
  BY DEF ApplyAppendEntry, RecordFor, Inv, CoreInv, Dispatched
<1>2. /\ i \in 1..raft[n].committed /\ i \in Nat /\ c # NoCmd
      /\ raft[n].log \in Seq(Entries) /\ i \in 1..Len(raft[n].log)
  <2>1. /\ raft[n].log \in Seq(Entries) /\ Len(raft[n].log) \in Nat
        /\ raft[n].since \in Nat /\ raft[n].since <= raft[n].committed
        /\ raft[n].committed \in Nat /\ raft[n].committed <= Len(raft[n].log)
        /\ cursor[n] \in Nat \ {0}
    BY LenProperties DEF Inv, CoreInv, GoodRaft, RaftStates
  <2>2. \A j \in todo : j \in Nat \ {0} /\ j <= raft[n].since /\ raft[n].log[j].cmd # NoCmd
    BY <2>1 DEF ToApply
  <2>3. todo \in SUBSET Nat
    BY <2>2
  <2> HIDE DEF todo
  <2>4. \E j \in todo : \A k \in todo : j <= k
    BY <1>1, <2>3, LeastNat
  <2>5. i \in todo
    BY <2>4
  <2> HIDE DEF i
  <2> QED
    BY <2>1, <2>2, <2>5
<1> HIDE DEF todo, i
<1>3. Recorded(raft[n], x)
  BY <1>2 DEF Recorded
<1>4. c \in Commands
  <2>1. raft[n].log[i] \in Entries
    BY <1>2, ElementOfSeq
  <2> QED
    BY <1>2, <2>1 DEF Entries
<1>5. Committed(raft[n], c.stream, c.lsn, c.w)
  BY <1>2 DEF Committed
<1> HIDE DEF c
<1>6. /\ c.stream \in Streams /\ c.epoch \in Nat /\ c.epoch \in Epochs /\ c.lsn \in Nat
      /\ c.w \in Writes
  BY <1>4, GroupAssumption DEF Commands
<1>7. /\ old \in SoundStreams /\ Cached(raft[n], c.stream, old.tail)
      /\ streams[n] \in [Streams -> SoundStreams]
  BY <1>6 DEF Inv, TableInv, AppliedInv, TailPart
<1> HIDE DEF old
<1>8. st \in SoundStreams /\ Cached(raft[n], c.stream, st.tail)
  BY <1>2, <1>5, <1>6, <1>7, MarkSound, MarkCached DEF Applied
<1> HIDE DEF st
<1>9. \A s \in Streams : /\ table[s] \in SoundStreams
                         /\ table[s] = IF s = c.stream THEN st ELSE streams[n][s]
  BY <1>6, <1>7, <1>8
<1>10. x \in WalRecords
  BY <1>2, <1>6 DEF WalRecords
<1> HIDE DEF table, x, snap
<1>11. WalPart'
  <2>1. wal[n] \in Seq(WalRecords) /\ wal \in [Nodes -> Seq(WalRecords)]
    BY DEF Inv, TableInv
  <2>2. /\ Len(Append(wal[n], x)) = Len(wal[n]) + 1 /\ Len(wal[n]) \in Nat
        /\ Append(wal[n], x)[Len(wal[n]) + 1] = x
        /\ \A k \in 1..Len(wal[n]) : Append(wal[n], x)[k] = wal[n][k]
    BY <1>10, <2>1, AppendProperties, LenProperties
  <2>3. \A m \in Nodes : wal'[m] = IF m = n THEN Append(wal[n], x) ELSE wal[m]
    BY <1>1, <2>1
  <2>4. ASSUME NEW m \in Nodes, NEW k \in 1..Len(wal'[m])
        PROVE  Recorded(raft[m], wal'[m][k])
    <3>1. CASE m = n
      <4>1. Len(wal'[m]) = Len(wal[n]) + 1
        BY <2>2, <2>3, <3>1
      <4>2. k \in 1..Len(wal[n]) \/ k = Len(wal[n]) + 1
        BY <2>2, <4>1
      <4> QED
        BY <1>3, <2>2, <2>3, <3>1, <4>2 DEF AppliedInv, WalPart
    <3>2. CASE m # n
      BY <2>3, <3>2 DEF AppliedInv, WalPart
    <3> QED
      BY <3>1, <3>2
  <2>5. ASSUME NEW m \in Nodes, NEW k \in 1..Len(wal'[m])
        PROVE  Recorded(raft'[m], wal'[m][k])
    BY <2>4, RecordedStays
  <2> QED
    BY <2>5 DEF WalPart
<1>12. TailPart'
  <2>1. \A m \in Nodes : streams'[m] = IF m = n THEN table ELSE streams[m]
    BY <1>1 DEF Inv, TableInv
  <2>2. ASSUME NEW m \in Nodes, NEW s \in Streams
        PROVE  Cached(raft[m], s, streams'[m][s].tail)
    BY <1>8, <1>9, <2>1 DEF AppliedInv, TailPart
  <2>3. ASSUME NEW m \in Nodes, NEW s \in Streams
        PROVE  Cached(raft'[m], s, streams'[m][s].tail)
    BY <2>2, CachedStays
  <2> QED
    BY <2>3 DEF TailPart
<1>13. SnapPart'
  <2>1. ASSUME NEW s \in Streams PROVE snap.data[s].tail = <<>>
    <3>1. snap.data[s] = SnapshotOf(table[s])
      BY DEF TakeSnapshot, snap
    <3> QED
      BY <1>9, <3>1 DEF SnapshotOf, SoundStreams, StreamStates
  <2>2. Bare(snap)
    BY <2>1 DEF Bare
  <2> QED
    BY <1>1, <2>2 DEF AppliedInv, SnapPart
<1> QED
  BY <1>11, <1>12, <1>13 DEF AppliedInv

-----------------------------------------------------------------------------
LEMMA InitApplied == Init => AppliedInv
<1> SUFFICES ASSUME Init PROVE AppliedInv
  OBVIOUS
<1>1. \A s \in Streams : EmptyTable[s].tail = <<>>
  BY DEF EmptyTable, NewStream
<1>2. Bare(NoSnapshot)
  BY <1>1 DEF Bare, NoSnapshot
<1>3. WalPart
  BY DEF Init, WalPart
<1>4. TailPart
  BY <1>1 DEF Init, TailPart, Cached
<1>5. SnapPart
  BY <1>2 DEF Init, SnapPart, NewDisk
<1> QED
  BY <1>3, <1>4, <1>5 DEF AppliedInv

LEMMA NextApplied ==
  ASSUME Inv, Inv', AppliedInv, Stable, [Next]_vars
  PROVE  AppliedInv'
<1>1. Shapes /\ Shapes'
  BY CoreShapes, PTL DEF Inv
<1>2. ASSUME UNCHANGED <<disk, wal, netVars, streams>> PROVE AppliedInv'
  BY <1>1, <1>2, IdleApplied DEF TailsKept
<1>3. CASE Next
  <2>1. PICK n \in Nodes :
          \/ Request(n) \/ Receive(n) \/ Engine(n) \/ Restart(n)
          \/ \E V \in Electorates, t \in Terms : BecomeLeader(n, V, t)
    BY <1>3 DEF Next
  <2>2. CASE Request(n)
    <3>1. ASSUME NEW w \in Writes, WriteNotLeader(n, w) PROVE AppliedInv'
      BY <1>2, <3>1 DEF WriteNotLeader, engineVars, walVars
    <3>2. ASSUME NEW w \in Writes, NEW s \in Streams, NEW e \in Epochs,
                 WriteFenced(n, w, s, e)
          PROVE  AppliedInv'
      BY <1>2, <3>2 DEF WriteFenced, engineVars, walVars
    <3> QED
      BY <1>1, <2>2, <3>1, <3>2, ProposeApplied, ConsumeApplied DEF Request
  <2>3. CASE Receive(n) \/ Tick(n)
    BY <1>1, <2>3, ReceiveApplied
  <2>4. CASE OpenDone(n) \/ RunGc(n)
    BY <1>2, <2>4 DEF OpenDone, RunGc, engineVars, walVars
  <2>5. CASE ApplyAppendEntry(n) \/ Advance(n) \/ ReplayRecord(n)
    BY <1>1, <2>5, ApplyApplied, AdvanceApplied, ReplayApplied
  <2>6. CASE Restart(n)
    BY <1>1, <2>6, RestartApplied
  <2>7. CASE \E V \in Electorates, t \in Terms : BecomeLeader(n, V, t)
    BY <1>1, <2>7, ElectApplied
  <2> QED
    BY <2>1, <2>2, <2>3, <2>4, <2>5, <2>6, <2>7 DEF Engine
<1>4. CASE UNCHANGED vars
  BY <1>2, <1>4 DEF vars, netVars
<1> QED
  BY <1>3, <1>4

THEOREM AppliedHolds == Spec => [](Inv /\ Replicated /\ AppliedInv)
<1>1. Init => Inv /\ Replicated /\ AppliedInv
  BY InitInv, InitRep, InitApplied
<1>2. Inv /\ Replicated /\ AppliedInv /\ [Next]_vars => (Inv /\ Replicated /\ AppliedInv)'
  BY NextInv, NextRep, NextApplied
<1> QED
  BY <1>1, <1>2, PTL DEF Spec

\* ReplicasAgree: whatever elections, lost or repeated messages, snapshots and
\* crashes happen, what a node has written to its WAL at an index is the entry
\* that every node has there that takes the index for committed.
THEOREM ReplicasNeverDiverge == Spec => []ReplicasAgree
<1>1. Inv /\ Replicated /\ AppliedInv => ReplicasAgree
  <2> SUFFICES ASSUME Inv, Replicated, AppliedInv, NEW n \in Nodes, NEW m \in Nodes,
                      NEW k \in 1..Len(wal[n]), wal[n][k].index <= raft[m].committed
      PROVE  LET x == wal[n][k]
                 c == raft[m].log[x.index].cmd
             IN  /\ c # NoCmd /\ c.w = x.w /\ c.stream = x.stream
                 /\ c.epoch = x.epoch /\ c.lsn = x.lsn
    BY DEF ReplicasAgree
  <2>1. CommittedAgree
    BY ReplicatedAgree
  <2>2. Recorded(raft[n], wal[n][k])
    BY DEF AppliedInv, WalPart
  <2> QED
    BY <2>1, <2>2 DEF Recorded, CommittedAgree
<1> QED
  BY <1>1, AppliedHolds, PTL

\* AppliedIsDurable: when a node has appended a record to its WAL, its raft file
\* already holds that entry as committed.
THEOREM AppliedIsOnDisk == Spec => []AppliedIsDurable
<1>1. Inv /\ AppliedInv => AppliedIsDurable
  <2> SUFFICES ASSUME Inv, AppliedInv, NEW n \in Nodes, NEW i \in 1..Len(wal[n])
      PROVE  LET x == wal[n][i] IN
             /\ x.index <= disk[n].commit
             /\ disk[n].log[x.index].cmd # NoCmd
             /\ disk[n].log[x.index].cmd.w = x.w
    BY DEF AppliedIsDurable
  <2>1. Recorded(raft[n], wal[n][i])
    BY DEF AppliedInv, WalPart
  <2>2. disk[n].log = raft[n].log /\ disk[n].commit = raft[n].committed
    BY DEF Inv, CoreInv, GoodDisk
  <2>3. raft[n].committed \in Nat
    BY DEF Inv, CoreInv, GoodRaft, RaftStates
  <2> QED
    BY <2>1, <2>2, <2>3 DEF Recorded
<1> QED
  BY <1>1, AppliedHolds, PTL

\* what a read returns was committed, and its position lies below commit
LEMMA ReadIsCommitted ==
  ASSUME Inv, FilesInv, AppliedInv, NEW n \in Nodes, NEW s \in Streams, NEW lsn,
         ReadStream(n, s, lsn) # NotFound
  PROVE  /\ Committed(raft[n], s, lsn, ReadStream(n, s, lsn))
         /\ ~BeyondCommit(streams[n][s], lsn)
         /\ TailHits(streams[n][s], lsn) # {} \/ IndexHits(n, s, lsn) # {}
<1> DEFINE st == streams[n][s]
           top == TailHits(st, lsn)
           hits == IndexHits(n, s, lsn)
           w == ReadStream(n, s, lsn)
<1>1. CASE top # {}
  <2> DEFINE i == CHOOSE j \in top : \A k \in top : j <= k
  <2>1. top \in SUBSET Nat
    BY DEF TailHits
  <2>2. i \in top
    <3> HIDE DEF top
    <3>1. \E j \in top : \A k \in top : j <= k
      BY <1>1, <2>1, LeastNat
    <3> QED
      BY <3>1
  <2>3. w = st.tail[i].payload
    BY <1>1 DEF ReadStream, ReadFromTail
  <2> HIDE DEF i, w
  <2>4. i \in 1..Len(st.tail) /\ st.tail[i].lsn = lsn
    BY <2>2 DEF TailHits
  <2>5. Cached(raft[n], s, st.tail)
    BY DEF AppliedInv, TailPart
  <2>6. Committed(raft[n], s, lsn, w)
    BY <2>3, <2>4, <2>5 DEF Cached
  <2> QED
    BY <1>1, <2>6 DEF ReadStream, w
<1>2. CASE top = {}
  <2> DEFINE i == CHOOSE k \in hits : TRUE
  <2>1. hits # {} /\ w = wal[n][i].w
    BY <1>2 DEF ReadStream
  <2>2. i \in hits
    BY <2>1
  <2> HIDE DEF i, w
  <2>3. i \in 1..Len(wal[n]) /\ wal[n][i].stream = s /\ wal[n][i].lsn = lsn
    BY <2>2 DEF IndexHits, FilesInv
  <2>4. Recorded(raft[n], wal[n][i])
    BY <2>3 DEF AppliedInv, WalPart
  <2>5. Committed(raft[n], s, lsn, w)
    BY <2>1, <2>3, <2>4 DEF Recorded, Committed
  <2> QED
    BY <2>1, <2>5 DEF ReadStream, w
<1> QED
  BY <1>1, <1>2

\* ReadsCommitted: what read_stream returns, from the tail cache or through the
\* index, is the payload of a committed entry of that stream and position.
THEOREM ReadsAreCommitted == Spec => []ReadsCommitted
<1>1. Inv /\ FilesInv /\ AppliedInv => ReadsCommitted
  BY ReadIsCommitted DEF ReadsCommitted, Committed
<1> QED
  BY <1>1, AppliedHolds, FilesHold, PTL

-----------------------------------------------------------------------------
LEMMA CommandType ==
  ASSUME NEW l \in Seq(Entries), NEW i \in 1..Len(l), l[i].cmd # NoCmd
  PROVE  /\ l[i].cmd.stream \in Streams /\ l[i].cmd.lsn \in Nat
         /\ l[i].cmd.epoch \in Nat
<1>1. l[i] \in Entries
  BY ElementOfSeq
<1>2. l[i].cmd \in Commands
  BY <1>1 DEF Entries
<1> QED
  BY <1>2, GroupAssumption DEF Commands

LEMMA TableType ==
  ASSUME TableInv, NEW n \in Nodes, NEW s \in Streams
  PROVE  streams[n][s].next \in Nat /\ streams[n][s].max_epoch \in Nat
  BY DEF TableInv, SoundStreams, StreamStates

(***************************************************************************)
(* Every step either keeps the logs of the terms and the leaders, or is a  *)
(* proposal, or an election of a term nobody has won.                      *)
(***************************************************************************)
Proposal(n, w, s, e) ==
  /\ WritePropose(n, w, s, e) /\ ProposeStep(n) /\ CommitsStay
  /\ raft'[n].log = Append(raft[n].log,
       [term |-> raft[n].term,
        cmd |-> [rid |-> requestSeq[n] + 1, w |-> w, stream |-> s,
                 epoch |-> e, lsn |-> streams[n][s].next]])

Election(n, V, t) ==
  /\ BecomeLeader(n, V, t) /\ ElectStep(n, V, t) /\ ~Elected(sent, t)
  /\ raft'[n].log = Append(raft[n].log, [term |-> t, cmd |-> NoCmd])

StepKind ==
  \/ KeepsLogs
  \/ \E n \in Nodes, w \in Writes, s \in Streams, e \in Epochs : Proposal(n, w, s, e)
  \/ \E n \in Nodes, V \in Electorates, t \in Terms : Election(n, V, t)

LEMMA WriteIsProposal ==
  ASSUME Inv, Inv', Replicated, NEW n \in Nodes, NEW w \in Writes, NEW s \in Streams,
         NEW e \in Epochs, WritePropose(n, w, s, e)
  PROVE  Proposal(n, w, s, e)
<1>1. Shapes /\ Shapes'
  BY CoreShapes, PTL DEF Inv
<1>2. PICK L, Q : RepInv(L, Q)
  BY DEF Replicated
<1> QED
  BY <1>1, <1>2, WriteProposeRep DEF Proposal

LEMMA StepKinds ==
  ASSUME Inv, Inv', Replicated, [Next]_vars
  PROVE  StepKind
<1>1. Shapes /\ Shapes'
  BY CoreShapes, PTL DEF Inv
<1>2. PICK L, Q : RepInv(L, Q)
  BY DEF Replicated
<1>3. ASSUME NEW n \in Nodes, UNCHANGED <<raft, netVars>> PROVE KeepsLogs
  BY <1>1, <1>2, <1>3, UnchangedRep
<1>4. CASE Next
  <2>1. PICK n \in Nodes :
          \/ Request(n) \/ Receive(n) \/ Engine(n) \/ Restart(n)
          \/ \E V \in Electorates, t \in Terms : BecomeLeader(n, V, t)
    BY <1>4 DEF Next
  <2>2. CASE Request(n)
    <3>1. ASSUME NEW w \in Writes, WriteNotLeader(n, w) PROVE KeepsLogs
      BY <1>3, <3>1 DEF WriteNotLeader
    <3>2. ASSUME NEW w \in Writes, NEW s \in Streams, NEW e \in Epochs,
                 WriteFenced(n, w, s, e)
          PROVE  KeepsLogs
      BY <1>3, <3>2 DEF WriteFenced
    <3>3. ASSUME NEW w \in Writes, NEW s \in Streams, NEW e \in Epochs,
                 WritePropose(n, w, s, e)
          PROVE  Proposal(n, w, s, e)
      BY <3>3, WriteIsProposal
    <3>4. ASSUME NEW s \in Streams, NEW o \in ConsumerOffsets, Consume(n, s, o)
          PROVE  KeepsLogs
      BY <1>3, <3>4 DEF Consume
    <3> QED
      BY <2>2, <3>1, <3>2, <3>3, <3>4 DEF Request, StepKind
  <2>3. CASE Receive(n)
    <3>1. ASSUME NEW m \in Nodes, StepHigherTerm(n, m) PROVE KeepsLogs
      BY <1>1, <1>2, <3>1, StepHigherTermRep
    <3>2. ASSUME NEW t \in Terms, NEW k \in 1..Len(sent[t].log),
                 NEW c \in 1..sent[t].commit, StepAppend(n, t, k, c)
          PROVE  KeepsLogs
      BY <1>1, <1>2, <3>2, StepAppendRep
    <3>3. ASSUME NEW t \in Terms, StepSnapshotKnown(n, t) PROVE KeepsLogs
      BY <1>1, <1>2, <3>3, StepSnapshotKnownRep
    <3>4. ASSUME NEW t \in Terms, StepSnapshotInstall(n, t) PROVE KeepsLogs
      BY <1>1, <1>2, <3>4, StepSnapshotInstallRep
    <3>5. ASSUME NEW c \in 1..Len(raft[n].log), StepAppendResponse(n, c) PROVE KeepsLogs
      BY <1>1, <1>2, <3>5, StepAppendResponseRep
    <3> QED
      BY <2>3, <3>1, <3>2, <3>3, <3>4, <3>5 DEF Receive, StepKind
  <2>4. CASE ReplayRecord(n) \/ OpenDone(n) \/ RunGc(n)
    BY <1>3, <2>4 DEF ReplayRecord, OpenDone, RunGc, StepKind
  <2>5. CASE Tick(n) \/ ApplyAppendEntry(n) \/ Advance(n) \/ Restart(n)
    BY <1>1, <1>2, <2>5, TickRep, ApplyAppendEntryRep, AdvanceRep, RestartRep DEF StepKind
  <2>6. ASSUME NEW V \in Electorates, NEW t \in Terms, BecomeLeader(n, V, t)
        PROVE  Election(n, V, t)
    <3>1. /\ raft'[n].log = Append(raft[n].log, [term |-> t, cmd |-> NoCmd])
          /\ ElectStep(n, V, t)
      BY <1>1, <1>2, <2>6, BecomeLeaderRep
    <3>2. Elected(sent, t) => t < t
      BY <1>1, <1>2, <3>1, ElectFresh DEF RepInv
    <3>3. t \in Nat
      BY TermIsNat
    <3> QED
      BY <2>6, <3>1, <3>2, <3>3 DEF Election
  <2> QED
    BY <2>1, <2>2, <2>3, <2>4, <2>5, <2>6 DEF Engine, StepKind
<1>5. CASE UNCHANGED vars
  <2>1. PICK n : n \in Nodes
    <3>1. Nodes # {}
      BY GroupAssumption, FS_EmptySet
    <3> QED
      BY <3>1
  <2> QED
    BY <1>3, <1>5, <2>1 DEF vars, netVars, StepKind
<1> QED
  BY <1>4, <1>5

(***************************************************************************)
(* What a proposal or an election adds to a log.                           *)
(***************************************************************************)
\* m is l with one more entry of the given command and term
Extends(l, m, term, cmd) ==
  /\ l \in Seq(Entries) /\ m \in Seq(Entries)
  /\ Len(l) \in Nat /\ Len(m) = Len(l) + 1
  /\ m[Len(l) + 1].term = term /\ m[Len(l) + 1].cmd = cmd
  /\ \A i \in 1..Len(l) : m[i] = l[i]

Proposed(n, w, s, e) ==
  [rid |-> requestSeq[n] + 1, w |-> w, stream |-> s, epoch |-> e, lsn |-> streams[n][s].next]

LEMMA ProposalView ==
  ASSUME Inv, Replicated, NEW n \in Nodes, NEW w \in Writes, NEW s \in Streams,
         NEW e \in Epochs, Proposal(n, w, s, e)
  PROVE  /\ raft[n].role = "leader" /\ raft[n].term \in Terms
         /\ sent[raft[n].term].log = raft[n].log
         /\ Proposed(n, w, s, e) \in Commands /\ Proposed(n, w, s, e) # NoCmd
         /\ Extends(raft[n].log, raft'[n].log, raft[n].term, Proposed(n, w, s, e))
         /\ \A t \in Terms :
              sent'[t].log = IF t = raft[n].term THEN raft'[n].log ELSE sent[t].log
         /\ \A m \in Nodes : raft'[m].term = raft[m].term /\ raft'[m].role = raft[m].role
         /\ \A m \in Nodes \ {n} : raft'[m].log = raft[m].log
<1> DEFINE c == Proposed(n, w, s, e)
           l == raft[n].log
           x == [term |-> raft[n].term, cmd |-> c]
<1>1. l \in Seq(Entries) /\ Len(l) \in Nat /\ raft[n].term \in Terms
  BY CoreShapes DEF Inv, Shapes
<1>2. /\ raft[n].role = "leader" /\ ProposeStep(n)
      /\ raft'[n].log = Append(l, x)
  BY DEF Proposal, ProposeStep, Proposed
<1>3. sent[raft[n].term].log = l
  BY <1>2 DEF Replicated, RepInv, LogInv, LeaderPart
<1>4. c \in Commands
  <2>1. requestSeq[n] + 1 \in Nat /\ streams[n][s].next \in Nat
    BY TableType DEF Inv, ClientInv
  <2> QED
    BY <2>1 DEF Commands, Proposed
<1>5. c # NoCmd
  BY <1>4, GroupAssumption
<1> HIDE DEF c
<1>6. x \in Entries /\ x.term = raft[n].term /\ x.cmd = c
  BY <1>1, <1>4 DEF Entries
<1> HIDE DEF x
<1>7. Extends(l, raft'[n].log, raft[n].term, c)
  BY <1>1, <1>2, <1>6, AppendProperties DEF Extends
<1> QED
  BY <1>1, <1>2, <1>3, <1>4, <1>5, <1>7 DEF ProposeStep, c

LEMMA ElectionView ==
  ASSUME Inv, Replicated, NEW n \in Nodes, NEW V \in Electorates, NEW t \in Terms,
         Election(n, V, t)
  PROVE  /\ Extends(raft[n].log, raft'[n].log, t, NoCmd) /\ raft[n].term < t
         /\ \A i \in 1..Len(raft[n].log) : raft[n].log[i].term < t
         /\ \A u \in Terms : sent'[u].log = IF u = t THEN raft'[n].log ELSE sent[u].log
         /\ Len(sent[t].log) = 0
<1> DEFINE l == raft[n].log
           x == [term |-> t, cmd |-> NoCmd]
<1>1. /\ l \in Seq(Entries) /\ Len(l) \in Nat /\ raft[n].term \in Terms
      /\ Len(sent[t].log) \in Nat
  BY CoreShapes DEF Inv, Shapes
<1>2. x \in Entries /\ x.term = t /\ x.cmd = NoCmd
  BY DEF Entries
<1>3. raft'[n].log = Append(l, x)
  BY DEF Election
<1> HIDE DEF x
<1>4. Extends(l, raft'[n].log, t, NoCmd)
  BY <1>1, <1>2, <1>3, AppendProperties DEF Extends
<1>5. raft[n].term < t
  BY DEF Election, ElectStep
<1>6. ASSUME NEW i \in 1..Len(l) PROVE l[i].term < t
  <2>1. l[i].term <= raft[n].term
    BY DEF Replicated, RepInv, LogInv, NodeLogs, Matches
  <2>2. l[i].term \in Nat /\ raft[n].term \in Nat /\ t \in Nat
    BY <1>1, EntryTerm, TermIsNat
  <2> QED
    BY <1>5, <2>1, <2>2
<1>7. Len(sent[t].log) = 0
  BY <1>1 DEF Election, Elected
<1> QED
  BY <1>4, <1>5, <1>6, <1>7 DEF Election, ElectStep

LEMMA SentGrows ==
  ASSUME Inv, Inv', Replicated, [Next]_vars
  PROVE  SentShape(sent) /\ SentShape(sent') /\ Grown(sent, sent')
<1>1. SentShape(sent) /\ SentShape(sent')
  <2>1. Shapes /\ Shapes'
    BY CoreShapes, PTL DEF Inv
  <2> QED
    BY <2>1 DEF Shapes, SentShape
<1>2. CASE KeepsLogs
  BY <1>1, <1>2 DEF KeepsLogs, Grown, SentShape
<1>3. ASSUME NEW n \in Nodes, NEW w \in Writes, NEW s \in Streams, NEW e \in Epochs,
             Proposal(n, w, s, e)
      PROVE  Grown(sent, sent')
  <2>1. /\ sent[raft[n].term].log = raft[n].log
        /\ Extends(raft[n].log, raft'[n].log, raft[n].term, Proposed(n, w, s, e))
        /\ \A t \in Terms :
             sent'[t].log = IF t = raft[n].term THEN raft'[n].log ELSE sent[t].log
    BY <1>3, ProposalView
  <2> SUFFICES ASSUME NEW t \in Terms
      PROVE  /\ Len(sent[t].log) <= Len(sent'[t].log)
             /\ \A j \in 1..Len(sent[t].log) : sent'[t].log[j] = sent[t].log[j]
    BY DEF Grown
  <2>2. CASE t = raft[n].term
    <3>1. sent[t].log = raft[n].log /\ sent'[t].log = raft'[n].log
      BY <2>1, <2>2
    <3> QED
      BY <2>1, <3>1 DEF Extends
  <2>3. CASE t # raft[n].term
    BY <1>1, <2>1, <2>3 DEF SentShape
  <2> QED
    BY <2>2, <2>3
<1>4. ASSUME NEW n \in Nodes, NEW V \in Electorates, NEW t \in Terms, Election(n, V, t)
      PROVE  Grown(sent, sent')
  <2>1. /\ \A u \in Terms : sent'[u].log = IF u = t THEN raft'[n].log ELSE sent[u].log
        /\ Len(sent[t].log) = 0
    BY <1>4, ElectionView
  <2> QED
    BY <1>1, <2>1 DEF Grown, SentShape
<1>5. StepKind
  BY StepKinds
<1>6. Grown(sent, sent')
  BY <1>2, <1>3, <1>4, <1>5 DEF StepKind
<1> QED
  BY <1>1, <1>6


-----------------------------------------------------------------------------
(***************************************************************************)
(* Where the terms of the nodes and the entries of the logs come from.     *)
(***************************************************************************)
\* an entry with a command at i of a log was proposed by the leader of its term
Sourced(S, l, i) ==
  /\ l[i].term \in Terms /\ Elected(S, l[i].term)
  /\ i \in 1..Len(S[l[i].term].log)
  /\ \A j \in 1..i : l[j] = S[l[i].term].log[j]

LEMMA MatchSourced ==
  ASSUME NEW S, SentShape(S), NEW l \in Seq(Entries), NEW t, Matches(S, l, t),
         NEW i \in 1..Len(l), l[i].cmd # NoCmd
  PROVE  Sourced(S, l, i)
<1> DEFINE v == l[i].term
<1>1. v \in Terms /\ i \in Nat \ {0}
  BY EntryTerm, LenProperties
<1>2. i <= Len(Src(S, v)) /\ \A j \in 1..i : l[j] = Src(S, v)[j]
  BY DEF Matches
<1>3. v # 1
  <2> SUFFICES ASSUME v = 1 PROVE FALSE
    OBVIOUS
  <2>1. Len(Src(S, v)) = 1 /\ Src(S, v)[1].cmd = NoCmd
    BY <1>1, SrcFacts
  <2>2. i = 1
    BY <1>1, <1>2, <2>1
  <2> QED
    BY <1>2, <2>1, <2>2
<1>4. Src(S, v) = S[v].log /\ Len(S[v].log) \in Nat
  BY <1>1, <1>3, SrcFacts DEF SentShape
<1> HIDE DEF v
<1>5. i \in 1..Len(S[v].log) /\ Len(S[v].log) > 0 /\ \A j \in 1..i : l[j] = S[v].log[j]
  BY <1>1, <1>2, <1>4
<1> QED
  BY <1>1, <1>5 DEF Sourced, Elected, v

LEMMA NodeSourced ==
  ASSUME Inv, Replicated, NEW n \in Nodes, NEW i \in 1..Len(raft[n].log),
         raft[n].log[i].cmd # NoCmd
  PROVE  Sourced(sent, raft[n].log, i)
<1>1. SentShape(sent) /\ raft[n].log \in Seq(Entries)
  BY CoreShapes, ShapesSent DEF Inv, Shapes
<1>2. Matches(sent, raft[n].log, raft[n].term)
  BY DEF Replicated, RepInv, LogInv, NodeLogs
<1> QED
  BY <1>1, <1>2, MatchSourced

LEMMA SentSourced ==
  ASSUME Inv, Replicated, NEW t \in Terms, NEW i \in 1..Len(sent[t].log),
         sent[t].log[i].cmd # NoCmd
  PROVE  Sourced(sent, sent[t].log, i)
<1>1. SentShape(sent) /\ sent[t].log \in Seq(Entries)
  BY CoreShapes, ShapesSent DEF Inv, Shapes
<1>2. Matches(sent, sent[t].log, t)
  BY DEF Replicated, RepInv, LogInv, TermLogs
<1> QED
  BY <1>1, <1>2, MatchSourced

LEMMA LeaderElected ==
  ASSUME Inv, Replicated, NEW n \in Nodes, raft[n].role = "leader"
  PROVE  Elected(sent, raft[n].term) /\ raft[n].term \in Terms
<1>1. raft[n].term \in Terms
  BY CoreShapes DEF Inv, Shapes
<1>2. Len(raft[n].log) > 0 /\ sent[raft[n].term].log = raft[n].log
  BY DEF Replicated, RepInv, LogInv, NodeLogs, LeaderPart
<1> QED
  BY <1>1, <1>2 DEF Elected

\* no two nodes lead the same term
LEMMA LeaderOfTerm ==
  ASSUME Replicated, NEW n \in Nodes, NEW m \in Nodes, raft[n].role = "leader",
         raft[m].role = "leader", raft[n].term = raft[m].term
  PROVE  n = m
  BY DEF Replicated, RepInv, LogInv, LeaderPart

LEMMA ElectedStays ==
  ASSUME NEW S, NEW T, SentShape(S), SentShape(T), Grown(S, T), NEW t \in Terms, Elected(S, t)
  PROVE  Elected(T, t)
<1>1. Len(S[t].log) \in Nat /\ Len(T[t].log) \in Nat /\ Len(S[t].log) <= Len(T[t].log)
  BY DEF SentShape, Grown
<1> QED
  BY <1>1 DEF Elected

-----------------------------------------------------------------------------
(***************************************************************************)
(* The positions a leader hands out.  In the log of a term the positions   *)
(* of a stream ascend; while the leader leads, its table lies above all of *)
(* them.                                                                   *)
(***************************************************************************)
Ascends(l, t) ==
  \A i, j \in 1..Len(l) :
    (/\ i < j /\ l[i].term = t /\ l[j].term = t
     /\ l[i].cmd # NoCmd /\ l[j].cmd # NoCmd /\ l[i].cmd.stream = l[j].cmd.stream)
    => l[i].cmd.lsn < l[j].cmd.lsn /\ l[i].cmd.epoch <= l[j].cmd.epoch

Below(l, t, table) ==
  \A i \in 1..Len(l) :
    l[i].term = t /\ l[i].cmd # NoCmd =>
      /\ l[i].cmd.lsn < table[l[i].cmd.stream].next
      /\ l[i].cmd.epoch <= table[l[i].cmd.stream].max_epoch

PosPart ==
  /\ \A t \in Terms : Ascends(sent[t].log, t)
  /\ \A n \in Nodes :
       raft[n].role = "leader" => Below(raft[n].log, raft[n].term, streams[n])

\* the table of node n does not move back
Forward(n) ==
  \A s \in Streams : /\ streams[n][s].next <= streams'[n][s].next
                     /\ streams[n][s].max_epoch <= streams'[n][s].max_epoch

TablesNat ==
  \A n \in Nodes, s \in Streams :
    streams[n][s].next \in Nat /\ streams[n][s].max_epoch \in Nat

LEMMA TablesAreNat == TableInv => TablesNat
  BY TableType DEF TablesNat

LEMMA KeepsPos ==
  ASSUME Inv, Inv', KeepsLogs, PosPart,
         \A m \in Nodes : raft'[m].role = "leader" => Forward(m)
  PROVE  PosPart'
<1>1. ASSUME NEW n \in Nodes, raft'[n].role = "leader"
      PROVE  Below(raft'[n].log, raft'[n].term, streams'[n])
  <2>1. /\ raft[n].role = "leader" /\ raft'[n].log = raft[n].log
        /\ raft'[n].term = raft[n].term /\ Forward(n)
    BY <1>1 DEF KeepsLogs
  <2>2. Below(raft[n].log, raft[n].term, streams[n])
    BY <2>1 DEF PosPart
  <2>3. \A s \in Streams : /\ streams[n][s].next \in Nat /\ streams[n][s].max_epoch \in Nat
                           /\ streams'[n][s].next \in Nat /\ streams'[n][s].max_epoch \in Nat
    <3>1. TablesNat /\ TablesNat'
      BY TablesAreNat, PTL DEF Inv
    <3> QED
      BY <3>1 DEF TablesNat
  <2>4. raft[n].log \in Seq(Entries)
    BY DEF Inv, CoreInv, RaftStates
  <2> SUFFICES ASSUME NEW i \in 1..Len(raft[n].log), raft[n].log[i].term = raft[n].term,
                      raft[n].log[i].cmd # NoCmd
      PROVE  /\ raft[n].log[i].cmd.lsn < streams'[n][raft[n].log[i].cmd.stream].next
             /\ raft[n].log[i].cmd.epoch <= streams'[n][raft[n].log[i].cmd.stream].max_epoch
    BY <2>1 DEF Below
  <2>5. /\ raft[n].log[i].cmd.lsn < streams[n][raft[n].log[i].cmd.stream].next
        /\ raft[n].log[i].cmd.epoch <= streams[n][raft[n].log[i].cmd.stream].max_epoch
    BY <2>2 DEF Below
  <2>6. /\ raft[n].log[i].cmd.stream \in Streams /\ raft[n].log[i].cmd.lsn \in Nat
        /\ raft[n].log[i].cmd.epoch \in Nat
    BY <2>4, CommandType
  <2> DEFINE c == raft[n].log[i].cmd
  <2>7. c.stream \in Streams /\ c.lsn \in Nat /\ c.epoch \in Nat
    BY <2>6
  <2>8. c.lsn < streams[n][c.stream].next /\ c.epoch <= streams[n][c.stream].max_epoch
    BY <2>5
  <2> HIDE DEF c
  <2>9. c.lsn < streams'[n][c.stream].next /\ c.epoch <= streams'[n][c.stream].max_epoch
    BY <2>1, <2>3, <2>7, <2>8 DEF Forward
  <2> QED
    BY <2>9 DEF c
<1>2. ASSUME NEW t \in Terms PROVE Ascends(sent'[t].log, t)
  BY DEF KeepsLogs, PosPart
<1> QED
  BY <1>1, <1>2 DEF PosPart

\* a new leader has proposed nothing yet
LEMMA ElectPos ==
  ASSUME Inv, Inv', NEW L, NEW Q, RepInv(L, Q), PosPart, NEW n \in Nodes,
         NEW V \in Electorates, NEW t \in Terms, BecomeLeader(n, V, t)
  PROVE  PosPart'
<1>1. Shapes /\ Shapes'
  BY CoreShapes, PTL DEF Inv
<1>2. /\ raft'[n].log = Append(raft[n].log, [term |-> t, cmd |-> NoCmd])
      /\ ElectStep(n, V, t)
  BY <1>1, BecomeLeaderRep
<1> DEFINE l == raft'[n].log
<1>3. \A i \in 1..Len(l) : l[i].term = t => l[i].cmd = NoCmd
  <2> DEFINE e == [term |-> t, cmd |-> NoCmd]
  <2>1. raft[n].log \in Seq(Entries) /\ e \in Entries /\ e.cmd = NoCmd
    BY <1>1 DEF Shapes, Entries
  <2>2. l = Append(raft[n].log, e)
    BY <1>2
  <2> HIDE DEF e
  <2>3. /\ Len(l) = Len(raft[n].log) + 1 /\ Len(raft[n].log) \in Nat
        /\ l[Len(raft[n].log) + 1] = e
        /\ \A i \in 1..Len(raft[n].log) : l[i] = raft[n].log[i]
    BY <2>1, <2>2, AppendProperties, LenProperties
  <2>4. ASSUME NEW i \in 1..Len(raft[n].log) PROVE raft[n].log[i].term # t
    <3>1. Matches(sent, raft[n].log, raft[n].term)
      BY DEF RepInv, LogInv, NodeLogs
    <3>2. raft[n].log[i].term <= raft[n].term /\ raft[n].term < t
      BY <3>1 DEF Matches, BecomeLeader
    <3>3. raft[n].log[i].term \in Nat /\ raft[n].term \in Nat /\ t \in Nat
      BY <1>1, <2>1, EntryTerm, TermIsNat DEF Shapes
    <3> QED
      BY <3>2, <3>3
  <2> HIDE DEF l
  <2>5. \A i \in 1..Len(l) : i \in 1..Len(raft[n].log) \/ i = Len(raft[n].log) + 1
    BY <2>3
  <2> QED
    BY <2>1, <2>3, <2>4, <2>5
<1>4. /\ streams' = streams
      /\ \A u \in Terms : sent'[u].log = IF u = t THEN l ELSE sent[u].log
      /\ \A m \in Nodes : m # n /\ raft'[m].role = "leader" =>
           /\ raft[m].role = "leader" /\ raft'[m].log = raft[m].log
           /\ raft'[m].term = raft[m].term
      /\ raft'[n].term = t
  BY <1>2 DEF ElectStep, BecomeLeader, engineVars, walVars
<1> HIDE DEF l
<1>5. ASSUME NEW u \in Terms PROVE Ascends(sent'[u].log, u)
  <2>1. Ascends(l, t)
    BY <1>3 DEF Ascends
  <2> QED
    BY <1>4, <2>1 DEF PosPart
<1>6. ASSUME NEW m \in Nodes, raft'[m].role = "leader"
      PROVE  Below(raft'[m].log, raft'[m].term, streams'[m])
  <2>1. Below(l, t, streams'[n])
    BY <1>3 DEF Below
  <2> QED
    BY <1>4, <1>6, <2>1 DEF PosPart, l
<1> QED
  BY <1>5, <1>6 DEF PosPart

LEMMA ProposePos ==
  ASSUME Inv, Inv', NEW L, NEW Q, RepInv(L, Q), PosPart, NEW n \in Nodes, NEW w \in Writes,
         NEW s \in Streams, NEW epoch \in Epochs, WritePropose(n, w, s, epoch)
  PROVE  PosPart'
<1> DEFINE c == [rid |-> requestSeq[n] + 1, w |-> w, stream |-> s,
                 epoch |-> epoch, lsn |-> streams[n][s].next]
           e == [term |-> raft[n].term, cmd |-> c]
           l == raft[n].log
           m == raft'[n].log
           t == raft[n].term
           st == AllocateAppend(streams[n][s], epoch)
<1>1. Shapes /\ Shapes'
  BY CoreShapes, PTL DEF Inv
<1>2. m = Append(l, e) /\ ProposeStep(n)
  BY <1>1, WriteProposeRep
<1>3. /\ streams[n][s] \in SoundStreams /\ streams[n][s].next \in Nat
      /\ streams[n][s].max_epoch \in Nat /\ epoch \in Nat /\ streams[n][s].max_epoch <= epoch
  <2>1. /\ streams[n][s] \in SoundStreams /\ streams[n][s].next \in Nat
        /\ streams[n][s].max_epoch \in Nat /\ epoch \in Nat
    BY GroupAssumption, TableType DEF Inv, TableInv
  <2>2. ~(epoch < streams[n][s].max_epoch)
    BY DEF WritePropose, Fenced
  <2> QED
    BY <2>1, <2>2
<1>4. /\ c \in Commands /\ c # NoCmd /\ c.stream = s /\ c.epoch = epoch
      /\ c.lsn = streams[n][s].next
  <2>1. requestSeq[n] + 1 \in Nat
    BY DEF Inv, ClientInv
  <2> QED
    BY <1>3, <2>1, GroupAssumption DEF Commands
<1> HIDE DEF c
<1>5. e \in Entries /\ e.term = t /\ e.cmd = c
  BY <1>1, <1>4 DEF Shapes, Entries
<1> HIDE DEF e
<1>6. l \in Seq(Entries) /\ t \in Terms /\ raft[n].role = "leader"
  BY <1>1 DEF Shapes, WritePropose, IsLeader
<1>7. /\ Len(m) = Len(l) + 1 /\ Len(l) \in Nat /\ m[Len(l) + 1] = e
      /\ \A i \in 1..Len(l) : m[i] = l[i]
  BY <1>2, <1>5, <1>6, AppendProperties, LenProperties
<1>8. /\ \A u \in Terms : sent'[u].log = IF u = t THEN m ELSE sent[u].log
      /\ \A k \in Nodes : raft'[k].role = raft[k].role /\ raft'[k].term = raft[k].term
      /\ \A k \in Nodes : k # n => raft'[k].log = raft[k].log
      /\ sent[t].log = l
  BY <1>2, <1>6 DEF ProposeStep, RepInv, LogInv, LeaderPart
<1>9. Below(l, t, streams[n]) /\ Ascends(l, t)
  BY <1>6, <1>8 DEF PosPart
<1>10. \A k \in Nodes, u \in Streams :
         streams'[k][u] = IF k = n /\ u = s THEN st ELSE streams[k][u]
  <2>1. st \in SoundStreams
    BY <1>3, AllocateSound
  <2>2. streams' = [streams EXCEPT ![n][s] = st]
    BY DEF WritePropose
  <2> HIDE DEF st
  <2> QED
    BY <2>1, <2>2, StreamStep DEF Inv
<1>11. st.next = streams[n][s].next + 1 /\ st.max_epoch = epoch
  BY DEF AllocateAppend
<1>12. ASSUME NEW i \in 1..Len(l), l[i].term = t, l[i].cmd # NoCmd
       PROVE  /\ l[i].cmd.stream \in Streams /\ l[i].cmd.lsn \in Nat /\ l[i].cmd.epoch \in Nat
              /\ l[i].cmd.lsn < streams[n][l[i].cmd.stream].next
              /\ l[i].cmd.epoch <= streams[n][l[i].cmd.stream].max_epoch
  BY <1>6, <1>9, <1>12, CommandType DEF Below
<1> HIDE DEF l, m, st, t
<1>13. \A i \in 1..Len(m) : i \in 1..Len(l) \/ i = Len(l) + 1
  BY <1>7
<1>14. Below(m, t, streams'[n])
  <2> SUFFICES ASSUME NEW i \in 1..Len(m), m[i].term = t, m[i].cmd # NoCmd
      PROVE  /\ m[i].cmd.lsn < streams'[n][m[i].cmd.stream].next
             /\ m[i].cmd.epoch <= streams'[n][m[i].cmd.stream].max_epoch
    BY DEF Below
  <2>1. CASE i = Len(l) + 1
    <3>1. m[i].cmd = c
      BY <1>5, <1>7, <2>1
    <3> QED
      BY <1>3, <1>4, <1>10, <1>11, <3>1
  <2>2. CASE i \in 1..Len(l)
    <3> DEFINE d == l[i].cmd
    <3>1. /\ m[i].cmd = d /\ d.stream \in Streams /\ d.lsn \in Nat /\ d.epoch \in Nat
          /\ d.lsn < streams[n][d.stream].next
          /\ d.epoch <= streams[n][d.stream].max_epoch
      BY <1>7, <1>12, <2>2
    <3> HIDE DEF d
    <3>2. CASE d.stream = s
      BY <1>3, <1>10, <1>11, <3>1, <3>2
    <3>3. CASE d.stream # s
      BY <1>10, <3>1, <3>3
    <3> QED
      BY <3>2, <3>3
  <2> QED
    BY <1>13, <2>1, <2>2
<1>15. Ascends(m, t)
  <2> SUFFICES ASSUME NEW i \in 1..Len(m), NEW j \in 1..Len(m), i < j,
                      m[i].term = t, m[j].term = t, m[i].cmd # NoCmd, m[j].cmd # NoCmd,
                      m[i].cmd.stream = m[j].cmd.stream
      PROVE  m[i].cmd.lsn < m[j].cmd.lsn /\ m[i].cmd.epoch <= m[j].cmd.epoch
    BY DEF Ascends
  <2>1. i \in 1..Len(l)
    BY <1>7
  <2>2. CASE j = Len(l) + 1
    <3>1. m[j].cmd = c /\ m[i] = l[i]
      BY <1>5, <1>7, <2>1, <2>2
    <3>2. /\ l[i].cmd.lsn \in Nat /\ l[i].cmd.epoch \in Nat
          /\ l[i].cmd.lsn < streams[n][s].next /\ l[i].cmd.epoch <= streams[n][s].max_epoch
      BY <1>4, <1>12, <2>1, <3>1
    <3> QED
      BY <1>3, <1>4, <3>1, <3>2
  <2>3. CASE j \in 1..Len(l)
    BY <1>7, <1>9, <2>1, <2>3 DEF Ascends
  <2> QED
    BY <1>13, <2>2, <2>3
<1>16. ASSUME NEW u \in Terms PROVE Ascends(sent'[u].log, u)
  BY <1>8, <1>15 DEF PosPart
<1>17. ASSUME NEW k \in Nodes, raft'[k].role = "leader"
       PROVE  Below(raft'[k].log, raft'[k].term, streams'[k])
  <2>1. CASE k = n
    BY <1>8, <1>14, <2>1 DEF m, t
  <2>2. CASE k # n
    <3>1. /\ raft'[k].log = raft[k].log /\ raft'[k].term = raft[k].term
          /\ Below(raft[k].log, raft[k].term, streams[k])
      BY <1>8, <1>17, <2>2 DEF PosPart
    <3>2. streams'[k] = streams[k]
      BY <2>2 DEF WritePropose, Inv, TableInv
    <3> QED
      BY <3>1, <3>2
  <2> QED
    BY <2>1, <2>2
<1> QED
  BY <1>16, <1>17 DEF PosPart

\* while a node leads its table only moves forward
LEMMA TablesForward ==
  ASSUME Inv, Inv', KeepsLogs, NEW n \in Nodes,
         \/ Receive(n) \/ Engine(n) \/ Restart(n)
         \/ \E s \in Streams, o \in ConsumerOffsets : Consume(n, s, o)
  PROVE  \A m \in Nodes : raft'[m].role = "leader" => Forward(m)
<1>1. TablesNat
  BY TablesAreNat DEF Inv
<1>2. ASSUME NEW m \in Nodes, streams'[m] = streams[m] PROVE Forward(m)
  BY <1>1, <1>2 DEF Forward, TablesNat
<1>3. CASE streams' = streams
  BY <1>2, <1>3
<1>4. ASSUME NEW s \in Streams, NEW st \in SoundStreams,
             streams' = [streams EXCEPT ![n][s] = st], streams[n][s].next <= st.next,
             streams[n][s].max_epoch <= st.max_epoch
      PROVE  \A m \in Nodes : Forward(m)
  <2>1. \A m \in Nodes, u \in Streams :
          streams'[m][u] = IF m = n /\ u = s THEN st ELSE streams[m][u]
    BY <1>4, StreamStep DEF Inv
  <2> QED
    BY <1>1, <1>4, <2>1 DEF Forward, TablesNat
<1>5. ASSUME NEW st \in SoundStreams, NEW e \in Nat, NEW i \in Nat, NEW l \in Nat,
             NEW w \in Writes
      PROVE  LET q == MarkCommitted(MarkAppended(st, e, i, l, w), i, l)
             IN  q \in SoundStreams /\ st.next <= q.next /\ st.max_epoch <= q.max_epoch
  <2> DEFINE q == MarkCommitted(MarkAppended(st, e, i, l, w), i, l)
  <2>1. /\ st.next \in Nat /\ st.max_epoch \in Nat /\ q \in SoundStreams
    BY MarkSound DEF SoundStreams, StreamStates
  <2>2. q.next = Max2(st.next, l + 1) /\ q.max_epoch = Max2(st.max_epoch, e)
    BY DEF MarkCommitted, MarkAppended
  <2> HIDE DEF q
  <2>3. st.next <= q.next /\ st.max_epoch <= q.max_epoch
    BY <2>1, <2>2 DEF Max2
  <2> QED
    BY <2>1, <2>3 DEF q
<1>6. ASSUME NEW s \in Streams, NEW o \in ConsumerOffsets, Consume(n, s, o)
      PROVE  \A m \in Nodes : Forward(m)
  <2> DEFINE st == AdvanceConsumed(streams[n][s], o)
  <2>1. streams[n][s] \in SoundStreams /\ o \in Nat
    BY GroupAssumption DEF Inv, TableInv
  <2>2. /\ st \in SoundStreams /\ st.next = streams[n][s].next
        /\ st.max_epoch = streams[n][s].max_epoch
    BY <2>1, ConsumeSound DEF AdvanceConsumed
  <2>3. streams' = [streams EXCEPT ![n][s] = st]
    BY <1>6 DEF Consume
  <2>4. streams[n][s].next \in Nat /\ streams[n][s].max_epoch \in Nat
    BY <1>1 DEF TablesNat
  <2>5. streams[n][s].next <= st.next /\ streams[n][s].max_epoch <= st.max_epoch
    BY <2>2, <2>4
  <2> HIDE DEF st
  <2> QED
    BY <1>4, <2>2, <2>3, <2>5
<1>7. CASE ReplayRecord(n)
  <2>0. PICK k \in 1..Len(wal[n]) :
          /\ wal[n][k] \in WalRecords /\ pc[n] = "open"
          /\ streams' = [streams EXCEPT ![n][wal[n][k].stream] =
                           Replayed(streams[n][wal[n][k].stream], disk[n], wal[n][k])]
          /\ cursor' = [cursor EXCEPT ![n] = k + 1]
          /\ UNCHANGED <<raft, disk, wal, pc, netVars>>
    BY <1>7, ReplayView
  <2> DEFINE x == wal[n][k]
             old == streams[n][x.stream]
             st == Replayed(old, disk[n], x)
  <2>1. streams' = [streams EXCEPT ![n][x.stream] = st]
    BY <2>0
  <2>2. x \in WalRecords
    BY <2>0
  <2> HIDE DEF x
  <2>3. /\ x.stream \in Streams /\ x.epoch \in Nat /\ x.index \in Nat
        /\ x.lsn \in Nat /\ x.w \in Writes
    BY <2>2, GroupAssumption DEF WalRecords
  <2>4. old \in SoundStreams /\ old.next \in Nat /\ old.max_epoch \in Nat
    BY <1>1, <2>3 DEF Inv, TableInv, TablesNat
  <2> HIDE DEF old
  <2>5. st \in SoundStreams /\ old.next <= st.next /\ old.max_epoch <= st.max_epoch
    <3>1. CASE x.index > ReplayFrom(disk[n])
      <4>1. st = MarkCommitted(MarkAppended(old, x.epoch, x.index, x.lsn, x.w), x.index, x.lsn)
        BY <3>1 DEF Replayed, ObserveRecovered
      <4> HIDE DEF st
      <4> QED
        BY <1>5, <2>3, <2>4, <4>1
    <3>2. CASE ~(x.index > ReplayFrom(disk[n]))
      BY <2>4, <3>2 DEF Replayed
    <3> QED
      BY <3>1, <3>2
  <2> HIDE DEF st
  <2> QED
    BY <1>4, <2>1, <2>3, <2>5 DEF old
<1>8. CASE ApplyAppendEntry(n)
  <2> DEFINE todo == ToApply(raft[n], cursor[n])
             i == CHOOSE j \in todo : \A k \in todo : j <= k
             c == raft[n].log[i].cmd
             old == streams[n][c.stream]
             st == Applied(old, i, c)
  <2>1. todo # {} /\ streams' = [streams EXCEPT ![n] = [streams[n] EXCEPT ![c.stream] = st]]
    BY <1>8 DEF ApplyAppendEntry
  <2>2. i \in Nat /\ i \in 1..Len(raft[n].log) /\ raft[n].log \in Seq(Entries) /\ c # NoCmd
    <3>1. /\ raft[n].log \in Seq(Entries) /\ Len(raft[n].log) \in Nat
          /\ raft[n].since \in Nat /\ raft[n].since <= raft[n].committed
          /\ raft[n].committed \in Nat /\ raft[n].committed <= Len(raft[n].log)
          /\ cursor[n] \in Nat \ {0}
      BY LenProperties DEF Inv, CoreInv, GoodRaft, RaftStates
    <3>2. \A j \in todo : j \in Nat \ {0} /\ j <= raft[n].since /\ raft[n].log[j].cmd # NoCmd
      BY <3>1 DEF ToApply
    <3>3. todo \in SUBSET Nat
      BY <3>2
    <3> HIDE DEF todo
    <3>4. \E j \in todo : \A k \in todo : j <= k
      BY <2>1, <3>3, LeastNat
    <3>5. i \in todo
      BY <3>4
    <3> HIDE DEF i
    <3> QED
      BY <3>1, <3>2, <3>5
  <2> HIDE DEF todo, i
  <2>3. c \in Commands
    <3>1. raft[n].log[i] \in Entries
      BY <2>2, ElementOfSeq
    <3> QED
      BY <2>2, <3>1 DEF Entries
  <2> HIDE DEF c
  <2>4. c.stream \in Streams /\ c.epoch \in Nat /\ c.lsn \in Nat /\ c.w \in Writes
    BY <2>3, GroupAssumption DEF Commands
  <2>5. old \in SoundStreams
    BY <2>4 DEF Inv, TableInv
  <2> HIDE DEF old
  <2>6. st \in SoundStreams /\ old.next <= st.next /\ old.max_epoch <= st.max_epoch
    BY <1>5, <2>2, <2>4, <2>5 DEF Applied
  <2> HIDE DEF st
  <2>7. streams' = [streams EXCEPT ![n][c.stream] = st]
    BY <2>1
  <2> QED
    BY <1>4, <2>4, <2>6, <2>7 DEF old
<1>9. CASE Advance(n)
  <2>1. CASE Deposed(n)
    <3>1. ASSUME NEW m \in Nodes \ {n} PROVE streams'[m] = streams[m]
      BY <1>9, <2>1 DEF Advance, FailPending, RolledBack, Inv, TableInv
    <3>2. raft'[n].role # "leader"
      BY <2>1 DEF KeepsLogs, Deposed, IsLeader
    <3> QED
      BY <1>2, <3>1, <3>2
  <2>2. CASE ~Deposed(n)
    BY <1>3, <1>9, <2>2 DEF Advance
  <2> QED
    BY <2>1, <2>2
<1>10. CASE Restart(n)
  <2>1. ASSUME NEW m \in Nodes \ {n} PROVE streams'[m] = streams[m]
    BY <1>10 DEF Restart, Inv, TableInv
  <2>2. raft'[n].role # "leader"
    BY <1>10 DEF Restart, Reopened, Inv, CoreInv
  <2> QED
    BY <1>2, <2>1, <2>2
<1>11. CASE Receive(n) \/ Tick(n) \/ OpenDone(n) \/ RunGc(n)
  <2>1. streams' = streams
    BY <1>11 DEF Receive, Tick, OpenDone, RunGc, StepHigherTerm, StepAppend, StepSnapshotKnown,
                 StepSnapshotInstall, StepAppendResponse, engineVars, walVars
  <2> QED
    BY <1>3, <2>1
<1> QED
  BY <1>6, <1>7, <1>8, <1>9, <1>10, <1>11 DEF Engine

LEMMA NextPos ==
  ASSUME Inv, Inv', Replicated, PosPart, [Next]_vars
  PROVE  PosPart'
<1>1. Shapes /\ Shapes'
  BY CoreShapes, PTL DEF Inv
<1>2. PICK L, Q : RepInv(L, Q)
  BY DEF Replicated
<1>3. ASSUME NEW n \in Nodes, UNCHANGED <<raft, netVars>> PROVE KeepsLogs
  BY <1>1, <1>2, <1>3, UnchangedRep
<1>4. ASSUME UNCHANGED <<raft, netVars, streams>> PROVE PosPart'
  BY <1>4 DEF PosPart, netVars
<1>5. CASE Next
  <2>1. PICK n \in Nodes :
          \/ Request(n) \/ Receive(n) \/ Engine(n) \/ Restart(n)
          \/ \E V \in Electorates, t \in Terms : BecomeLeader(n, V, t)
    BY <1>5 DEF Next
  <2>2. CASE Request(n)
    <3>1. ASSUME NEW w \in Writes, WriteNotLeader(n, w) PROVE PosPart'
      BY <1>4, <3>1 DEF WriteNotLeader, engineVars, walVars
    <3>2. ASSUME NEW w \in Writes, NEW s \in Streams, NEW e \in Epochs,
                 WriteFenced(n, w, s, e)
          PROVE  PosPart'
      BY <1>4, <3>2 DEF WriteFenced, engineVars, walVars
    <3>3. ASSUME NEW w \in Writes, NEW s \in Streams, NEW e \in Epochs,
                 WritePropose(n, w, s, e)
          PROVE  PosPart'
      BY <1>2, <3>3, ProposePos
    <3>4. ASSUME NEW s \in Streams, NEW o \in ConsumerOffsets, Consume(n, s, o)
          PROVE  PosPart'
      <4>1. KeepsLogs
        BY <1>3, <3>4 DEF Consume
      <4>2. \A m \in Nodes : raft'[m].role = "leader" => Forward(m)
        BY <3>4, <4>1, TablesForward
      <4> QED
        BY <4>1, <4>2, KeepsPos
    <3> QED
      BY <2>2, <3>1, <3>2, <3>3, <3>4 DEF Request
  <2>3. CASE Receive(n) \/ Engine(n) \/ Restart(n)
    <3>1. KeepsLogs
      <4>1. CASE Receive(n)
        <5>1. ASSUME NEW m \in Nodes, StepHigherTerm(n, m) PROVE KeepsLogs
          BY <1>1, <1>2, <5>1, StepHigherTermRep
        <5>2. ASSUME NEW t \in Terms, NEW k \in 1..Len(sent[t].log),
                     NEW c \in 1..sent[t].commit, StepAppend(n, t, k, c)
              PROVE  KeepsLogs
          BY <1>1, <1>2, <5>2, StepAppendRep
        <5>3. ASSUME NEW t \in Terms, StepSnapshotKnown(n, t) PROVE KeepsLogs
          BY <1>1, <1>2, <5>3, StepSnapshotKnownRep
        <5>4. ASSUME NEW t \in Terms, StepSnapshotInstall(n, t) PROVE KeepsLogs
          BY <1>1, <1>2, <5>4, StepSnapshotInstallRep
        <5>5. ASSUME NEW c \in 1..Len(raft[n].log), StepAppendResponse(n, c) PROVE KeepsLogs
          BY <1>1, <1>2, <5>5, StepAppendResponseRep
        <5> QED
          BY <4>1, <5>1, <5>2, <5>3, <5>4, <5>5 DEF Receive
      <4>2. CASE ReplayRecord(n) \/ OpenDone(n) \/ RunGc(n)
        BY <1>3, <4>2 DEF ReplayRecord, OpenDone, RunGc
      <4>3. CASE Tick(n) \/ ApplyAppendEntry(n) \/ Advance(n) \/ Restart(n)
        BY <1>1, <1>2, <4>3, TickRep, ApplyAppendEntryRep, AdvanceRep, RestartRep
      <4> QED
        BY <2>3, <4>1, <4>2, <4>3 DEF Engine
    <3>2. \A m \in Nodes : raft'[m].role = "leader" => Forward(m)
      BY <2>3, <3>1, TablesForward
    <3> QED
      BY <3>1, <3>2, KeepsPos
  <2>4. CASE \E V \in Electorates, t \in Terms : BecomeLeader(n, V, t)
    BY <1>2, <2>4, ElectPos
  <2> QED
    BY <2>1, <2>2, <2>3, <2>4
<1>6. CASE UNCHANGED vars
  BY <1>4, <1>6 DEF vars, netVars
<1> QED
  BY <1>5, <1>6

LEMMA InitPos == Init => PosPart
<1> SUFFICES ASSUME Init PROVE PosPart
  OBVIOUS
<1>1. \A t \in Terms : Len(sent[t].log) = 0
  BY DEF Init
<1>2. \A n \in Nodes : raft[n].role = "follower"
  BY DEF Init, NewRaft
<1> QED
  BY <1>1, <1>2 DEF PosPart, Ascends

LEMMA PosAscends == Inv /\ Replicated /\ PosPart => TermPositions
<1> SUFFICES ASSUME Inv, Replicated, PosPart, NEW n \in Nodes,
                    NEW i \in 1..Len(raft[n].log), NEW j \in 1..Len(raft[n].log), i < j,
                    raft[n].log[i].term = raft[n].log[j].term,
                    raft[n].log[i].cmd # NoCmd, raft[n].log[j].cmd # NoCmd,
                    raft[n].log[i].cmd.stream = raft[n].log[j].cmd.stream
    PROVE  /\ raft[n].log[i].cmd.lsn < raft[n].log[j].cmd.lsn
           /\ raft[n].log[i].cmd.epoch <= raft[n].log[j].cmd.epoch
  BY DEF TermPositions
<1>1. PICK l : l = raft[n].log
  OBVIOUS
<1>2. PICK t : t = l[j].term
  OBVIOUS
<1>3. /\ t \in Terms /\ j \in 1..Len(sent[t].log)
      /\ \A k \in 1..j : l[k] = sent[t].log[k]
  BY <1>1, <1>2, NodeSourced DEF Sourced
<1>4. Len(sent[t].log) \in Nat
  BY <1>3, CoreShapes DEF Inv, Shapes
<1>5. i \in 1..Len(sent[t].log) /\ l[i] = sent[t].log[i] /\ l[j] = sent[t].log[j]
  BY <1>3, <1>4
<1>6. Ascends(sent[t].log, t)
  BY <1>3 DEF PosPart
<1>7. l[i].term = t /\ l[j].term = t /\ l[i].cmd # NoCmd /\ l[j].cmd # NoCmd
      /\ l[i].cmd.stream = l[j].cmd.stream
  BY <1>1, <1>2
<1>8. l[i].cmd.lsn < l[j].cmd.lsn /\ l[i].cmd.epoch <= l[j].cmd.epoch
  BY <1>3, <1>5, <1>6, <1>7 DEF Ascends
<1> QED
  BY <1>1, <1>8

\* The invariant of the positions holds of the group.
THEOREM PositionsHold == Spec => [](Inv /\ Replicated /\ PosPart)
<1>1. Init => Inv /\ Replicated /\ PosPart
  BY InitInv, InitRep, InitPos
<1>2. Inv /\ Replicated /\ PosPart /\ [Next]_vars => (Inv /\ Replicated /\ PosPart)'
  BY NextInv, NextRep, NextPos
<1> QED
  BY <1>1, <1>2, PTL DEF Spec

\* TermPositions: in every log the entries of one term take ascending positions
\* of their stream, under epochs that do not go back, whichever leaders
\* proposed before and whatever their deposed pending writes rolled back.
THEOREM PositionsAscend == Spec => []TermPositions
  BY PositionsHold, PosAscends, PTL

-----------------------------------------------------------------------------
(***************************************************************************)
(* What a node can rebuild.  The cursor of a running node lies above its   *)
(* snapshot and above what earlier batches applied, so a record it appends *)
(* to the WAL is of an entry above the snapshot.                           *)
(***************************************************************************)
Ahead(i, r, p, c) == i <= r.since /\ (p # "open" => i < c /\ r.applied < c)

CursorPart == \A n \in Nodes : Ahead(disk[n].snap.index, raft[n], pc[n], cursor[n])

Rebuilds(d, records, s, commit) ==
  \/ commit <= d.snap.data[s].commit
  \/ \E i \in 1..Len(records) : /\ records[i].stream = s /\ records[i].index > d.snap.index
                                /\ commit <= records[i].lsn + 1

RecoverPart ==
  \A n \in Nodes, s \in Streams :
    disk[n].own => Rebuilds(disk[n], wal[n], s, streams[n][s].commit)

LEMMA ProceedAhead ==
  ASSUME CoreInv, NEW n \in Nodes, NEW r, GoodRaft(r), NEW from \in Nat \ {0},
         Proceed(n, r, from), NEW i \in Nat, i <= r.since, i < from, r.applied < from
  PROVE  /\ Ahead(i, raft'[n], pc'[n], cursor'[n])
         /\ \A m \in Nodes \ {n} :
              raft'[m] = raft[m] /\ pc'[m] = pc[m] /\ cursor'[m] = cursor[m]
<1> DEFINE more == ToApply(r, from) # {} \/ observed[n] # r.role
           q == IF more THEN r ELSE Ended(r)
           c == IF more THEN from ELSE Ended(r).since + 1
<1>1. /\ raft'[n] = q /\ cursor'[n] = c
      /\ \A m \in Nodes \ {n} :
           raft'[m] = raft[m] /\ pc'[m] = pc[m] /\ cursor'[m] = cursor[m]
  BY DEF Proceed, CoreInv
<1>2. /\ Ended(r).since \in Nat /\ r.since \in Nat /\ r.since <= Ended(r).since
      /\ Ended(r).applied = r.since
  <2>1. /\ r.since \in Nat /\ r.committed \in Nat /\ Len(r.log) \in Nat
        /\ Ended(r).since = Max2(r.since, Min2(r.committed, Len(r.log)))
        /\ Ended(r).applied = r.since
    BY LenProperties DEF GoodRaft, RaftStates, Ended
  <2> QED
    BY <2>1 DEF Max2, Min2
<1>3. i <= q.since /\ i < c /\ q.applied < c
  <2>1. CASE more
    BY <2>1
  <2>2. CASE ~more
    BY <1>2, <2>2
  <2> QED
    BY <2>1, <2>2
<1> HIDE DEF q, c
<1> QED
  BY <1>1, <1>3 DEF Ahead

LEMMA DriveAhead ==
  ASSUME Inv, CursorPart, NEW n \in Nodes, NEW r, GoodRaft(r), r.since = raft[n].since,
         r.applied = raft[n].applied, pc[n] = "select", NEW ack, DriveReady(n, r, ack)
  PROVE  CursorPart'
<1> DEFINE i == disk[n].snap.index
<1>1. /\ i \in Nat /\ i <= r.since /\ i < cursor[n] /\ r.applied < cursor[n]
      /\ cursor[n] \in Nat \ {0} /\ CoreInv
  BY DEF Inv, CoreInv, DiskStates, Snapshots, CursorPart, Ahead
<1>2. GoodRaft(Taken(r)) /\ Taken(r).applied = r.applied /\ r.since <= Taken(r).since
  <2>1. /\ r.since \in Nat /\ r.committed \in Nat /\ r.persisted \in Nat
        /\ Taken(r).since = Max2(r.since, Deliverable(r)) /\ Taken(r).applied = r.applied
    BY DEF GoodRaft, RaftStates, Taken
  <2>2. r.since <= Taken(r).since
    BY <2>1 DEF Max2, Min2, Deliverable
  <2> QED
    BY <2>1, <2>2, TakenGood
<1>3. i <= Taken(r).since
  <2>1. Taken(r).since \in Nat
    BY <1>2 DEF GoodRaft, RaftStates
  <2>2. r.since \in Nat
    BY DEF GoodRaft, RaftStates
  <2> HIDE DEF i
  <2> QED
    BY <1>1, <1>2, <2>1, <2>2
<1>4. Proceed(n, Taken(r), cursor[n])
  BY DEF DriveReady
<1> HIDE DEF i
<1>5. /\ Ahead(i, raft'[n], pc'[n], cursor'[n])
      /\ \A m \in Nodes \ {n} :
           raft'[m] = raft[m] /\ pc'[m] = pc[m] /\ cursor'[m] = cursor[m]
  BY <1>1, <1>2, <1>3, <1>4, ProceedAhead
<1>6. \A m \in Nodes : disk'[m].snap = disk[m].snap
  BY DEF DriveReady, Inv, CoreInv, Stored
<1> QED
  BY <1>5, <1>6 DEF CursorPart, i

\* What raft-rs makes of a message: the node keeps its role and term, or follows
\* a later term, which some leader has won or some node has reached.
Heard(n, role, t) ==
  \/ role = raft[n].role /\ t = raft[n].term
  \/ /\ role = "follower" /\ raft[n].term < t
     /\ Elected(sent, t) \/ \E m \in Nodes : t = raft[m].term

LEMMA HearsHeard ==
  ASSUME Inv, NEW n \in Nodes, NEW t \in Terms, Hears(n, t), Elected(sent, t)
  PROVE  Heard(n, "follower", t)
<1>1. raft[n].role \in Roles /\ raft[n].term \in Nat /\ t \in Nat
  BY TermIsNat DEF Inv, CoreInv, RaftStates
<1> QED
  BY <1>1 DEF Hears, Heard, IsLeader, Roles

\* a step that hands a message to raft-rs or ticks keeps since and applied
Driven(n, r, ack) ==
  /\ GoodRaft(r) /\ r.since = raft[n].since /\ r.applied = raft[n].applied
  /\ Heard(n, r.role, r.term) /\ pc[n] = "select" /\ DriveReady(n, r, ack)

LEMMA DrivenTurn ==
  ASSUME Inv, NEW n \in Nodes,
         \/ Tick(n) \/ (\E m \in Nodes : StepHigherTerm(n, m))
         \/ (\E t \in Terms : \E k \in 1..Len(sent[t].log), c \in 1..sent[t].commit :
               StepAppend(n, t, k, c))
         \/ (\E t \in Terms : StepSnapshotKnown(n, t))
         \/ (\E c \in 1..Len(raft[n].log) : StepAppendResponse(n, c))
         \/ (\E w \in Writes, s \in Streams, e \in Epochs : WritePropose(n, w, s, e))
  PROVE  \E r, ack : Driven(n, r, ack)
<1>1. /\ GoodRaft(raft[n]) /\ raft[n] \in RaftStates /\ Len(raft[n].log) \in Nat
      /\ raft[n].committed \in Nat
  BY LenProperties DEF Inv, CoreInv, GoodRaft, RaftStates
<1>2. ASSUME NEW r, GoodRaft(r), NEW c \in Nat, r.committed <= c, c <= Len(r.log)
      PROVE  /\ GoodRaft([r EXCEPT !.committed = c])
             /\ [r EXCEPT !.committed = c].since = r.since
             /\ [r EXCEPT !.committed = c].applied = r.applied
             /\ [r EXCEPT !.committed = c].role = r.role
             /\ [r EXCEPT !.committed = c].term = r.term
  BY <1>2, CommittedGood DEF GoodRaft, RaftStates
<1>3. ASSUME NEW t \in Terms
      PROVE  LET r == Follow(raft[n], t) IN
             /\ GoodRaft(r) /\ r.since = raft[n].since /\ r.applied = raft[n].applied
             /\ r.committed = raft[n].committed /\ r.log = raft[n].log
             /\ r.role = "follower" /\ r.term = t
  BY <1>1, FollowGood DEF Follow
<1>4. CASE Tick(n)
  BY <1>1, <1>4 DEF Tick, Driven, Heard
<1>5. ASSUME NEW m \in Nodes, StepHigherTerm(n, m)
      PROVE  \E r, ack : Driven(n, r, ack)
  <2> DEFINE r == Follow(raft[n], disk[m].term)
  <2>1. /\ disk[m].term \in Terms /\ disk[m].term = raft[m].term
        /\ raft[n].term \in Nat /\ disk[m].term \in Nat
    BY TermIsNat DEF Inv, CoreInv, DiskStates, GoodDisk, RaftStates
  <2>2. /\ GoodRaft(r) /\ r.since = raft[n].since /\ r.applied = raft[n].applied
        /\ r.role = "follower" /\ r.term = raft[m].term
    BY <1>3, <2>1
  <2>3. raft[n].term < raft[m].term /\ pc[n] = "select" /\ DriveReady(n, r, 0)
    BY <1>5, <2>1 DEF StepHigherTerm
  <2> HIDE DEF r
  <2>4. Driven(n, r, 0)
    BY <2>2, <2>3 DEF Driven, Heard
  <2> QED
    BY <2>4
<1>6. ASSUME NEW t \in Terms, NEW k \in 1..Len(sent[t].log),
             NEW c \in 1..sent[t].commit, StepAppend(n, t, k, c)
      PROVE  \E r, ack : Driven(n, r, ack)
  <2> DEFINE r == Follow(raft[n], t)
             l == sent[t].log
             a == Appended(r, l, k)
             top == Max2(a.committed, c)
             q == [a EXCEPT !.committed = top]
  <2>1. /\ GoodRaft(r) /\ r.since = raft[n].since /\ r.applied = raft[n].applied
        /\ r.committed = raft[n].committed /\ r.role = "follower" /\ r.term = t
    BY <1>3
  <2>2. /\ l \in Seq(Entries) /\ Len(l) \in Nat /\ k \in 1..Len(l) /\ c \in Nat
        /\ sent[t].commit \in Nat
    BY LenProperties DEF Inv, CoreInv, Dispatches
  <2>3. r.committed <= k /\ c <= k
    BY <1>1, <1>6, <2>1, <2>2 DEF StepAppend, Min2
  <2>4. DriveReady(n, q, k) /\ pc[n] = "select" /\ Heard(n, "follower", t)
    <3>1. Hears(n, t) /\ Elected(sent, t)
      BY <1>6, <2>2 DEF StepAppend, Elected
    <3> QED
      BY <1>6, <3>1, HearsHeard DEF StepAppend, Hears
  <2> HIDE DEF r, l
  <2>5. GoodRaft(a) /\ a.committed = r.committed /\ k <= Len(a.log)
    BY <2>1, <2>2, <2>3, AppendedGood
  <2>6. a.since = r.since /\ a.applied = r.applied /\ a.role = r.role /\ a.term = r.term
    BY DEF Appended
  <2> HIDE DEF a
  <2>7. a.committed \in Nat /\ Len(a.log) \in Nat
    BY <2>5, LenProperties DEF GoodRaft, RaftStates
  <2>8. top \in Nat /\ a.committed <= top /\ top <= Len(a.log)
    BY <2>2, <2>3, <2>5, <2>7 DEF Max2
  <2> HIDE DEF top
  <2>9. /\ GoodRaft(q) /\ q.since = a.since /\ q.applied = a.applied
        /\ q.role = a.role /\ q.term = a.term
    BY <1>2, <2>5, <2>8
  <2> HIDE DEF q
  <2>10. Driven(n, q, k)
    BY <2>1, <2>4, <2>6, <2>9 DEF Driven
  <2> QED
    BY <2>10
<1>7. ASSUME NEW t \in Terms, StepSnapshotKnown(n, t)
      PROVE  \E r, ack : Driven(n, r, ack)
  <2> DEFINE r == Follow(raft[n], t)
             i == sent[t].snap.index
             q == [r EXCEPT !.committed = i]
  <2>1. /\ GoodRaft(r) /\ r.since = raft[n].since /\ r.applied = raft[n].applied
        /\ r.committed = raft[n].committed /\ r.log = raft[n].log
        /\ r.role = "follower" /\ r.term = t
    BY <1>3
  <2>2. i \in Nat /\ i > raft[n].committed /\ i <= Len(raft[n].log)
    BY <1>7, <2>1 DEF StepSnapshotKnown, Agrees, Inv, CoreInv, Dispatches, Snapshots
  <2>3. DriveReady(n, q, i) /\ pc[n] = "select" /\ Heard(n, "follower", t)
    <3>1. Len(sent[t].log) \in Nat /\ i <= Len(sent[t].log)
      BY LenProperties DEF Inv, CoreInv, GoodDispatch, Dispatches, GoodSnap
    <3>2. Hears(n, t) /\ Elected(sent, t)
      BY <1>1, <1>7, <2>2, <3>1 DEF StepSnapshotKnown, Elected
    <3> QED
      BY <1>7, <3>2, HearsHeard DEF StepSnapshotKnown, Hears
  <2> HIDE DEF r, i
  <2>4. /\ GoodRaft(q) /\ q.since = r.since /\ q.applied = r.applied
        /\ q.role = r.role /\ q.term = r.term
    BY <1>1, <1>2, <2>1, <2>2
  <2> HIDE DEF q
  <2>5. Driven(n, q, i)
    BY <2>1, <2>3, <2>4 DEF Driven
  <2> QED
    BY <2>5
<1>8. ASSUME NEW c \in 1..Len(raft[n].log), StepAppendResponse(n, c)
      PROVE  \E r, ack : Driven(n, r, ack)
  <2> DEFINE q == [raft[n] EXCEPT !.committed = c]
  <2>1. DriveReady(n, q, 0) /\ pc[n] = "select" /\ c > raft[n].committed
    BY <1>8 DEF StepAppendResponse
  <2>2. c \in Nat /\ raft[n].committed <= c /\ c <= Len(raft[n].log)
    BY <1>1, <2>1
  <2>3. /\ GoodRaft(q) /\ q.since = raft[n].since /\ q.applied = raft[n].applied
        /\ q.role = raft[n].role /\ q.term = raft[n].term
    BY <1>1, <1>2, <2>2
  <2> HIDE DEF q
  <2>4. Driven(n, q, 0)
    BY <2>1, <2>3 DEF Driven, Heard
  <2> QED
    BY <2>4
<1>9. ASSUME NEW w \in Writes, NEW s \in Streams, NEW e \in Epochs, WritePropose(n, w, s, e)
      PROVE  \E r, ack : Driven(n, r, ack)
  <2> DEFINE c == [rid |-> requestSeq[n] + 1, w |-> w, stream |-> s,
                   epoch |-> e, lsn |-> streams[n][s].next]
             x == [term |-> raft[n].term, cmd |-> c]
             q == [raft[n] EXCEPT !.log = Append(@, x)]
  <2>1. DriveReady(n, q, 0) /\ pc[n] = "select"
    BY <1>9 DEF WritePropose
  <2>2. c \in Commands
    <3>1. streams[n][s].next \in Nat
      BY TableType DEF Inv
    <3>2. requestSeq[n] + 1 \in Nat
      BY DEF Inv, ClientInv
    <3> QED
      BY <3>1, <3>2 DEF Commands
  <2> HIDE DEF c
  <2>3. x \in Entries
    BY <1>1, <2>2 DEF Entries, RaftStates
  <2> HIDE DEF x
  <2>4. GoodRaft(q)
    BY <1>1, <2>3, ProposedGood
  <2>5. /\ q.since = raft[n].since /\ q.applied = raft[n].applied
        /\ q.role = raft[n].role /\ q.term = raft[n].term
    BY <1>1 DEF RaftStates
  <2> HIDE DEF q
  <2>6. Driven(n, q, 0)
    BY <2>1, <2>4, <2>5 DEF Driven, Heard
  <2> QED
    BY <2>6
<1> QED
  BY <1>4, <1>5, <1>6, <1>7, <1>8, <1>9

\* neither the files nor the commit positions move
FilesKept == \A m \in Nodes : disk'[m].snap = disk[m].snap /\ disk'[m].own = disk[m].own
CommitsKept == \A m \in Nodes, s \in Streams : streams'[m][s].commit = streams[m][s].commit

LEMMA RecoverKept ==
  ASSUME RecoverPart, wal' = wal, FilesKept, CommitsKept
  PROVE  RecoverPart'
  BY DEF RecoverPart, FilesKept, CommitsKept, Rebuilds

LEMMA DrivenRecover ==
  ASSUME Inv, CursorPart, RecoverPart, NEW n \in Nodes, wal' = wal, CommitsKept,
         \E r, ack : Driven(n, r, ack)
  PROVE  CursorPart' /\ RecoverPart'
<1>1. PICK r, ack : Driven(n, r, ack)
  OBVIOUS
<1>2. CursorPart'
  BY <1>1, DriveAhead DEF Driven
<1>3. FilesKept
  BY <1>1 DEF Driven, FilesKept, DriveReady, Inv, CoreInv, Stored
<1> QED
  BY <1>2, <1>3, RecoverKept

LEMMA ReceiveRecover ==
  ASSUME Inv, CursorPart, RecoverPart, NEW n \in Nodes, Receive(n) \/ Tick(n)
  PROVE  CursorPart' /\ RecoverPart'
<1>1. wal' = wal /\ streams' = streams
  BY DEF Receive, Tick, StepHigherTerm, StepAppend, StepSnapshotKnown,
         StepSnapshotInstall, StepAppendResponse, engineVars, walVars
<1>2. CommitsKept
  BY <1>1 DEF CommitsKept
<1>3. ASSUME NEW t \in Terms, StepSnapshotInstall(n, t) PROVE CursorPart' /\ RecoverPart'
  <2> DEFINE r == Follow(raft[n], t)
             i == sent[t].snap.index
             l == sent[t].log
             q == Restored(r, l, i)
  <2>1. /\ GoodRaft(r) /\ r.committed = raft[n].committed /\ r.applied = raft[n].applied
        /\ r.committed \in Nat
    BY FollowGood DEF Follow, Inv, CoreInv, GoodRaft, RaftStates
  <2>2. l \in Seq(Entries) /\ Len(l) \in Nat /\ i \in 0..Len(l) /\ i \in Nat
    BY LenProperties DEF Inv, CoreInv, Dispatches, GoodDispatch, GoodSnap
  <2>3. /\ r.committed <= i /\ Proceed(n, q, i + 1)
        /\ disk' = [disk EXCEPT ![n] = Stored(q, sent[t].snap, FALSE)]
    BY <1>3, <2>1, <2>2 DEF StepSnapshotInstall
  <2>4. q.since = i /\ q.applied = r.applied
    BY DEF Restored
  <2>5. \A m \in Nodes :
          /\ disk'[m].snap = IF m = n THEN sent[t].snap ELSE disk[m].snap
          /\ disk'[m].own = IF m = n THEN FALSE ELSE disk[m].own
    BY <2>3 DEF Inv, CoreInv, Stored
  <2> HIDE DEF r, l
  <2>6. GoodRaft(q)
    BY <2>1, <2>2, <2>3, RestoredGood
  <2>7. i + 1 \in Nat \ {0} /\ i <= q.since /\ i < i + 1 /\ q.applied < i + 1 /\ CoreInv
    BY <2>2, <2>4, <2>6 DEF GoodRaft, RaftStates, Inv
  <2> HIDE DEF q, i
  <2>8. /\ Ahead(i, raft'[n], pc'[n], cursor'[n])
        /\ \A m \in Nodes \ {n} :
             raft'[m] = raft[m] /\ pc'[m] = pc[m] /\ cursor'[m] = cursor[m]
    BY <2>2, <2>3, <2>6, <2>7, ProceedAhead
  <2>9. CursorPart'
    BY <2>5, <2>8 DEF CursorPart, i
  <2>10. RecoverPart'
    BY <1>1, <2>5 DEF RecoverPart, Rebuilds
  <2> QED
    BY <2>9, <2>10
<1>4. CASE ~ \E t \in Terms : StepSnapshotInstall(n, t)
  <2>1. \E r, ack : Driven(n, r, ack)
    BY <1>4, DrivenTurn DEF Receive
  <2> QED
    BY <1>1, <1>2, <2>1, DrivenRecover
<1> QED
  BY <1>3, <1>4

LEMMA ElectRecover ==
  ASSUME Inv, CursorPart, RecoverPart, NEW n \in Nodes, NEW V \in Electorates,
         NEW t \in Terms, BecomeLeader(n, V, t)
  PROVE  CursorPart' /\ RecoverPart'
<1> DEFINE Voted(v) == IF v = n THEN Lead(raft[v], t) ELSE Follow(raft[v], t)
<1>1. /\ wal' = wal /\ streams' = streams /\ cursor' = cursor
      /\ \A v \in V : pc[v] = "select"
      /\ \A v \in Nodes : v \notin V => raft'[v] = raft[v] /\ pc'[v] = pc[v]
      /\ \A v \in Nodes : v \in V => raft'[v] = Taken(Voted(v))
  BY DEF BecomeLeader, engineVars, walVars
<1>2. FilesKept
  BY DEF BecomeLeader, FilesKept, Stored
<1>3. CommitsKept
  BY <1>1 DEF CommitsKept
<1>4. ASSUME NEW v \in Nodes
      PROVE  Ahead(disk[v].snap.index, raft'[v], pc'[v], cursor[v])
  <2>1. Ahead(disk[v].snap.index, raft[v], pc[v], cursor[v])
    BY DEF CursorPart
  <2>2. CASE v \in V
    <3>1. /\ GoodRaft(Voted(v)) /\ Voted(v).since = raft[v].since
          /\ Voted(v).applied = raft[v].applied
      BY LeadGood, FollowGood DEF Inv, CoreInv, Lead, Follow
    <3>2. raft'[v] = Taken(Voted(v)) /\ pc[v] = "select"
      BY <1>1, <2>2
    <3> HIDE DEF Voted
    <3>3. /\ Taken(Voted(v)).since = Max2(Voted(v).since, Deliverable(Voted(v)))
          /\ Taken(Voted(v)).applied = Voted(v).applied
          /\ Voted(v).since \in Nat /\ Voted(v).committed \in Nat /\ Voted(v).persisted \in Nat
      BY <3>1 DEF GoodRaft, RaftStates, Taken
    <3>4. raft'[v].since \in Nat /\ raft[v].since <= raft'[v].since
          /\ raft'[v].applied = raft[v].applied /\ raft[v].since \in Nat
      BY <3>1, <3>2, <3>3 DEF Max2, Min2, Deliverable
    <3>5. disk[v].snap.index \in Nat
      BY DEF Inv, CoreInv, DiskStates, Snapshots
    <3> QED
      BY <2>1, <3>2, <3>4, <3>5 DEF Ahead
  <2>3. CASE v \notin V
    BY <1>1, <2>1, <2>3
  <2> QED
    BY <2>2, <2>3
<1>5. CursorPart'
  BY <1>1, <1>2, <1>4 DEF CursorPart, FilesKept
<1> QED
  BY <1>1, <1>2, <1>3, <1>5, RecoverKept

LEMMA AdvanceRecover ==
  ASSUME Inv, CursorPart, RecoverPart, NEW n \in Nodes, Advance(n)
  PROVE  CursorPart' /\ RecoverPart'
<1>1. /\ raft' = [raft EXCEPT ![n] = Ended(raft[n])]
      /\ cursor' = [cursor EXCEPT ![n] = Ended(raft[n]).since + 1]
      /\ pc' = [pc EXCEPT ![n] = "select"]
      /\ disk' = disk /\ wal' = wal
      /\ streams' = streams \/ streams' = RolledBack(n)
  BY DEF Advance, FailPending, walVars
<1>2. ASSUME NEW m \in Nodes, NEW s \in Streams
      PROVE  streams'[m][s].commit = streams[m][s].commit
  <2>1. CASE streams' = RolledBack(n)
    <3>1. streams[n][s] \in StreamStates
      BY DEF Inv, TableInv, SoundStreams
    <3>2. \A lsns : RollbackUncommittedAppends(streams[n][s], lsns).commit = streams[n][s].commit
      BY <3>1 DEF RollbackUncommittedAppends, StreamStates
    <3>3. streams'[m][s] = IF m = n
            THEN RollbackUncommittedAppends(streams[n][s], PendingLsns(n, s))
            ELSE streams[m][s]
      BY <2>1 DEF RolledBack, Inv, TableInv
    <3> QED
      BY <3>2, <3>3
  <2> QED
    BY <1>1, <2>1
<1>3. FilesKept /\ CommitsKept
  BY <1>1, <1>2 DEF FilesKept, CommitsKept
<1>4. CursorPart'
  <2> DEFINE r == raft[n]
             i == disk[n].snap.index
  <2>1. /\ r.since \in Nat /\ r.committed \in Nat /\ Len(r.log) \in Nat /\ i \in Nat
        /\ Ended(r).since = Max2(r.since, Min2(r.committed, Len(r.log)))
        /\ Ended(r).applied = r.since /\ i <= r.since
    BY LenProperties DEF Inv, CoreInv, GoodRaft, RaftStates, Ended, DiskStates, Snapshots,
                         CursorPart, Ahead
  <2>2. Ended(r).since \in Nat /\ r.since <= Ended(r).since
    BY <2>1 DEF Max2, Min2
  <2>3. /\ raft'[n] = Ended(r) /\ cursor'[n] = Ended(r).since + 1
        /\ \A m \in Nodes \ {n} :
             raft'[m] = raft[m] /\ pc'[m] = pc[m] /\ cursor'[m] = cursor[m]
    BY <1>1 DEF Inv, CoreInv
  <2>4. Ahead(i, raft'[n], pc'[n], cursor'[n])
    BY <2>1, <2>2, <2>3 DEF Ahead
  <2> QED
    BY <1>1, <2>3, <2>4 DEF CursorPart
<1> QED
  BY <1>1, <1>3, <1>4, RecoverKept

LEMMA RestartRecover ==
  ASSUME Inv, CursorPart, RecoverPart, NEW n \in Nodes, Restart(n)
  PROVE  CursorPart' /\ RecoverPart'
<1>1. /\ raft' = [raft EXCEPT ![n] = Reopened(disk[n])]
      /\ streams' = [streams EXCEPT ![n] = disk[n].snap.data]
      /\ pc' = [pc EXCEPT ![n] = "open"] /\ cursor' = [cursor EXCEPT ![n] = 1]
      /\ disk' = disk /\ wal' = wal
  BY DEF Restart
<1>2. CursorPart'
  <2>1. Ahead(disk[n].snap.index, raft'[n], pc'[n], cursor'[n])
    <3>1. raft'[n].since = disk[n].snap.index /\ pc'[n] = "open" /\ disk[n].snap.index \in Nat
      BY <1>1 DEF Inv, CoreInv, Reopened, DiskStates, Snapshots
    <3> QED
      BY <3>1 DEF Ahead
  <2>2. \A m \in Nodes \ {n} :
          raft'[m] = raft[m] /\ pc'[m] = pc[m] /\ cursor'[m] = cursor[m]
    BY <1>1 DEF Inv, CoreInv
  <2> QED
    BY <1>1, <2>1, <2>2 DEF CursorPart
<1>3. ASSUME NEW m \in Nodes, NEW s \in Streams, disk[m].own
      PROVE  Rebuilds(disk[m], wal[m], s, streams'[m][s].commit)
  <2>1. CASE m = n
    <3>1. streams'[m][s] = disk[n].snap.data[s]
      BY <1>1, <2>1 DEF Inv, TableInv
    <3>2. disk[n].snap.data[s].commit \in Nat
      <4>1. disk[n].snap \in Snapshots
        BY DEF Inv, CoreInv, DiskStates
      <4>2. disk[n].snap.data[s] \in StreamStates
        BY <4>1 DEF Snapshots
      <4> QED
        BY <4>2 DEF StreamStates
    <3> QED
      BY <2>1, <3>1, <3>2 DEF Rebuilds
  <2>2. CASE m # n
    <3>1. streams'[m] = streams[m]
      BY <1>1, <2>2 DEF Inv, TableInv
    <3> QED
      BY <1>3, <3>1 DEF RecoverPart
  <2> QED
    BY <2>1, <2>2
<1> QED
  BY <1>1, <1>2, <1>3 DEF RecoverPart

\* a position marked by a record above the snapshot can be rebuilt
LEMMA MarkRebuilds ==
  ASSUME NEW d, NEW records, NEW s, NEW st \in SoundStreams, NEW e \in Nat, NEW i \in Nat,
         NEW l \in Nat, NEW w \in Writes, Rebuilds(d, records, s, st.commit),
         NEW k \in 1..Len(records), records[k].stream = s, records[k].index > d.snap.index,
         records[k].lsn = l
  PROVE  Rebuilds(d, records, s, MarkCommitted(MarkAppended(st, e, i, l, w), i, l).commit)
<1> DEFINE q == MarkCommitted(MarkAppended(st, e, i, l, w), i, l)
<1>1. q.commit = Max2(st.commit, l + 1) /\ st.commit \in Nat
  BY DEF MarkCommitted, MarkAppended, SoundStreams, StreamStates
<1> HIDE DEF q
<1>2. q.commit = st.commit \/ q.commit = l + 1
  BY <1>1 DEF Max2
<1>3. Rebuilds(d, records, s, l + 1)
  BY DEF Rebuilds
<1>4. Rebuilds(d, records, s, q.commit)
  BY <1>2, <1>3
<1> QED
  BY <1>4 DEF q

LEMMA ReplayRecover ==
  ASSUME Inv, CursorPart, RecoverPart, NEW n \in Nodes, ReplayRecord(n)
  PROVE  CursorPart' /\ RecoverPart'
<1>0. PICK k \in 1..Len(wal[n]) :
        /\ wal[n][k] \in WalRecords /\ pc[n] = "open"
        /\ streams' = [streams EXCEPT ![n][wal[n][k].stream] =
                         Replayed(streams[n][wal[n][k].stream], disk[n], wal[n][k])]
        /\ cursor' = [cursor EXCEPT ![n] = k + 1]
        /\ UNCHANGED <<raft, disk, wal, pc, netVars>>
  BY ReplayView
<1> DEFINE x == wal[n][k]
           old == streams[n][x.stream]
           st == Replayed(old, disk[n], x)
           mark == ObserveRecovered(old, x.epoch, x.index, x.lsn, x.w)
<1>1. /\ pc[n] = "open"
      /\ streams' = [streams EXCEPT ![n][x.stream] = st]
      /\ cursor' = [cursor EXCEPT ![n] = k + 1]
      /\ UNCHANGED <<raft, disk, wal, pc>>
  BY <1>0
<1>2. k \in 1..Len(wal[n]) /\ x \in WalRecords
  BY <1>0
<1>3. /\ x.stream \in Streams /\ x.epoch \in Nat /\ x.index \in Nat
      /\ x.lsn \in Nat /\ x.w \in Writes
  BY <1>2, GroupAssumption DEF WalRecords
<1>4. \E j \in 1..Len(wal[n]) : wal[n][j] = x
  BY <1>2
<1> HIDE DEF x
<1>5. old \in SoundStreams
  BY <1>3 DEF Inv, TableInv
<1>6. mark \in SoundStreams
  BY <1>3, <1>5, MarkSound DEF ObserveRecovered
<1>7. st \in SoundStreams
  BY <1>5, <1>6 DEF Replayed
<1>8. ASSUME disk[n].own PROVE Rebuilds(disk[n], wal[n], x.stream, st.commit)
  <2>1. Rebuilds(disk[n], wal[n], x.stream, old.commit)
    BY <1>3, <1>8 DEF RecoverPart
  <2>2. CASE x.index > disk[n].snap.index
    <3>1. PICK j \in 1..Len(wal[n]) : wal[n][j] = x
      BY <1>4
    <3> HIDE DEF old
    <3>2. Rebuilds(disk[n], wal[n], x.stream,
            MarkCommitted(MarkAppended(old, x.epoch, x.index, x.lsn, x.w), x.index, x.lsn).commit)
      BY <1>3, <1>5, <2>1, <2>2, <3>1, MarkRebuilds
    <3> QED
      BY <2>2, <3>2 DEF Replayed, ReplayFrom, ObserveRecovered
  <2>3. CASE ~(x.index > disk[n].snap.index)
    BY <2>1, <2>3 DEF Replayed, ReplayFrom
  <2> QED
    BY <2>2, <2>3
<1> HIDE DEF st, mark, old
<1>9. \A m \in Nodes, s \in Streams :
        streams'[m][s] = IF m = n /\ s = x.stream THEN st ELSE streams[m][s]
  BY <1>1, <1>3, <1>7, StreamStep DEF Inv
<1>10. RecoverPart'
  BY <1>1, <1>8, <1>9 DEF RecoverPart
<1>11. CursorPart'
  <2>1. \A m \in Nodes \ {n} : cursor'[m] = cursor[m]
    BY <1>1 DEF Inv, CoreInv
  <2>2. ASSUME NEW m \in Nodes PROVE Ahead(disk[m].snap.index, raft[m], pc[m], cursor'[m])
    BY <1>1, <2>1 DEF CursorPart, Ahead
  <2> QED
    BY <1>1, <2>2 DEF CursorPart
<1> QED
  BY <1>10, <1>11

LEMMA ApplyRecover ==
  ASSUME Inv, CursorPart, RecoverPart, NEW n \in Nodes, ApplyAppendEntry(n)
  PROVE  CursorPart' /\ RecoverPart'
<1> DEFINE todo == ToApply(raft[n], cursor[n])
           i == CHOOSE j \in todo : \A k \in todo : j <= k
           c == raft[n].log[i].cmd
           old == streams[n][c.stream]
           st == Applied(old, i, c)
           table == [streams[n] EXCEPT ![c.stream] = st]
           snap == TakeSnapshot(SnapshotIndex(raft[n]), table)
           x == [index |-> i, w |-> c.w, stream |-> c.stream, epoch |-> c.epoch,
                 lsn |-> c.lsn]
<1>1. /\ pc[n] = "apply" /\ todo # {}
      /\ wal' = [wal EXCEPT ![n] = Append(@, x)]
      /\ streams' = [streams EXCEPT ![n] = table]
      /\ disk' = IF SnapshotDue(n)
                 THEN [disk EXCEPT ![n] =
                         [term |-> @.term, commit |-> @.commit, log |-> @.log,
                          snap |-> snap, own |-> TRUE]]
                 ELSE disk
      /\ Proceed(n, raft[n], i + 1)
  BY DEF ApplyAppendEntry, RecordFor
<1>2. \A m \in Nodes :
        /\ m # n => disk'[m] = disk[m]
        /\ \/ disk'[n].snap = disk[n].snap /\ disk'[n].own = disk[n].own
           \/ disk'[n].snap = snap /\ SnapshotDue(n)
  BY <1>1 DEF Inv, CoreInv
<1>3. /\ i \in Nat /\ i \in 1..Len(raft[n].log) /\ raft[n].log \in Seq(Entries) /\ c # NoCmd
      /\ cursor[n] <= i /\ i <= raft[n].since
  <2>1. /\ raft[n].log \in Seq(Entries) /\ Len(raft[n].log) \in Nat
        /\ raft[n].since \in Nat /\ raft[n].since <= raft[n].committed
        /\ raft[n].committed \in Nat /\ raft[n].committed <= Len(raft[n].log)
        /\ cursor[n] \in Nat \ {0}
    BY LenProperties DEF Inv, CoreInv, GoodRaft, RaftStates
  <2>2. \A j \in todo : /\ j \in Nat \ {0} /\ cursor[n] <= j /\ j <= raft[n].since
                        /\ raft[n].log[j].cmd # NoCmd
    BY <2>1 DEF ToApply
  <2>3. todo \in SUBSET Nat
    BY <2>2
  <2> HIDE DEF todo
  <2>4. \E j \in todo : \A k \in todo : j <= k
    BY <1>1, <2>3, LeastNat
  <2>5. i \in todo
    BY <2>4
  <2> HIDE DEF i
  <2> QED
    BY <2>1, <2>2, <2>5
<1> HIDE DEF todo, i
<1>4. c \in Commands
  <2>1. raft[n].log[i] \in Entries
    BY <1>3, ElementOfSeq
  <2> QED
    BY <1>3, <2>1 DEF Entries
<1> HIDE DEF c
<1>5. /\ c.stream \in Streams /\ c.epoch \in Nat /\ c.epoch \in Epochs /\ c.lsn \in Nat
      /\ c.w \in Writes
  BY <1>4, GroupAssumption DEF Commands
<1>6. old \in SoundStreams /\ streams[n] \in [Streams -> SoundStreams]
  BY <1>5 DEF Inv, TableInv
<1>7. st \in SoundStreams
  BY <1>3, <1>5, <1>6, MarkSound DEF Applied
<1> HIDE DEF st
<1>8. \A s \in Streams : /\ table[s] \in SoundStreams
                         /\ table[s] = IF s = c.stream THEN st ELSE streams[n][s]
  BY <1>5, <1>6, <1>7
<1>9. /\ x \in WalRecords /\ x.stream = c.stream /\ x.index = i /\ x.lsn = c.lsn
      /\ \A s \in Streams : snap.data[s].commit = table[s].commit
      /\ snap.index = raft[n].applied
  <2>1. x \in WalRecords /\ x.stream = c.stream /\ x.index = i /\ x.lsn = c.lsn
    BY <1>3, <1>5 DEF WalRecords
  <2>2. ASSUME NEW s \in Streams PROVE snap.data[s].commit = table[s].commit
    <3>1. snap.data[s] = SnapshotOf(table[s]) /\ table[s] \in StreamStates
      BY <1>8 DEF TakeSnapshot, SoundStreams
    <3> HIDE DEF table, snap
    <3> QED
      BY <3>1 DEF SnapshotOf, StreamStates
  <2>3. snap.index = raft[n].applied
    BY DEF TakeSnapshot, SnapshotIndex
  <2> QED
    BY <2>1, <2>2, <2>3
<1> HIDE DEF table, x, snap
<1>10. /\ disk[n].snap.index \in Nat /\ raft[n].applied \in Nat /\ cursor[n] \in Nat
       /\ raft[n].since \in Nat /\ raft[n].applied <= raft[n].since
       /\ disk[n].snap.index <= raft[n].since
       /\ disk[n].snap.index < cursor[n] /\ raft[n].applied < cursor[n]
       /\ CoreInv /\ GoodRaft(raft[n])
  BY <1>1 DEF Inv, CoreInv, GoodRaft, RaftStates, DiskStates, Snapshots, CursorPart, Ahead
<1>11. CursorPart'
  <2> DEFINE j == disk'[n].snap.index
  <2>1. j = disk[n].snap.index \/ j = raft[n].applied
    BY <1>2, <1>9
  <2>2. /\ j \in Nat /\ i + 1 \in Nat \ {0} /\ j <= raft[n].since /\ j < i + 1
        /\ raft[n].applied < i + 1
    BY <1>3, <1>10, <2>1
  <2> HIDE DEF j
  <2>3. /\ Ahead(j, raft'[n], pc'[n], cursor'[n])
        /\ \A m \in Nodes \ {n} :
             raft'[m] = raft[m] /\ pc'[m] = pc[m] /\ cursor'[m] = cursor[m]
    BY <1>1, <1>10, <2>2, ProceedAhead
  <2> QED
    BY <1>2, <2>3 DEF CursorPart, j
<1>12. RecoverPart'
  <2>1. wal[n] \in Seq(WalRecords) /\ wal \in [Nodes -> Seq(WalRecords)]
    BY DEF Inv, TableInv
  <2> DEFINE y == Append(wal[n], x)
  <2>2. /\ Len(y) = Len(wal[n]) + 1 /\ Len(wal[n]) \in Nat /\ y[Len(wal[n]) + 1] = x
        /\ \A k \in 1..Len(wal[n]) : y[k] = wal[n][k]
    BY <1>9, <2>1, AppendProperties, LenProperties
  <2>3. \A m \in Nodes : wal'[m] = IF m = n THEN y ELSE wal[m]
    BY <1>1, <2>1
  <2>4. \A m \in Nodes : streams'[m] = IF m = n THEN table ELSE streams[m]
    BY <1>1 DEF Inv, TableInv
  <2> HIDE DEF y
  <2> SUFFICES ASSUME NEW m \in Nodes, NEW s \in Streams, disk'[m].own
      PROVE  Rebuilds(disk'[m], wal'[m], s, streams'[m][s].commit)
    BY DEF RecoverPart
  <2>5. CASE m # n
    BY <1>2, <2>3, <2>4, <2>5 DEF RecoverPart
  <2>6. CASE m = n /\ disk'[n].snap = snap
    <3>1. streams'[n][s] = table[s] /\ table[s].commit \in Nat
      BY <1>8, <2>4 DEF SoundStreams, StreamStates
    <3> QED
      BY <1>9, <2>6, <3>1 DEF Rebuilds
  <2>7. CASE m = n /\ disk'[n].snap = disk[n].snap /\ disk'[n].own = disk[n].own
    <3>1. ASSUME NEW u \in Streams
          PROVE  Rebuilds(disk'[n], y, u, streams[n][u].commit)
      <4>1. Rebuilds(disk[n], wal[n], u, streams[n][u].commit)
        BY <2>7 DEF RecoverPart
      <4>2. \A k \in 1..Len(wal[n]) : k \in 1..Len(y)
        BY <2>2
      <4> QED
        BY <2>2, <2>7, <4>1, <4>2 DEF Rebuilds
    <3>2. CASE s = c.stream
      <4>1. Rebuilds(disk'[n], y, c.stream, old.commit)
        BY <1>5, <3>1
      <4>2. PICK k \in 1..Len(y) : y[k] = x
        BY <2>2
      <4>3. y[k].stream = c.stream /\ y[k].index > disk'[n].snap.index /\ y[k].lsn = c.lsn
        BY <1>3, <1>9, <1>10, <2>7, <4>2
      <4> HIDE DEF old
      <4>4. Rebuilds(disk'[n], y, c.stream,
              MarkCommitted(MarkAppended(old, c.epoch, i, c.lsn, c.w), i, c.lsn).commit)
        BY <1>3, <1>5, <1>6, <4>1, <4>3, MarkRebuilds
      <4>5. Rebuilds(disk'[n], y, c.stream, st.commit)
        BY <4>4 DEF st, Applied
      <4> QED
        BY <1>8, <2>3, <2>4, <2>7, <3>2, <4>5
    <3>3. CASE s # c.stream
      BY <1>8, <2>3, <2>4, <2>7, <3>1, <3>3
    <3> QED
      BY <3>2, <3>3
  <2> QED
    BY <1>2, <2>5, <2>6, <2>7
<1> QED
  BY <1>11, <1>12

LEMMA RequestRecover ==
  ASSUME Inv, CursorPart, RecoverPart, NEW n \in Nodes, Request(n)
  PROVE  CursorPart' /\ RecoverPart'
<1>1. ASSUME wal' = wal, disk' = disk, CommitsKept, UNCHANGED <<raft, pc, cursor>>
      PROVE  CursorPart' /\ RecoverPart'
  BY <1>1, RecoverKept DEF FilesKept, CursorPart
<1>2. ASSUME NEW s \in Streams, NEW st \in SoundStreams,
             streams' = [streams EXCEPT ![n][s] = st], st.commit = streams[n][s].commit
      PROVE  CommitsKept
  BY <1>2, StreamStep DEF Inv, CommitsKept
<1>3. ASSUME NEW w \in Writes, WriteNotLeader(n, w) PROVE CursorPart' /\ RecoverPart'
  BY <1>1, <1>3 DEF WriteNotLeader, engineVars, walVars, CommitsKept
<1>4. ASSUME NEW w \in Writes, NEW s \in Streams, NEW e \in Epochs, WriteFenced(n, w, s, e)
      PROVE  CursorPart' /\ RecoverPart'
  BY <1>1, <1>4 DEF WriteFenced, engineVars, walVars, CommitsKept
<1>5. ASSUME NEW w \in Writes, NEW s \in Streams, NEW e \in Epochs, WritePropose(n, w, s, e)
      PROVE  CursorPart' /\ RecoverPart'
  <2> DEFINE st == AllocateAppend(streams[n][s], e)
  <2>1. streams[n][s] \in SoundStreams /\ e \in Nat
    BY GroupAssumption DEF Inv, TableInv
  <2>2. st \in SoundStreams /\ st.commit = streams[n][s].commit
    BY <2>1, AllocateSound DEF AllocateAppend
  <2>3. streams' = [streams EXCEPT ![n][s] = st] /\ wal' = wal
    BY <1>5 DEF WritePropose, walVars
  <2> HIDE DEF st
  <2>4. CommitsKept
    BY <1>2, <2>2, <2>3
  <2>5. \E r, ack : Driven(n, r, ack)
    BY <1>5, DrivenTurn
  <2> QED
    BY <2>3, <2>4, <2>5, DrivenRecover
<1>6. ASSUME NEW s \in Streams, NEW o \in ConsumerOffsets, Consume(n, s, o)
      PROVE  CursorPart' /\ RecoverPart'
  <2> DEFINE st == AdvanceConsumed(streams[n][s], o)
  <2>1. streams[n][s] \in SoundStreams /\ o \in Nat
    BY GroupAssumption DEF Inv, TableInv
  <2>2. st \in SoundStreams /\ st.commit = streams[n][s].commit
    BY <2>1, ConsumeSound DEF AdvanceConsumed
  <2>3. streams' = [streams EXCEPT ![n][s] = st] /\ UNCHANGED <<raft, disk, wal, pc, cursor>>
    BY <1>6 DEF Consume, walVars
  <2> HIDE DEF st
  <2>4. CommitsKept
    BY <1>2, <2>2, <2>3
  <2> QED
    BY <1>1, <2>3, <2>4
<1> QED
  BY <1>3, <1>4, <1>5, <1>6 DEF Request

LEMMA NextRecover == Inv /\ CursorPart /\ RecoverPart /\ [Next]_vars => CursorPart' /\ RecoverPart'
<1> SUFFICES ASSUME Inv, CursorPart, RecoverPart, [Next]_vars PROVE CursorPart' /\ RecoverPart'
  OBVIOUS
<1>1. CASE Next
  <2>1. PICK n \in Nodes :
          \/ Request(n) \/ Receive(n) \/ Engine(n) \/ Restart(n)
          \/ \E V \in Electorates, t \in Terms : BecomeLeader(n, V, t)
    BY <1>1 DEF Next
  <2>7. CASE RunGc(n)
    <3>1. UNCHANGED <<disk, wal, streams, raft, pc, cursor>>
      BY <2>7 DEF RunGc
    <3> QED
      BY <3>1, RecoverKept DEF FilesKept, CommitsKept, CursorPart
  <2>2. CASE OpenDone(n)
    <3>1. /\ UNCHANGED <<disk, wal, streams, raft>>
          /\ pc' = [pc EXCEPT ![n] = "select"]
          /\ cursor' = [cursor EXCEPT ![n] = raft[n].since + 1]
      BY <2>2 DEF OpenDone, engineVars, walVars
    <3>2. RecoverPart'
      BY <3>1, RecoverKept DEF FilesKept, CommitsKept
    <3>3. /\ cursor'[n] = raft[n].since + 1
          /\ \A m \in Nodes \ {n} : pc'[m] = pc[m] /\ cursor'[m] = cursor[m]
      BY <3>1 DEF Inv, CoreInv
    <3>4. /\ raft[n].since \in Nat /\ raft[n].applied \in Nat /\ disk[n].snap.index \in Nat
          /\ raft[n].applied <= raft[n].since /\ disk[n].snap.index <= raft[n].since
      BY DEF Inv, CoreInv, GoodRaft, RaftStates, DiskStates, Snapshots, CursorPart, Ahead
    <3>5. Ahead(disk[n].snap.index, raft[n], pc'[n], cursor'[n])
      BY <3>3, <3>4 DEF Ahead
    <3>6. CursorPart'
      BY <3>1, <3>3, <3>5 DEF CursorPart
    <3> QED
      BY <3>2, <3>6
  <2>3. CASE Request(n)
    BY <2>3, RequestRecover
  <2>4. CASE Receive(n) \/ Tick(n)
    BY <2>4, ReceiveRecover
  <2>5. CASE ApplyAppendEntry(n) \/ Advance(n) \/ ReplayRecord(n) \/ Restart(n)
    BY <2>5, ApplyRecover, AdvanceRecover, ReplayRecover, RestartRecover
  <2>6. CASE \E V \in Electorates, t \in Terms : BecomeLeader(n, V, t)
    BY <2>6, ElectRecover
  <2> QED
    BY <2>1, <2>2, <2>3, <2>4, <2>5, <2>6, <2>7 DEF Engine
<1>2. CASE UNCHANGED vars
  BY <1>2, RecoverKept DEF vars, FilesKept, CommitsKept, CursorPart
<1> QED
  BY <1>1, <1>2

\* CommitIsRecoverable: unless its snapshot came from another node, the commit
\* position a node reports is the one its snapshot holds or one that a committed
\* entry of its raft file above the snapshot gives, so a crash at any point loses
\* none of it, whatever run_gc has removed from the WAL.
THEOREM CommitSurvivesCrash == Spec => []CommitIsRecoverable
<1>1. Init => CursorPart /\ RecoverPart
  <2> SUFFICES ASSUME Init PROVE CursorPart /\ RecoverPart
    OBVIOUS
  <2>1. ASSUME NEW n \in Nodes
        PROVE  /\ disk[n].snap.index = 0 /\ raft[n].since = 1 /\ raft[n].applied = 1
               /\ cursor[n] = 2
    BY DEF Init, NewDisk, NewRaft, NoSnapshot
  <2>2. CursorPart
    BY <2>1 DEF CursorPart, Ahead
  <2>3. ASSUME NEW n \in Nodes, NEW s \in Streams
        PROVE  streams[n][s].commit = 0 /\ disk[n].snap.data[s].commit = 0
    BY DEF Init, NewDisk, NoSnapshot, EmptyTable, NewStream
  <2>4. RecoverPart
    BY <2>3 DEF RecoverPart, Rebuilds
  <2> QED
    BY <2>2, <2>4
<1>2. Inv /\ AppliedInv /\ RecoverPart => CommitIsRecoverable
  <2> SUFFICES ASSUME Inv, AppliedInv, RecoverPart, NEW n \in Nodes, NEW s \in Streams,
                      disk[n].own
      PROVE  \E c \in RecoveredCommits(n, s) : streams[n][s].commit <= c
    BY DEF CommitIsRecoverable
  <2>1. Rebuilds(disk[n], wal[n], s, streams[n][s].commit)
    BY DEF RecoverPart
  <2>2. CASE streams[n][s].commit <= disk[n].snap.data[s].commit
    BY <2>2 DEF RecoveredCommits
  <2>3. ASSUME NEW i \in 1..Len(wal[n]), wal[n][i].stream = s,
               wal[n][i].index > disk[n].snap.index, streams[n][s].commit <= wal[n][i].lsn + 1
        PROVE  \E c \in RecoveredCommits(n, s) : streams[n][s].commit <= c
    <3> DEFINE j == wal[n][i].index
    <3>1. Recorded(raft[n], wal[n][i])
      BY DEF AppliedInv, WalPart
    <3>2. disk[n].log = raft[n].log /\ disk[n].commit = raft[n].committed
          /\ raft[n].committed \in Nat /\ disk[n].snap.index \in Nat
      BY DEF Inv, CoreInv, GoodDisk, GoodRaft, RaftStates, DiskStates, Snapshots
    <3>3. /\ j \in (disk[n].snap.index + 1)..disk[n].commit
          /\ disk[n].log[j].cmd # NoCmd /\ disk[n].log[j].cmd.stream = s
          /\ disk[n].log[j].cmd.lsn = wal[n][i].lsn
      BY <2>3, <3>1, <3>2 DEF Recorded
    <3> HIDE DEF j
    <3>4. wal[n][i].lsn + 1 \in RecoveredCommits(n, s)
      BY <3>3 DEF RecoveredCommits
    <3> QED
      BY <2>3, <3>4
  <2> QED
    BY <2>1, <2>2, <2>3 DEF Rebuilds
<1>3. Init => Inv /\ CursorPart /\ RecoverPart
  BY <1>1, InitInv
<1>4. Inv /\ CursorPart /\ RecoverPart /\ [Next]_vars => (Inv /\ CursorPart /\ RecoverPart)'
  BY NextInv, NextRecover
<1> QED
  BY <1>2, <1>3, <1>4, AppliedHolds, PTL DEF Spec

-----------------------------------------------------------------------------
(***************************************************************************)
(* One leader.  A second won term breaks what clients are told (the runs   *)
(* Failover, FailoverLsn and FailoverAck show how).  Until one is won, all *)
(* entries with data come from one leader, which keeps its role as long as *)
(* its process runs.  The invariant OneInv collects what the theorems      *)
(* need of that; its parts hold with any number of leaders, except the two *)
(* that say so.                                                            *)
(***************************************************************************)
OneElection == \A t, u \in Terms : Elected(sent, t) /\ Elected(sent, u) => t = u

\* a node is in the first term or in one that was won
TermPart == \A n \in Nodes : raft[n].term = 1 \/ Elected(sent, raft[n].term)

\* log l holds at i a command for position p of stream s
Holds(l, i, s, p) == l[i].cmd # NoCmd /\ l[i].cmd.stream = s /\ l[i].cmd.lsn = p

\* a leader has given the position away
Given(S, s, p) == \E t \in Terms : \E i \in 1..Len(S[t].log) : Holds(S[t].log, i, s, p)

AllGiven(S, s, k) == \A p \in 0..(k - 1) : Given(S, s, p)

Dense(S, l) ==
  \A i \in 1..Len(l) : l[i].cmd # NoCmd => AllGiven(S, l[i].cmd.stream, l[i].cmd.lsn)

TableGiven(S, table) == \A s \in Streams : AllGiven(S, s, table[s].next)

\* no position was skipped: not by a table, a snapshot of one or a log
GivenPart ==
  /\ \A t \in Terms : Dense(sent, sent[t].log) /\ TableGiven(sent, sent[t].snap.data)
  /\ \A n \in Nodes : TableGiven(sent, streams[n]) /\ TableGiven(sent, disk[n].snap.data)

\* the leader of t proposes write w at i
Proposes(S, t, i, w) ==
  i \in 1..Len(S[t].log) /\ S[t].log[i].term = t /\ S[t].log[i].cmd # NoCmd /\ S[t].log[i].cmd.w = w

\* a write is proposed once, and only after it was taken
WritePart ==
  \A w \in Writes :
    /\ \A t, u \in Terms : \A i \in 1..Len(sent[t].log), j \in 1..Len(sent[u].log) :
         Proposes(sent, t, i, w) /\ Proposes(sent, u, j, w) => t = u /\ i = j
    /\ (\E t \in Terms : \E i \in 1..Len(sent[t].log) : Proposes(sent, t, i, w))
         => reply[w].status \notin {"unsent", "fenced"}
    /\ reply[w].status \in {"waiting", "ok"} => \E t \in Terms : Elected(sent, t)

\* in the log l the leader of a term, which has counted to seq, tells its
\* commands apart by their ids, and the waiting ones P are among them
Own(l, term, i) == i \in 1..Len(l) /\ l[i].term = term /\ l[i].cmd # NoCmd

Requests(l, term, seq, P) ==
  /\ \A i \in 1..Len(l) : Own(l, term, i) => l[i].cmd.rid <= seq
  /\ \A i, j \in 1..Len(l) :
       Own(l, term, i) /\ Own(l, term, j) /\ l[i].cmd.rid = l[j].cmd.rid => i = j
  /\ \A p \in P : \E i \in 1..Len(l) : Own(l, term, i) /\ l[i].cmd = p

RequestPart ==
  \A n \in Nodes : raft[n].role = "leader" =>
    Requests(raft[n].log, raft[n].term, requestSeq[n], pending[n])

\* an engine that has seen itself lead still does
NoticedPart ==
  OneElection => \A n \in Nodes : observed[n] = "leader" => raft[n].role = "leader"

\* a position of s that the index of n finds, or one that is not needed any more
Findable(n, s, lsn) ==
  IndexHits(n, s, lsn) # {} \/ lsn < streams[n][s].consumed

\* n has written write w to its WAL at lsn, below the commit position of its stream,
\* and finds it there as long as it is needed
Served(n, lsn, w) ==
  \E k \in 1..Len(wal[n]) : LET x == wal[n][k] IN
    /\ x.w = w /\ x.lsn = lsn /\ lsn < streams[n][x.stream].commit
    /\ Findable(n, x.stream, lsn)

AckedPart ==
  OneElection => \A n \in Nodes, w \in Writes :
    raft[n].role = "leader" /\ reply[w].status = "ok" => Served(n, reply[w].lsn, w)

\* what a tail cache holds can be found without it: read_stream loses nothing when
\* the cache drops a record
TailFindable ==
  \A n \in Nodes, s \in Streams : \A i \in 1..Len(streams[n][s].tail) :
    Findable(n, s, streams[n][s].tail[i].lsn)

-----------------------------------------------------------------------------
(***************************************************************************)
(* A node keeps its role and term, loses them in a crash, or moves to a    *)
(* later term, which a leader has won or some node has reached.            *)
(***************************************************************************)
TermMove(n) ==
  \/ raft'[n].role = raft[n].role /\ raft'[n].term = raft[n].term
  \/ /\ raft'[n].role = "follower" /\ raft'[n].term = raft[n].term
     /\ observed'[n] = "follower" /\ pc'[n] = "open"
  \/ /\ raft[n].term < raft'[n].term
     /\ Elected(sent', raft'[n].term) \/ \E m \in Nodes : raft'[n].term = raft[m].term

LEMMA DrivenMoves ==
  ASSUME Inv, NEW n \in Nodes, NEW r, NEW ack, Driven(n, r, ack),
         SentShape(sent), SentShape(sent'), Grown(sent, sent')
  PROVE  \A m \in Nodes : TermMove(m)
<1>1. DriveView(n, r, ack) /\ r.term \in Terms
  BY DriveReadyView DEF Driven, Inv, GoodRaft, RaftStates
<1>2. raft'[n].role = r.role /\ raft'[n].term = r.term /\ \A m \in Nodes : m # n => raft'[m] = raft[m]
  BY <1>1 DEF DriveView, SameTurn
<1>3. Elected(sent, r.term) => Elected(sent', r.term)
  BY <1>1, ElectedStays
<1> QED
  BY <1>2, <1>3 DEF TermMove, Driven, Heard

LEMMA TermMoves ==
  ASSUME Inv, Inv', Replicated, [Next]_vars
  PROVE  \A m \in Nodes : TermMove(m)
<1>1. SentShape(sent) /\ SentShape(sent') /\ Grown(sent, sent')
  BY SentGrows
<1>2. CASE UNCHANGED raft
  BY <1>2 DEF TermMove
<1>3. CASE Next
  <2>1. PICK n \in Nodes :
          \/ Request(n) \/ Receive(n) \/ Engine(n) \/ Restart(n)
          \/ \E V \in Electorates, t \in Terms : BecomeLeader(n, V, t)
    BY <1>3 DEF Next
  <2>2. ASSUME \E r, ack : Driven(n, r, ack) PROVE \A m \in Nodes : TermMove(m)
    BY <1>1, <2>2, DrivenMoves
  <2>3. CASE Request(n)
    <3>1. CASE \E w \in Writes, s \in Streams, e \in Epochs : WritePropose(n, w, s, e)
      BY <2>2, <3>1, DrivenTurn
    <3>2. CASE ~ \E w \in Writes, s \in Streams, e \in Epochs : WritePropose(n, w, s, e)
      <4>1. UNCHANGED raft
        BY <2>3, <3>2 DEF Request, WriteNotLeader, WriteFenced, Consume
      <4> QED
        BY <1>2, <4>1
    <3> QED
      BY <3>1, <3>2
  <2>4. ASSUME NEW t \in Terms, StepSnapshotInstall(n, t) PROVE \A m \in Nodes : TermMove(m)
    <3> DEFINE r == Follow(raft[n], t)
               i == sent[t].snap.index
               l == sent[t].log
               q == Restored(r, l, i)
    <3>1. GoodRaft(r) /\ r.committed = raft[n].committed /\ r.committed \in Nat
      BY FollowGood DEF Follow, Inv, CoreInv, GoodRaft, RaftStates
    <3>2. l \in Seq(Entries) /\ Len(l) \in Nat /\ i \in 0..Len(l) /\ i \in Nat
      BY LenProperties DEF Inv, CoreInv, Dispatches, GoodDispatch, GoodSnap
    <3>3. r.committed <= i /\ i > raft[n].committed /\ Proceed(n, q, i + 1) /\ Hears(n, t)
      BY <2>4, <3>1, <3>2 DEF StepSnapshotInstall
    <3>4. Elected(sent, t) /\ Elected(sent', t)
      BY <1>1, <3>1, <3>2, <3>3, ElectedStays DEF Elected
    <3>5. q.role = "follower" /\ q.term = t
      BY DEF Restored, Follow
    <3> HIDE DEF r, l
    <3>6. GoodRaft(q) /\ i + 1 \in Nat \ {0} /\ CoreInv
      BY <3>1, <3>2, <3>3, RestoredGood DEF Inv
    <3> HIDE DEF q, i
    <3>7. SameTurn(q, raft'[n]) /\ TurnStep(n, q)
      BY <3>3, <3>6, ProceedGood
    <3>8. /\ raft'[n].role = "follower" /\ raft'[n].term = t
          /\ \A m \in Nodes : m # n => raft'[m] = raft[m]
      BY <3>5, <3>7 DEF SameTurn, TurnStep
    <3>9. Heard(n, "follower", t)
      BY <3>3, <3>4, HearsHeard
    <3> QED
      BY <3>4, <3>8, <3>9 DEF TermMove, Heard
  <2>5. CASE Receive(n) \/ Tick(n)
    <3>1. CASE ~ \E t \in Terms : StepSnapshotInstall(n, t)
      BY <2>2, <2>5, <3>1, DrivenTurn DEF Receive
    <3> QED
      BY <2>4, <3>1
  <2>6. CASE ApplyAppendEntry(n)
    <3>1. \E i : Proceed(n, raft[n], i)
      BY <2>6 DEF ApplyAppendEntry
    <3>2. \A m \in Nodes : raft'[m].role = raft[m].role /\ raft'[m].term = raft[m].term
      BY <3>1 DEF Proceed, Ended, Inv, CoreInv
    <3> QED
      BY <3>2 DEF TermMove
  <2>7. CASE Advance(n)
    <3>1. \A m \in Nodes : raft'[m].role = raft[m].role /\ raft'[m].term = raft[m].term
      BY <2>7 DEF Advance, Ended, Inv, CoreInv
    <3> QED
      BY <3>1 DEF TermMove
  <2>8. CASE ReplayRecord(n) \/ OpenDone(n) \/ RunGc(n)
    BY <1>2, <2>8 DEF ReplayRecord, OpenDone, RunGc
  <2>9. CASE Restart(n)
    <3>1. /\ raft'[n].role = "follower" /\ raft'[n].term = raft[n].term
          /\ observed'[n] = "follower" /\ pc'[n] = "open"
          /\ \A m \in Nodes : m # n => raft'[m] = raft[m]
      BY <2>9 DEF Restart, Reopened, Inv, CoreInv, ClientInv, GoodDisk
    <3> QED
      BY <3>1 DEF TermMove
  <2>10. ASSUME NEW V \in Electorates, NEW t \in Terms, BecomeLeader(n, V, t)
         PROVE  \A m \in Nodes : TermMove(m)
    <3>1. Elected(sent', t)
      <4>1. PICK L, Q : RepInv(L, Q)
        BY DEF Replicated
      <4>2. Shapes /\ Shapes'
        BY CoreShapes, PTL DEF Inv
      <4>3. raft'[n].log = Append(raft[n].log, [term |-> t, cmd |-> NoCmd])
            /\ ElectStep(n, V, t)
        BY <2>10, <4>1, <4>2, BecomeLeaderRep
      <4>4. raft[n].log \in Seq(Entries) /\ Len(raft[n].log) \in Nat
        BY <4>2 DEF Shapes
      <4>5. Len(raft'[n].log) = Len(raft[n].log) + 1
        BY <4>3, <4>4, AppendProperties DEF Entries
      <4>6. sent'[t].log = raft'[n].log
        BY <4>3 DEF ElectStep
      <4> QED
        BY <4>4, <4>5, <4>6 DEF Elected
    <3> SUFFICES ASSUME NEW m \in Nodes PROVE TermMove(m)
      OBVIOUS
    <3>2. CASE m \in V
      <4>1. raft[m].term < t /\ raft'[m] = Taken(IF m = n THEN Lead(raft[m], t) ELSE Follow(raft[m], t))
        BY <2>10, <3>2 DEF BecomeLeader
      <4>2. raft'[m].term = t
        BY <4>1 DEF Taken, Lead, Follow
      <4> QED
        BY <3>1, <4>1, <4>2 DEF TermMove
    <3>3. CASE m \notin V
      BY <2>10, <3>3 DEF BecomeLeader, TermMove
    <3> QED
      BY <3>2, <3>3
  <2> QED
    BY <2>1, <2>3, <2>5, <2>6, <2>7, <2>8, <2>9, <2>10 DEF Engine
<1> QED
  BY <1>2, <1>3 DEF vars

LEMMA NextTerm ==
  ASSUME Inv, Inv', Replicated, TermPart, [Next]_vars
  PROVE  TermPart'
<1>1. SentShape(sent) /\ SentShape(sent') /\ Grown(sent, sent')
  BY SentGrows
<1>2. \A n \in Nodes : raft[n].term \in Terms /\ raft[n].term \in Nat /\ raft[n].term >= 1
  BY TermIsNat, CoreShapes DEF Inv, Shapes
<1>3. \A n \in Nodes : raft[n].term = 1 \/ Elected(sent', raft[n].term)
  BY <1>1, <1>2, ElectedStays DEF TermPart
<1> SUFFICES ASSUME NEW n \in Nodes
    PROVE  raft'[n].term = 1 \/ Elected(sent', raft'[n].term)
  BY DEF TermPart
<1>4. TermMove(n)
  BY TermMoves
<1> QED
  BY <1>2, <1>3, <1>4 DEF TermMove

-----------------------------------------------------------------------------
(***************************************************************************)
(* What one step does to the WAL, the stream tables and the snapshots.     *)
(***************************************************************************)
RecordAt(i, c) ==
  [index |-> i, w |-> c.w, stream |-> c.stream, epoch |-> c.epoch, lsn |-> c.lsn]

\* the step gives node n an index with record k
IndexedNow(n, k) == \E ix : index' = [index EXCEPT ![n] = ix] /\ k \in ix

\* apply_append_entry of the command c at index i
ApplyView(n, i, c) ==
  /\ i \in 1..raft[n].committed /\ i \in 1..Len(raft[n].log)
  /\ c = raft[n].log[i].cmd /\ c # NoCmd /\ c \in Commands
  /\ \A m \in Nodes : SameTurn(raft[m], raft'[m])
  /\ \A m \in Nodes : m # n => wal'[m] = wal[m]
  /\ Len(wal[n]) \in Nat /\ Len(wal'[n]) = Len(wal[n]) + 1
  /\ wal'[n][Len(wal[n]) + 1] = RecordAt(i, c)
  /\ \A k \in 1..Len(wal[n]) : wal'[n][k] = wal[n][k]
  /\ \A m \in Nodes, s \in Streams :
       streams'[m][s] = IF m = n /\ s = c.stream THEN Applied(streams[n][s], i, c)
                        ELSE streams[m][s]
  /\ pending' = [pending EXCEPT ![n] = Resolve(@, c.rid)]
  /\ reply' = [w \in Writes |->
       IF \E p \in pending[n] : p.rid = c.rid /\ p.w = w
       THEN [status |-> "ok",
             lsn |-> (CHOOSE p \in pending[n] : p.rid = c.rid /\ p.w = w).lsn]
       ELSE reply[w]]
  /\ UNCHANGED <<requestSeq, observed>>
  /\ IndexedNow(n, Len(wal[n]) + 1)
  /\ \A m \in Nodes : \/ disk'[m].snap = disk[m].snap
                      \/ \A s \in Streams : disk'[m].snap.data[s].next = streams'[n][s].next
  /\ \A t \in Terms : \/ sent'[t].snap = sent[t].snap
                      \/ \A s \in Streams : sent'[t].snap.data[s].next = streams'[n][s].next

LEMMA CommandFields ==
  ASSUME NEW c \in Commands
  PROVE  /\ c.stream \in Streams /\ c.epoch \in Nat /\ c.epoch \in Epochs
         /\ c.lsn \in Nat /\ c.w \in Writes /\ c.rid \in Nat
  BY GroupAssumption DEF Commands

LEMMA ApplyStep ==
  ASSUME Inv, NEW n \in Nodes, ApplyAppendEntry(n)
  PROVE  \E i, c : ApplyView(n, i, c)
<1> DEFINE todo == ToApply(raft[n], cursor[n])
           i == CHOOSE j \in todo : \A k \in todo : j <= k
           c == raft[n].log[i].cmd
           table == [streams[n] EXCEPT ![c.stream] = Applied(@, i, c)]
           snap == TakeSnapshot(SnapshotIndex(raft[n]), table)
           x == [index |-> i, w |-> c.w, stream |-> c.stream, epoch |-> c.epoch,
                 lsn |-> c.lsn]
<1>1. /\ todo # {}
      /\ wal' = [wal EXCEPT ![n] = Append(@, x)]
      /\ streams' = [streams EXCEPT ![n] = table]
  BY ZenonT(30) DEF ApplyAppendEntry, RecordFor
<1>17. index' = [index EXCEPT ![n] = Inserted(index[n], wal[n], x, Len(wal[n]) + 1)]
  BY ZenonT(30) DEF ApplyAppendEntry, RecordFor
<1>16. /\ \/ disk' = disk
         \/ disk' = [disk EXCEPT ![n] = [term |-> @.term, commit |-> @.commit, log |-> @.log,
                                        snap |-> snap, own |-> TRUE]]
      /\ \/ sent' = sent
         \/ sent' = [sent EXCEPT ![raft[n].term] = Dispatched(raft[n], snap)]
  BY ZenonT(30) DEF ApplyAppendEntry
<1>15. /\ \A m \in Nodes : disk'[m].snap = disk[m].snap \/ disk'[m].snap = snap
      /\ \A t \in Terms : sent'[t].snap = sent[t].snap \/ sent'[t].snap = snap
  <2>1. disk \in [Nodes -> DiskStates] /\ sent \in [Terms -> Dispatches]
    BY DEF Inv, CoreInv
  <2> HIDE DEF snap
  <2>2. \A m \in Nodes : disk'[m].snap = disk[m].snap \/ disk'[m].snap = snap
    BY <1>16, <2>1
  <2>3. \A t \in Terms : sent'[t].snap = sent[t].snap \/ sent'[t].snap = snap
    BY <1>16, <2>1 DEF Dispatched
  <2> QED
    BY <2>2, <2>3
<1>13. Proceed(n, raft[n], i + 1)
  BY ZenonT(30) DEF ApplyAppendEntry
<1>14. /\ pending' = [pending EXCEPT ![n] = Resolve(@, c.rid)]
      /\ reply' = [w \in Writes |->
           IF \E p \in pending[n] : p.rid = c.rid /\ p.w = w
           THEN [status |-> "ok",
                 lsn |-> (CHOOSE p \in pending[n] : p.rid = c.rid /\ p.w = w).lsn]
           ELSE reply[w]]
      /\ UNCHANGED <<requestSeq, observed>>
  BY ZenonT(30) DEF ApplyAppendEntry
<1>2. /\ i \in 1..raft[n].committed /\ i \in Nat /\ c # NoCmd
      /\ raft[n].log \in Seq(Entries) /\ i \in 1..Len(raft[n].log)
  <2>1. /\ raft[n].log \in Seq(Entries) /\ Len(raft[n].log) \in Nat
        /\ raft[n].since \in Nat /\ raft[n].since <= raft[n].committed
        /\ raft[n].committed \in Nat /\ raft[n].committed <= Len(raft[n].log)
        /\ cursor[n] \in Nat \ {0}
    BY LenProperties DEF Inv, CoreInv, GoodRaft, RaftStates
  <2>2. \A j \in todo : j \in Nat \ {0} /\ j <= raft[n].since /\ raft[n].log[j].cmd # NoCmd
    BY <2>1 DEF ToApply
  <2>3. todo \in SUBSET Nat
    BY <2>2
  <2> HIDE DEF todo
  <2>4. \E j \in todo : \A k \in todo : j <= k
    BY <1>1, <2>3, LeastNat
  <2>5. i \in todo
    BY <2>4
  <2> HIDE DEF i
  <2> QED
    BY <2>1, <2>2, <2>5
<1>3. SameTurn(raft[n], raft'[n]) /\ \A m \in Nodes : m # n => raft'[m] = raft[m]
  <2> HIDE DEF i, todo, c
  <2>1. CoreInv /\ GoodRaft(raft[n]) /\ i + 1 \in Nat \ {0} /\ Proceed(n, raft[n], i + 1)
    BY <1>2, <1>13 DEF Inv, CoreInv
  <2> QED
    BY <2>1, ProceedGood DEF TurnStep
<1> HIDE DEF todo, i
<1>4. c \in Commands
  <2>1. raft[n].log[i] \in Entries
    BY <1>2, ElementOfSeq
  <2> QED
    BY <1>2, <2>1 DEF Entries
<1>5. c = raft[n].log[i].cmd
  OBVIOUS
<1> HIDE DEF c
<1>6. /\ c.stream \in Streams /\ c.epoch \in Nat /\ c.epoch \in Epochs /\ c.lsn \in Nat
      /\ c.w \in Writes
  BY <1>4, CommandFields
<1>7. x \in WalRecords
  BY <1>2, <1>6 DEF WalRecords
<1>8. \A m \in Nodes, s \in Streams :
        streams'[m][s] = IF m = n /\ s = c.stream THEN Applied(streams[n][s], i, c)
                         ELSE streams[m][s]
  BY <1>1, <1>6 DEF Inv, TableInv
<1>9. \A s \in Streams : snap.data[s].next = streams'[n][s].next
  <2> SUFFICES ASSUME NEW s \in Streams PROVE snap.data[s].next = streams'[n][s].next
    OBVIOUS
  <2>1. snap.data[s] = SnapshotOf(table[s]) /\ streams'[n] = table
    BY <1>1, <1>15 DEF TakeSnapshot, Inv, TableInv
  <2>2. table[s] \in SoundStreams
    <3> DEFINE st == Applied(streams[n][c.stream], i, c)
    <3>1. st \in SoundStreams
      BY <1>2, <1>6, MarkSound DEF Applied, Inv, TableInv
    <3>2. table = [streams[n] EXCEPT ![c.stream] = st]
      OBVIOUS
    <3> HIDE DEF st, table
    <3> QED
      BY <1>6, <3>1, <3>2 DEF Inv, TableInv
  <2> HIDE DEF table, snap
  <2> QED
    BY <2>1, <2>2 DEF SnapshotOf, SoundStreams, StreamStates
<1> HIDE DEF table, snap, x
<1>10. /\ Len(wal[n]) \in Nat /\ Len(wal'[n]) = Len(wal[n]) + 1
       /\ wal'[n][Len(wal[n]) + 1] = x
       /\ \A k \in 1..Len(wal[n]) : wal'[n][k] = wal[n][k]
       /\ \A m \in Nodes : m # n => wal'[m] = wal[m]
  <2>1. wal[n] \in Seq(WalRecords) /\ wal \in [Nodes -> Seq(WalRecords)]
    BY DEF Inv, TableInv
  <2>2. /\ Len(Append(wal[n], x)) = Len(wal[n]) + 1 /\ Len(wal[n]) \in Nat
        /\ Append(wal[n], x)[Len(wal[n]) + 1] = x
        /\ \A k \in 1..Len(wal[n]) : Append(wal[n], x)[k] = wal[n][k]
    BY <1>7, <2>1, AppendProperties, LenProperties
  <2>3. \A m \in Nodes : wal'[m] = IF m = n THEN Append(wal[n], x) ELSE wal[m]
    BY <1>1, <2>1
  <2> QED
    BY <2>2, <2>3
<1>11. \A m \in Nodes : SameTurn(raft[m], raft'[m])
  BY <1>3 DEF SameTurn
<1>12. ApplyView(n, i, c)
  <2>1. /\ \A m \in Nodes :
             \/ disk'[m].snap = disk[m].snap
             \/ \A s \in Streams : disk'[m].snap.data[s].next = streams'[n][s].next
        /\ \A t \in Terms :
             \/ sent'[t].snap = sent[t].snap
             \/ \A s \in Streams : sent'[t].snap.data[s].next = streams'[n][s].next
    BY <1>9, <1>15
  <2>2. x = RecordAt(i, c)
    BY DEF RecordAt, x
  <2>3. \A m \in Nodes : m # n => wal'[m] = wal[m]
    BY <1>10
  <2>4. IndexedNow(n, Len(wal[n]) + 1)
    BY <1>17 DEF IndexedNow, Inserted
  <2> QED
    BY <1>2, <1>4, <1>5, <1>8, <1>10, <1>11, <1>14, <2>1, <2>2, <2>3, <2>4, ZenonT(30)
    DEF ApplyView
<1> QED
  BY <1>12

\* a table that took no record keeps its commit position and its tail
Kept(a, b) ==
  /\ b.next <= a.next /\ b.commit = a.commit /\ a.consumed <= b.consumed
  /\ Within(b.tail, a.tail)

\* a record x was marked appended and committed
Marked(a, b, x) ==
  /\ b.next = Max2(a.next, x.lsn + 1) /\ b.commit = Max2(a.commit, x.lsn + 1)
  /\ b.consumed = a.consumed
  /\ \A i \in 1..Len(b.tail) :
       \/ b.tail[i].lsn = x.lsn /\ b.tail[i].payload = x.w
       \/ \E j \in 1..Len(a.tail) : b.tail[i] = a.tail[j]

TableMove(n, s) ==
  LET a == streams[n][s]
      b == streams'[n][s]
  IN  \/ Kept(a, b)
      \/ \E k \in 1..Len(wal'[n]) : /\ wal'[n][k].stream = s /\ IndexedNow(n, k)
                                   /\ Marked(a, b, wal'[n][k])
      \/ /\ b.next = a.next + 1 /\ b.commit = a.commit /\ b.tail = a.tail
         /\ b.consumed = a.consumed
         /\ \E w \in Writes, e \in Epochs : WritePropose(n, w, s, e)
      \/ b = disk[n].snap.data[s] /\ pc'[n] = "open" /\ Restart(n)

LEMMA SameKept ==
  ASSUME NEW a \in SoundStreams
  PROVE  Kept(a, a)
<1>1. a.next \in Nat /\ a.consumed \in Nat
  BY DEF SoundStreams, StreamStates
<1> QED
  BY <1>1 DEF Kept, Within

LEMMA MarkMarked ==
  ASSUME NEW st \in SoundStreams, NEW e \in Nat, NEW x, x.index \in Nat, x.lsn \in Nat,
         x.w \in Writes
  PROVE  Marked(st, MarkCommitted(MarkAppended(st, e, x.index, x.lsn, x.w), x.index, x.lsn), x)
<1> DEFINE y == [lsn |-> x.lsn, entry_id |-> x.index, payload |-> x.w]
           b == MarkCommitted(MarkAppended(st, e, x.index, x.lsn, x.w), x.index, x.lsn)
<1>1. y \in TailRecords /\ y.lsn = x.lsn /\ y.payload = x.w /\ st.tail \in Tails
  BY DEF TailRecords, SoundStreams, StreamStates, Tails
<1>2. /\ b.tail = PushTail(st.tail, y)
      /\ b.next = Max2(st.next, x.lsn + 1) /\ b.commit = Max2(st.commit, x.lsn + 1)
      /\ b.consumed = st.consumed
  BY DEF MarkCommitted, MarkAppended
<1> HIDE DEF y, b
<1>3. \A i \in 1..Len(b.tail) : b.tail[i] = y \/ \E j \in 1..Len(st.tail) : b.tail[i] = st.tail[j]
  BY <1>1, <1>2, PushTailHas
<1>4. Marked(st, b, x)
  BY <1>1, <1>2, <1>3 DEF Marked
<1> QED
  BY <1>4 DEF b

\* no record ever appended is forgotten by the history
WalLonger(n) ==
  /\ Len(wal[n]) \in Nat /\ Len(wal'[n]) \in Nat /\ Len(wal[n]) <= Len(wal'[n])
  /\ \A k \in 1..Len(wal[n]) : wal'[n][k] = wal[n][k]

LEMMA TableMoves ==
  ASSUME Inv, Inv', [Next]_vars
  PROVE  \A m \in Nodes : WalLonger(m) /\ \A s \in Streams : TableMove(m, s)
<1>1. \A m \in Nodes : Len(wal[m]) \in Nat /\ Len(wal'[m]) \in Nat
  <2>1. TableInv /\ TableInv'
    BY PTL DEF Inv
  <2> QED
    BY <2>1, LenProperties DEF TableInv
<1>2. \A m \in Nodes, s \in Streams : streams[m][s] \in SoundStreams
  BY DEF Inv, TableInv
<1>3. \A m \in Nodes, s \in Streams :
        streams'[m][s] = streams[m][s] => TableMove(m, s)
  BY <1>2, SameKept DEF TableMove
<1>4. ASSUME wal' = wal PROVE \A m \in Nodes : WalLonger(m)
  BY <1>1, <1>4 DEF WalLonger
<1>5. ASSUME wal' = wal, streams' = streams
      PROVE  \A m \in Nodes : WalLonger(m) /\ \A s \in Streams : TableMove(m, s)
  BY <1>3, <1>4, <1>5
<1>6. ASSUME NEW n \in Nodes, NEW s \in Streams, NEW st \in SoundStreams,
             wal' = wal, streams' = [streams EXCEPT ![n][s] = st], 
             streams'[n][s] = st => TableMove(n, s)
      PROVE  \A m \in Nodes : WalLonger(m) /\ \A u \in Streams : TableMove(m, u)
  <2>1. \A m \in Nodes, u \in Streams :
          streams'[m][u] = IF m = n /\ u = s THEN st ELSE streams[m][u]
    BY <1>6, StreamStep DEF Inv
  <2> QED
    BY <1>3, <1>4, <1>6, <2>1
<1>7. CASE Next
  <2>1. PICK n \in Nodes :
          \/ Request(n) \/ Receive(n) \/ Engine(n) \/ Restart(n)
          \/ \E V \in Electorates, t \in Terms : BecomeLeader(n, V, t)
    BY <1>7 DEF Next
  <2>2. ASSUME NEW w \in Writes, NEW s \in Streams, NEW e \in Epochs, WritePropose(n, w, s, e)
        PROVE  \A m \in Nodes : WalLonger(m) /\ \A u \in Streams : TableMove(m, u)
    <3> DEFINE st == AllocateAppend(streams[n][s], e)
    <3>1. wal' = wal /\ streams' = [streams EXCEPT ![n][s] = st]
      BY <2>2 DEF WritePropose, walVars
    <3>2. /\ st \in SoundStreams /\ st.next = streams[n][s].next + 1
          /\ st.commit = streams[n][s].commit /\ st.tail = streams[n][s].tail
          /\ st.consumed = streams[n][s].consumed
      BY <1>2, AllocateSound, GroupAssumption DEF AllocateAppend
    <3> HIDE DEF st
    <3>3. streams'[n][s] = st => TableMove(n, s)
      BY <2>2, <3>2 DEF TableMove
    <3> QED
      BY <1>6, <3>1, <3>2, <3>3
  <2>3. ASSUME NEW s \in Streams, NEW o \in ConsumerOffsets, Consume(n, s, o)
        PROVE  \A m \in Nodes : WalLonger(m) /\ \A u \in Streams : TableMove(m, u)
    <3> DEFINE old == streams[n][s]
               st == AdvanceConsumed(old, o)
    <3>1. wal' = wal /\ streams' = [streams EXCEPT ![n][s] = st]
      BY <2>3 DEF Consume, walVars
    <3>2. old \in SoundStreams /\ o \in Nat /\ old.tail \in Tails /\ old.next \in Nat
          /\ Max2(old.consumed, o) \in Nat /\ old.consumed <= Max2(old.consumed, o)
      BY <1>2, GroupAssumption DEF SoundStreams, StreamStates, Tails, Max2
    <3>3. /\ st \in SoundStreams /\ st.next = old.next /\ st.commit = old.commit
          /\ st.consumed = Max2(old.consumed, o)
          /\ st.tail = DropConsumed(old.tail, Max2(old.consumed, o))
      BY <3>2, ConsumeSound DEF AdvanceConsumed
    <3> HIDE DEF st, old
    <3>4. Kept(old, st)
      BY <3>2, <3>3, DropConsumedHas DEF Kept
    <3>5. streams'[n][s] = st => TableMove(n, s)
      BY <3>4 DEF TableMove, old
    <3> QED
      BY <1>6, <3>1, <3>3, <3>5
  <2>4. CASE Request(n)
    <3>1. CASE \E w \in Writes : \/ WriteNotLeader(n, w)
                                 \/ \E s \in Streams, e \in Epochs : WriteFenced(n, w, s, e)
      BY <1>5, <3>1 DEF WriteNotLeader, WriteFenced, engineVars, walVars
    <3> QED
      BY <2>2, <2>3, <2>4, <3>1 DEF Request
  <2>5. CASE \/ Receive(n) \/ Tick(n) \/ OpenDone(n) \/ RunGc(n)
             \/ \E V \in Electorates, t \in Terms : BecomeLeader(n, V, t)
    <3>1. wal' = wal /\ streams' = streams
      BY <2>5 DEF Receive, Tick, OpenDone, RunGc, StepHigherTerm, StepAppend, StepSnapshotKnown,
                  StepSnapshotInstall, StepAppendResponse, BecomeLeader, engineVars, walVars
    <3> QED
      BY <1>5, <3>1
  <2>6. CASE ApplyAppendEntry(n)
    <3>1. PICK i, c : ApplyView(n, i, c)
      BY <2>6, ApplyStep
    <3>2. /\ c.stream \in Streams /\ c.epoch \in Nat /\ c.lsn \in Nat /\ c.w \in Writes
          /\ i \in Nat
      <4>1. i \in 1..Len(raft[n].log) /\ c \in Commands
        BY <3>1 DEF ApplyView
      <4> QED
        BY <4>1, CommandFields
    <3> DEFINE x == RecordAt(i, c)
               a == streams[n][c.stream]
    <3>3. /\ x.index = i /\ x.w = c.w /\ x.stream = c.stream /\ x.lsn = c.lsn
          /\ x.index \in Nat /\ x.lsn \in Nat /\ x.w \in Writes
      BY <3>2 DEF RecordAt
    <3> HIDE DEF x
    <3>4. a \in SoundStreams
      BY <1>2, <3>2
    <3>5. Applied(a, i, c) = MarkCommitted(MarkAppended(a, c.epoch, x.index, x.lsn, x.w), x.index, x.lsn)
      BY <3>3 DEF Applied
    <3> HIDE DEF a
    <3>6. Marked(a, Applied(a, i, c), x)
      BY <3>2, <3>3, <3>4, <3>5, MarkMarked
    <3>7. TableMove(n, c.stream)
      <4>1. streams'[n][c.stream] = Applied(a, i, c)
        BY <3>1, <3>2 DEF ApplyView, a
      <4>2. /\ Len(wal[n]) + 1 \in 1..Len(wal'[n]) /\ wal'[n][Len(wal[n]) + 1] = x
            /\ IndexedNow(n, Len(wal[n]) + 1)
        BY <3>1 DEF ApplyView, x
      <4> QED
        BY <3>3, <3>6, <4>1, <4>2 DEF TableMove, a
    <3>8. \A m \in Nodes, s \in Streams :
            ~(m = n /\ s = c.stream) => streams'[m][s] = streams[m][s]
      BY <3>1 DEF ApplyView
    <3>9. \A m \in Nodes : WalLonger(m)
      BY <1>1, <3>1 DEF ApplyView, WalLonger
    <3> QED
      BY <1>3, <3>7, <3>8, <3>9
  <2>7. CASE Advance(n)
    <3>1. CASE streams' = RolledBack(n)
      <4>1. \A m \in Nodes, s \in Streams :
              streams'[m][s] = IF m = n
                THEN RollbackUncommittedAppends(streams[n][s], PendingLsns(n, s))
                ELSE streams[m][s]
        BY <3>1 DEF RolledBack, Inv, TableInv
      <4>2. ASSUME NEW a \in SoundStreams, NEW lsns
            PROVE  Kept(a, RollbackUncommittedAppends(a, lsns))
        <5>1. /\ a.next \in Nat /\ a.consumed \in Nat
              /\ RollbackUncommittedAppends(a, lsns).consumed = a.consumed
              /\ RollbackUncommittedAppends(a, lsns).commit = a.commit
              /\ RollbackUncommittedAppends(a, lsns).tail = a.tail
              /\ RollbackUncommittedAppends(a, lsns).next = RollbackTarget(a, lsns)
          BY DEF RollbackUncommittedAppends, SoundStreams, StreamStates
        <5>2. RollbackTarget(a, lsns) \in 0..a.next
          <6> DEFINE S == {k \in 0..a.next : Reclaimable(a, lsns, k)}
          <6>1. S \in SUBSET Nat /\ a.next \in S
            BY <5>1 DEF Reclaimable
          <6>2. \E k \in S : \A j \in S : k <= j
            <7> HIDE DEF S
            <7> QED
              BY <6>1, LeastNat
          <6> QED
            BY <6>2 DEF RollbackTarget
        <5> QED
          BY <5>1, <5>2 DEF Kept, Within
      <4>3. \A s \in Streams : TableMove(n, s)
        BY <1>2, <4>1, <4>2 DEF TableMove
      <4>4. wal' = wal
        BY <2>7 DEF Advance, walVars
      <4> QED
        BY <1>3, <1>4, <4>1, <4>3, <4>4
    <3>2. CASE streams' = streams
      BY <1>5, <2>7, <3>2 DEF Advance, walVars
    <3> QED
      BY <2>7, <3>1, <3>2 DEF Advance, FailPending
  <2>8. CASE ReplayRecord(n)
    <3>0. PICK k \in 1..Len(wal[n]) :
            /\ wal[n][k] \in WalRecords /\ pc[n] = "open"
            /\ streams' = [streams EXCEPT ![n][wal[n][k].stream] =
                             Replayed(streams[n][wal[n][k].stream], disk[n], wal[n][k])]
            /\ index' = [index EXCEPT ![n] = Inserted(index[n], wal[n], wal[n][k], k)]
            /\ cursor' = [cursor EXCEPT ![n] = k + 1]
            /\ UNCHANGED <<raft, disk, wal, pc, netVars>>
      BY <2>8, ReplayView
    <3> DEFINE x == wal[n][k]
               old == streams[n][x.stream]
               st == Replayed(old, disk[n], x)
    <3>1. /\ k \in 1..Len(wal[n]) /\ wal' = wal
          /\ streams' = [streams EXCEPT ![n][x.stream] = st]
      BY <3>0
    <3>7. IndexedNow(n, k)
      BY <3>0 DEF IndexedNow, Inserted
    <3>2. x \in WalRecords
      BY <3>0
    <3> HIDE DEF x
    <3>3. /\ x.stream \in Streams /\ x.epoch \in Nat /\ x.index \in Nat
          /\ x.lsn \in Nat /\ x.w \in Writes
      BY <3>2, GroupAssumption DEF WalRecords
    <3>4. old \in SoundStreams
      BY <1>2, <3>3
    <3> HIDE DEF old
    <3>5. st \in SoundStreams /\ (Kept(old, st) \/ Marked(old, st, x))
      <4>1. CASE x.index > ReplayFrom(disk[n])
        <5>1. st = MarkCommitted(MarkAppended(old, x.epoch, x.index, x.lsn, x.w), x.index, x.lsn)
          BY <4>1 DEF Replayed, ObserveRecovered
        <5> HIDE DEF st
        <5> QED
          BY <3>3, <3>4, <5>1, MarkSound, MarkMarked
      <4>2. CASE ~(x.index > ReplayFrom(disk[n]))
        BY <3>4, <4>2, SameKept DEF Replayed
      <4> QED
        BY <4>1, <4>2
    <3> HIDE DEF st
    <3>6. streams'[n][x.stream] = st => TableMove(n, x.stream)
      <4>1. k \in 1..Len(wal'[n]) /\ wal'[n][k] = x
        BY <3>1 DEF x
      <4> QED
        BY <3>5, <3>7, <4>1 DEF TableMove, old
    <3> QED
      BY <1>6, <3>1, <3>3, <3>5, <3>6
  <2>9. CASE Restart(n)
    <3>1. /\ streams' = [streams EXCEPT ![n] = disk[n].snap.data] /\ wal' = wal
          /\ pc'[n] = "open"
      BY <2>9 DEF Restart, Inv, CoreInv
    <3>2. \A m \in Nodes : streams'[m] = IF m = n THEN disk[n].snap.data ELSE streams[m]
      BY <3>1 DEF Inv, TableInv
    <3>3. \A s \in Streams : TableMove(n, s)
      BY <2>9, <3>1, <3>2 DEF TableMove
    <3> QED
      BY <1>3, <1>4, <3>1, <3>2, <3>3
  <2> QED
    BY <2>1, <2>4, <2>5, <2>6, <2>7, <2>8, <2>9 DEF Engine
<1>8. CASE UNCHANGED vars
  BY <1>5, <1>8 DEF vars
<1> QED
  BY <1>7, <1>8

\* a snapshot in a file or on offer is an old one, or holds the tables of now
SnapMove(new) ==
  \/ \E m \in Nodes : new = disk[m].snap
  \/ \E u \in Terms : new = sent[u].snap
  \/ \E m \in Nodes : \A s \in Streams : new.data[s].next = streams'[m][s].next

LEMMA SnapMoves ==
  ASSUME Inv, Inv', [Next]_vars
  PROVE  /\ \A m \in Nodes : SnapMove(disk'[m].snap)
         /\ \A t \in Terms : SnapMove(sent'[t].snap)
<1>1. ASSUME UNCHANGED <<disk, sent>>
      PROVE  /\ \A m \in Nodes : SnapMove(disk'[m].snap)
             /\ \A t \in Terms : SnapMove(sent'[t].snap)
  BY <1>1 DEF SnapMove
<1>2. CASE Next
  <2>1. PICK n \in Nodes :
          \/ Request(n) \/ Receive(n) \/ Engine(n) \/ Restart(n)
          \/ \E V \in Electorates, t \in Terms : BecomeLeader(n, V, t)
    BY <1>2 DEF Next
  <2>2. ASSUME NEW r, NEW ack, DriveReady(n, r, ack)
        PROVE  /\ \A m \in Nodes : SnapMove(disk'[m].snap)
               /\ \A t \in Terms : SnapMove(sent'[t].snap)
    <3>1. \A m \in Nodes : disk'[m].snap = disk[m].snap
      BY <2>2 DEF Inv, CoreInv, DriveReady, Stored
    <3>2. \A t \in Terms : sent'[t].snap = sent[t].snap \/ sent'[t].snap = disk[n].snap
      BY <2>2 DEF Inv, CoreInv, DriveReady, Dispatched
    <3> QED
      BY <3>1, <3>2 DEF SnapMove
  <2>3. ASSUME NEW t \in Terms, StepSnapshotInstall(n, t)
        PROVE  /\ \A m \in Nodes : SnapMove(disk'[m].snap)
               /\ \A u \in Terms : SnapMove(sent'[u].snap)
    <3>1. \A m \in Nodes : disk'[m].snap = disk[m].snap \/ disk'[m].snap = sent[t].snap
      BY <2>3 DEF StepSnapshotInstall, Inv, CoreInv, Stored
    <3>2. sent' = sent
      BY <2>3 DEF StepSnapshotInstall
    <3> QED
      BY <3>1, <3>2 DEF SnapMove
  <2>4. CASE Receive(n) \/ Tick(n)
    BY <2>2, <2>3, <2>4 DEF Receive, Tick, StepHigherTerm, StepAppend, StepSnapshotKnown,
                            StepAppendResponse
  <2>5. CASE Request(n)
    <3>1. CASE \E w \in Writes, s \in Streams, e \in Epochs : WritePropose(n, w, s, e)
      BY <2>2, <3>1 DEF WritePropose
    <3>2. CASE ~ \E w \in Writes, s \in Streams, e \in Epochs : WritePropose(n, w, s, e)
      <4>1. UNCHANGED <<disk, sent>>
        BY <2>5, <3>2 DEF Request, WriteNotLeader, WriteFenced, Consume, netVars
      <4> QED
        BY <1>1, <4>1
    <3> QED
      BY <3>1, <3>2
  <2>6. CASE ApplyAppendEntry(n)
    <3>1. PICK i, c : ApplyView(n, i, c)
      BY <2>6, ApplyStep
    <3> QED
      BY <3>1 DEF ApplyView, SnapMove
  <2>7. CASE Advance(n) \/ ReplayRecord(n) \/ OpenDone(n) \/ RunGc(n) \/ Restart(n)
    BY <1>1, <2>7 DEF Advance, ReplayRecord, OpenDone, RunGc, Restart, netVars
  <2>8. ASSUME NEW V \in Electorates, NEW t \in Terms, BecomeLeader(n, V, t)
        PROVE  /\ \A m \in Nodes : SnapMove(disk'[m].snap)
               /\ \A u \in Terms : SnapMove(sent'[u].snap)
    <3>1. \A m \in Nodes : disk'[m].snap = disk[m].snap
      BY <2>8 DEF BecomeLeader, Stored
    <3>2. \A u \in Terms : sent'[u].snap = sent[u].snap \/ sent'[u].snap = disk[n].snap
      BY <2>8 DEF BecomeLeader, Inv, CoreInv, Dispatched
    <3> QED
      BY <3>1, <3>2 DEF SnapMove
  <2> QED
    BY <2>1, <2>4, <2>5, <2>6, <2>7, <2>8 DEF Engine
<1>3. CASE UNCHANGED vars
  BY <1>1, <1>3 DEF vars, netVars
<1> QED
  BY <1>2, <1>3

-----------------------------------------------------------------------------
(***************************************************************************)
(* The positions below the next one of a table or a snapshot, and below    *)
(* every command of a log, have been given away by a leader.               *)
(***************************************************************************)
AllSourced ==
  \A n \in Nodes : \A i \in 1..Len(raft[n].log) :
    raft[n].log[i].cmd # NoCmd => Sourced(sent, raft[n].log, i)

LEMMA NodesSourced == Inv /\ Replicated => AllSourced
  BY NodeSourced DEF AllSourced

LEMMA GivenGrows ==
  ASSUME NEW S, NEW T, SentShape(S), SentShape(T), Grown(S, T), NEW s \in Streams,
         NEW k \in Nat, NEW m \in Nat, m <= k, AllGiven(S, s, k)
  PROVE  AllGiven(T, s, m)
<1> SUFFICES ASSUME NEW p \in 0..(m - 1) PROVE Given(T, s, p)
  BY DEF AllGiven
<1>1. p \in 0..(k - 1)
  OBVIOUS
<1>2. PICK t \in Terms : \E i \in 1..Len(S[t].log) : Holds(S[t].log, i, s, p)
  BY <1>1 DEF AllGiven, Given
<1>3. PICK i \in 1..Len(S[t].log) : Holds(S[t].log, i, s, p)
  BY <1>2
<1>4. Len(S[t].log) \in Nat /\ Len(T[t].log) \in Nat
  BY DEF SentShape
<1>5. i \in 1..Len(T[t].log) /\ T[t].log[i] = S[t].log[i]
  BY <1>4 DEF Grown
<1> QED
  BY <1>3, <1>5 DEF Given, Holds

LEMMA DenseGrows ==
  ASSUME NEW S, NEW T, SentShape(S), SentShape(T), Grown(S, T), NEW l \in Seq(Entries),
         NEW m, Dense(S, l), NEW i \in 1..Len(l), m = l[i], m.cmd # NoCmd
  PROVE  AllGiven(T, m.cmd.stream, m.cmd.lsn)
<1>1. l[i].cmd.stream \in Streams /\ l[i].cmd.lsn \in Nat
  BY CommandType
<1>2. AllGiven(S, l[i].cmd.stream, l[i].cmd.lsn)
  BY DEF Dense
<1> QED
  BY <1>1, <1>2, GivenGrows

\* what has been given away up to a command of a log, the command included
LEMMA GivenThrough ==
  ASSUME NEW S, SentShape(S), NEW t \in Terms, Dense(S, S[t].log), NEW i \in 1..Len(S[t].log),
         NEW c, c = S[t].log[i].cmd, c # NoCmd
  PROVE  AllGiven(S, c.stream, c.lsn + 1)
<1>1. c.lsn \in Nat
  BY CommandType DEF SentShape
<1>2. AllGiven(S, c.stream, c.lsn)
  BY DEF Dense
<1>3. Given(S, c.stream, c.lsn)
  BY DEF Given, Holds
<1> SUFFICES ASSUME NEW p \in 0..((c.lsn + 1) - 1) PROVE Given(S, c.stream, p)
  BY DEF AllGiven
<1>4. p = c.lsn \/ p \in 0..(c.lsn - 1)
  <2>1. \A k \in Nat : \A q \in 0..((k + 1) - 1) : q = k \/ q \in 0..(k - 1)
    OBVIOUS
  <2> QED
    BY <1>1, <2>1
<1> QED
  BY <1>2, <1>3, <1>4 DEF AllGiven

LEMMA NextDense ==
  ASSUME Inv, Inv', Replicated, GivenPart, [Next]_vars, NEW t \in Terms
  PROVE  Dense(sent', sent'[t].log)
<1>1. SentShape(sent) /\ SentShape(sent') /\ Grown(sent, sent')
  BY SentGrows
<1>2. \A u \in Terms : sent[u].log \in Seq(Entries) /\ Dense(sent, sent[u].log)
  BY <1>1 DEF SentShape, GivenPart
<1> SUFFICES ASSUME NEW i \in 1..Len(sent'[t].log), sent'[t].log[i].cmd # NoCmd
    PROVE  AllGiven(sent', sent'[t].log[i].cmd.stream, sent'[t].log[i].cmd.lsn)
  BY DEF Dense
<1>3. ASSUME NEW u \in Terms, NEW j \in 1..Len(sent[u].log), sent'[t].log[i] = sent[u].log[j]
      PROVE  AllGiven(sent', sent'[t].log[i].cmd.stream, sent'[t].log[i].cmd.lsn)
  BY <1>1, <1>2, <1>3, DenseGrows
<1>4. CASE sent'[t].log = sent[t].log
  BY <1>3, <1>4
<1>5. ASSUME NEW n \in Nodes, NEW w \in Writes, NEW s \in Streams, NEW e \in Epochs,
             Proposal(n, w, s, e)
      PROVE  AllGiven(sent', sent'[t].log[i].cmd.stream, sent'[t].log[i].cmd.lsn)
  <2> DEFINE c == Proposed(n, w, s, e)
  <2>1. /\ sent[raft[n].term].log = raft[n].log
        /\ Extends(raft[n].log, raft'[n].log, raft[n].term, c)
        /\ sent'[t].log = IF t = raft[n].term THEN raft'[n].log ELSE sent[t].log
    BY <1>5, ProposalView
  <2>2. c.stream = s /\ c.lsn = streams[n][s].next
    BY DEF Proposed
  <2>3. AllGiven(sent', s, streams[n][s].next)
    <3>1. streams[n][s].next \in Nat /\ AllGiven(sent, s, streams[n][s].next)
      BY TableType DEF Inv, GivenPart, TableGiven
    <3> QED
      BY <1>1, <3>1, GivenGrows
  <2> HIDE DEF c
  <2>4. CASE t = raft[n].term
    <3>1. sent'[t].log = raft'[n].log /\ sent[t].log = raft[n].log
      BY <2>1, <2>4
    <3>2. i \in 1..Len(sent[t].log) \/ i = Len(sent[t].log) + 1
      BY <2>1, <3>1 DEF Extends
    <3>3. CASE i \in 1..Len(sent[t].log)
      BY <1>3, <2>1, <3>1, <3>3 DEF Extends
    <3>4. CASE i = Len(sent[t].log) + 1
      BY <2>1, <2>2, <2>3, <3>1, <3>4 DEF Extends
    <3> QED
      BY <3>2, <3>3, <3>4
  <2> QED
    BY <1>4, <2>1, <2>4
<1>6. ASSUME NEW n \in Nodes, NEW V \in Electorates, NEW u \in Terms, Election(n, V, u)
      PROVE  AllGiven(sent', sent'[t].log[i].cmd.stream, sent'[t].log[i].cmd.lsn)
  <2>1. /\ Extends(raft[n].log, raft'[n].log, u, NoCmd)
        /\ sent'[t].log = IF t = u THEN raft'[n].log ELSE sent[t].log
    BY <1>6, ElectionView
  <2>2. CASE t = u
    <3>1. sent'[t].log = raft'[n].log
      BY <2>1, <2>2
    <3>2. i \in 1..Len(raft[n].log) /\ sent'[t].log[i] = raft[n].log[i]
      <4>1. i # Len(raft[n].log) + 1
        BY <2>1, <3>1 DEF Extends
      <4>2. i \in 1..Len(raft[n].log)
        BY <2>1, <3>1, <4>1 DEF Extends
      <4> QED
        BY <2>1, <3>1, <4>2 DEF Extends
    <3>3. Sourced(sent, raft[n].log, i)
      BY <3>2, NodeSourced
    <3>4. /\ raft[n].log[i].term \in Terms /\ i \in 1..Len(sent[raft[n].log[i].term].log)
          /\ i \in 1..i
      BY <3>3 DEF Sourced
    <3>5. raft[n].log[i] = sent[raft[n].log[i].term].log[i]
      BY <3>3, <3>4 DEF Sourced
    <3> QED
      BY <1>3, <3>2, <3>4, <3>5
  <2> QED
    BY <1>4, <2>1, <2>2
<1>7. StepKind
  BY StepKinds
<1> QED
  BY <1>4, <1>5, <1>6, <1>7 DEF StepKind, KeepsLogs

LEMMA NextTableGiven ==
  ASSUME Inv, Inv', Replicated, Replicated', AppliedInv', GivenPart, [Next]_vars,
         NEW m \in Nodes, NEW s \in Streams
  PROVE  AllGiven(sent', s, streams'[m][s].next)
<1>1. SentShape(sent) /\ SentShape(sent') /\ Grown(sent, sent')
  BY SentGrows
<1> DEFINE a == streams[m][s].next
           b == streams'[m][s].next
<1>2. a \in Nat /\ b \in Nat
  <2>1. TablesNat /\ TablesNat'
    BY TablesAreNat, PTL DEF Inv
  <2> QED
    BY <2>1 DEF TablesNat
<1>3. AllGiven(sent, s, a)
  BY DEF GivenPart, TableGiven
<1>4. TableMove(m, s)
  BY TableMoves
<1>5. CASE Kept(streams[m][s], streams'[m][s])
  BY <1>1, <1>2, <1>3, <1>5, GivenGrows DEF Kept
<1>6. ASSUME NEW k \in 1..Len(wal'[m]), wal'[m][k].stream = s,
             Marked(streams[m][s], streams'[m][s], wal'[m][k])
      PROVE  AllGiven(sent', s, b)
  <2> DEFINE x == wal'[m][k]
             l == raft'[m].log
             i == x.index
             v == l[i].term
  <2>1. Recorded(raft'[m], x)
    BY DEF AppliedInv, WalPart
  <2>2. i \in 1..Len(l) /\ l[i].cmd # NoCmd /\ l[i].cmd.stream = s /\ l[i].cmd.lsn = x.lsn
    <3>1. raft'[m].committed \in Nat /\ Len(l) \in Nat /\ raft'[m].committed <= Len(l)
      <4>1. Shapes'
        BY CoreShapes, PTL DEF Inv
      <4> QED
        BY <4>1 DEF Shapes
    <3>2. /\ i \in 1..raft'[m].committed /\ l[i].cmd # NoCmd /\ l[i].cmd.stream = x.stream
          /\ l[i].cmd.lsn = x.lsn
      BY <2>1 DEF Recorded
    <3>3. x.stream = s
      BY <1>6
    <3> HIDE DEF l, i, x
    <3> QED
      BY <3>1, <3>2, <3>3
  <2>3. Sourced(sent', l, i)
    <3>1. AllSourced'
      BY NodesSourced, PTL
    <3> QED
      BY <2>2, <3>1 DEF AllSourced
  <2>4. v \in Terms /\ i \in 1..Len(sent'[v].log) /\ l[i] = sent'[v].log[i]
    <3>1. i \in 1..i
      BY <2>2
    <3> QED
      BY <2>3, <3>1 DEF Sourced
  <2>5. Dense(sent', sent'[v].log)
    BY <2>4, NextDense
  <2>6. b = Max2(a, x.lsn + 1)
    BY <1>6 DEF Marked
  <2> HIDE DEF x, l, i, v, b
  <2>7. AllGiven(sent', s, x.lsn + 1)
    BY <1>1, <2>2, <2>4, <2>5, GivenThrough
  <2>8. AllGiven(sent', s, a)
    BY <1>1, <1>2, <1>3, GivenGrows
  <2> QED
    BY <2>6, <2>7, <2>8 DEF Max2
<1>7. ASSUME NEW w \in Writes, NEW e \in Epochs, WritePropose(m, w, s, e), b = a + 1
      PROVE  AllGiven(sent', s, b)
  <2> DEFINE c == Proposed(m, w, s, e)
             t == raft[m].term
             i == Len(raft[m].log) + 1
  <2>1. /\ t \in Terms /\ c # NoCmd
        /\ Extends(raft[m].log, raft'[m].log, t, c)
        /\ sent'[t].log = raft'[m].log
    BY <1>7, WriteIsProposal, ProposalView
  <2>2. c.stream = s /\ c.lsn = a
    BY DEF Proposed
  <2> HIDE DEF c
  <2>3. i \in 1..Len(sent'[t].log) /\ c = sent'[t].log[i].cmd
    BY <2>1 DEF Extends
  <2>4. Dense(sent', sent'[t].log)
    BY <2>1, NextDense
  <2> HIDE DEF i, t, a, b
  <2>5. AllGiven(sent', c.stream, c.lsn + 1)
    BY <1>1, <2>1, <2>3, <2>4, GivenThrough
  <2> QED
    BY <1>7, <2>2, <2>5
<1>8. CASE streams'[m][s] = disk[m].snap.data[s]
  <2>1. AllGiven(sent, s, disk[m].snap.data[s].next)
    BY DEF GivenPart, TableGiven
  <2> QED
    BY <1>1, <1>2, <1>8, <2>1, GivenGrows
<1> QED
  BY <1>4, <1>5, <1>6, <1>7, <1>8 DEF TableMove

SnapsNat ==
  /\ \A m \in Nodes, s \in Streams : disk[m].snap.data[s].next \in Nat
  /\ \A t \in Terms, s \in Streams : sent[t].snap.data[s].next \in Nat

LEMMA SnapsAreNat == CoreInv => SnapsNat
<1> SUFFICES ASSUME CoreInv PROVE SnapsNat
  OBVIOUS
<1>1. ASSUME NEW snap, NEW limit, GoodSnap(snap, limit), NEW s \in Streams
      PROVE  snap.data[s].next \in Nat
  BY <1>1 DEF GoodSnap, SoundStreams, StreamStates
<1>2. \A m \in Nodes : GoodSnap(disk[m].snap, disk[m].commit)
  BY DEF CoreInv, GoodDisk
<1>3. \A t \in Terms : GoodSnap(sent[t].snap, Len(sent[t].log))
  BY DEF CoreInv, GoodDispatch
<1> QED
  BY <1>1, <1>2, <1>3 DEF SnapsNat

LEMMA NextGiven ==
  ASSUME Inv, Inv', Replicated, Replicated', AppliedInv', GivenPart, [Next]_vars
  PROVE  GivenPart'
<1>1. SentShape(sent) /\ SentShape(sent') /\ Grown(sent, sent')
  BY SentGrows
<1>2. \A m \in Nodes : TableGiven(sent', streams'[m])
  BY NextTableGiven DEF TableGiven
<1>3. ASSUME NEW new, SnapMove(new), NEW s \in Streams, new.data[s].next \in Nat
      PROVE  AllGiven(sent', s, new.data[s].next)
  <2>1. ASSUME NEW m \in Nodes, new = disk[m].snap
        PROVE  AllGiven(sent', s, new.data[s].next)
    <3>1. AllGiven(sent, s, new.data[s].next)
      BY <2>1 DEF GivenPart, TableGiven
    <3> QED
      BY <1>1, <1>3, <3>1, GivenGrows
  <2>2. ASSUME NEW u \in Terms, new = sent[u].snap
        PROVE  AllGiven(sent', s, new.data[s].next)
    <3>1. AllGiven(sent, s, new.data[s].next)
      BY <2>2 DEF GivenPart, TableGiven
    <3> QED
      BY <1>1, <1>3, <3>1, GivenGrows
  <2>3. ASSUME NEW m \in Nodes, \A q \in Streams : new.data[q].next = streams'[m][q].next
        PROVE  AllGiven(sent', s, new.data[s].next)
    BY <1>2, <2>3 DEF TableGiven
  <2> QED
    BY <1>3, <2>1, <2>2, <2>3 DEF SnapMove
<1>4. /\ \A m \in Nodes, s \in Streams : disk'[m].snap.data[s].next \in Nat
      /\ \A t \in Terms, s \in Streams : sent'[t].snap.data[s].next \in Nat
  <2>1. SnapsNat'
    BY SnapsAreNat, PTL DEF Inv
  <2> QED
    BY <2>1 DEF SnapsNat
<1>5. /\ \A m \in Nodes : SnapMove(disk'[m].snap)
      /\ \A t \in Terms : SnapMove(sent'[t].snap)
  BY SnapMoves
<1> QED
  BY <1>2, <1>3, <1>4, <1>5, NextDense DEF GivenPart, TableGiven

-----------------------------------------------------------------------------
(***************************************************************************)
(* What one step tells the clients.                                        *)
(***************************************************************************)
\* a write is turned down
Refusal(w) ==
  /\ reply[w].status = "unsent" /\ UNCHANGED raft
  /\ \E status \in {"not_leader", "fenced"} :
       reply' = [reply EXCEPT ![w] = [status |-> status, lsn |-> 0]]

\* the clients of the pending writes of node n are told to ask again
Abandonment(n) ==
  /\ CommitsStay
  /\ \E status \in {"not_leader", "lost"} : reply' = FailedReplies(n, status)

ReplyMove ==
  \/ reply' = reply
  \/ \E w \in Writes : Refusal(w)
  \/ \E n \in Nodes, w \in Writes, s \in Streams, e \in Epochs : Proposal(n, w, s, e)
  \/ \E n \in Nodes : Abandonment(n)
  \/ \E n \in Nodes : \E i, c : ApplyView(n, i, c)

LEMMA ReplyMoves ==
  ASSUME Inv, Inv', Replicated, [Next]_vars
  PROVE  ReplyMove
<1>1. CASE UNCHANGED vars
  BY <1>1 DEF vars, ReplyMove
<1>2. CASE Next
  <2>1. PICK n \in Nodes :
          \/ Request(n) \/ Receive(n) \/ Engine(n) \/ Restart(n)
          \/ \E V \in Electorates, t \in Terms : BecomeLeader(n, V, t)
    BY <1>2 DEF Next
  <2>2. CASE Request(n)
    <3>1. ASSUME NEW w \in Writes, WriteNotLeader(n, w) PROVE ReplyMove
      <4>1. Refusal(w)
        BY <3>1 DEF WriteNotLeader, NextWrite, Answer, Refusal
      <4> QED
        BY <4>1 DEF ReplyMove
    <3>2. ASSUME NEW w \in Writes, NEW s \in Streams, NEW e \in Epochs,
                 WriteFenced(n, w, s, e)
          PROVE  ReplyMove
      <4>1. Refusal(w)
        BY <3>2 DEF WriteFenced, NextWrite, Answer, Refusal
      <4> QED
        BY <4>1 DEF ReplyMove
    <3>3. ASSUME NEW w \in Writes, NEW s \in Streams, NEW e \in Epochs,
                 WritePropose(n, w, s, e)
          PROVE  ReplyMove
      BY <3>3, WriteIsProposal DEF ReplyMove
    <3>4. ASSUME NEW s \in Streams, NEW o \in ConsumerOffsets, Consume(n, s, o)
          PROVE  ReplyMove
      BY <3>4 DEF Consume, ReplyMove
    <3> QED
      BY <2>2, <3>1, <3>2, <3>3, <3>4 DEF Request
  <2>3. CASE \/ Receive(n) \/ Tick(n) \/ ReplayRecord(n) \/ OpenDone(n) \/ RunGc(n)
             \/ \E V \in Electorates, t \in Terms : BecomeLeader(n, V, t)
    <3>1. reply' = reply
      BY <2>3 DEF Receive, Tick, ReplayRecord, OpenDone, RunGc, StepHigherTerm, StepAppend,
                  StepSnapshotKnown, StepSnapshotInstall, StepAppendResponse, BecomeLeader
    <3> QED
      BY <3>1 DEF ReplyMove
  <2>4. CASE ApplyAppendEntry(n)
    BY <2>4, ApplyStep DEF ReplyMove
  <2>5. CASE Advance(n)
    <3>1. CommitsStay
      BY <2>5 DEF Advance, Ended, Inv, CoreInv, CommitsStay
    <3>2. reply' = FailedReplies(n, "not_leader") \/ reply' = reply
      BY <2>5 DEF Advance, FailPending
    <3> QED
      BY <3>1, <3>2 DEF ReplyMove, Abandonment
  <2>6. CASE Restart(n)
    <3>1. CommitsStay
      BY <2>6 DEF Restart, Reopened, Inv, CoreInv, GoodDisk, CommitsStay
    <3> QED
      BY <2>6, <3>1 DEF ReplyMove, Abandonment, Restart
  <2> QED
    BY <2>1, <2>2, <2>3, <2>4, <2>5, <2>6 DEF Engine
<1> QED
  BY <1>1, <1>2

\* what happens to the answer of one write
AnswerMove(w) ==
  \/ reply'[w] = reply[w]
  \/ reply[w].status = "unsent" /\ reply'[w].status \in {"not_leader", "fenced"}
     /\ UNCHANGED raft
  \/ reply[w].status = "unsent" /\ reply'[w].status = "waiting"
     /\ \E n \in Nodes, s \in Streams, e \in Epochs : Proposal(n, w, s, e)
  \/ reply[w].status = "waiting" /\ reply'[w].status \in {"not_leader", "lost"}
  \/ \E n \in Nodes : \E i, c : \E p \in pending[n] :
       /\ ApplyView(n, i, c) /\ p.rid = c.rid /\ p.w = w
       /\ reply[w].status = "waiting" /\ reply'[w].status = "ok" /\ reply'[w].lsn = p.lsn

LEMMA AnswerMoves ==
  ASSUME Inv, Inv', Replicated, [Next]_vars, NEW w \in Writes
  PROVE  AnswerMove(w)
<1>1. reply \in [Writes -> [status : Statuses, lsn : Nat]]
  BY DEF Inv, ClientInv
<1>2. ASSUME NEW v \in Writes, Refusal(v) PROVE AnswerMove(w)
  BY <1>1, <1>2 DEF Refusal, AnswerMove
<1>3. ASSUME NEW n \in Nodes, NEW v \in Writes, NEW s \in Streams, NEW e \in Epochs,
             Proposal(n, v, s, e)
      PROVE  AnswerMove(w)
  <2>1. /\ reply[v].status = "unsent"
        /\ reply' = [reply EXCEPT ![v] = [status |-> "waiting", lsn |-> 0]]
    BY <1>3 DEF Proposal, WritePropose, NextWrite, Answer
  <2> QED
    BY <1>1, <1>3, <2>1 DEF AnswerMove
<1>4. \A n \in Nodes : \A p \in pending[n] : reply[p.w].status = "waiting"
  BY DEF Inv, ClientInv, PendingInv
<1>5. ASSUME NEW n \in Nodes, Abandonment(n) PROVE AnswerMove(w)
  BY <1>4, <1>5 DEF Abandonment, FailedReplies, AnswerMove
<1>6. ASSUME NEW n \in Nodes, NEW i, NEW c, ApplyView(n, i, c) PROVE AnswerMove(w)
  <2>1. CASE ~\E p \in pending[n] : p.rid = c.rid /\ p.w = w
    BY <1>6, <2>1 DEF ApplyView, AnswerMove
  <2>2. CASE \E p \in pending[n] : p.rid = c.rid /\ p.w = w
    <3> DEFINE p == CHOOSE q \in pending[n] : q.rid = c.rid /\ q.w = w
    <3>1. p \in pending[n] /\ p.rid = c.rid /\ p.w = w
      BY <2>2
    <3>2. reply'[w].status = "ok" /\ reply'[w].lsn = p.lsn
      BY <1>6, <2>2 DEF ApplyView
    <3> HIDE DEF p
    <3>3. reply[w].status = "waiting"
      BY <1>4, <3>1
    <3> QED
      BY <1>6, <3>1, <3>2, <3>3 DEF AnswerMove
  <2> QED
    BY <2>1, <2>2
<1>7. ReplyMove
  BY ReplyMoves
<1> QED
  BY <1>2, <1>3, <1>5, <1>6, <1>7 DEF ReplyMove, AnswerMove

-----------------------------------------------------------------------------
(***************************************************************************)
(* A write is proposed at most once, by the leader that took it.           *)
(***************************************************************************)
LEMMA ProposalProposes ==
  ASSUME Inv, Replicated, NEW n \in Nodes, NEW v \in Writes, NEW s \in Streams,
         NEW e \in Epochs, Proposal(n, v, s, e), NEW t \in Terms, NEW w \in Writes, NEW i,
         Proposes(sent', t, i, w)
  PROVE  \/ Proposes(sent, t, i, w)
         \/ w = v /\ t = raft[n].term /\ i = Len(raft[n].log) + 1
<1> DEFINE c == Proposed(n, v, s, e)
<1>1. /\ sent[raft[n].term].log = raft[n].log
      /\ Extends(raft[n].log, raft'[n].log, raft[n].term, c)
      /\ sent'[t].log = IF t = raft[n].term THEN raft'[n].log ELSE sent[t].log
  BY ProposalView
<1>2. c.w = v
  BY DEF Proposed
<1> HIDE DEF c
<1>3. CASE t # raft[n].term
  <2>1. sent'[t].log = sent[t].log
    BY <1>1, <1>3
  <2> QED
    BY <2>1 DEF Proposes
<1>4. CASE t = raft[n].term
  <2>1. sent'[t].log = raft'[n].log /\ sent[t].log = raft[n].log
    BY <1>1, <1>4
  <2>2. i \in 1..Len(raft[n].log) \/ i = Len(raft[n].log) + 1
    BY <1>1, <2>1 DEF Extends, Proposes
  <2>3. CASE i \in 1..Len(raft[n].log)
    BY <1>1, <2>1, <2>3 DEF Extends, Proposes
  <2>4. CASE i = Len(raft[n].log) + 1
    BY <1>1, <1>2, <1>4, <2>1, <2>4 DEF Extends, Proposes
  <2> QED
    BY <2>2, <2>3, <2>4
<1> QED
  BY <1>3, <1>4

LEMMA ElectionProposes ==
  ASSUME Inv, Replicated, NEW n \in Nodes, NEW V \in Electorates, NEW u \in Terms,
         Election(n, V, u), NEW t \in Terms, NEW w \in Writes, NEW i, Proposes(sent', t, i, w)
  PROVE  Proposes(sent, t, i, w)
<1>1. /\ Extends(raft[n].log, raft'[n].log, u, NoCmd)
      /\ \A j \in 1..Len(raft[n].log) : raft[n].log[j].term < u
      /\ sent'[t].log = IF t = u THEN raft'[n].log ELSE sent[t].log
  BY ElectionView
<1>2. CASE t # u
  <2>1. sent'[t].log = sent[t].log
    BY <1>1, <1>2
  <2> QED
    BY <2>1 DEF Proposes
<1>3. CASE t = u
  <2>1. sent'[t].log = raft'[n].log
    BY <1>1, <1>3
  <2>2. i \in 1..Len(raft[n].log) /\ raft'[n].log[i] = raft[n].log[i]
    <3>1. i # Len(raft[n].log) + 1
      BY <1>1, <2>1 DEF Extends, Proposes
    <3>2. i \in 1..Len(raft[n].log)
      BY <1>1, <2>1, <3>1 DEF Extends, Proposes
    <3> QED
      BY <1>1, <3>2 DEF Extends
  <2>3. raft[n].log[i].term < u /\ raft[n].log[i].term = u
    BY <1>1, <1>3, <2>1, <2>2 DEF Proposes
  <2>4. u \in Nat
    BY TermIsNat
  <2> QED
    BY <2>3, <2>4
<1> QED
  BY <1>2, <1>3

LEMMA NextWritePart ==
  ASSUME Inv, Inv', Replicated, WritePart, [Next]_vars
  PROVE  WritePart'
<1>1. SentShape(sent) /\ SentShape(sent') /\ Grown(sent, sent')
  BY SentGrows
<1> SUFFICES ASSUME NEW w \in Writes
    PROVE  /\ \A t, u \in Terms : \A i \in 1..Len(sent'[t].log), j \in 1..Len(sent'[u].log) :
                Proposes(sent', t, i, w) /\ Proposes(sent', u, j, w) => t = u /\ i = j
           /\ (\E t \in Terms : \E i \in 1..Len(sent'[t].log) : Proposes(sent', t, i, w))
                => reply'[w].status \notin {"unsent", "fenced"}
           /\ reply'[w].status \in {"waiting", "ok"} => \E t \in Terms : Elected(sent', t)
  BY DEF WritePart
<1>2. AnswerMove(w)
  BY AnswerMoves
<1>3. reply'[w].status \in {"waiting", "ok"} => \E t \in Terms : Elected(sent', t)
  <2>1. ASSUME NEW n \in Nodes, NEW s \in Streams, NEW e \in Epochs, Proposal(n, w, s, e)
        PROVE  \E t \in Terms : Elected(sent', t)
    <3>1. raft[n].role = "leader"
      BY <2>1, ProposalView
    <3> QED
      BY <1>1, <3>1, LeaderElected, ElectedStays
  <2>2. ASSUME reply[w].status \in {"waiting", "ok"}
        PROVE  \E t \in Terms : Elected(sent', t)
    BY <1>1, <2>2, ElectedStays DEF WritePart
  <2> QED
    BY <1>2, <2>1, <2>2 DEF AnswerMove
<1>4. ASSUME \A t \in Terms : \A i : Proposes(sent', t, i, w) => Proposes(sent, t, i, w)
      PROVE  /\ \A t, u \in Terms : \A i \in 1..Len(sent'[t].log), j \in 1..Len(sent'[u].log) :
                  Proposes(sent', t, i, w) /\ Proposes(sent', u, j, w) => t = u /\ i = j
             /\ (\E t \in Terms : \E i \in 1..Len(sent'[t].log) : Proposes(sent', t, i, w))
                  => reply'[w].status \notin {"unsent", "fenced"}
  <2>1. ASSUME NEW t \in Terms, NEW i, Proposes(sent', t, i, w)
        PROVE  Proposes(sent, t, i, w) /\ i \in 1..Len(sent[t].log)
    BY <1>4, <2>1 DEF Proposes
  <2>2. ASSUME NEW t \in Terms, NEW i \in 1..Len(sent[t].log), Proposes(sent, t, i, w)
        PROVE  reply'[w].status \notin {"unsent", "fenced"}
    <3>1. reply[w].status \notin {"unsent", "fenced"}
      BY <2>2 DEF WritePart
    <3>2. \/ reply'[w] = reply[w]
          \/ reply'[w].status \in {"waiting", "not_leader", "lost"}
          \/ reply'[w].status = "ok"
      BY <1>2, <3>1, Zenon DEF AnswerMove
    <3> QED
      BY <3>1, <3>2
  <2> QED
    BY <2>1, <2>2 DEF WritePart
<1>5. ASSUME NEW n \in Nodes, NEW v \in Writes, NEW s \in Streams, NEW e \in Epochs,
             Proposal(n, v, s, e)
      PROVE  /\ \A t, u \in Terms : \A i \in 1..Len(sent'[t].log), j \in 1..Len(sent'[u].log) :
                  Proposes(sent', t, i, w) /\ Proposes(sent', u, j, w) => t = u /\ i = j
             /\ (\E t \in Terms : \E i \in 1..Len(sent'[t].log) : Proposes(sent', t, i, w))
                  => reply'[w].status \notin {"unsent", "fenced"}
  <2>1. \A t \in Terms : \A i : Proposes(sent', t, i, w) =>
          Proposes(sent, t, i, w) \/ (w = v /\ t = raft[n].term /\ i = Len(raft[n].log) + 1)
    BY <1>5, ProposalProposes
  <2>2. CASE w # v
    BY <1>4, <2>1, <2>2
  <2>3. CASE w = v
    <3>1. reply[w].status = "unsent" /\ reply'[w].status = "waiting"
      <4>1. NextWrite(w) /\ Answer(w, "waiting")
        BY <1>5, <2>3 DEF Proposal, WritePropose
      <4> QED
        BY <4>1 DEF NextWrite, Answer, Inv, ClientInv
    <3>2. \A t \in Terms : \A i : ~Proposes(sent, t, i, w)
      BY <3>1 DEF WritePart, Proposes
    <3> QED
      BY <2>1, <3>1, <3>2
  <2> QED
    BY <2>2, <2>3
<1>6. CASE KeepsLogs
  <2>1. \A t \in Terms : \A i : Proposes(sent', t, i, w) => Proposes(sent, t, i, w)
    BY <1>6 DEF KeepsLogs, Proposes
  <2> QED
    BY <1>3, <1>4, <2>1
<1>7. ASSUME NEW n \in Nodes, NEW V \in Electorates, NEW u \in Terms, Election(n, V, u)
      PROVE  \A t \in Terms : \A i : Proposes(sent', t, i, w) => Proposes(sent, t, i, w)
  BY <1>7, ElectionProposes
<1>8. StepKind
  BY StepKinds
<1> QED
  BY <1>3, <1>4, <1>5, <1>6, <1>7, <1>8 DEF StepKind

-----------------------------------------------------------------------------
(***************************************************************************)
(* The requests of a leader and the clients that wait for it.              *)
(***************************************************************************)
LEMMA RequestsKept ==
  ASSUME NEW l, NEW t, NEW q, NEW P, NEW R, R \subseteq P, Requests(l, t, q, P)
  PROVE  Requests(l, t, q, R)
  BY DEF Requests

LEMMA RequestsMore ==
  ASSUME NEW l, NEW m, NEW t, NEW c \in Commands, NEW q \in Nat, NEW P,
         Extends(l, m, t, c), c.rid = q + 1, c # NoCmd, Requests(l, t, q, P)
  PROVE  Requests(m, t, q + 1, P \cup {c})
<1> DEFINE e == Len(l) + 1
<1>1. /\ e \in 1..Len(m) /\ m[e].term = t /\ m[e].cmd = c
      /\ \A i \in 1..Len(m) : i = e \/ i \in 1..Len(l)
      /\ \A i \in 1..Len(l) : i \in 1..Len(m) /\ m[i] = l[i] /\ i # e
  BY DEF Extends
<1>2. \A i \in 1..Len(l) : Own(m, t, i) <=> Own(l, t, i)
  BY <1>1 DEF Own
<1>3. \A i \in 1..Len(l) : Own(l, t, i) => l[i].cmd.rid <= q /\ l[i].cmd.rid \in Nat
  <2> SUFFICES ASSUME NEW i \in 1..Len(l), Own(l, t, i)
      PROVE  l[i].cmd.rid <= q /\ l[i].cmd.rid \in Nat
    OBVIOUS
  <2>1. l[i] \in Entries
    BY ElementOfSeq DEF Extends
  <2>2. l[i].cmd \in Commands
    BY <2>1 DEF Entries, Own
  <2> QED
    BY <2>2, CommandFields DEF Requests
<1> HIDE DEF e
<1>4. \A i \in 1..Len(m) : Own(m, t, i) =>
        m[i].cmd.rid <= q + 1 /\ (m[i].cmd.rid = q + 1 => i = e)
  <2> SUFFICES ASSUME NEW i \in 1..Len(m), Own(m, t, i)
      PROVE  m[i].cmd.rid <= q + 1 /\ (m[i].cmd.rid = q + 1 => i = e)
    OBVIOUS
  <2>1. CASE i = e
    BY <1>1, <2>1
  <2>2. CASE i \in 1..Len(l)
    <3>1. m[i].cmd.rid <= q /\ m[i].cmd.rid \in Nat
      BY <1>1, <1>2, <1>3, <2>2
    <3> QED
      BY <3>1
  <2> QED
    BY <1>1, <2>1, <2>2
<1>5. ASSUME NEW i \in 1..Len(m), NEW j \in 1..Len(m), Own(m, t, i), Own(m, t, j),
             m[i].cmd.rid = m[j].cmd.rid
      PROVE  i = j
  <2>1. CASE i = e \/ j = e
    <3>1. m[i].cmd.rid = q + 1 /\ m[j].cmd.rid = q + 1
      BY <1>1, <1>5, <2>1
    <3> QED
      BY <1>4, <1>5, <3>1
  <2>2. CASE i # e /\ j # e
    <3>1. i \in 1..Len(l) /\ j \in 1..Len(l)
      BY <1>1, <2>2
    <3> QED
      BY <1>1, <1>2, <1>5, <3>1 DEF Requests
  <2> QED
    BY <2>1, <2>2
<1>6. ASSUME NEW p \in P \cup {c}
      PROVE  \E i \in 1..Len(m) : Own(m, t, i) /\ m[i].cmd = p
  <2>1. CASE p = c
    BY <1>1, <2>1 DEF Own
  <2>2. CASE p \in P
    <3>1. PICK i \in 1..Len(l) : Own(l, t, i) /\ l[i].cmd = p
      BY <2>2 DEF Requests
    <3> QED
      BY <1>1, <1>2, <3>1
  <2> QED
    BY <2>1, <2>2
<1> QED
  BY <1>4, <1>5, <1>6 DEF Requests

LEMMA PendingMoves ==
  ASSUME Inv, [Next]_vars, NEW m \in Nodes
  PROVE  \/ requestSeq'[m] = requestSeq[m] /\ pending'[m] \subseteq pending[m]
         \/ raft'[m].role = "follower"
         \/ \E w \in Writes, s \in Streams, e \in Epochs : WritePropose(m, w, s, e)
<1> DEFINE Goal == \/ requestSeq'[m] = requestSeq[m] /\ pending'[m] \subseteq pending[m]
                   \/ raft'[m].role = "follower"
                   \/ \E w \in Writes, s \in Streams, e \in Epochs : WritePropose(m, w, s, e)
<1>1. pending \in [Nodes -> SUBSET Commands] /\ requestSeq \in [Nodes -> Nat]
  BY DEF Inv, ClientInv
<1>2. ASSUME pending' = pending, requestSeq' = requestSeq PROVE Goal
  BY <1>2
<1>3. CASE UNCHANGED vars
  BY <1>2, <1>3 DEF vars
<1>4. CASE Next
  <2>1. PICK n \in Nodes :
          \/ Request(n) \/ Receive(n) \/ Engine(n) \/ Restart(n)
          \/ \E V \in Electorates, t \in Terms : BecomeLeader(n, V, t)
    BY <1>4 DEF Next
  <2>2. CASE Request(n)
    <3>1. ASSUME NEW w \in Writes, NEW s \in Streams, NEW e \in Epochs,
                 WritePropose(n, w, s, e)
          PROVE  Goal
      <4>1. /\ requestSeq' = [requestSeq EXCEPT ![n] = @ + 1]
            /\ pending' = [pending EXCEPT ![n] = pending'[n]]
        BY <1>1, <3>1 DEF WritePropose
      <4>2. CASE m # n
        BY <1>1, <4>1, <4>2
      <4> QED
        BY <3>1, <4>2
    <3>2. CASE \/ \E w \in Writes : WriteNotLeader(n, w)
               \/ \E w \in Writes, s \in Streams, e \in Epochs : WriteFenced(n, w, s, e)
               \/ \E s \in Streams, o \in ConsumerOffsets : Consume(n, s, o)
      <4>1. pending' = pending /\ requestSeq' = requestSeq
        BY <3>2 DEF WriteNotLeader, WriteFenced, Consume, engineVars, walVars
      <4> QED
        BY <1>2, <4>1
    <3> QED
      BY <2>2, <3>1, <3>2 DEF Request
  <2>3. CASE \/ Receive(n) \/ Tick(n) \/ ReplayRecord(n) \/ OpenDone(n) \/ RunGc(n)
             \/ \E V \in Electorates, t \in Terms : BecomeLeader(n, V, t)
    <3>1. pending' = pending /\ requestSeq' = requestSeq
      BY <2>3 DEF Receive, Tick, ReplayRecord, OpenDone, RunGc, StepHigherTerm, StepAppend,
                  StepSnapshotKnown, StepSnapshotInstall, StepAppendResponse, BecomeLeader,
                  engineVars, walVars
    <3> QED
      BY <1>2, <3>1
  <2>4. CASE ApplyAppendEntry(n)
    <3>1. PICK i, c : ApplyView(n, i, c)
      BY <2>4, ApplyStep
    <3>2. requestSeq' = requestSeq /\ pending' = [pending EXCEPT ![n] = Resolve(@, c.rid)]
      BY <3>1 DEF ApplyView
    <3> QED
      BY <1>1, <3>2 DEF Resolve
  <2>5. CASE Advance(n)
    <3>1. requestSeq' = requestSeq
          /\ (pending' = pending \/ pending' = [pending EXCEPT ![n] = {}])
      BY <2>5 DEF Advance, FailPending
    <3> QED
      BY <1>1, <3>1
  <2>6. CASE Restart(n)
    <3>1. /\ requestSeq' = [requestSeq EXCEPT ![n] = 0]
          /\ pending' = [pending EXCEPT ![n] = {}] /\ raft'[n].role = "follower"
      BY <2>6 DEF Restart, Reopened, Inv, CoreInv
    <3> QED
      BY <1>1, <3>1
  <2> QED
    BY <2>1, <2>2, <2>3, <2>4, <2>5, <2>6 DEF Engine
<1> QED
  BY <1>3, <1>4

LEMMA NextRequestPart ==
  ASSUME Inv, Inv', Replicated, RequestPart, [Next]_vars
  PROVE  RequestPart'
<1> SUFFICES ASSUME NEW n \in Nodes, raft'[n].role = "leader"
    PROVE  Requests(raft'[n].log, raft'[n].term, requestSeq'[n], pending'[n])
  BY DEF RequestPart
<1>1. requestSeq \in [Nodes -> Nat] /\ pending \in [Nodes -> SUBSET Commands]
  BY DEF Inv, ClientInv
<1>2. ASSUME NEW w \in Writes, NEW s \in Streams, NEW e \in Epochs, Proposal(n, w, s, e)
      PROVE  Requests(raft'[n].log, raft'[n].term, requestSeq'[n], pending'[n])
  <2> DEFINE c == Proposed(n, w, s, e)
  <2>1. /\ raft[n].role = "leader" /\ c \in Commands /\ c # NoCmd
        /\ Extends(raft[n].log, raft'[n].log, raft[n].term, c)
        /\ raft'[n].term = raft[n].term
    BY <1>2, ProposalView
  <2>2. requestSeq'[n] = requestSeq[n] + 1 /\ pending'[n] = pending[n] \cup {c}
    <3>1. /\ requestSeq' = [requestSeq EXCEPT ![n] = @ + 1]
          /\ pending' = [pending EXCEPT ![n] = @ \cup {c}]
      BY <1>2 DEF Proposal, WritePropose, Proposed
    <3> QED
      BY <1>1, <3>1
  <2>3. c.rid = requestSeq[n] + 1
    BY DEF Proposed
  <2>4. Requests(raft[n].log, raft[n].term, requestSeq[n], pending[n])
    BY <2>1 DEF RequestPart
  <2> HIDE DEF c
  <2>5. requestSeq[n] \in Nat
    BY <1>1
  <2>6. Requests(raft'[n].log, raft[n].term, requestSeq[n] + 1, pending[n] \cup {c})
    BY <2>1, <2>3, <2>4, <2>5, RequestsMore
  <2> QED
    BY <2>1, <2>2, <2>6
<1>3. ASSUME raft[n].role = "leader", raft'[n].log = raft[n].log,
             raft'[n].term = raft[n].term, requestSeq'[n] = requestSeq[n],
             pending'[n] \subseteq pending[n]
      PROVE  Requests(raft'[n].log, raft'[n].term, requestSeq'[n], pending'[n])
  BY <1>3, RequestsKept DEF RequestPart
<1>4. CASE \E w \in Writes, s \in Streams, e \in Epochs : WritePropose(n, w, s, e)
  BY <1>2, <1>4, WriteIsProposal
<1>5. CASE requestSeq'[n] = requestSeq[n] /\ pending'[n] \subseteq pending[n]
  <2>1. CASE KeepsLogs
    BY <1>3, <1>5, <2>1 DEF KeepsLogs
  <2>2. ASSUME NEW m \in Nodes, NEW w \in Writes, NEW s \in Streams, NEW e \in Epochs,
               Proposal(m, w, s, e)
        PROVE  Requests(raft'[n].log, raft'[n].term, requestSeq'[n], pending'[n])
    <3>1. CASE m = n
      BY <1>2, <2>2, <3>1
    <3>2. CASE m # n
      <4>1. raft'[n].term = raft[n].term /\ raft'[n].role = raft[n].role
            /\ raft'[n].log = raft[n].log
        BY <2>2, <3>2, ProposalView
      <4> QED
        BY <1>3, <1>5, <4>1
    <3> QED
      BY <3>1, <3>2
  <2>3. ASSUME NEW m \in Nodes, NEW V \in Electorates, NEW t \in Terms, Election(m, V, t)
        PROVE  Requests(raft'[n].log, raft'[n].term, requestSeq'[n], pending'[n])
    <3>1. CASE n # m
      <4>1. /\ raft'[n].log = raft[n].log /\ raft[n].role = "leader"
            /\ raft'[n].term = raft[n].term
        BY <2>3, <3>1 DEF Election, ElectStep
      <4> QED
        BY <1>3, <1>5, <4>1
    <3>2. CASE n = m
      <4>1. /\ Extends(raft[n].log, raft'[n].log, t, NoCmd)
            /\ \A i \in 1..Len(raft[n].log) : raft[n].log[i].term < t
        BY <2>3, <3>2, ElectionView
      <4>2. raft'[n].term = t /\ t \in Nat
        BY <2>3, <3>2, TermIsNat DEF Election, ElectStep
      <4>3. \A i \in 1..Len(raft'[n].log) : ~Own(raft'[n].log, t, i)
        <5> SUFFICES ASSUME NEW i \in 1..Len(raft'[n].log), Own(raft'[n].log, t, i)
            PROVE  FALSE
          OBVIOUS
        <5>1. i # Len(raft[n].log) + 1
          BY <4>1 DEF Extends, Own
        <5>2. i \in 1..Len(raft[n].log)
          BY <4>1, <5>1 DEF Extends
        <5>3. raft[n].log[i].term < t /\ raft[n].log[i].term = t
          BY <4>1, <5>2 DEF Extends, Own
        <5> QED
          BY <4>2, <5>3
      <4>4. pending[n] = {}
        <5>1. raft[n].role # "leader" /\ pc[n] = "select"
          BY <2>3, <3>2 DEF Election, BecomeLeader, IsLeader
        <5> QED
          BY <5>1 DEF Inv, ClientInv, RoleInv
      <4> QED
        BY <1>5, <4>2, <4>3, <4>4 DEF Requests
    <3> QED
      BY <3>1, <3>2
  <2>4. StepKind
    BY StepKinds
  <2> QED
    BY <2>1, <2>2, <2>3, <2>4 DEF StepKind
<1>6. raft'[n].role # "follower"
  OBVIOUS
<1> QED
  BY <1>4, <1>5, <1>6, PendingMoves

-----------------------------------------------------------------------------
(***************************************************************************)
(* While one leader serves, it keeps its role until it crashes.            *)
(***************************************************************************)
LEMMA OneBefore ==
  ASSUME Inv, Inv', Replicated, [Next]_vars, OneElection'
  PROVE  OneElection
<1>1. SentShape(sent) /\ SentShape(sent') /\ Grown(sent, sent')
  BY SentGrows
<1> SUFFICES ASSUME NEW t \in Terms, NEW u \in Terms, Elected(sent, t), Elected(sent, u)
    PROVE  t = u
  BY DEF OneElection
<1>2. Elected(sent', t) /\ Elected(sent', u)
  BY <1>1, ElectedStays
<1> QED
  BY <1>2 DEF OneElection

LEMMA ObservedMoves ==
  ASSUME Inv, [Next]_vars, NEW m \in Nodes
  PROVE  \/ observed'[m] = observed[m]
         \/ observed'[m] = raft'[m].role
         \/ observed'[m] = "follower"
<1>1. observed \in [Nodes -> Roles] /\ raft \in [Nodes -> RaftStates]
  BY DEF Inv, CoreInv, ClientInv
<1>2. CASE observed' = observed
  BY <1>2
<1>3. CASE Next
  <2>1. PICK n \in Nodes :
          \/ Request(n) \/ Receive(n) \/ Engine(n) \/ Restart(n)
          \/ \E V \in Electorates, t \in Terms : BecomeLeader(n, V, t)
    BY <1>3 DEF Next
  <2>2. CASE Request(n)
    <3>1. observed' = observed
      BY <2>2 DEF Request, WriteNotLeader, WriteFenced, WritePropose, Consume, engineVars, walVars
    <3> QED
      BY <3>1
  <2>5. CASE \/ Receive(n) \/ Tick(n) \/ ReplayRecord(n) \/ OpenDone(n) \/ RunGc(n)
             \/ \E V \in Electorates, t \in Terms : BecomeLeader(n, V, t)
    <3>1. observed' = observed
      BY <2>5 DEF Receive, Tick, ReplayRecord, OpenDone, RunGc, StepHigherTerm, StepAppend,
                  StepSnapshotKnown, StepSnapshotInstall, StepAppendResponse, BecomeLeader,
                  engineVars, walVars
    <3> QED
      BY <3>1
  <2>6. CASE ApplyAppendEntry(n)
    <3>1. PICK i, c : ApplyView(n, i, c)
      BY <2>6, ApplyStep
    <3> QED
      BY <3>1 DEF ApplyView
  <2>3. CASE Advance(n)
    <3>1. /\ observed' = [observed EXCEPT ![n] = raft[n].role]
          /\ raft' = [raft EXCEPT ![n] = Ended(@)]
      BY <2>3 DEF Advance
    <3> QED
      BY <1>1, <3>1 DEF Ended
  <2>4. CASE Restart(n)
    <3>1. observed' = [observed EXCEPT ![n] = "follower"]
      BY <2>4 DEF Restart
    <3> QED
      BY <1>1, <3>1
  <2> QED
    BY <2>1, <2>2, <2>3, <2>4, <2>5, <2>6 DEF Engine
<1> QED
  BY <1>2, <1>3 DEF vars

LEMMA NextNoticed ==
  ASSUME Inv, Inv', Replicated, TermPart, NoticedPart, [Next]_vars
  PROVE  NoticedPart'
<1> SUFFICES ASSUME OneElection', NEW n \in Nodes, observed'[n] = "leader"
    PROVE  raft'[n].role = "leader"
  BY DEF NoticedPart
<1>1. SentShape(sent) /\ SentShape(sent') /\ Grown(sent, sent')
  BY SentGrows
<1>2. CASE observed[n] = "leader"
  <2>1. raft[n].role = "leader"
    BY <1>2, OneBefore DEF NoticedPart
  <2>2. TermMove(n)
    BY TermMoves
  <2>3. ~(raft[n].term < raft'[n].term
          /\ (Elected(sent', raft'[n].term) \/ \E m \in Nodes : raft'[n].term = raft[m].term))
    <3> SUFFICES ASSUME raft[n].term < raft'[n].term,
                        \/ Elected(sent', raft'[n].term)
                        \/ \E m \in Nodes : raft'[n].term = raft[m].term
        PROVE  FALSE
      OBVIOUS
    <3>1. /\ raft[n].term \in Terms /\ raft'[n].term \in Terms
          /\ raft[n].term \in Nat /\ raft'[n].term \in Nat /\ raft[n].term >= 1
      <4>1. Shapes /\ Shapes'
        BY CoreShapes, PTL DEF Inv
      <4> QED
        BY <4>1, TermIsNat DEF Shapes
    <3>2. Elected(sent', raft[n].term)
      BY <1>1, <2>1, <3>1, LeaderElected, ElectedStays
    <3>3. Elected(sent', raft'[n].term)
      <4>1. CASE \E m \in Nodes : raft'[n].term = raft[m].term
        <5>1. Elected(sent, raft'[n].term)
          BY <3>1, <4>1 DEF TermPart
        <5> QED
          BY <1>1, <3>1, <5>1, ElectedStays
      <4> QED
        BY <4>1
    <3>4. raft[n].term = raft'[n].term
      BY <3>1, <3>2, <3>3 DEF OneElection
    <3> QED
      BY <3>1, <3>4
  <2> QED
    BY <2>1, <2>2, <2>3 DEF TermMove
<1> QED
  BY <1>2, ObservedMoves

-----------------------------------------------------------------------------
(***************************************************************************)
(* Tail caches, commit positions and what an Ok promises.                  *)
(***************************************************************************)
\* a record in the index stays there, gives way to one of its position, or is cut
\* off below the consumed position
LEMMA IndexMoves ==
  ASSUME Inv, Inv', FilesInv, [Next]_vars, NEW n \in Nodes, ~Restart(n),
         NEW k \in index[n], wal[n][k].stream \in Streams,
         wal[n][k].lsn >= streams[n][wal[n][k].stream].consumed
  PROVE  \E j \in index'[n] : /\ wal'[n][j].stream = wal[n][k].stream
                             /\ wal'[n][j].lsn = wal[n][k].lsn
<1> DEFINE Goal == \E j \in index'[n] : /\ wal'[n][j].stream = wal[n][k].stream
                                       /\ wal'[n][j].lsn = wal[n][k].lsn
<1>1. k \in 1..Len(wal[n])
  BY DEF FilesInv
<1>2. wal'[n][k] = wal[n][k] /\ Len(wal[n]) \in Nat
  BY <1>1, TableMoves DEF WalLonger
<1>3. CASE index'[n] = index[n]
  BY <1>2, <1>3
<1>4. ASSUME NEW x, NEW q, wal'[n][q] = x, index'[n] = Inserted(index[n], wal[n], x, q)
      PROVE  Goal
  <2>1. CASE k \in Superseded(index[n], wal[n], x)
    <3>1. q \in index'[n] /\ wal[n][k].stream = x.stream /\ wal[n][k].lsn = x.lsn
      BY <1>4, <2>1 DEF Inserted, Superseded
    <3> QED
      BY <1>4, <3>1
  <2>2. CASE k \notin Superseded(index[n], wal[n], x)
    <3>1. k \in index'[n]
      BY <1>4, <2>2 DEF Inserted
    <3> QED
      BY <1>2, <3>1
  <2> QED
    BY <2>1, <2>2
<1>5. ASSUME NEW m \in Nodes, RunGc(m) PROVE Goal
  <2>1. index' = [index EXCEPT ![m] = Truncated(m)] /\ index \in [Nodes -> SUBSET Nat]
    BY <1>5 DEF RunGc, FilesInv
  <2>2. k \in Truncated(n)
    BY DEF Truncated
  <2>3. k \in index'[n]
    BY <2>1, <2>2
  <2> QED
    BY <1>2, <2>3
<1>6. ASSUME NEW m \in Nodes, ReplayRecord(m) PROVE Goal
  <2>1. PICK q \in 1..Len(wal[m]) :
          /\ index' = [index EXCEPT ![m] = Inserted(index[m], wal[m], wal[m][q], q)]
          /\ wal' = wal
    BY <1>6, ReplayView
  <2>2. CASE m = n
    BY <1>4, <2>1, <2>2 DEF FilesInv
  <2>3. CASE m # n
    BY <1>3, <2>1, <2>3 DEF FilesInv
  <2> QED
    BY <2>2, <2>3
<1>7. ASSUME NEW m \in Nodes, ApplyAppendEntry(m) PROVE Goal
  <2>1. PICK x : /\ wal' = [wal EXCEPT ![m] = Append(wal[m], x)]
                 /\ index' = [index EXCEPT ![m] =
                                Inserted(index[m], wal[m], x, Len(wal[m]) + 1)]
    BY <1>7 DEF ApplyAppendEntry
  <2>2. wal \in [Nodes -> Seq(WalRecords)]
    BY DEF Inv, TableInv
  <2>3. CASE m = n
    <3>1. wal'[n] = Append(wal[n], x) /\ wal[n] \in Seq(WalRecords)
      BY <2>1, <2>2, <2>3
    <3>2. wal'[n][Len(wal[n]) + 1] = x
      BY <3>1
    <3>3. index'[n] = Inserted(index[n], wal[n], x, Len(wal[n]) + 1)
      BY <2>1, <2>3 DEF FilesInv
    <3> QED
      BY <1>4, <3>2, <3>3
  <2>4. CASE m # n
    BY <1>3, <2>1, <2>4 DEF FilesInv
  <2> QED
    BY <2>3, <2>4
<1>8. ASSUME NEW m \in Nodes, Restart(m) PROVE Goal
  <2>1. index' = [index EXCEPT ![m] = {}] /\ m # n
    BY <1>8 DEF Restart
  <2> QED
    BY <1>3, <2>1 DEF FilesInv
<1>9. ASSUME NEW m \in Nodes,
             \/ Request(m) \/ Receive(m) \/ Tick(m) \/ Advance(m) \/ OpenDone(m)
             \/ \E V \in Electorates, t \in Terms : BecomeLeader(m, V, t)
      PROVE  index' = index
  BY <1>9 DEF Request, WriteNotLeader, WriteFenced, WritePropose, Consume, Receive,
              StepHigherTerm, StepAppend, StepSnapshotKnown, StepSnapshotInstall,
              StepAppendResponse, Tick, Advance, OpenDone, BecomeLeader, engineVars, walVars
<1>10. CASE UNCHANGED vars
  BY <1>3, <1>10 DEF vars
<1> QED
  BY <1>3, <1>5, <1>6, <1>7, <1>8, <1>9, <1>10 DEF Next, Engine

\* the consumed position of a stream falls only when its node restarts
LEMMA ConsumedForward ==
  ASSUME Inv, Inv', [Next]_vars, NEW n \in Nodes, ~Restart(n), NEW s \in Streams
  PROVE  /\ streams[n][s].consumed \in Nat /\ streams'[n][s].consumed \in Nat
         /\ streams[n][s].consumed <= streams'[n][s].consumed
<1>1. TableInv /\ TableInv'
  BY PTL DEF Inv
<1>2. streams[n][s].consumed \in Nat /\ streams'[n][s].consumed \in Nat
  BY <1>1 DEF TableInv, SoundStreams, StreamStates
<1>3. TableMove(n, s)
  BY TableMoves
<1> QED
  BY <1>2, <1>3 DEF TableMove, Kept, Marked

LEMMA FindableStays ==
  ASSUME Inv, Inv', FilesInv, [Next]_vars, NEW n \in Nodes, ~Restart(n),
         NEW s \in Streams, NEW lsn \in Nat, Findable(n, s, lsn)
  PROVE  Findable(n, s, lsn)'
<1>1. /\ streams[n][s].consumed \in Nat /\ streams'[n][s].consumed \in Nat
      /\ streams[n][s].consumed <= streams'[n][s].consumed
  BY ConsumedForward
<1>2. CASE lsn < streams[n][s].consumed
  BY <1>1, <1>2 DEF Findable
<1>3. CASE ~(lsn < streams[n][s].consumed)
  <2>1. PICK k \in index[n] : wal[n][k].stream = s /\ wal[n][k].lsn = lsn
    BY <1>3 DEF Findable, IndexHits
  <2>2. wal[n][k].lsn >= streams[n][wal[n][k].stream].consumed
    BY <1>1, <1>3, <2>1
  <2>3. \E j \in index'[n] : wal'[n][j].stream = s /\ wal'[n][j].lsn = lsn
    BY <2>1, <2>2, IndexMoves
  <2> QED
    BY <2>3 DEF Findable, IndexHits
<1> QED
  BY <1>2, <1>3

LEMMA NextTailFindable ==
  ASSUME Inv, Inv', FilesInv, AppliedInv, TailFindable, [Next]_vars
  PROVE  TailFindable'
<1> SUFFICES ASSUME NEW n \in Nodes, NEW s \in Streams,
                    NEW i \in 1..Len(streams'[n][s].tail)
    PROVE  Findable(n, s, streams[n][s].tail[i].lsn)'
  BY DEF TailFindable
<1> DEFINE a == streams[n][s]
           b == streams'[n][s]
<1>1. TableMove(n, s)
  BY TableMoves
<1>2. CASE Restart(n)
  <2>1. streams'[n][s] = disk[n].snap.data[s]
    BY <1>2 DEF Restart, Inv, TableInv
  <2>2. Bare(disk[n].snap)
    BY DEF AppliedInv, SnapPart
  <2>3. streams'[n][s].tail = <<>>
    BY <2>1, <2>2 DEF Bare
  <2> QED
    BY <2>3
<1>3. ASSUME ~Restart(n), NEW j \in 1..Len(a.tail), b.tail[i] = a.tail[j]
      PROVE  Findable(n, s, streams[n][s].tail[i].lsn)'
  <2>1. Findable(n, s, a.tail[j].lsn)
    BY <1>3 DEF TailFindable
  <2>2. a.tail[j].lsn \in Nat
    <3>1. a.tail \in Seq(TailRecords)
      BY DEF Inv, TableInv, SoundStreams, StreamStates
    <3>2. a.tail[j] \in TailRecords
      BY <3>1, ElementOfSeq
    <3> QED
      BY <3>2 DEF TailRecords
  <2>3. PICK lsn \in Nat : lsn = a.tail[j].lsn
    BY <2>2
  <2>4. Findable(n, s, lsn)'
    BY <1>3, <2>1, <2>3, FindableStays
  <2> QED
    BY <1>3, <2>3, <2>4
<1>4. ASSUME NEW k \in 1..Len(wal'[n]), wal'[n][k].stream = s, IndexedNow(n, k),
             b.tail[i].lsn = wal'[n][k].lsn
      PROVE  Findable(n, s, streams[n][s].tail[i].lsn)'
  <2>1. k \in index'[n]
    BY <1>4 DEF IndexedNow, FilesInv
  <2> QED
    BY <1>4, <2>1 DEF Findable, IndexHits
<1>5. CASE ~Restart(n)
  <2> HIDE DEF a, b
  <2>1. CASE Kept(a, b)
    BY <1>3, <1>5, <2>1 DEF Kept, Within, b
  <2>2. ASSUME NEW k \in 1..Len(wal'[n]), wal'[n][k].stream = s, IndexedNow(n, k),
               Marked(a, b, wal'[n][k])
        PROVE  Findable(n, s, streams[n][s].tail[i].lsn)'
    BY <1>3, <1>4, <1>5, <2>2 DEF Marked, b
  <2>3. CASE b.tail = a.tail
    BY <1>3, <1>5, <2>3 DEF b
  <2> QED
    BY <1>1, <1>5, <2>1, <2>2, <2>3 DEF TableMove, a, b
<1> QED
  BY <1>2, <1>5

LEMMA CommitsForward ==
  ASSUME Inv, Inv', [Next]_vars, NEW n \in Nodes, pc'[n] # "open", NEW s \in Streams
  PROVE  /\ streams[n][s].commit \in Nat /\ streams'[n][s].commit \in Nat
         /\ streams[n][s].commit <= streams'[n][s].commit
<1>1. streams[n][s].commit \in Nat /\ streams'[n][s].commit \in Nat
  <2>1. TableInv /\ TableInv'
    BY PTL DEF Inv
  <2>2. streams[n][s] \in SoundStreams /\ streams'[n][s] \in SoundStreams
    BY <2>1 DEF TableInv
  <2> QED
    BY <2>2 DEF SoundStreams, StreamStates
<1>2. TableMove(n, s)
  BY TableMoves
<1>3. ASSUME NEW x, streams'[n][s].commit = Max2(streams[n][s].commit, x)
      PROVE  streams[n][s].commit <= streams'[n][s].commit
  BY <1>1, <1>3 DEF Max2
<1>4. CASE streams'[n][s].commit = streams[n][s].commit
  BY <1>1, <1>4
<1> QED
  BY <1>1, <1>2, <1>3, <1>4 DEF TableMove, Kept, Marked

LEMMA RestartOpens ==
  ASSUME Inv, NEW n \in Nodes, Restart(n)
  PROVE  pc'[n] = "open"
  BY DEF Restart, Inv, CoreInv

LEMMA ServedStays ==
  ASSUME Inv, Inv', FilesInv, [Next]_vars, NEW n \in Nodes, raft'[n].role = "leader",
         NEW lsn \in Nat, NEW w, Served(n, lsn, w)
  PROVE  Served(n, lsn, w)'
<1>1. pc'[n] # "open"
  BY DEF Inv, ClientInv, RoleInv
<1>2. WalLonger(n)
  BY TableMoves
<1>3. PICK k \in 1..Len(wal[n]) :
        /\ wal[n][k].w = w /\ wal[n][k].lsn = lsn
        /\ lsn < streams[n][wal[n][k].stream].commit
        /\ Findable(n, wal[n][k].stream, lsn)
  BY DEF Served
<1>4. k \in 1..Len(wal'[n]) /\ wal'[n][k] = wal[n][k]
  BY <1>2 DEF WalLonger
<1>5. wal[n][k].stream \in Streams
  <2>1. wal[n] \in Seq(WalRecords)
    BY DEF Inv, TableInv
  <2>2. wal[n][k] \in WalRecords
    BY <2>1, ElementOfSeq
  <2> QED
    BY <2>2 DEF WalRecords
<1>6. lsn < streams'[n][wal[n][k].stream].commit
  <2>1. PICK s \in Streams : s = wal[n][k].stream
    BY <1>5
  <2>2. /\ streams[n][s].commit \in Nat /\ streams'[n][s].commit \in Nat
        /\ streams[n][s].commit <= streams'[n][s].commit
    BY <1>1, CommitsForward
  <2>3. lsn < streams[n][s].commit
    BY <1>3, <2>1
  <2>4. lsn < streams'[n][s].commit
    BY <2>2, <2>3
  <2> QED
    BY <2>1, <2>4
<1>7. Findable(n, wal[n][k].stream, lsn)'
  <2>1. PICK s \in Streams : s = wal[n][k].stream
    BY <1>5
  <2>2. ~Restart(n)
    BY <1>1, RestartOpens
  <2>3. Findable(n, s, lsn)'
    BY <1>3, <2>1, <2>2, FindableStays
  <2> QED
    BY <1>4, <2>1, <2>3
<1> QED
  BY <1>3, <1>4, <1>6, <1>7 DEF Served

\* while a client has its Ok and one leader serves, who leads has led before
LEMMA LedBefore ==
  ASSUME Inv, Inv', Replicated, WritePart, [Next]_vars, OneElection', NEW n \in Nodes,
         raft'[n].role = "leader", NEW w \in Writes, reply'[w].status = "ok"
  PROVE  raft[n].role = "leader"
<1>1. SentShape(sent) /\ SentShape(sent') /\ Grown(sent, sent')
  BY SentGrows
<1>2. CASE KeepsLogs
  BY <1>2 DEF KeepsLogs
<1>3. ASSUME NEW m \in Nodes, NEW v \in Writes, NEW s \in Streams, NEW e \in Epochs,
             Proposal(m, v, s, e)
      PROVE  raft[n].role = "leader"
  <2>1. raft'[n].role = raft[n].role
    BY <1>3, ProposalView
  <2> QED
    BY <2>1
<1>4. ASSUME NEW m \in Nodes, NEW V \in Electorates, NEW t \in Terms, Election(m, V, t)
      PROVE  raft[n].role = "leader"
  <2>1. reply[w].status = "ok"
    BY <1>4 DEF Election, BecomeLeader
  <2>2. PICK u \in Terms : Elected(sent, u)
    BY <2>1 DEF WritePart
  <2>3. Elected(sent', u) /\ ~Elected(sent, t)
    BY <1>1, <1>4, <2>2, ElectedStays DEF Election
  <2>4. Elected(sent', t)
    <3>1. Extends(raft[m].log, raft'[m].log, t, NoCmd) /\ sent'[t].log = raft'[m].log
      BY <1>4, ElectionView
    <3> QED
      BY <3>1 DEF Extends, Elected
  <2>5. t = u
    BY <2>3, <2>4 DEF OneElection
  <2> QED
    BY <2>2, <2>3, <2>5
<1>5. StepKind
  BY StepKinds
<1> QED
  BY <1>2, <1>3, <1>4, <1>5 DEF StepKind

\* an entry that answers a client of a leader is the one proposed for it
LEMMA AnswersOwn ==
  ASSUME Inv, Replicated, RequestPart, NoticedPart, OneElection, NEW m \in Nodes,
         NEW i, NEW c, ApplyView(m, i, c), NEW p \in pending[m], p.rid = c.rid
  PROVE  raft[m].role = "leader" /\ p = c
<1>1. raft[m].role = "leader"
  BY DEF Inv, ClientInv, RoleInv, NoticedPart
<1> DEFINE l == raft[m].log
           t == raft[m].term
<1>2. Requests(l, t, requestSeq[m], pending[m])
  BY <1>1 DEF RequestPart
<1>3. i \in 1..Len(l) /\ c = l[i].cmd /\ c # NoCmd
  BY DEF ApplyView
<1>4. l[i].term = t
  <2>1. l[i].term \in Terms /\ Elected(sent, l[i].term)
    BY <1>3, NodeSourced DEF Sourced
  <2>2. t \in Terms /\ Elected(sent, t)
    BY <1>1, LeaderElected
  <2> QED
    BY <2>1, <2>2 DEF OneElection
<1> HIDE DEF l, t
<1>5. PICK j \in 1..Len(l) : Own(l, t, j) /\ l[j].cmd = p
  BY <1>2 DEF Requests
<1>6. i = j
  BY <1>2, <1>3, <1>4, <1>5 DEF Requests, Own
<1> QED
  BY <1>1, <1>3, <1>5, <1>6

LEMMA NextAcked ==
  ASSUME Inv, Inv', FilesInv, Replicated, WritePart, RequestPart, NoticedPart, AckedPart,
         [Next]_vars
  PROVE  AckedPart'
<1> SUFFICES ASSUME OneElection', NEW n \in Nodes, NEW w \in Writes,
                    raft'[n].role = "leader", reply'[w].status = "ok"
    PROVE  Served(n, reply[w].lsn, w)'
  BY DEF AckedPart
<1>1. OneElection
  BY OneBefore
<1>2. raft[n].role = "leader"
  BY LedBefore
<1>3. AnswerMove(w)
  BY AnswerMoves
<1>4. CASE reply'[w] = reply[w]
  <2>1. Served(n, reply[w].lsn, w) /\ reply[w].lsn \in Nat
    BY <1>1, <1>2, <1>4 DEF AckedPart, Inv, ClientInv
  <2>2. PICK lsn \in Nat : lsn = reply[w].lsn
    BY <2>1
  <2>3. Served(n, lsn, w)'
    BY <2>1, <2>2, ServedStays
  <2> QED
    BY <1>4, <2>2, <2>3
<1>5. ASSUME NEW m \in Nodes, NEW i, NEW c, NEW p \in pending[m],
             ApplyView(m, i, c), p.rid = c.rid, p.w = w, reply'[w].lsn = p.lsn
      PROVE  Served(n, reply[w].lsn, w)'
  <2>1. raft[m].role = "leader" /\ p = c
    BY <1>1, <1>5, AnswersOwn
  <2>2. m = n
    <3>1. /\ Elected(sent, raft[m].term) /\ raft[m].term \in Terms
          /\ Elected(sent, raft[n].term) /\ raft[n].term \in Terms
      BY <1>2, <2>1, LeaderElected
    <3>2. raft[m].term = raft[n].term
      BY <1>1, <3>1 DEF OneElection
    <3> QED
      BY <1>2, <2>1, <3>2, LeaderOfTerm
  <2>3. c \in Commands
    BY <1>5 DEF ApplyView
  <2>4. c.stream \in Streams /\ c.lsn \in Nat /\ c.w = w /\ reply'[w].lsn = c.lsn
    BY <1>5, <2>1, <2>3, CommandFields
  <2> DEFINE k == Len(wal[n]) + 1
  <2>5. k \in 1..Len(wal'[n]) /\ wal'[n][k] = RecordAt(i, c)
    BY <1>5, <2>2 DEF ApplyView
  <2>6. wal'[n][k].w = w /\ wal'[n][k].lsn = c.lsn /\ wal'[n][k].stream = c.stream
    BY <2>4, <2>5 DEF RecordAt
  <2>7. c.lsn < streams'[n][c.stream].commit
    <3>1. streams'[n][c.stream] = Applied(streams[n][c.stream], i, c)
      BY <1>5, <2>2, <2>4 DEF ApplyView
    <3>2. streams'[n][c.stream].commit = Max2(streams[n][c.stream].commit, c.lsn + 1)
      BY <3>1 DEF Applied, MarkCommitted, MarkAppended
    <3>3. streams[n][c.stream].commit \in Nat
      BY <2>4 DEF Inv, TableInv, SoundStreams, StreamStates
    <3> QED
      BY <2>4, <3>2, <3>3 DEF Max2
  <2>8. Findable(n, c.stream, c.lsn)'
    <3>1. k \in index'[n]
      BY <1>5, <2>2 DEF ApplyView, IndexedNow, FilesInv
    <3> HIDE DEF k
    <3> QED
      BY <2>6, <3>1 DEF Findable, IndexHits
  <2> HIDE DEF k
  <2> QED
    BY <2>4, <2>5, <2>6, <2>7, <2>8 DEF Served
<1>6. \/ reply'[w] = reply[w]
      \/ \E m \in Nodes : \E i, c : \E p \in pending[m] :
           /\ ApplyView(m, i, c) /\ p.rid = c.rid /\ p.w = w /\ reply'[w].lsn = p.lsn
  BY <1>3, Zenon DEF AnswerMove
<1> QED
  BY <1>4, <1>5, <1>6

-----------------------------------------------------------------------------
OneInv == TermPart /\ GivenPart /\ WritePart /\ RequestPart /\ NoticedPart /\ TailFindable /\ AckedPart

LEMMA InitOne == Init => OneInv
<1> SUFFICES ASSUME Init PROVE OneInv
  OBVIOUS
<1>1. \A n \in Nodes : /\ raft[n].term = 1 /\ raft[n].role = "follower"
                       /\ observed[n] = "follower"
  BY DEF Init, NewRaft
<1>2. \A t \in Terms : sent[t].log = <<>> /\ sent[t].snap.data = EmptyTable
  BY DEF Init, NoSnapshot
<1>3. \A n \in Nodes : streams[n] = EmptyTable /\ disk[n].snap.data = EmptyTable
  BY DEF Init, NewDisk, NoSnapshot
<1>4. \A s \in Streams : EmptyTable[s].next = 0 /\ EmptyTable[s].tail = <<>>
  BY DEF EmptyTable, NewStream
<1>5. GivenPart
  <2>1. TableGiven(sent, EmptyTable)
    BY <1>4 DEF TableGiven, AllGiven
  <2>2. \A t \in Terms : Dense(sent, sent[t].log)
    BY <1>2 DEF Dense
  <2> QED
    BY <1>2, <1>3, <2>1, <2>2 DEF GivenPart
<1>6. WritePart
  <2>1. \A w \in Writes : reply[w].status = "unsent"
    BY DEF Init
  <2>2. \A t \in Terms : \A i \in 1..Len(sent[t].log) : FALSE
    BY <1>2
  <2> QED
    BY <2>1, <2>2 DEF WritePart
<1>7. TailFindable
  BY <1>3, <1>4 DEF TailFindable
<1> QED
  BY <1>1, <1>5, <1>6, <1>7 DEF OneInv, TermPart, RequestPart, NoticedPart, AckedPart

LEMMA NextOne ==
  ASSUME Inv, Inv', FilesInv, Replicated, Replicated', AppliedInv, AppliedInv', OneInv,
         [Next]_vars
  PROVE  OneInv'
<1>1. TermPart' /\ GivenPart' /\ WritePart' /\ RequestPart'
  BY NextTerm, NextGiven, NextWritePart, NextRequestPart DEF OneInv
<1>2. NoticedPart' /\ TailFindable' /\ AckedPart'
  BY NextNoticed, NextTailFindable, NextAcked DEF OneInv
<1> QED
  BY <1>1, <1>2 DEF OneInv

\* The invariant of a group with one leader holds of the group.  Two of its parts
\* are about what run_gc leaves: the index finds every record a tail cache holds
\* (with any number of leaders) and, at the leader of the one term, every
\* acknowledged write, except below the consumed position of its stream.
THEOREM OneHolds == Spec => []OneInv
<1>1. Inv /\ Inv' /\ FilesInv /\ Replicated /\ Replicated' /\ AppliedInv /\ AppliedInv'
        /\ OneInv /\ [Next]_vars => OneInv'
  BY NextOne
<1> QED
  BY <1>1, InitOne, AppliedHolds, FilesHold, PTL DEF Spec

-----------------------------------------------------------------------------
(***************************************************************************)
(* While one leader serves, its positions order the commands of a stream.  *)
(***************************************************************************)
InOrder ==
  \A n \in Nodes : \A i, j \in 1..Len(raft[n].log) :
    LET a == raft[n].log[i].cmd
        b == raft[n].log[j].cmd
    IN  i < j /\ a # NoCmd /\ b # NoCmd /\ a.stream = b.stream
        => a.lsn < b.lsn /\ a.epoch <= b.epoch

OnePlace ==
  \A n \in Nodes : \A i, j \in 1..Len(raft[n].log) :
    LET a == raft[n].log[i].cmd
        b == raft[n].log[j].cmd
    IN  a # NoCmd /\ b # NoCmd /\ a.stream = b.stream /\ a.lsn = b.lsn => i = j

LEMMA OneInOrder == Inv /\ Replicated /\ PosPart /\ OneElection => InOrder /\ OnePlace
<1> SUFFICES ASSUME Inv, Replicated, PosPart, OneElection PROVE InOrder /\ OnePlace
  OBVIOUS
<1>1. \A n \in Nodes : \A i, j \in 1..Len(raft[n].log) :
        raft[n].log[i].cmd # NoCmd /\ raft[n].log[j].cmd # NoCmd
        => raft[n].log[i].term = raft[n].log[j].term
  <2> SUFFICES ASSUME NEW n \in Nodes, NEW i \in 1..Len(raft[n].log),
                      NEW j \in 1..Len(raft[n].log),
                      raft[n].log[i].cmd # NoCmd, raft[n].log[j].cmd # NoCmd
      PROVE  raft[n].log[i].term = raft[n].log[j].term
    OBVIOUS
  <2>1. raft[n].log[i].term \in Terms /\ Elected(sent, raft[n].log[i].term)
    BY NodeSourced DEF Sourced
  <2>2. raft[n].log[j].term \in Terms /\ Elected(sent, raft[n].log[j].term)
    BY NodeSourced DEF Sourced
  <2> QED
    BY <2>1, <2>2 DEF OneElection
<1>2. InOrder
  BY <1>1, PosAscends DEF InOrder, TermPositions
<1>3. OnePlace
  <2> SUFFICES ASSUME NEW n \in Nodes, NEW i \in 1..Len(raft[n].log),
                      NEW j \in 1..Len(raft[n].log),
                      raft[n].log[i].cmd # NoCmd, raft[n].log[j].cmd # NoCmd,
                      raft[n].log[i].cmd.stream = raft[n].log[j].cmd.stream,
                      raft[n].log[i].cmd.lsn = raft[n].log[j].cmd.lsn
      PROVE  i = j
    BY DEF OnePlace
  <2>1. raft[n].log[i].cmd.lsn \in Nat
    <3>1. raft[n].log \in Seq(Entries)
      BY CoreShapes DEF Inv, Shapes
    <3> QED
      BY <3>1, CommandType
  <2>2. ~(i < j) /\ ~(j < i)
    BY <1>2, <2>1 DEF InOrder
  <2> QED
    BY <2>2
<1> QED
  BY <1>2, <1>3

\* below commit, every node serves what its index finds
ReadsFound ==
  \A n \in Nodes, s \in Streams, lsn \in Nat :
    IndexHits(n, s, lsn) # {} /\ lsn < streams[n][s].commit
    => ReadStream(n, s, lsn) # NotFound

ReadsKnown ==
  \A n \in Nodes, s \in Streams, lsn \in Nat :
    ReadStream(n, s, lsn) # NotFound =>
      /\ Committed(raft[n], s, lsn, ReadStream(n, s, lsn))
      /\ lsn < streams[n][s].commit
      /\ Findable(n, s, lsn)

LEMMA ReadsAreFound == Inv /\ FilesInv => ReadsFound
<1> SUFFICES ASSUME Inv, FilesInv, NEW n \in Nodes, NEW s \in Streams, NEW lsn \in Nat,
                    IndexHits(n, s, lsn) # {}, lsn < streams[n][s].commit
    PROVE  ReadStream(n, s, lsn) # NotFound
  BY DEF ReadsFound
<1> DEFINE st == streams[n][s]
           top == TailHits(st, lsn)
           hits == IndexHits(n, s, lsn)
<1>1. wal[n] \in Seq(WalRecords) /\ st \in SoundStreams
      /\ st.commit \in Nat /\ st.tail \in Seq(TailRecords)
  BY DEF Inv, TableInv, SoundStreams, StreamStates
<1>2. ~BeyondCommit(st, lsn)
  BY <1>1 DEF BeyondCommit
<1>3. 0 \notin Writes
  BY DEF Writes
<1>4. CASE top # {}
  <2> DEFINE i == CHOOSE j \in top : \A q \in top : j <= q
  <2>1. i \in top
    <3>1. top \in SUBSET Nat
      BY DEF TailHits
    <3> HIDE DEF top
    <3>2. \E j \in top : \A q \in top : j <= q
      BY <1>4, <3>1, LeastNat
    <3> QED
      BY <3>2
  <2>2. ReadStream(n, s, lsn) = st.tail[i].payload
    BY <1>2, <1>4 DEF ReadStream, ReadFromTail
  <2> HIDE DEF i
  <2>3. i \in 1..Len(st.tail)
    BY <2>1 DEF TailHits
  <2>4. st.tail[i] \in TailRecords
    BY <1>1, <2>3, ElementOfSeq
  <2> QED
    BY <1>3, <2>2, <2>4 DEF TailRecords, NotFound
<1>5. CASE top = {}
  <2> DEFINE i == CHOOSE k \in hits : TRUE
  <2>1. ReadStream(n, s, lsn) = wal[n][i].w /\ i \in hits
    BY <1>2, <1>5 DEF ReadStream
  <2> HIDE DEF i
  <2>2. i \in 1..Len(wal[n])
    BY <2>1 DEF IndexHits, FilesInv
  <2>3. wal[n][i] \in WalRecords
    BY <1>1, <2>2, ElementOfSeq
  <2> QED
    BY <1>3, <2>1, <2>3 DEF WalRecords, NotFound
<1> QED
  BY <1>4, <1>5

LEMMA ReadsAreKnown == Inv /\ FilesInv /\ AppliedInv /\ TailFindable => ReadsKnown
<1> SUFFICES ASSUME Inv, FilesInv, AppliedInv, TailFindable, NEW n \in Nodes,
                    NEW s \in Streams, NEW lsn \in Nat, ReadStream(n, s, lsn) # NotFound
    PROVE  /\ Committed(raft[n], s, lsn, ReadStream(n, s, lsn))
           /\ lsn < streams[n][s].commit
           /\ Findable(n, s, lsn)
  BY DEF ReadsKnown
<1>1. /\ Committed(raft[n], s, lsn, ReadStream(n, s, lsn))
      /\ ~BeyondCommit(streams[n][s], lsn)
      /\ TailHits(streams[n][s], lsn) # {} \/ IndexHits(n, s, lsn) # {}
  BY ReadIsCommitted
<1>2. streams[n][s].commit \in Nat
  BY DEF Inv, TableInv, SoundStreams, StreamStates
<1>3. lsn < streams[n][s].commit
  BY <1>1, <1>2 DEF BeyondCommit
<1>4. CASE TailHits(streams[n][s], lsn) # {}
  <2>1. PICK i \in 1..Len(streams[n][s].tail) : streams[n][s].tail[i].lsn = lsn
    BY <1>4 DEF TailHits
  <2>2. Findable(n, s, lsn)
    BY <2>1 DEF TailFindable
  <2> QED
    BY <1>1, <1>3, <2>2
<1>5. CASE IndexHits(n, s, lsn) # {}
  BY <1>1, <1>3, <1>5 DEF Findable
<1> QED
  BY <1>1, <1>4, <1>5

\* what a node has committed for a position is one write
OneWrite ==
  \A n \in Nodes : \A s, lsn, v, w :
    Committed(raft[n], s, lsn, v) /\ Committed(raft[n], s, lsn, w) => v = w

LEMMA OneCommitted == Inv /\ OnePlace => OneWrite
<1> SUFFICES ASSUME Inv, OnePlace, NEW n \in Nodes, NEW s, NEW lsn, NEW v, NEW w,
                    Committed(raft[n], s, lsn, v), Committed(raft[n], s, lsn, w)
    PROVE  v = w
  BY DEF OneWrite
<1>1. raft[n].committed \in Nat /\ Len(raft[n].log) \in Nat
      /\ raft[n].committed <= Len(raft[n].log)
  BY CoreShapes DEF Inv, Shapes
<1>2. \A i \in 1..raft[n].committed : i \in 1..Len(raft[n].log)
  BY <1>1
<1>3. PICK i \in 1..raft[n].committed :
        /\ raft[n].log[i].cmd # NoCmd /\ raft[n].log[i].cmd.stream = s
        /\ raft[n].log[i].cmd.lsn = lsn /\ raft[n].log[i].cmd.w = v
  BY DEF Committed
<1>4. PICK j \in 1..raft[n].committed :
        /\ raft[n].log[j].cmd # NoCmd /\ raft[n].log[j].cmd.stream = s
        /\ raft[n].log[j].cmd.lsn = lsn /\ raft[n].log[j].cmd.w = w
  BY DEF Committed
<1>5. i = j
  BY <1>2, <1>3, <1>4 DEF OnePlace
<1> QED
  BY <1>3, <1>4, <1>5

\* everything the theorems below rest on
Serving == Inv /\ FilesInv /\ Replicated /\ AppliedInv /\ PosPart /\ OneInv

\* The invariants of the log, the WAL files, the reads, the positions and the
\* clients together.
THEOREM ServingHolds == Spec => []Serving
  BY AppliedHolds, FilesHold, PositionsHold, OneHolds, PTL DEF Serving

\* AckedIsReadable, for behaviours in which one term is won: when a client has its
\* Ok, whoever leads has its write in the WAL at the position of the Ok and serves
\* it there, until a consumer has acknowledged a later position.
THEOREM AckedStaysReadable == Spec => [](OneElection => AckedIsReadable)
<1>1. Serving => (OneElection => AckedIsReadable)
  <2> SUFFICES ASSUME Serving, OneElection, NEW n \in Nodes, NEW w \in Writes,
                      IsLeader(n), reply[w].status = "ok"
      PROVE  \E k \in 1..Len(wal[n]) :
               LET x == wal[n][k] IN
               /\ x.w = w /\ x.lsn = reply[w].lsn
               /\ \/ ReadStream(n, x.stream, x.lsn) = w
                  \/ x.lsn < streams[n][x.stream].consumed
    BY DEF AckedIsReadable
  <2> DEFINE lsn == reply[w].lsn
  <2>1. Served(n, lsn, w) /\ lsn \in Nat
    BY DEF Serving, OneInv, AckedPart, IsLeader, Inv, ClientInv
  <2> HIDE DEF lsn
  <2>2. PICK k \in 1..Len(wal[n]) :
          /\ wal[n][k].w = w /\ wal[n][k].lsn = lsn
          /\ lsn < streams[n][wal[n][k].stream].commit
          /\ Findable(n, wal[n][k].stream, lsn)
    BY <2>1 DEF Served
  <2>3. PICK s \in Streams : s = wal[n][k].stream
    <3>1. wal[n] \in Seq(WalRecords)
      BY DEF Serving, Inv, TableInv
    <3>2. wal[n][k] \in WalRecords
      BY <3>1, ElementOfSeq
    <3> QED
      BY <3>2 DEF WalRecords
  <2>4. CASE IndexHits(n, s, lsn) # {}
    <3>1. ReadStream(n, s, lsn) # NotFound
      BY <2>1, <2>2, <2>3, <2>4, ReadsAreFound DEF Serving, ReadsFound
    <3>2. Committed(raft[n], s, lsn, ReadStream(n, s, lsn))
      BY <2>1, <3>1, ReadsAreKnown DEF Serving, OneInv, ReadsKnown
    <3>3. Committed(raft[n], s, lsn, w)
      <4>1. Recorded(raft[n], wal[n][k])
        BY DEF Serving, AppliedInv, WalPart
      <4> QED
        BY <2>2, <2>3, <4>1 DEF Recorded, Committed
    <3>4. OneWrite
      BY OneInOrder, OneCommitted DEF Serving
    <3>5. ReadStream(n, s, lsn) = w
      BY <3>2, <3>3, <3>4 DEF OneWrite
    <3> QED
      BY <2>2, <2>3, <3>5 DEF lsn
  <2>5. CASE lsn < streams[n][s].consumed
    BY <2>2, <2>3, <2>5 DEF lsn
  <2> QED
    BY <2>2, <2>3, <2>4, <2>5 DEF Findable
<1> QED
  BY <1>1, ServingHolds, PTL

\* ReadsStable, for behaviours in which one term is won: what a node has served
\* for a position it serves until it restarts or a consumer has acknowledged a
\* later position, and it never serves anything else there.
THEOREM ReadsStayStable == Spec /\ []OneElection => ReadsStable
<1>1. Serving /\ Serving' /\ OneElection' /\ [Next]_vars =>
        \A n \in Nodes, s \in Streams, lsn \in Lsns :
          ReadStream(n, s, lsn) # NotFound /\ pc'[n] # "open"
          => \/ ReadStream(n, s, lsn)' = ReadStream(n, s, lsn)
             \/ ReadStream(n, s, lsn)' = NotFound /\ lsn < streams'[n][s].consumed
  <2> SUFFICES ASSUME Serving, Serving', OneElection', [Next]_vars, NEW n \in Nodes,
                      NEW s \in Streams, NEW lsn \in Lsns,
                      ReadStream(n, s, lsn) # NotFound, pc'[n] # "open"
      PROVE  \/ ReadStream(n, s, lsn)' = ReadStream(n, s, lsn)
             \/ ReadStream(n, s, lsn)' = NotFound /\ lsn < streams'[n][s].consumed
    OBVIOUS
  <2>1. lsn \in Nat
    BY GroupAssumption DEF Lsns
  <2>2. Inv /\ Inv' /\ FilesInv /\ Replicated
    BY DEF Serving
  <2>3. /\ Committed(raft[n], s, lsn, ReadStream(n, s, lsn))
        /\ lsn < streams[n][s].commit
        /\ Findable(n, s, lsn)
    BY <2>1, ReadsAreKnown DEF Serving, OneInv, ReadsKnown
  <2>4. ReadsFound' /\ ReadsKnown' /\ OneWrite'
    BY ReadsAreFound, ReadsAreKnown, OneInOrder, OneCommitted, PTL DEF Serving, OneInv
  <2>5. lsn < streams'[n][s].commit
    <3>1. /\ streams[n][s].commit \in Nat /\ streams'[n][s].commit \in Nat
          /\ streams[n][s].commit <= streams'[n][s].commit
      BY <2>2, CommitsForward
    <3> QED
      BY <2>1, <2>3, <3>1
  <2>6. Findable(n, s, lsn)'
    <3>1. ~Restart(n)
      BY <2>2, RestartOpens
    <3> QED
      BY <2>1, <2>2, <2>3, <3>1, FindableStays
  <2>7. CASE ReadStream(n, s, lsn)' = NotFound
    <3>1. IndexHits(n, s, lsn)' = {}
      BY <2>1, <2>4, <2>5, <2>7 DEF ReadsFound
    <3> QED
      BY <2>6, <2>7, <3>1 DEF Findable
  <2>8. CASE ReadStream(n, s, lsn)' # NotFound
    <3>1. Committed(raft'[n], s, lsn, ReadStream(n, s, lsn)')
      BY <2>1, <2>4, <2>8 DEF ReadsKnown
    <3>2. Committed(raft'[n], s, lsn, ReadStream(n, s, lsn))
      <4>1. Shapes /\ Shapes'
        BY <2>2, CoreShapes, PTL DEF Inv
      <4> QED
        BY <2>2, <2>3, <4>1, NextRep, CommittedStays
    <3> QED
      BY <2>4, <3>1, <3>2 DEF OneWrite
  <2> QED
    BY <2>7, <2>8
<1> QED
  BY <1>1, ServingHolds, PTL DEF Spec, ReadsStable

-----------------------------------------------------------------------------
(***************************************************************************)
(* The positions of a stream number its commands from 0.                   *)
(***************************************************************************)
LEMMA FiniteMax ==
  ASSUME NEW S, IsFiniteSet(S), S # {}, NEW f \in [S -> Nat]
  PROVE  \E x \in S : \A y \in S : f[y] <= f[x]
<1>6. PICK m \in Nat : ExistsBijection(1..m, S)
  BY FS_CardinalityType
<1>1. PICK g \in [1..m -> S] : \A y \in S : \E i \in 1..m : g[i] = y
  BY <1>6 DEF ExistsBijection, Bijection, Surjection
<1> DEFINE T == {k \in 0..m : ~\E b \in Nat : \A i \in 1..k : f[g[i]] <= b}
<1>2. T = {}
  <2> SUFFICES ASSUME T # {} PROVE FALSE
    OBVIOUS
  <2>1. PICK k \in T : \A j \in T : k <= j
    <3>1. T \in SUBSET Nat
      BY <1>1
    <3> HIDE DEF T
    <3> QED
      BY <3>1, LeastNat
  <2>2. k \in 0..m /\ k # 0
    <3>1. \A i \in 1..0 : f[g[i]] <= 0
      OBVIOUS
    <3> QED
      BY <3>1
  <2>3. PICK b \in Nat : \A i \in 1..(k - 1) : f[g[i]] <= b
    <3>1. k - 1 \in 0..m /\ ~(k <= k - 1)
      BY <2>2
    <3>2. k - 1 \notin T
      <4> HIDE DEF T
      <4> QED
        BY <2>1, <3>1
    <3> QED
      BY <3>1, <3>2
  <2>4. f[g[k]] \in Nat
    <3>1. k \in 1..m
      BY <2>2
    <3>2. g[k] \in S
      BY <3>1
    <3> QED
      BY <3>2
  <2>5. PICK d \in Nat : d >= b /\ d >= f[g[k]]
    <3>1. PICK e \in Nat : e = f[g[k]]
      BY <2>4
    <3>2. b + e \in Nat /\ b + e >= b /\ b + e >= e
      OBVIOUS
    <3> QED
      BY <3>1, <3>2
  <2>6. \A i \in 1..k : f[g[i]] <= d
    <3> SUFFICES ASSUME NEW i \in 1..k PROVE f[g[i]] <= d
      OBVIOUS
    <3>1. f[g[i]] \in Nat
      <4>1. i \in 1..m
        BY <2>2
      <4>2. g[i] \in S
        BY <4>1
      <4> QED
        BY <4>2
    <3>2. CASE i = k
      <4>1. f[g[i]] = f[g[k]] /\ f[g[k]] <= d
        BY <2>4, <2>5, <3>2
      <4> QED
        BY <4>1
    <3>3. CASE i # k
      <4>1. i \in 1..(k - 1)
        BY <2>2, <3>3
      <4>2. f[g[i]] <= b
        BY <2>3, <4>1
      <4>3. PICK v \in Nat : v = f[g[i]]
        BY <3>1
      <4>4. v <= b /\ b <= d
        BY <2>5, <4>2, <4>3
      <4>5. v <= d
        BY <4>4
      <4> QED
        BY <4>3, <4>5
    <3> QED
      BY <3>2, <3>3
  <2> QED
    BY <2>1, <2>5, <2>6
<1>3. PICK b \in Nat : \A i \in 1..m : f[g[i]] <= b
  <2>1. m \in 0..m
    BY <1>1
  <2> QED
    BY <1>2, <2>1
<1> DEFINE V == {f[y] : y \in S}
<1>4. V \in SUBSET Nat /\ V # {} /\ \A v \in V : v <= b
  BY <1>1, <1>3
<1>5. \E v \in V : \A u \in V : u <= v
  <2> HIDE DEF V
  <2> QED
    BY <1>4, GreatestNat
<1> QED
  BY <1>5

\* f numbers the elements of P from 0, in their order
Numbers(f, P) ==
  /\ f \in [P -> Nat]
  /\ \A i, j \in P : i < j => f[i] < f[j]
  /\ \A i \in P : \A p \in 0..f[i] : \E j \in P : f[j] = p

LEMMA RankIsNumber ==
  ASSUME NEW m \in Nat, NEW P \in SUBSET (1..m), NEW f, Numbers(f, P), NEW i \in P
  PROVE  Rank(P, i) = f[i] + 1
<1> DEFINE L == {j \in P : j <= i}
           I == 0..f[i]
           g == [j \in L |-> f[j]]
<1>1. f[i] \in Nat /\ i \in Nat /\ \A j \in P : j \in Nat /\ f[j] \in Nat
  BY DEF Numbers
<1>2. \A j \in L : f[j] \in I
  <2> SUFFICES ASSUME NEW j \in L PROVE f[j] \in I
    OBVIOUS
  <2>1. f[j] <= f[i]
    BY <1>1 DEF Numbers
  <2> QED
    BY <1>1, <2>1
<1>3. \A p \in I : \E j \in L : f[j] = p
  <2> SUFFICES ASSUME NEW p \in I PROVE \E j \in L : f[j] = p
    OBVIOUS
  <2>1. PICK j \in P : f[j] = p
    BY DEF Numbers
  <2>2. ~(i < j)
    BY <1>1, <2>1 DEF Numbers
  <2> QED
    BY <1>1, <2>1, <2>2
<1>4. \A j, k \in L : f[j] = f[k] => j = k
  <2> SUFFICES ASSUME NEW j \in L, NEW k \in L, f[j] = f[k] PROVE j = k
    OBVIOUS
  <2>1. ~(j < k) /\ ~(k < j)
    BY <1>1 DEF Numbers
  <2> QED
    BY <1>1, <2>1
<1>5. g \in Bijection(L, I)
  <2> HIDE DEF L, I
  <2> QED
    BY <1>2, <1>3, <1>4 DEF Bijection, Injection, Surjection, IsInjective
<1>6. IsFiniteSet(L)
  <2>1. L \in SUBSET Nat /\ \A j \in L : j <= i
    BY <1>1
  <2> HIDE DEF L
  <2> QED
    BY <1>1, <2>1, FS_BoundedSetOfNaturals
<1>7. Cardinality(I) = f[i] + 1
  <2>1. PICK p \in Nat : p = f[i]
    BY <1>1
  <2>2. Cardinality(0..p) = IF 0 > p THEN 0 ELSE p - 0 + 1
    BY FS_Interval
  <2>3. Cardinality(0..p) = p + 1
    BY <2>2
  <2> QED
    BY <2>1, <2>3
<1>8. Cardinality(L) = f[i] + 1
  <2> HIDE DEF L, I, g
  <2> QED
    BY <1>5, <1>6, <1>7, FS_Bijection DEF ExistsBijection
<1> QED
  BY <1>8 DEF Rank

LEMMA NthIsNumber ==
  ASSUME NEW m \in Nat, NEW P \in SUBSET (1..m), NEW f, Numbers(f, P)
  PROVE  /\ Cardinality(P) \in Nat
         /\ \A i \in P : f[i] + 1 \in 1..Cardinality(P) /\ Nth(P, f[i] + 1) = i
         /\ \A k \in 1..Cardinality(P) : Nth(P, k) \in P /\ f[Nth(P, k)] = k - 1
<1>1. \A i \in P : i \in Nat /\ f[i] \in Nat /\ Rank(P, i) = f[i] + 1
  BY RankIsNumber DEF Numbers
<1>2. IsFiniteSet(P) /\ Cardinality(P) \in Nat
  <2>1. P \in SUBSET Nat /\ \A i \in P : i <= m
    OBVIOUS
  <2>2. IsFiniteSet(P)
    BY <2>1, FS_BoundedSetOfNaturals
  <2> QED
    BY <2>2, FS_CardinalityType
<1>3. \A i \in P : f[i] + 1 \in 1..Cardinality(P)
  <2> SUFFICES ASSUME NEW i \in P PROVE f[i] + 1 \in 1..Cardinality(P)
    OBVIOUS
  <2>1. Cardinality({j \in P : j <= i}) <= Cardinality(P)
    BY <1>2, FS_Subset
  <2>2. f[i] + 1 <= Cardinality(P)
    BY <1>1, <2>1 DEF Rank
  <2> QED
    BY <1>1, <1>2, <2>2
<1>4. \A i \in P : Nth(P, f[i] + 1) = i
  <2> SUFFICES ASSUME NEW i \in P PROVE Nth(P, f[i] + 1) = i
    OBVIOUS
  <2>1. ASSUME NEW j \in P, Rank(P, j) = f[i] + 1 PROVE j = i
    <3>1. f[j] = f[i]
      BY <1>1, <2>1
    <3>2. ~(i < j) /\ ~(j < i)
      BY <1>1, <3>1 DEF Numbers
    <3> QED
      BY <1>1, <3>2
  <2>2. Rank(P, i) = f[i] + 1
    BY <1>1
  <2> QED
    BY <2>1, <2>2 DEF Nth
<1>5. \A k \in 1..Cardinality(P) : \E i \in P : f[i] = k - 1
  <2> SUFFICES ASSUME NEW k \in 1..Cardinality(P) PROVE \E i \in P : f[i] = k - 1
    OBVIOUS
  <2>1. P # {}
    <3>1. Cardinality(P) # 0
      BY <1>2
    <3> QED
      BY <3>1, FS_EmptySet
  <2>2. PICK i \in P : \A j \in P : j <= i
    <3>1. P \in SUBSET Nat /\ \A j \in P : j <= m
      OBVIOUS
    <3> QED
      BY <2>1, <3>1, GreatestNat
  <2>3. {j \in P : j <= i} = P
    BY <2>2
  <2>4. f[i] + 1 = Cardinality(P)
    BY <1>1, <2>3 DEF Rank
  <2>5. k - 1 \in 0..f[i]
    BY <1>1, <1>2, <2>4
  <2> QED
    BY <2>5 DEF Numbers
<1>6. \A k \in 1..Cardinality(P) : Nth(P, k) \in P /\ f[Nth(P, k)] = k - 1
  <2> SUFFICES ASSUME NEW k \in 1..Cardinality(P)
      PROVE  Nth(P, k) \in P /\ f[Nth(P, k)] = k - 1
    OBVIOUS
  <2>1. PICK i \in P : f[i] = k - 1
    BY <1>5
  <2>2. f[i] + 1 = k
    BY <1>2, <2>1
  <2>3. Nth(P, k) = i
    BY <1>4, <2>2
  <2> QED
    BY <2>1, <2>3
<1> QED
  BY <1>2, <1>3, <1>4, <1>6

-----------------------------------------------------------------------------
(***************************************************************************)
(* What a node has committed of a stream, one record per position.         *)
(***************************************************************************)
PosOf(r, s) == [i \in Places(r, s) |-> r.log[i].cmd.lsn]

ServedRecords == [w : Writes, epoch : Epochs]

LEMMA PlaceFacts ==
  ASSUME Inv, NEW n \in Nodes, NEW s \in Streams, NEW i \in Places(raft[n], s)
  PROVE  /\ i \in 1..raft[n].committed /\ i \in 1..Len(raft[n].log)
         /\ raft[n].log[i].cmd \in Commands /\ raft[n].log[i].cmd # NoCmd
         /\ raft[n].log[i].cmd.stream = s
         /\ raft[n].log[i].cmd.lsn \in Nat
         /\ RecordOf(raft[n].log[i].cmd) \in ServedRecords
<1>1. /\ raft[n].log \in Seq(Entries) /\ Len(raft[n].log) \in Nat
      /\ raft[n].committed \in Nat /\ raft[n].committed <= Len(raft[n].log)
  BY CoreShapes DEF Inv, Shapes
<1>2. /\ i \in 1..raft[n].committed /\ i \in 1..Len(raft[n].log)
      /\ raft[n].log[i].cmd # NoCmd /\ raft[n].log[i].cmd.stream = s
  BY <1>1 DEF Places
<1>3. raft[n].log[i] \in Entries
  BY <1>1, <1>2, ElementOfSeq
<1>4. raft[n].log[i].cmd \in Commands
  BY <1>2, <1>3 DEF Entries
<1>5. PICK c \in Commands : c = raft[n].log[i].cmd
  BY <1>4
<1>6. c.lsn \in Nat /\ RecordOf(c) \in ServedRecords
  BY CommandFields DEF RecordOf, ServedRecords
<1> QED
  BY <1>2, <1>4, <1>5, <1>6

\* below a committed position of a stream every position is committed
LEMMA PlacesFilled ==
  ASSUME Inv, Replicated, PosPart, GivenPart, OneElection, NEW n \in Nodes, NEW s \in Streams,
         NEW i \in Places(raft[n], s), NEW p \in 0..raft[n].log[i].cmd.lsn
  PROVE  \E j \in Places(raft[n], s) : raft[n].log[j].cmd.lsn = p
<1> DEFINE l == raft[n].log
           t == l[i].term
<1>1. /\ i \in 1..raft[n].committed /\ i \in 1..Len(l) /\ l[i].cmd # NoCmd
      /\ l[i].cmd.stream = s /\ l[i].cmd.lsn \in Nat /\ raft[n].committed \in Nat
  BY PlaceFacts, CoreShapes DEF Inv, Shapes
<1>2. /\ t \in Terms /\ Elected(sent, t) /\ i \in 1..Len(sent[t].log)
      /\ \A j \in 1..i : l[j] = sent[t].log[j]
  BY <1>1, NodeSourced DEF Sourced
<1>3. CASE p = l[i].cmd.lsn
  BY <1>3
<1>4. CASE p # l[i].cmd.lsn
  <2>1. p \in Nat /\ p < l[i].cmd.lsn /\ p \in 0..(l[i].cmd.lsn - 1)
    <3>1. PICK q \in Nat : q = l[i].cmd.lsn
      BY <1>1
    <3>2. p \in 0..q /\ p # q
      BY <1>4, <3>1
    <3>3. p \in Nat /\ p < q /\ p \in 0..(q - 1)
      BY <3>2
    <3> QED
      BY <3>1, <3>3
  <2> HIDE DEF t
  <2>2. sent[t].log[i] = l[i] /\ Len(sent[t].log) \in Nat
    BY <1>1, <1>2, CoreShapes DEF Inv, Shapes
  <2>3. Given(sent, s, p)
    <3>1. Dense(sent, sent[t].log)
      BY <1>2 DEF GivenPart
    <3>2. sent[t].log[i].cmd # NoCmd /\ sent[t].log[i].cmd.stream = s
          /\ sent[t].log[i].cmd.lsn = l[i].cmd.lsn
      BY <1>1, <2>2
    <3>3. AllGiven(sent, s, l[i].cmd.lsn)
      BY <1>2, <3>1, <3>2 DEF Dense
    <3> QED
      BY <2>1, <3>3 DEF AllGiven
  <2>4. PICK u \in Terms : \E j \in 1..Len(sent[u].log) : Holds(sent[u].log, j, s, p)
    BY <2>3 DEF Given
  <2>5. PICK j \in 1..Len(sent[u].log) : Holds(sent[u].log, j, s, p)
    BY <2>4
  <2>6. Sourced(sent, sent[u].log, j)
    BY <2>5, SentSourced DEF Holds
  <2>7. /\ sent[u].log[j].term = t /\ j \in 1..Len(sent[t].log)
        /\ sent[t].log[j] = sent[u].log[j]
    <3>1. sent[u].log[j].term \in Terms /\ Elected(sent, sent[u].log[j].term)
      BY <2>6 DEF Sourced
    <3>2. sent[u].log[j].term = t
      BY <1>2, <3>1 DEF OneElection
    <3>3. j \in 1..Len(sent[t].log) /\ \A k \in 1..j : sent[u].log[k] = sent[t].log[k]
      BY <2>6, <3>2 DEF Sourced
    <3>4. j \in 1..j
      BY <3>3, <2>2
    <3> QED
      BY <3>2, <3>3, <3>4
  <2>8. ~(i < j)
    <3>1. Ascends(sent[t].log, t)
      BY <1>2 DEF PosPart
    <3>2. /\ sent[t].log[i].term = t /\ sent[t].log[j].term = t
          /\ sent[t].log[i].cmd # NoCmd /\ sent[t].log[j].cmd # NoCmd
          /\ sent[t].log[i].cmd.stream = sent[t].log[j].cmd.stream
          /\ sent[t].log[i].cmd.lsn = l[i].cmd.lsn /\ sent[t].log[j].cmd.lsn = p
      BY <1>1, <2>2, <2>5, <2>7 DEF Holds, t
    <3>3. i < j => l[i].cmd.lsn < p
      BY <1>2, <2>7, <3>1, <3>2 DEF Ascends
    <3> QED
      BY <1>1, <2>1, <3>3
  <2>9. j \in 1..i /\ j \in 1..raft[n].committed
    BY <1>1, <2>2, <2>7, <2>8
  <2>10. l[j] = sent[t].log[j]
    BY <1>2, <2>9
  <2>11. l[j].cmd # NoCmd /\ l[j].cmd.stream = s /\ l[j].cmd.lsn = p
    BY <2>5, <2>7, <2>10 DEF Holds
  <2> QED
    BY <2>9, <2>11 DEF Places
<1> QED
  BY <1>3, <1>4

LEMMA PlacesNumbered ==
  ASSUME Inv, Replicated, PosPart, GivenPart, OneElection, NEW n \in Nodes, NEW s \in Streams
  PROVE  Numbers(PosOf(raft[n], s), Places(raft[n], s))
<1> DEFINE P == Places(raft[n], s)
           f == PosOf(raft[n], s)
<1>1. f \in [P -> Nat] /\ \A i \in P : f[i] = raft[n].log[i].cmd.lsn
  BY PlaceFacts DEF PosOf
<1>2. \A i, j \in P : i < j => f[i] < f[j]
  <2> SUFFICES ASSUME NEW i \in P, NEW j \in P, i < j PROVE f[i] < f[j]
    OBVIOUS
  <2>1. InOrder
    BY OneInOrder
  <2>2. /\ i \in 1..Len(raft[n].log) /\ j \in 1..Len(raft[n].log)
        /\ raft[n].log[i].cmd # NoCmd /\ raft[n].log[j].cmd # NoCmd
        /\ raft[n].log[i].cmd.stream = raft[n].log[j].cmd.stream
    BY PlaceFacts
  <2>3. raft[n].log[i].cmd.lsn < raft[n].log[j].cmd.lsn
    BY <2>1, <2>2 DEF InOrder
  <2> QED
    BY <1>1, <2>3
<1>3. \A i \in P : \A p \in 0..f[i] : \E j \in P : f[j] = p
  <2> SUFFICES ASSUME NEW i \in P, NEW p \in 0..f[i] PROVE \E j \in P : f[j] = p
    OBVIOUS
  <2>1. p \in 0..raft[n].log[i].cmd.lsn
    BY <1>1
  <2> HIDE DEF f
  <2>2. PICK j \in P : raft[n].log[j].cmd.lsn = p
    BY <2>1, PlacesFilled
  <2> QED
    BY <1>1, <2>2
<1> QED
  BY <1>1, <1>2, <1>3 DEF Numbers

\* the records of a stream, by position
Lined(r, s) ==
  LET records == CommittedRecords(r, s)
  IN  /\ records \in Seq(ServedRecords) /\ Len(records) \in Nat
      /\ \A i \in Places(r, s) :
           /\ r.log[i].cmd.lsn + 1 \in 1..Len(records)
           /\ records[r.log[i].cmd.lsn + 1] = RecordOf(r.log[i].cmd)
      /\ \A k \in 1..Len(records) : \E i \in Places(r, s) :
           r.log[i].cmd.lsn = k - 1 /\ records[k] = RecordOf(r.log[i].cmd)

LinedUp == \A n \in Nodes, s \in Streams : Lined(raft[n], s)

LEMMA LinesUp == Inv /\ Replicated /\ PosPart /\ GivenPart /\ OneElection => LinedUp
<1> SUFFICES ASSUME Inv, Replicated, PosPart, GivenPart, OneElection,
                    NEW n \in Nodes, NEW s \in Streams
    PROVE  Lined(raft[n], s)
  BY DEF LinedUp
<1> DEFINE P == Places(raft[n], s)
           f == PosOf(raft[n], s)
           N == Cardinality(P)
           records == CommittedRecords(raft[n], s)
<1>1. /\ N \in Nat
      /\ \A i \in P : f[i] + 1 \in 1..N /\ Nth(P, f[i] + 1) = i
      /\ \A k \in 1..N : Nth(P, k) \in P /\ f[Nth(P, k)] = k - 1
  <2>1. raft[n].committed \in Nat /\ P \in SUBSET (1..raft[n].committed)
    BY CoreShapes DEF Inv, Shapes, Places
  <2>2. Numbers(f, P)
    BY PlacesNumbered
  <2> HIDE DEF P, f
  <2> QED
    BY <2>1, <2>2, NthIsNumber
<1>2. \A i \in P : f[i] = raft[n].log[i].cmd.lsn /\ RecordOf(raft[n].log[i].cmd) \in ServedRecords
  BY PlaceFacts DEF PosOf
<1>3. records = [k \in 1..N |-> RecordOf(raft[n].log[Nth(P, k)].cmd)]
  BY DEF CommittedRecords
<1> HIDE DEF P, f, N, records
<1>4. \A k \in 1..N : records[k] = RecordOf(raft[n].log[Nth(P, k)].cmd)
                      /\ records[k] \in ServedRecords
  BY <1>1, <1>2, <1>3
<1>5. records \in Seq(ServedRecords) /\ Len(records) = N
  BY <1>1, <1>3, <1>4
<1>6. \A i \in P : /\ raft[n].log[i].cmd.lsn + 1 \in 1..Len(records)
                   /\ records[raft[n].log[i].cmd.lsn + 1] = RecordOf(raft[n].log[i].cmd)
  BY <1>1, <1>2, <1>4, <1>5
<1>7. \A k \in 1..Len(records) : \E i \in P :
        raft[n].log[i].cmd.lsn = k - 1 /\ records[k] = RecordOf(raft[n].log[i].cmd)
  BY <1>1, <1>2, <1>4, <1>5
<1> QED
  BY <1>1, <1>5, <1>6, <1>7 DEF Lined, P, records

-----------------------------------------------------------------------------
(***************************************************************************)
(* A step only adds to the end of what the group has committed.            *)
(***************************************************************************)
Prefix(r, q) ==
  /\ r.committed \in Nat /\ q.committed \in Nat /\ r.committed <= q.committed
  /\ \A i \in 1..r.committed : q.log[i] = r.log[i]

LEMMA PlacesGrow ==
  ASSUME NEW r, NEW q, Prefix(r, q), NEW s, NEW i \in Places(r, s)
  PROVE  i \in Places(q, s) /\ q.log[i] = r.log[i]
<1>1. i \in 1..r.committed /\ r.log[i].cmd # NoCmd /\ r.log[i].cmd.stream = s
  BY DEF Places
<1>2. q.log[i] = r.log[i] /\ i \in 1..q.committed
  BY <1>1 DEF Prefix
<1> QED
  BY <1>1, <1>2 DEF Places

LEMMA RecordsGrow ==
  ASSUME NEW r, NEW q, Prefix(r, q), NEW s, Lined(r, s), Lined(q, s)
  PROVE  LET a == CommittedRecords(r, s)
             b == CommittedRecords(q, s)
         IN  Len(a) <= Len(b) /\ \A k \in 1..Len(a) : b[k] = a[k]
<1> DEFINE a == CommittedRecords(r, s)
           b == CommittedRecords(q, s)
<1>1. Len(a) \in Nat /\ Len(b) \in Nat
  BY DEF Lined
<1>2. \A k \in 1..Len(a) : k \in 1..Len(b) /\ b[k] = a[k]
  <2> SUFFICES ASSUME NEW k \in 1..Len(a) PROVE k \in 1..Len(b) /\ b[k] = a[k]
    OBVIOUS
  <2>1. PICK i \in Places(r, s) : r.log[i].cmd.lsn = k - 1 /\ a[k] = RecordOf(r.log[i].cmd)
    BY DEF Lined
  <2>2. i \in Places(q, s) /\ q.log[i] = r.log[i]
    BY PlacesGrow
  <2>3. /\ q.log[i].cmd.lsn + 1 \in 1..Len(b)
        /\ b[q.log[i].cmd.lsn + 1] = RecordOf(q.log[i].cmd)
    BY <2>2 DEF Lined
  <2>4. q.log[i].cmd.lsn + 1 = k
    BY <1>1, <2>1, <2>2
  <2> QED
    BY <2>1, <2>2, <2>3, <2>4
<1>3. Len(a) <= Len(b)
  <2> HIDE DEF a, b
  <2>1. CASE Len(a) = 0
    BY <1>1, <2>1
  <2>2. CASE Len(a) # 0
    <3>1. Len(a) \in 1..Len(a)
      BY <1>1, <2>2
    <3> QED
      BY <1>1, <1>2, <3>1
  <2> QED
    BY <2>1, <2>2
<1> QED
  BY <1>2, <1>3

LEMMA FurthestKnows ==
  ASSUME Inv
  PROVE  Furthest \in Nodes /\ \A m \in Nodes : raft[m].committed <= raft[Furthest].committed
<1> DEFINE f == [n \in Nodes |-> raft[n].committed]
<1>1. f \in [Nodes -> Nat]
  BY CoreShapes DEF Inv, Shapes
<1>2. IsFiniteSet(Nodes) /\ Nodes # {}
  <2>1. IsFiniteSet(Nodes) /\ Cardinality(Nodes) > 1
    BY GroupAssumption
  <2>2. Cardinality({}) = 0
    BY FS_EmptySet
  <2> QED
    BY <2>1, <2>2
<1>3. \E n \in Nodes : \A m \in Nodes : f[m] <= f[n]
  <2> HIDE DEF f
  <2> QED
    BY <1>1, <1>2, FiniteMax
<1>4. \E n \in Nodes : \A m \in Nodes : raft[m].committed <= raft[n].committed
  BY <1>3
<1> QED
  BY <1>4 DEF Furthest

\* the node that knows most has what every other knows
FurthestLeads == Furthest \in Nodes /\ \A n \in Nodes : Prefix(raft[n], raft[Furthest])

LEMMA FurthestAhead == Inv /\ Replicated => FurthestLeads
<1> SUFFICES ASSUME Inv, Replicated PROVE FurthestLeads
  OBVIOUS
<1>1. Furthest \in Nodes /\ \A m \in Nodes : raft[m].committed <= raft[Furthest].committed
  BY FurthestKnows
<1>2. \A m \in Nodes : raft[m].committed \in Nat
  BY CoreShapes DEF Inv, Shapes
<1>3. CommittedAgree
  BY ReplicatedAgree
<1>4. ASSUME NEW n \in Nodes PROVE Prefix(raft[n], raft[Furthest])
  <2>1. PICK g \in Nodes : g = Furthest
    BY <1>1
  <2>2. raft[n].committed <= raft[g].committed
    BY <1>1, <2>1
  <2>3. \A i \in 1..raft[n].committed : i <= raft[g].committed
    BY <1>2, <2>2
  <2>4. \A i \in 1..raft[n].committed : raft[n].log[i] = raft[g].log[i]
    BY <1>3, <2>3 DEF CommittedAgree
  <2>5. Prefix(raft[n], raft[g])
    BY <1>2, <2>2, <2>4 DEF Prefix
  <2> QED
    BY <2>1, <2>5
<1> QED
  BY <1>1, <1>4 DEF FurthestLeads

\* what was committed stays where it was; nothing comes when no node commits
LEMMA FurthestMoves ==
  ASSUME Inv, Inv', Replicated, Replicated', [Next]_vars
  PROVE  /\ Prefix(raft[Furthest], raft'[Furthest'])
         /\ CommitsStay => Prefix(raft'[Furthest'], raft[Furthest])
<1>1. FurthestLeads /\ FurthestLeads'
  BY FurthestAhead, PTL
<1>2. PICK f \in Nodes : f = Furthest
  BY <1>1 DEF FurthestLeads
<1>3. PICK g \in Nodes : g = Furthest'
  BY <1>1 DEF FurthestLeads
<1>4. Stable
  BY NextRep
<1>5. /\ Prefix(raft[g], raft[f]) /\ Prefix(raft'[f], raft'[g])
  BY <1>1, <1>2, <1>3 DEF FurthestLeads
<1>6. Prefix(raft[f], raft'[f]) /\ Prefix(raft[g], raft'[g])
  BY <1>4, <1>5 DEF Stable, Prefix
<1>7. Prefix(raft[f], raft'[g])
  <2>1. raft[f].committed <= raft'[g].committed
    BY <1>5, <1>6 DEF Prefix
  <2>2. \A i \in 1..raft[f].committed : raft'[g].log[i] = raft[f].log[i]
    <3> SUFFICES ASSUME NEW i \in 1..raft[f].committed PROVE raft'[g].log[i] = raft[f].log[i]
      OBVIOUS
    <3>1. raft'[f].log[i] = raft[f].log[i] /\ i \in 1..raft'[f].committed
      BY <1>6 DEF Prefix
    <3>2. raft'[g].log[i] = raft'[f].log[i]
      BY <1>5, <3>1 DEF Prefix
    <3> QED
      BY <3>1, <3>2
  <2> QED
    BY <1>5, <1>6, <2>1, <2>2 DEF Prefix
<1>8. ASSUME CommitsStay PROVE Prefix(raft'[g], raft[f])
  <2>1. raft'[g].committed <= raft[f].committed
    BY <1>5, <1>8 DEF CommitsStay, Prefix
  <2>2. \A i \in 1..raft'[g].committed : i \in 1..raft[f].committed
    BY <1>5, <2>1 DEF Prefix
  <2> QED
    BY <1>7, <2>1, <2>2 DEF Prefix
<1> QED
  BY <1>2, <1>3, <1>7, <1>8

LEMMA LogsMove ==
  ASSUME Inv, Inv', Replicated, Replicated', LinedUp, LinedUp', [Next]_vars
  PROVE  /\ Service!Grows(Logs, Logs')
         /\ CommitsStay => Logs' = Logs
<1>1. FurthestLeads /\ FurthestLeads'
  BY FurthestAhead, PTL
<1>2. PICK f \in Nodes : f = Furthest
  BY <1>1 DEF FurthestLeads
<1>3. PICK g \in Nodes : g = Furthest'
  BY <1>1 DEF FurthestLeads
<1>4. Prefix(raft[f], raft'[g]) /\ (CommitsStay => Prefix(raft'[g], raft[f]))
  BY <1>2, <1>3, FurthestMoves
<1> DEFINE a(s) == CommittedRecords(raft[f], s)
           b(s) == CommittedRecords(raft'[g], s)
<1>5. /\ Logs = [s \in Streams |-> a(s)]
      /\ Logs' = [s \in Streams |-> b(s)]
  BY <1>2, <1>3 DEF Logs
<1>6. \A s \in Streams : Lined(raft[f], s) /\ Lined(raft'[g], s)
  BY DEF LinedUp
<1>7. \A s \in Streams : /\ a(s) \in Seq(ServedRecords) /\ b(s) \in Seq(ServedRecords)
                         /\ Len(a(s)) \in Nat /\ Len(b(s)) \in Nat
  BY <1>6 DEF Lined
<1>8. \A s \in Streams : Len(a(s)) <= Len(b(s)) /\ \A k \in 1..Len(a(s)) : b(s)[k] = a(s)[k]
  BY <1>4, <1>6, RecordsGrow
<1>9. ASSUME CommitsStay, NEW s \in Streams PROVE b(s) = a(s)
  <2>1. Len(b(s)) <= Len(a(s)) /\ \A k \in 1..Len(b(s)) : a(s)[k] = b(s)[k]
    BY <1>4, <1>6, <1>9, RecordsGrow
  <2>2. Len(a(s)) = Len(b(s))
    BY <1>7, <1>8, <2>1
  <2> HIDE DEF a, b
  <2> QED
    BY <1>7, <1>8, <2>2, SeqEqual
<1>10. ASSUME NEW s \in Streams PROVE SubSeq(b(s), 1, Len(a(s))) = a(s)
  <2> DEFINE x == a(s)
             y == b(s)
  <2>1. /\ x \in Seq(ServedRecords) /\ y \in Seq(ServedRecords)
        /\ Len(x) \in Nat /\ Len(y) \in Nat
        /\ Len(x) <= Len(y) /\ \A k \in 1..Len(x) : y[k] = x[k]
    BY <1>7, <1>8
  <2> HIDE DEF x, y
  <2> DEFINE z == SubSeq(y, 1, Len(x))
  <2>2. \A k \in 1..Len(x) : y[k] \in ServedRecords
    BY <2>1, ElementOfSeq
  <2>3. /\ z \in Seq(ServedRecords)
        /\ Len(z) = IF 1 <= Len(x) THEN Len(x) - 1 + 1 ELSE 0
        /\ \A k \in 1..(Len(x) - 1 + 1) : z[k] = y[1 + k - 1]
    BY <2>1, <2>2, SubSeqProperties
  <2> HIDE DEF z
  <2>4. Len(z) = Len(x) /\ \A k \in 1..Len(x) : z[k] = x[k]
    BY <2>1, <2>3
  <2>5. z = x
    BY <2>1, <2>3, <2>4, SeqEqual
  <2> QED
    BY <2>5 DEF x, y, z
<1>11. Service!Grows(Logs, Logs')
  <2> HIDE DEF a, b
  <2> QED
    BY <1>5, <1>8, <1>10 DEF Service!Grows
<1>12. CommitsStay => Logs' = Logs
  <2> HIDE DEF a, b
  <2> QED
    BY <1>5, <1>9
<1> QED
  BY <1>11, <1>12

-----------------------------------------------------------------------------
(***************************************************************************)
(* A group with one leader is a StreamService.                             *)
(***************************************************************************)
GoodLogs ==
  /\ Service!Sound(Logs)
  /\ \A s \in Streams : \A k \in 1..Len(Logs[s]) :
       /\ Logs[s][k] \in ServedRecords
       /\ reply[Logs[s][k].w].status \notin {"unsent", "fenced"}

LEMMA LogsAreGood == Serving /\ OneElection => GoodLogs
<1> SUFFICES ASSUME Serving, OneElection PROVE GoodLogs
  OBVIOUS
<1>1. Inv /\ Replicated /\ PosPart /\ GivenPart /\ WritePart
  BY DEF Serving, OneInv
<1>2. LinedUp /\ InOrder /\ FurthestLeads
  BY <1>1, LinesUp, OneInOrder, FurthestAhead
<1>3. PICK f \in Nodes : f = Furthest
  BY <1>2 DEF FurthestLeads
<1> DEFINE P(s) == Places(raft[f], s)
           c(i) == raft[f].log[i].cmd
<1>4. \A s \in Streams : \A k \in 1..Len(Logs[s]) : \E i \in P(s) :
        c(i).lsn = k - 1 /\ Logs[s][k] = RecordOf(c(i))
  BY <1>2, <1>3 DEF Logs, LinedUp, Lined
<1>5. \A s \in Streams : \A k \in 1..Len(Logs[s]) : Logs[s][k] \in ServedRecords /\ k \in Nat
  <2> SUFFICES ASSUME NEW s \in Streams, NEW k \in 1..Len(Logs[s])
      PROVE  Logs[s][k] \in ServedRecords /\ k \in Nat
    OBVIOUS
  <2>1. PICK i \in P(s) : Logs[s][k] = RecordOf(c(i))
    BY <1>4
  <2> QED
    BY <1>1, <2>1, PlaceFacts
<1>6. ASSUME NEW s \in Streams, NEW i \in P(s)
      PROVE  /\ c(i).w \in Writes
             /\ \E t \in Terms : /\ Elected(sent, t) /\ i \in 1..Len(sent[t].log)
                                 /\ Proposes(sent, t, i, c(i).w)
  <2>1. i \in 1..Len(raft[f].log) /\ c(i) # NoCmd /\ c(i) \in Commands
    BY <1>1, <1>6, PlaceFacts
  <2>2. Sourced(sent, raft[f].log, i)
    BY <1>1, <2>1, NodeSourced
  <2>3. PICK t \in Terms : t = raft[f].log[i].term
    BY <2>2 DEF Sourced
  <2>4. /\ Elected(sent, t) /\ i \in 1..Len(sent[t].log)
        /\ \A j \in 1..i : raft[f].log[j] = sent[t].log[j]
    BY <2>2, <2>3 DEF Sourced
  <2>5. sent[t].log[i] = raft[f].log[i]
    BY <2>1, <2>4
  <2>6. c(i).w \in Writes
    BY <2>1, CommandFields
  <2> QED
    BY <2>1, <2>3, <2>4, <2>5, <2>6 DEF Proposes
<1>7. ASSUME NEW s \in Streams, NEW k \in 1..Len(Logs[s])
      PROVE  reply[Logs[s][k].w].status \notin {"unsent", "fenced"}
  <2>1. PICK i \in P(s) : Logs[s][k] = RecordOf(c(i))
    BY <1>4
  <2>2. PICK w \in Writes : w = c(i).w
    BY <1>6
  <2>3. Logs[s][k].w = w
    BY <2>1, <2>2 DEF RecordOf
  <2>4. \E t \in Terms : \E j \in 1..Len(sent[t].log) : Proposes(sent, t, j, w)
    BY <1>6, <2>2
  <2>5. reply[w].status \notin {"unsent", "fenced"}
    BY <1>1, <2>4 DEF WritePart
  <2> QED
    BY <2>3, <2>5
<1>8. ASSUME NEW s \in Streams, NEW i \in 1..Len(Logs[s]), NEW j \in 1..Len(Logs[s]), i < j
      PROVE  Logs[s][i].epoch <= Logs[s][j].epoch
  <2>1. PICK a \in P(s) : c(a).lsn = i - 1 /\ Logs[s][i] = RecordOf(c(a))
    BY <1>4
  <2>2. PICK b \in P(s) : c(b).lsn = j - 1 /\ Logs[s][j] = RecordOf(c(b))
    BY <1>4
  <2>3. /\ a \in 1..Len(raft[f].log) /\ b \in 1..Len(raft[f].log)
        /\ c(a) # NoCmd /\ c(b) # NoCmd /\ c(a).stream = c(b).stream
    BY <1>1, <2>1, <2>2, PlaceFacts
  <2>4. a < b
    <3>1. ~(c(b).lsn < c(a).lsn) /\ c(a).lsn # c(b).lsn
      BY <1>5, <1>8, <2>1, <2>2
    <3>2. ~(b < a)
      BY <1>2, <2>3, <3>1 DEF InOrder
    <3> QED
      BY <2>3, <3>1, <3>2
  <2>5. c(a).epoch <= c(b).epoch
    BY <1>2, <2>3, <2>4 DEF InOrder
  <2> QED
    BY <2>1, <2>2, <2>5 DEF RecordOf
<1>9. ASSUME NEW s \in Streams, NEW q \in Streams, NEW i \in 1..Len(Logs[s]),
             NEW j \in 1..Len(Logs[q]), Logs[s][i].w = Logs[q][j].w
      PROVE  s = q /\ i = j
  <2>1. PICK a \in P(s) : c(a).lsn = i - 1 /\ Logs[s][i] = RecordOf(c(a))
    BY <1>4
  <2>2. PICK b \in P(q) : c(b).lsn = j - 1 /\ Logs[q][j] = RecordOf(c(b))
    BY <1>4
  <2>3. PICK w \in Writes : w = c(a).w
    BY <1>6
  <2>4. c(b).w = w
    BY <1>9, <2>1, <2>2, <2>3 DEF RecordOf
  <2>5. PICK t \in Terms : a \in 1..Len(sent[t].log) /\ Proposes(sent, t, a, w)
    BY <1>6, <2>3
  <2>6. PICK u \in Terms : b \in 1..Len(sent[u].log) /\ Proposes(sent, u, b, w)
    BY <1>6, <2>4
  <2>7. a = b
    BY <1>1, <2>5, <2>6 DEF WritePart
  <2>8. s = q
    BY <2>7 DEF Places
  <2>9. i - 1 = j - 1
    BY <2>1, <2>2, <2>7
  <2> QED
    BY <1>5, <2>8, <2>9
<1>10. Service!Sound(Logs)
  <2> HIDE DEF P, c
  <2> QED
    BY <1>8, <1>9 DEF Service!Sound
<1> QED
  BY <1>5, <1>7, <1>10 DEF GoodLogs

LEMMA ServiceStep ==
  ASSUME Serving, Serving', OneElection, OneElection', [Next]_vars
  PROVE  [Service!Next]_(Service!vars)
<1>1. /\ Inv /\ Inv' /\ Replicated /\ Replicated'
      /\ PosPart /\ GivenPart /\ RequestPart /\ NoticedPart
  BY DEF Serving, OneInv
<1>2. LinedUp /\ LinedUp'
  BY LinesUp, PTL DEF Serving, OneInv
<1>3. Service!Grows(Logs, Logs') /\ (CommitsStay => Logs' = Logs)
  BY <1>1, <1>2, LogsMove
<1>4. reply \in [Writes -> [status : Statuses, lsn : Nat]]
  BY <1>1 DEF Inv, ClientInv
<1>5. \A n \in Nodes : \A p \in pending[n] : reply[p.w].status = "waiting"
  BY <1>1 DEF Inv, ClientInv, PendingInv
<1>6. CASE reply' = reply
  <2>1. GoodLogs'
    BY LogsAreGood, PTL
  <2>2. /\ Service!Sound(Logs')
        /\ \A s \in Streams : \A k \in 1..Len(Logs'[s]) :
             /\ Logs'[s][k] \in Service!Records
             /\ reply[Logs'[s][k].w].status \notin {"unsent", "fenced"}
    BY <1>6, <2>1 DEF GoodLogs, Service!Records, ServedRecords
  <2>3. CASE Logs' = Logs
    BY <1>6, <2>3 DEF Service!vars
  <2>4. CASE Logs' # Logs
    <3>1. Service!Commit
      BY <1>3, <1>6, <2>2, <2>4 DEF Service!Commit
    <3> QED
      BY <3>1 DEF Service!Next
  <2> QED
    BY <2>3, <2>4
<1>7. ASSUME NEW w \in Writes, Refusal(w) PROVE Service!Next
  <2>1. Logs' = Logs
    BY <1>3, <1>7 DEF Refusal, CommitsStay
  <2>2. PICK status \in {"not_leader", "fenced"} :
          reply' = [reply EXCEPT ![w] = [status |-> status, lsn |-> 0]]
    BY <1>7 DEF Refusal
  <2>3. Service!Refuse(w, status)
    BY <1>7, <2>1, <2>2 DEF Refusal, Service!Refuse, Service!Told
  <2>4. status \in Service!Answers
    BY DEF Service!Answers
  <2> QED
    BY <2>3, <2>4 DEF Service!Next
<1>8. ASSUME NEW n \in Nodes, NEW w \in Writes, NEW s \in Streams, NEW e \in Epochs,
             Proposal(n, w, s, e)
      PROVE  Service!Next
  <2>1. Logs' = Logs
    BY <1>3, <1>8 DEF Proposal
  <2>2. /\ reply[w].status = "unsent"
        /\ reply' = [reply EXCEPT ![w] = [status |-> "waiting", lsn |-> 0]]
    BY <1>8 DEF Proposal, WritePropose, NextWrite, Answer
  <2>3. Service!Submit(w)
    BY <2>1, <2>2 DEF Service!Submit, Service!Told
  <2> QED
    BY <2>3 DEF Service!Next
<1>9. ASSUME NEW n \in Nodes, Abandonment(n) PROVE Service!Next
  <2> DEFINE W == {w \in Writes : \E p \in pending[n] : p.w = w}
  <2>1. Logs' = Logs
    BY <1>3, <1>9 DEF Abandonment
  <2>2. PICK status \in {"not_leader", "lost"} : reply' = FailedReplies(n, status)
    BY <1>9 DEF Abandonment
  <2>3. reply' = [w \in Writes |-> IF w \in W THEN [status |-> status, lsn |-> 0] ELSE reply[w]]
    BY <2>2 DEF FailedReplies
  <2>4. W \in SUBSET Writes /\ \A w \in W : reply[w].status = "waiting"
    BY <1>5
  <2> HIDE DEF W
  <2>5. Service!Abandon(W, status)
    BY <2>1, <2>3, <2>4 DEF Service!Abandon, Service!Told
  <2>6. status \in Service!Answers
    BY DEF Service!Answers
  <2> QED
    BY <2>4, <2>5, <2>6 DEF Service!Next
<1>10. ASSUME NEW n \in Nodes, NEW i, NEW c, ApplyView(n, i, c)
       PROVE  reply' = reply \/ Service!Next
  <2>1. CommitsStay
    BY <1>10 DEF ApplyView, SameTurn, CommitsStay
  <2>2. Logs' = Logs
    BY <1>3, <2>1
  <2>3. c \in Commands /\ i \in 1..raft[n].committed /\ c = raft[n].log[i].cmd /\ c # NoCmd
    BY <1>10 DEF ApplyView
  <2>4. c.stream \in Streams /\ c.lsn \in Nat /\ c.w \in Writes
    BY <2>3, CommandFields
  <2>5. \A p \in pending[n] : p.rid = c.rid => p = c
    BY <1>1, <1>10, AnswersOwn
  <2>6. reply' = [w \in Writes |->
           IF \E p \in pending[n] : p.rid = c.rid /\ p.w = w
           THEN [status |-> "ok",
                 lsn |-> (CHOOSE p \in pending[n] : p.rid = c.rid /\ p.w = w).lsn]
           ELSE reply[w]]
    BY <1>10 DEF ApplyView
  <2>7. CASE c \notin pending[n]
    <3>1. \A w \in Writes : ~\E p \in pending[n] : p.rid = c.rid /\ p.w = w
      BY <2>5, <2>7
    <3>2. reply' = [w \in Writes |-> reply[w]]
      BY <2>6, <3>1
    <3> QED
      BY <1>4, <3>2
  <2>8. CASE c \in pending[n]
    <3>1. \A w \in Writes : (\E p \in pending[n] : p.rid = c.rid /\ p.w = w) <=> w = c.w
      BY <2>5, <2>8
    <3>2. (CHOOSE p \in pending[n] : p.rid = c.rid /\ p.w = c.w) = c
      BY <2>5, <2>8
    <3>3. reply' = [reply EXCEPT ![c.w] = [status |-> "ok", lsn |-> c.lsn]]
      <4>1. \A w \in Writes :
              reply'[w] = IF w = c.w THEN [status |-> "ok", lsn |-> c.lsn] ELSE reply[w]
        BY <2>6, <3>1, <3>2
      <4>2. reply' = [w \in Writes |-> reply'[w]]
        BY <2>6
      <4> QED
        BY <1>4, <4>1, <4>2
    <3>4. c.lsn + 1 \in 1..Len(Logs[c.stream]) /\ Logs[c.stream][c.lsn + 1] = RecordOf(c)
      <4>1. FurthestLeads
        BY <1>1, FurthestAhead
      <4>2. PICK f \in Nodes : f = Furthest
        BY <4>1 DEF FurthestLeads
      <4>3. Prefix(raft[n], raft[f])
        BY <4>1, <4>2 DEF FurthestLeads
      <4>4. i \in Places(raft[n], c.stream)
        BY <2>3 DEF Places
      <4>5. i \in Places(raft[f], c.stream) /\ raft[f].log[i] = raft[n].log[i]
        BY <4>3, <4>4, PlacesGrow
      <4>6. Lined(raft[f], c.stream)
        BY <1>2, <2>4 DEF LinedUp
      <4>7. Logs[c.stream] = CommittedRecords(raft[f], c.stream)
        BY <2>4, <4>2 DEF Logs
      <4>8. /\ raft[f].log[i].cmd.lsn + 1 \in 1..Len(CommittedRecords(raft[f], c.stream))
            /\ CommittedRecords(raft[f], c.stream)[raft[f].log[i].cmd.lsn + 1]
                 = RecordOf(raft[f].log[i].cmd)
        BY <4>5, <4>6 DEF Lined
      <4>9. raft[f].log[i].cmd = c
        BY <2>3, <4>5
      <4> QED
        BY <4>7, <4>8, <4>9
    <3>5. Logs[c.stream][c.lsn + 1].w = c.w
      BY <3>4 DEF RecordOf
    <3>6. reply[c.w].status = "waiting"
      BY <1>5, <2>8
    <3>7. Service!Acknowledge(c.w, c.stream, c.lsn + 1)
      <4>1. PICK k \in 1..Len(Logs[c.stream]) : k = c.lsn + 1
        BY <3>4
      <4>2. c.lsn = k - 1
        BY <2>4, <4>1
      <4>3. Logs[c.stream][k].w = c.w
        BY <3>5, <4>1
      <4>4. reply' = [reply EXCEPT ![c.w] = [status |-> "ok", lsn |-> k - 1]]
        BY <3>3, <4>2
      <4>5. Service!Acknowledge(c.w, c.stream, k)
        BY <2>2, <3>6, <4>1, <4>3, <4>4 DEF Service!Acknowledge, Service!Told
      <4> QED
        BY <4>1, <4>5
    <3> QED
      BY <2>4, <3>4, <3>7 DEF Service!Next
  <2> QED
    BY <2>7, <2>8
<1>11. ReplyMove
  BY <1>1, ReplyMoves
<1> QED
  BY <1>6, <1>7, <1>8, <1>9, <1>10, <1>11 DEF ReplyMove

LEMMA ServiceStart ==
  ASSUME Init, Inv
  PROVE  Service!Init
<1>1. PICK f \in Nodes : f = Furthest
  BY FurthestKnows
<1>2. raft[f].committed = 1 /\ raft[f].log = <<Bootstrap>>
  BY DEF Init, NewRaft
<1>3. \A s \in Streams : Places(raft[f], s) = {}
  BY <1>2 DEF Places, Bootstrap
<1>4. \A s \in Streams : CommittedRecords(raft[f], s) = <<>>
  <2> SUFFICES ASSUME NEW s \in Streams PROVE CommittedRecords(raft[f], s) = <<>>
    OBVIOUS
  <2>1. Cardinality(Places(raft[f], s)) = 0
    BY <1>3, FS_EmptySet
  <2> QED
    BY <2>1 DEF CommittedRecords
<1>5. Logs = [s \in Streams |-> <<>>]
  BY <1>1, <1>4 DEF Logs
<1>6. reply = [w \in Writes |-> [status |-> "unsent", lsn |-> 0]]
  BY DEF Init
<1> QED
  BY <1>5, <1>6 DEF Service!Init, Service!Told

\* ServesStreams, for behaviours in which one term is won: the group is a
\* StreamService.
THEOREM OneLeaderServes == Spec /\ []OneElection => ServesStreams
<1>1. Init /\ Serving => Service!Init
  BY ServiceStart DEF Serving
<1>2. Serving /\ Serving' /\ OneElection /\ OneElection' /\ [Next]_vars
        => [Service!Next]_(Service!vars)
  BY ServiceStep
<1> QED
  BY <1>1, <1>2, ServingHolds, PTL DEF Spec, ServesStreams, Service!Spec

\* LsnUnique, until a second term is won: committed entries of a stream do not
\* share a position.
THEOREM PositionsStayUnique == Spec => [](OneElection => LsnUnique)
<1>1. Serving => (OneElection => LsnUnique)
  <2> SUFFICES ASSUME Serving, OneElection PROVE LsnUnique
    OBVIOUS
  <2>1. OnePlace
    BY OneInOrder DEF Serving
  <2>2. \A n \in Nodes : \A i \in 1..raft[n].committed : i \in 1..Len(raft[n].log)
    BY CoreShapes DEF Serving, Inv, Shapes
  <2> QED
    BY <2>1, <2>2 DEF OnePlace, LsnUnique
<1> QED
  BY <1>1, ServingHolds, PTL

\* an Ok that a client has, or just gets, names a committed position of its write
LEMMA AckedStaysCommitted ==
  ASSUME Serving, Serving', [Next]_vars, OneElection, AckImpliesCommitted
  PROVE  AckImpliesCommitted'
<1>1. /\ Inv /\ Inv' /\ Replicated /\ RequestPart /\ NoticedPart /\ Shapes /\ Shapes'
  BY CoreShapes, PTL DEF Serving, OneInv, Inv
<1>2. Stable
  BY <1>1, NextRep
<1>3. ASSUME NEW m \in Nodes, NEW s, NEW lsn, NEW w, Committed(raft[m], s, lsn, w)
      PROVE  \E i \in 1..raft'[m].committed :
               LET c == raft'[m].log[i].cmd IN c # NoCmd /\ c.w = w /\ c.lsn = lsn
  <2>1. Committed(raft'[m], s, lsn, w)
    BY <1>1, <1>2, <1>3, CommittedStays
  <2> QED
    BY <2>1 DEF Committed
<1>8. ASSUME NEW w \in Writes, NEW m \in Nodes, NEW s, NEW lsn, lsn = reply'[w].lsn,
             Committed(raft[m], s, lsn, w)
      PROVE  \E i \in 1..raft'[m].committed :
               LET c == raft'[m].log[i].cmd IN c # NoCmd /\ c.w = w /\ c.lsn = reply'[w].lsn
  BY <1>3, <1>8
<1> SUFFICES ASSUME NEW w \in Writes, reply'[w].status = "ok"
    PROVE  \E m \in Nodes : \E s, lsn : lsn = reply'[w].lsn /\ Committed(raft[m], s, lsn, w)
  BY <1>8 DEF AckImpliesCommitted
<1>4. AnswerMove(w)
  BY <1>1, AnswerMoves
<1>5. CASE reply'[w] = reply[w]
  <2>1. PICK m \in Nodes : \E i \in 1..raft[m].committed :
          /\ raft[m].log[i].cmd # NoCmd /\ raft[m].log[i].cmd.w = w
          /\ raft[m].log[i].cmd.lsn = reply[w].lsn
    BY <1>5 DEF AckImpliesCommitted
  <2>3. PICK i \in 1..raft[m].committed :
          /\ raft[m].log[i].cmd # NoCmd /\ raft[m].log[i].cmd.w = w
          /\ raft[m].log[i].cmd.lsn = reply[w].lsn
    BY <2>1
  <2>2. Committed(raft[m], raft[m].log[i].cmd.stream, reply[w].lsn, w)
    BY <2>3 DEF Committed
  <2> QED
    BY <1>5, <2>2
<1>6. ASSUME NEW m \in Nodes, NEW i, NEW c, NEW p \in pending[m],
             ApplyView(m, i, c), p.rid = c.rid, p.w = w, reply'[w].lsn = p.lsn
      PROVE  \E n \in Nodes : \E s, lsn : lsn = reply'[w].lsn /\ Committed(raft[n], s, lsn, w)
  <2>1. p = c
    BY <1>1, <1>6, AnswersOwn
  <2>2. Committed(raft[m], c.stream, c.lsn, w)
    BY <1>6, <2>1 DEF ApplyView, Committed
  <2> QED
    BY <1>6, <2>1, <2>2
<1>7. \/ reply'[w] = reply[w]
      \/ \E m \in Nodes : \E i, c : \E p \in pending[m] :
           /\ ApplyView(m, i, c) /\ p.rid = c.rid /\ p.w = w /\ reply'[w].lsn = p.lsn
  BY <1>4, Zenon DEF AnswerMove
<1> QED
  BY <1>5, <1>6, <1>7

\* AckImpliesCommitted, for behaviours in which one term is won: an Ok names a
\* position at which that client's own write is committed.
THEOREM AckedIsCommitted == Spec /\ []OneElection => []AckImpliesCommitted
<1>1. Init => AckImpliesCommitted
  BY DEF Init, AckImpliesCommitted
<1>2. Serving /\ Serving' /\ OneElection /\ AckImpliesCommitted /\ [Next]_vars
        => AckImpliesCommitted'
  BY AckedStaysCommitted
<1> QED
  BY <1>1, <1>2, ServingHolds, PTL DEF Spec

\* With one term to win, as in the run of ServesStreams, one term is won.
THEOREM OneTermOneElection ==
  ASSUME MaxTerm = 2
  PROVE  Spec => []OneElection
<1>1. Serving => OneElection
  <2> SUFFICES ASSUME Serving, NEW t \in Terms, Elected(sent, t) PROVE t = 2
    BY DEF OneElection
  <2>1. t > 1
    BY DEF Serving, Replicated, RepInv, LogInv, TermLogs
  <2> QED
    BY <2>1 DEF Terms
<1> QED
  BY <1>1, ServingHolds, PTL
=============================================================================
