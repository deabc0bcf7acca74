-------------------------- MODULE ShardGroupProofs --------------------------
(***************************************************************************)
(* Theorems about ShardGroup, for every set of nodes and streams and every *)
(* value of the bounds.                                                    *)
(***************************************************************************)
EXTENDS ShardGroup, SequenceTheorems, WellFoundedInduction, TLAPS

(***************************************************************************)
(* Every nonempty set of naturals has a least element: what the CHOOSEs of *)
(* the specification pick.                                                 *)
(***************************************************************************)
LEMMA LeastNat ==
  ASSUME NEW S \in SUBSET Nat, S # {}
  PROVE  \E m \in S : \A k \in S : m <= k
<1> DEFINE R == {e \in Nat \X Nat : e[1] < e[2]}
<1>1. IsWellFoundedOn(R, Nat)
  BY NatLessThanWellFounded DEF OpToRel
<1> HIDE DEF R
<1>2. PICK x \in S : \A y \in S : ~(<<y, x>> \in R)
  BY <1>1, WFMin
<1>3. \A y \in S : ~(y < x)
  BY <1>2 DEF R
<1> QED
  BY <1>2, <1>3

-----------------------------------------------------------------------------
(***************************************************************************)
(* The operations of the stream table keep its type and never let commit   *)
(* pass next.                                                              *)
(***************************************************************************)
SoundStreams == {st \in StreamStates : CommittedIsAllocated(st)}

LEMMA NewStreamSound ==
  NewStream \in SoundStreams
<1>1. <<>> \in {t \in Seq(TailRecords) : Len(t) <= TailCacheEntries}
  BY TailCacheAssumption
<1> QED
  BY <1>1 DEF SoundStreams, StreamStates, NewStream, CommittedIsAllocated

LEMMA AllocateSound ==
  ASSUME NEW st \in SoundStreams, NEW e \in Nat
  PROVE  /\ AllocateAppend(st, e) \in SoundStreams
         /\ AllocateAppend(st, e).next = st.next + 1
  BY DEF SoundStreams, StreamStates, AllocateAppend, CommittedIsAllocated

(***************************************************************************)
(* The CHOOSE of RollbackTarget has a witness (next itself is reclaimable) *)
(* and its choice does not undercut commit.                                *)
(***************************************************************************)
LEMMA RollbackSound ==
  ASSUME NEW st \in SoundStreams, NEW lsns
  PROVE  RollbackUncommittedAppends(st, lsns) \in SoundStreams
<1> DEFINE S == {m \in 0..st.next : Reclaimable(st, lsns, m)}
<1>1. st.next \in Nat /\ st.commit \in Nat /\ st.commit <= st.next
  BY DEF SoundStreams, StreamStates, CommittedIsAllocated
<1>2. S \in SUBSET Nat /\ st.next \in S
  BY <1>1 DEF Reclaimable
<1>3. \E m \in S : \A k \in S : m <= k
  <2> HIDE DEF S
  <2> QED
    BY <1>2, LeastNat
<1>4. /\ RollbackTarget(st, lsns) \in 0..st.next
      /\ Reclaimable(st, lsns, RollbackTarget(st, lsns))
  BY <1>3 DEF RollbackTarget
<1>5. RollbackTarget(st, lsns) \in Nat /\ st.commit <= RollbackTarget(st, lsns)
  BY <1>1, <1>4 DEF Reclaimable
<1> QED
  BY <1>5 DEF RollbackUncommittedAppends, SoundStreams, StreamStates,
              CommittedIsAllocated

Tails == {t \in Seq(TailRecords) : Len(t) <= TailCacheEntries}

LEMMA SuffixType ==
  ASSUME NEW t \in Seq(TailRecords), NEW m \in Nat \ {0},
         Len(t) - m + 1 <= TailCacheEntries
  PROVE  SubSeq(t, m, Len(t)) \in Tails
<1>1. Len(t) \in Nat /\ \A i \in 1..Len(t) : t[i] \in TailRecords
  BY LenProperties, ElementOfSeq
<1>2. \A i \in m..Len(t) : t[i] \in TailRecords
  BY <1>1
<1>3. /\ SubSeq(t, m, Len(t)) \in Seq(TailRecords)
      /\ Len(SubSeq(t, m, Len(t))) = IF m <= Len(t) THEN Len(t) - m + 1 ELSE 0
  BY <1>1, <1>2, SubSeqProperties
<1> QED
  BY <1>1, <1>3, TailCacheAssumption DEF Tails

LEMMA PushTailType ==
  ASSUME NEW r \in TailRecords, NEW tail \in Tails
  PROVE  PushTail(tail, r) \in Tails
<1> DEFINE t == Append(tail, r)
           m == Max2(Len(t) - TailCacheEntries, 0) + 1
<1>1. t \in Seq(TailRecords) /\ Len(t) \in Nat
  BY AppendProperties, LenProperties DEF Tails
<1>2. m \in Nat \ {0} /\ Len(t) - m + 1 <= TailCacheEntries
  BY <1>1, TailCacheAssumption DEF Max2
<1> HIDE DEF t, m
<1>3. SubSeq(t, m, Len(t)) \in Tails
  BY <1>1, <1>2, SuffixType
<1> QED
  BY <1>3 DEF PushTail, t, m

LEMMA DropConsumedType ==
  ASSUME NEW tail \in Tails, NEW c \in Nat
  PROVE  DropConsumed(tail, c) \in Tails
<1> DEFINE live == {i \in 1..Len(tail) : tail[i].lsn >= c}
           first == CHOOSE i \in live : \A j \in live : i <= j
<1>1. tail \in Seq(TailRecords) /\ Len(tail) \in Nat /\ Len(tail) <= TailCacheEntries
  BY LenProperties DEF Tails
<1>2. CASE live = {}
  <2>1. <<>> \in Tails
    BY TailCacheAssumption DEF Tails
  <2> QED
    BY <1>2, <2>1 DEF DropConsumed
<1>3. CASE live # {}
  <2>1. live \in SUBSET Nat
    BY <1>1
  <2>2. first \in live
    <3> HIDE DEF live
    <3>1. \E i \in live : \A j \in live : i <= j
      BY <1>3, <2>1, LeastNat
    <3> QED
      BY <3>1
  <2> HIDE DEF first
  <2>3. first \in Nat \ {0} /\ Len(tail) - first + 1 <= TailCacheEntries
    BY <1>1, <2>2, TailCacheAssumption
  <2>4. SubSeq(tail, first, Len(tail)) \in Tails
    BY <1>1, <2>3, SuffixType
  <2> QED
    BY <1>3, <2>4 DEF DropConsumed, first
<1> QED
  BY <1>2, <1>3

LEMMA ConsumeSound ==
  ASSUME NEW st \in SoundStreams, NEW c \in Nat
  PROVE  /\ AdvanceConsumed(st, c) \in SoundStreams
         /\ AdvanceConsumed(st, c).next = st.next
<1> DEFINE top == Max2(st.consumed, c)
<1>1. top \in Nat /\ st.tail \in Tails
  BY DEF SoundStreams, StreamStates, Max2, Tails
<1>2. DropConsumed(st.tail, top) \in Tails
  BY <1>1, DropConsumedType
<1> QED
  BY <1>1, <1>2 DEF AdvanceConsumed, SoundStreams, StreamStates,
                    CommittedIsAllocated, Tails

(***************************************************************************)
(* apply_append_entry and the replay of a WAL record: both mark a record   *)
(* appended and committed.                                                 *)
(***************************************************************************)
LEMMA MarkSound ==
  ASSUME NEW st \in SoundStreams, NEW e \in Nat, NEW i \in Nat, NEW l \in Nat,
         NEW w \in Writes
  PROVE  /\ MarkCommitted(MarkAppended(st, e, i, l, w), i, l) \in SoundStreams
         /\ MarkCommitted(MarkAppended(st, e, i, l, w), i, l).next >= st.next
<1> DEFINE a == MarkAppended(st, e, i, l, w)
           r == [lsn |-> l, entry_id |-> i, payload |-> w]
<1>1. r \in TailRecords /\ st.tail \in Tails
  BY DEF SoundStreams, StreamStates, TailRecords, Tails
<1>2. PushTail(st.tail, r) \in Tails
  BY <1>1, PushTailType
<1>3. /\ a \in StreamStates /\ a.next >= l + 1 /\ a.next >= st.next
      /\ a.commit = st.commit
  BY <1>2 DEF SoundStreams, StreamStates, MarkAppended, Max2, Tails
<1> HIDE DEF a
<1>4. /\ MarkCommitted(a, i, l) \in SoundStreams
      /\ MarkCommitted(a, i, l).next >= st.next
  BY <1>3 DEF MarkCommitted, Max2, SoundStreams, StreamStates, CommittedIsAllocated
<1> QED
  BY <1>4 DEF a

LEMMA SnapshotSound ==
  ASSUME NEW st \in SoundStreams
  PROVE  SnapshotOf(st) \in SoundStreams
<1>1. <<>> \in Tails
  BY TailCacheAssumption DEF Tails
<1> QED
  BY <1>1 DEF SnapshotOf, SoundStreams, StreamStates, CommittedIsAllocated, Tails

-----------------------------------------------------------------------------
(***************************************************************************)
(* The inductive invariant.  CoreInv is about the consensus state of each  *)
(* node and what leaders dispatched: its types, the order of the log       *)
(* positions, the agreement of memory and file, and the soundness of the   *)
(* tables inside snapshots.  TableInv is about the stream tables,          *)
(* ClientInv about the writes clients wait for.                            *)
(***************************************************************************)
GoodRaft(r) ==
  /\ r \in RaftStates
  /\ r.applied <= r.since
  /\ r.since <= r.committed
  /\ r.committed <= Len(r.log)
  /\ r.persisted <= Len(r.log)

GoodSnap(snap, limit) ==
  /\ snap \in [index : Nat, data : [Streams -> SoundStreams]]
  /\ snap.index <= limit

GoodDisk(d, r) ==
  /\ d \in DiskStates
  /\ d.term = r.term /\ d.log = r.log /\ d.commit = r.committed
  /\ GoodSnap(d.snap, d.commit)

Dispatches == [log : Seq(Entries), commit : Nat, snap : Snapshots]

GoodDispatch(d) ==
  /\ d \in Dispatches
  /\ d.commit <= Len(d.log)
  /\ GoodSnap(d.snap, Len(d.log))

CoreInv ==
  /\ raft \in [Nodes -> RaftStates]
  /\ disk \in [Nodes -> DiskStates]
  /\ sent \in [Terms -> Dispatches]
  /\ acked \in [Terms -> [Nodes -> Nat]]
  /\ pc \in [Nodes -> {"select", "apply", "open"}]
  /\ cursor \in [Nodes -> Nat \ {0}]
  /\ \A n \in Nodes : GoodRaft(raft[n]) /\ GoodDisk(disk[n], raft[n])
  /\ \A t \in Terms : GoodDispatch(sent[t])

TableInv ==
  /\ wal \in [Nodes -> Seq(WalRecords)]
  /\ streams \in [Nodes -> [Streams -> SoundStreams]]

\* a pending write's client waits, and its position and id were handed out
PendingInv ==
  \A n \in Nodes : \A p \in pending[n] :
    /\ p.lsn < streams[n][p.stream].next
    /\ p.rid <= requestSeq[n]
    /\ reply[p.w].status = "waiting"

\* no two pending writes share an id, a position or a client
PendingUnique ==
  \A n, m \in Nodes : \A p \in pending[n], q \in pending[m] :
    /\ p.w = q.w => n = m /\ p = q
    /\ n = m /\ p # q => p.rid # q.rid /\ (p.stream # q.stream \/ p.lsn # q.lsn)

WaitersPending ==
  \A w \in Writes : reply[w].status = "waiting" =>
    \E n \in Nodes : \E p \in pending[n] : p.w = w

\* only a leader, or a node that still takes itself for one, has pending writes
RoleInv ==
  \A n \in Nodes :
    /\ pc[n] = "select" => observed[n] = raft[n].role
    /\ pc[n] = "open" => observed[n] = "follower" /\ raft[n].role = "follower"
    /\ pending[n] # {} =>
         observed[n] = "leader" /\ (raft[n].role = "leader" \/ pc[n] = "apply")

ClientInv ==
  /\ pending \in [Nodes -> SUBSET Commands]
  /\ requestSeq \in [Nodes -> Nat]
  /\ observed \in [Nodes -> Roles]
  /\ reply \in [Writes -> [status : Statuses, lsn : Nat]]
  /\ restarts \in 0..MaxRestarts
  /\ PendingInv /\ PendingUnique /\ WaitersPending /\ RoleInv

Inv == CoreInv /\ TableInv /\ ClientInv

-----------------------------------------------------------------------------
(***************************************************************************)
(* What the functions on a raft node's state preserve.                     *)
(***************************************************************************)
SameTurn(r, q) ==
  q.role = r.role /\ q.term = r.term /\ q.log = r.log /\ q.committed = r.committed

LEMMA FollowGood ==
  ASSUME NEW r, GoodRaft(r), NEW t \in Terms
  PROVE  GoodRaft(Follow(r, t))
  BY DEF GoodRaft, RaftStates, Follow, Roles

LEMMA AppendEntry ==
  ASSUME NEW l \in Seq(Entries), NEW e \in Entries
  PROVE  Append(l, e) \in Seq(Entries) /\ Len(Append(l, e)) = Len(l) + 1
  BY AppendProperties

LEMMA LogPrefix ==
  ASSUME NEW l \in Seq(Entries), NEW k \in 0..Len(l)
  PROVE  SubSeq(l, 1, k) \in Seq(Entries) /\ Len(SubSeq(l, 1, k)) = k
<1>1. Len(l) \in Nat /\ \A i \in 1..k : l[i] \in Entries
  BY LenProperties, ElementOfSeq
<1> QED
  BY <1>1, SubSeqProperties

LEMMA LeadGood ==
  ASSUME NEW r, GoodRaft(r), NEW t \in Terms
  PROVE  /\ GoodRaft(Lead(r, t))
         /\ Len(Lead(r, t).log) = Len(r.log) + 1
<1> DEFINE e == [term |-> t, cmd |-> NoCmd]
<1>1. e \in Entries
  BY DEF Entries
<1>2. r.log \in Seq(Entries) /\ Len(r.log) \in Nat
  BY LenProperties DEF GoodRaft, RaftStates
<1> HIDE DEF e
<1>3. Append(r.log, e) \in Seq(Entries) /\ Len(Append(r.log, e)) = Len(r.log) + 1
  BY <1>1, <1>2, AppendEntry
<1> QED
  BY <1>2, <1>3 DEF GoodRaft, RaftStates, Lead, Roles, e

LEMMA TakenGood ==
  ASSUME NEW r, GoodRaft(r)
  PROVE  GoodRaft(Taken(r)) /\ SameTurn(r, Taken(r))
<1>1. Max2(r.since, Deliverable(r)) \in Nat
  BY DEF GoodRaft, RaftStates, Max2, Min2, Deliverable
<1>2. r.since <= Max2(r.since, Deliverable(r)) /\ Max2(r.since, Deliverable(r)) <= r.committed
  BY DEF GoodRaft, RaftStates, Max2, Min2, Deliverable
<1>3. r.applied <= Max2(r.since, Deliverable(r))
  BY <1>1, <1>2 DEF GoodRaft, RaftStates
<1> QED
  BY <1>1, <1>2, <1>3 DEF GoodRaft, RaftStates, Taken, SameTurn

LEMMA EndedGood ==
  ASSUME NEW r, GoodRaft(r)
  PROVE  GoodRaft(Ended(r)) /\ SameTurn(r, Ended(r))
<1>1. Len(r.log) \in Nat
  BY LenProperties DEF GoodRaft, RaftStates
<1> DEFINE x == Max2(r.since, Min2(r.committed, Len(r.log)))
<1>2. x \in Nat /\ r.since <= x /\ x <= r.committed
  BY <1>1 DEF GoodRaft, RaftStates, Max2, Min2
<1> HIDE DEF x
<1>3. Ended(r) = [role |-> r.role, term |-> r.term, log |-> r.log,
                  persisted |-> Len(r.log), committed |-> r.committed,
                  since |-> x, applied |-> r.since]
  BY DEF Ended, x
<1> QED
  BY <1>1, <1>2, <1>3 DEF GoodRaft, RaftStates, SameTurn

\* propose: the log grows by one entry
LEMMA ProposedGood ==
  ASSUME NEW r, GoodRaft(r), NEW e \in Entries
  PROVE  LET q == [r EXCEPT !.log = Append(@, e)] IN
         GoodRaft(q) /\ q.committed = r.committed /\ q.role = r.role /\ q.term = r.term
<1>1. r.log \in Seq(Entries) /\ Len(r.log) \in Nat
  BY LenProperties DEF GoodRaft, RaftStates
<1>2. Append(r.log, e) \in Seq(Entries) /\ Len(Append(r.log, e)) = Len(r.log) + 1
  BY <1>1, AppendEntry
<1> QED
  BY <1>1, <1>2 DEF GoodRaft, RaftStates

LEMMA CommittedGood ==
  ASSUME NEW r, GoodRaft(r), NEW c \in Nat, r.committed <= c, c <= Len(r.log)
  PROVE  LET q == [r EXCEPT !.committed = c] IN
         /\ GoodRaft(q) /\ q.committed = c /\ q.log = r.log
         /\ q.role = r.role /\ q.term = r.term
<1>1. r.since <= c
  BY DEF GoodRaft, RaftStates
<1> QED
  BY <1>1 DEF GoodRaft, RaftStates

(***************************************************************************)
(* A log that does not agree with l at k has a first conflict, at most k.  *)
(***************************************************************************)
LEMMA ConflictRange ==
  ASSUME NEW log \in Seq(Entries), NEW l \in Seq(Entries), NEW k \in 1..Len(l),
         ~Agrees(log, l, k)
  PROVE  Conflict(log, l, k) \in 1..k
<1> DEFINE S == {i \in 1..k : i > Len(log) \/ log[i].term # l[i].term}
<1>1. Len(log) \in Nat /\ Len(l) \in Nat
  BY LenProperties
<1>2. S \in SUBSET Nat /\ k \in S
  BY <1>1 DEF Agrees
<1>3. PICK i \in S : \A j \in S : i <= j
  <2> HIDE DEF S
  <2> QED
    BY <1>2, LeastNat
<1>4. /\ i \in 1..k
      /\ i > Len(log) \/ log[i].term # l[i].term
      /\ \A j \in 1..(i - 1) : j <= Len(log) /\ log[j].term = l[j].term
  BY <1>1, <1>3
<1> QED
  BY <1>4 DEF Conflict

LEMMA AppendedGood ==
  ASSUME NEW r, GoodRaft(r), NEW l \in Seq(Entries), NEW k \in 1..Len(l),
         r.committed <= k
  PROVE  LET q == Appended(r, l, k) IN
         /\ GoodRaft(q) /\ q.committed = r.committed /\ k <= Len(q.log)
         /\ q.role = r.role /\ q.term = r.term
<1>1. Len(r.log) \in Nat /\ Len(l) \in Nat
  BY LenProperties DEF GoodRaft, RaftStates
<1>2. CASE Agrees(r.log, l, k)
  BY <1>1, <1>2 DEF Appended, Agrees
<1>3. CASE ~Agrees(r.log, l, k)
  <2> DEFINE p == Min2(r.persisted, Conflict(r.log, l, k) - 1)
             s == SubSeq(l, 1, k)
  <2>1. Conflict(r.log, l, k) \in 1..k
    BY <1>3, ConflictRange DEF GoodRaft, RaftStates
  <2>2. p \in Nat /\ p <= k
    BY <1>1, <2>1 DEF Min2, GoodRaft, RaftStates
  <2>3. s \in Seq(Entries) /\ Len(s) = k
    BY <1>1, LogPrefix
  <2> HIDE DEF p, s
  <2>4. Appended(r, l, k) =
          [role |-> r.role, term |-> r.term, log |-> s, persisted |-> p,
           committed |-> r.committed, since |-> r.since, applied |-> r.applied]
    BY <1>3 DEF Appended, p, s
  <2> QED
    BY <1>1, <2>2, <2>3, <2>4 DEF GoodRaft, RaftStates
<1> QED
  BY <1>2, <1>3

LEMMA RestoredGood ==
  ASSUME NEW r, GoodRaft(r), NEW l \in Seq(Entries), NEW i \in 0..Len(l),
         r.committed <= i
  PROVE  LET q == Restored(r, l, i) IN
         /\ GoodRaft(q) /\ q.committed = i /\ q.role = r.role /\ q.term = r.term
<1> DEFINE s == SubSeq(l, 1, i)
           p == Min2(r.persisted, i)
<1>1. s \in Seq(Entries) /\ Len(s) = i /\ i \in Nat
  BY LogPrefix, LenProperties
<1>2. p \in Nat /\ p <= i /\ r.applied <= i
  BY <1>1 DEF Min2, GoodRaft, RaftStates
<1> HIDE DEF s, p
<1>3. Restored(r, l, i) =
        [role |-> r.role, term |-> r.term, log |-> s, persisted |-> p,
         committed |-> i, since |-> i, applied |-> r.applied]
  BY DEF Restored, s, p
<1> QED
  BY <1>1, <1>2, <1>3 DEF GoodRaft, RaftStates

LEMMA SnapType ==
  ASSUME NEW snap, NEW limit, GoodSnap(snap, limit)
  PROVE  snap \in Snapshots
  BY DEF GoodSnap, Snapshots, SoundStreams

LEMMA StoredGood ==
  ASSUME NEW r, GoodRaft(r), NEW snap, GoodSnap(snap, r.committed),
         NEW own \in BOOLEAN
  PROVE  GoodDisk(Stored(r, snap, own), r)
<1>1. snap \in Snapshots
  BY SnapType
<1> QED
  BY <1>1 DEF GoodDisk, DiskStates, GoodRaft, RaftStates, Stored

LEMMA DispatchedGood ==
  ASSUME NEW r, GoodRaft(r), NEW snap, GoodSnap(snap, r.committed)
  PROVE  GoodDispatch(Dispatched(r, snap))
<1>1. snap \in Snapshots
  BY SnapType
<1>2. r.log \in Seq(Entries) /\ Len(r.log) \in Nat /\ r.committed \in Nat
      /\ r.committed <= Len(r.log)
  BY LenProperties DEF GoodRaft, RaftStates
<1>3. GoodSnap(snap, Len(r.log))
  BY <1>2 DEF GoodSnap
<1> QED
  BY <1>1, <1>2, <1>3 DEF GoodDispatch, Dispatches, Dispatched

LEMMA ReopenedGood ==
  ASSUME NEW d, NEW r, GoodRaft(r), GoodDisk(d, r)
  PROVE  GoodRaft(Reopened(d)) /\ GoodDisk(d, Reopened(d))
<1>1. Len(d.log) \in Nat /\ d.log \in Seq(Entries)
  BY LenProperties DEF GoodDisk, DiskStates
<1>2. d.snap.index \in Nat /\ d.snap.index <= d.commit /\ d.commit <= Len(d.log)
  BY DEF GoodDisk, GoodSnap, GoodRaft
<1> QED
  BY <1>1, <1>2 DEF GoodRaft, RaftStates, Reopened, GoodDisk, DiskStates, Roles

\* GoodDisk looks only at what the rest of a turn leaves alone
LEMMA SameTurnDisk ==
  ASSUME NEW d, NEW r, NEW q, GoodDisk(d, r), SameTurn(r, q)
  PROVE  GoodDisk(d, q)
  BY DEF GoodDisk, SameTurn

-----------------------------------------------------------------------------
(***************************************************************************)
(* A turn of node n: the state r its handler left goes through the first   *)
(* half of drive_ready.                                                    *)
(***************************************************************************)
TurnStep(n, r) ==
  /\ raft'[n].role = r.role
  /\ \A m \in Nodes \ {n} : raft'[m] = raft[m] /\ pc'[m] = pc[m]
  /\ \/ pc'[n] = "apply"
     \/ pc'[n] = "select" /\ observed[n] = r.role

LEMMA ProceedGood ==
  ASSUME CoreInv, NEW n \in Nodes, NEW r, GoodRaft(r), NEW from \in Nat \ {0},
         Proceed(n, r, from)
  PROVE  /\ raft' \in [Nodes -> RaftStates]
         /\ pc' \in [Nodes -> {"select", "apply", "open"}]
         /\ cursor' \in [Nodes -> Nat \ {0}]
         /\ GoodRaft(raft'[n]) /\ SameTurn(r, raft'[n])
         /\ TurnStep(n, r)
<1> DEFINE more == ToApply(r, from) # {} \/ observed[n] # r.role
           q == IF more THEN r ELSE Ended(r)
           c == IF more THEN from ELSE Ended(r).since + 1
           p == IF more THEN "apply" ELSE "select"
<1>1. GoodRaft(q) /\ SameTurn(r, q)
  BY EndedGood DEF SameTurn
<1>2. c \in Nat \ {0}
  BY EndedGood DEF GoodRaft, RaftStates
<1>3. p = "apply" \/ (p = "select" /\ observed[n] = r.role)
  OBVIOUS
<1>4. /\ raft' = [raft EXCEPT ![n] = q]
      /\ cursor' = [cursor EXCEPT ![n] = c]
      /\ pc' = [pc EXCEPT ![n] = p]
  BY DEF Proceed
<1> HIDE DEF more, q, c, p
<1>5. q \in RaftStates /\ p \in {"select", "apply", "open"}
  BY <1>1, <1>3 DEF GoodRaft
<1>6. /\ raft' \in [Nodes -> RaftStates]
      /\ pc' \in [Nodes -> {"select", "apply", "open"}]
      /\ cursor' \in [Nodes -> Nat \ {0}]
  BY <1>2, <1>4, <1>5 DEF CoreInv
<1>7. /\ raft'[n] = q /\ pc'[n] = p
      /\ \A m \in Nodes \ {n} : raft'[m] = raft[m] /\ pc'[m] = pc[m]
  BY <1>4 DEF CoreInv
<1> QED
  BY <1>1, <1>3, <1>6, <1>7 DEF TurnStep, SameTurn

LEMMA AckedType ==
  ASSUME acked \in [Terms -> [Nodes -> Nat]], NEW t \in Terms, NEW n \in Nodes,
         NEW k \in Nat
  PROVE  [acked EXCEPT ![t][n] = Max2(@, k)] \in [Terms -> [Nodes -> Nat]]
<1>1. Max2(acked[t][n], k) \in Nat
  BY DEF Max2
<1> QED
  BY <1>1

(***************************************************************************)
(* CoreInv after a step of node n that replaces its raft state and file,   *)
(* and perhaps what the leader of one term dispatched.                     *)
(***************************************************************************)
LEMMA NodeStepCore ==
  ASSUME CoreInv, NEW n \in Nodes, NEW r, GoodRaft(r), NEW d, GoodDisk(d, r),
         raft' \in [Nodes -> RaftStates], GoodRaft(raft'[n]), SameTurn(r, raft'[n]),
         \A m \in Nodes \ {n} : raft'[m] = raft[m],
         pc' \in [Nodes -> {"select", "apply", "open"}],
         cursor' \in [Nodes -> Nat \ {0}],
         disk' = [disk EXCEPT ![n] = d],
         acked' \in [Terms -> [Nodes -> Nat]],
         \/ sent' = sent
         \/ \E t \in Terms, x \in Dispatches : GoodDispatch(x) /\ sent' = [sent EXCEPT ![t] = x]
  PROVE  CoreInv'
<1>1. disk' \in [Nodes -> DiskStates]
  BY DEF CoreInv, GoodDisk
<1>2. \A m \in Nodes : GoodRaft(raft'[m]) /\ GoodDisk(disk'[m], raft'[m])
  <2> TAKE m \in Nodes
  <2>1. CASE m = n
    <3>1. disk'[m] = d
      BY <2>1 DEF CoreInv
    <3> QED
      BY <2>1, <3>1, SameTurnDisk
  <2>2. CASE m # n
    <3>1. disk'[m] = disk[m] /\ raft'[m] = raft[m]
      BY <2>2 DEF CoreInv
    <3> QED
      BY <3>1 DEF CoreInv
  <2> QED
    BY <2>1, <2>2
<1>3. sent' \in [Terms -> Dispatches] /\ \A t \in Terms : GoodDispatch(sent'[t])
  <2>1. CASE sent' = sent
    BY <2>1 DEF CoreInv
  <2>2. ASSUME NEW t \in Terms, NEW x, GoodDispatch(x), sent' = [sent EXCEPT ![t] = x]
        PROVE  sent' \in [Terms -> Dispatches] /\ \A u \in Terms : GoodDispatch(sent'[u])
    <3>1. x \in Dispatches
      BY <2>2 DEF GoodDispatch
    <3>2. sent' \in [Terms -> Dispatches]
      BY <2>2, <3>1 DEF CoreInv
    <3>3. \A u \in Terms : sent'[u] = IF u = t THEN x ELSE sent[u]
      BY <2>2 DEF CoreInv
    <3> QED
      BY <2>2, <3>2, <3>3 DEF CoreInv
  <2> QED
    BY <2>1, <2>2
<1> QED
  BY <1>1, <1>2, <1>3 DEF CoreInv

LEMMA DriveReadyCore ==
  ASSUME CoreInv, NEW n \in Nodes, NEW r, GoodRaft(r), raft[n].committed <= r.committed,
         NEW ack \in Nat, DriveReady(n, r, ack)
  PROVE  CoreInv' /\ TurnStep(n, r)
<1> DEFINE d == Stored(r, disk[n].snap, disk[n].own)
<1>1. r.term \in Terms /\ r.committed \in Nat /\ raft[n].committed \in Nat
  BY DEF GoodRaft, RaftStates, CoreInv
<1>2. GoodSnap(disk[n].snap, r.committed) /\ disk[n].own \in BOOLEAN
  BY <1>1 DEF CoreInv, GoodDisk, GoodSnap, DiskStates
<1>3. GoodDisk(d, r) /\ disk' = [disk EXCEPT ![n] = d]
  BY <1>2, StoredGood DEF DriveReady
<1>4. GoodRaft(Taken(r)) /\ SameTurn(r, Taken(r))
  BY TakenGood
<1>5. cursor[n] \in Nat \ {0} /\ Proceed(n, Taken(r), cursor[n])
  BY DEF CoreInv, DriveReady
<1>6. /\ raft' \in [Nodes -> RaftStates]
      /\ pc' \in [Nodes -> {"select", "apply", "open"}]
      /\ cursor' \in [Nodes -> Nat \ {0}]
      /\ GoodRaft(raft'[n]) /\ SameTurn(Taken(r), raft'[n])
      /\ TurnStep(n, Taken(r))
  <2> HIDE DEF d
  <2> QED
    BY <1>4, <1>5, ProceedGood
<1>7. SameTurn(r, raft'[n]) /\ TurnStep(n, r)
  BY <1>4, <1>6 DEF SameTurn, TurnStep
<1>8. acked' \in [Terms -> [Nodes -> Nat]]
  BY <1>1, AckedType DEF DriveReady, CoreInv
<1>9. \/ sent' = sent
      \/ \E t \in Terms, x \in Dispatches : GoodDispatch(x) /\ sent' = [sent EXCEPT ![t] = x]
  <2>1. GoodDispatch(Dispatched(r, disk[n].snap)) /\ Dispatched(r, disk[n].snap) \in Dispatches
    BY <1>2, DispatchedGood DEF GoodDispatch
  <2> QED
    BY <1>1, <2>1 DEF DriveReady
<1>10. \A m \in Nodes \ {n} : raft'[m] = raft[m]
  BY <1>6 DEF TurnStep
<1> HIDE DEF d
<1>11. CoreInv'
  BY <1>3, <1>6, <1>7, <1>8, <1>9, <1>10, NodeStepCore
<1> QED
  BY <1>7, <1>11

(***************************************************************************)
(* A turn that leaves the tables and the clients alone: a node that is no  *)
(* longer the leader keeps its pending writes only until the turn ends.    *)
(***************************************************************************)
LEMMA QuietTurn ==
  ASSUME Inv, NEW n \in Nodes, NEW r, pc[n] = "select", TurnStep(n, r),
         UNCHANGED <<engineVars, reply, restarts>>
  PROVE  TableInv' /\ ClientInv'
<1>1. TableInv'
  BY DEF Inv, TableInv, engineVars, walVars
<1>2. PendingInv' /\ PendingUnique' /\ WaitersPending'
  BY DEF Inv, ClientInv, PendingInv, PendingUnique, WaitersPending, engineVars, walVars
<1>3. RoleInv'
  <2> SUFFICES ASSUME NEW m \in Nodes
      PROVE  /\ pc'[m] = "select" => observed[m] = raft'[m].role
             /\ pc'[m] = "open" => observed[m] = "follower" /\ raft'[m].role = "follower"
             /\ pending[m] # {} =>
                  observed[m] = "leader" /\ (raft'[m].role = "leader" \/ pc'[m] = "apply")
    BY DEF RoleInv, engineVars, walVars
  <2>1. CASE m = n
    BY <2>1 DEF TurnStep, Inv, ClientInv, RoleInv
  <2>2. CASE m # n
    BY <2>2 DEF TurnStep, Inv, ClientInv, RoleInv
  <2> QED
    BY <2>1, <2>2
<1> QED
  BY <1>1, <1>2, <1>3 DEF Inv, ClientInv, engineVars, walVars

LEMMA QuietDrive ==
  ASSUME Inv, NEW n \in Nodes, NEW r, GoodRaft(r), raft[n].committed <= r.committed,
         pc[n] = "select", NEW ack \in Nat, DriveReady(n, r, ack),
         UNCHANGED <<engineVars, reply, restarts>>
  PROVE  Inv'
<1>1. CoreInv' /\ TurnStep(n, r)
  BY DriveReadyCore DEF Inv
<1> QED
  BY <1>1, QuietTurn DEF Inv

-----------------------------------------------------------------------------
(***************************************************************************)
(* Inv holds initially and every action preserves it.                      *)
(***************************************************************************)
LEMMA InitInv == Init => Inv
<1> SUFFICES ASSUME Init PROVE Inv
  OBVIOUS
<1>1. 1 \in Terms /\ MaxRestarts \in Nat
  BY GroupAssumption DEF Terms
<1>2. EmptyTable \in [Streams -> SoundStreams]
  BY NewStreamSound DEF EmptyTable
<1>3. \A k \in Nat : GoodSnap(NoSnapshot, k)
  BY <1>2 DEF GoodSnap, NoSnapshot
<1>4. NoSnapshot \in Snapshots
  BY <1>3, SnapType
<1>5. <<Bootstrap>> \in Seq(Entries) /\ Len(<<Bootstrap>>) = 1
  BY <1>1 DEF Bootstrap, Entries
<1>6. GoodRaft(NewRaft)
  <2> DEFINE l == <<Bootstrap>>
  <2>1. l \in Seq(Entries) /\ Len(l) = 1
    BY <1>5
  <2> HIDE DEF l
  <2>2. NewRaft = [role |-> "follower", term |-> 1, log |-> l, persisted |-> 1,
                   committed |-> 1, since |-> 1, applied |-> 1]
    BY DEF NewRaft, l
  <2>3. NewRaft \in RaftStates
    BY <1>1, <2>1, <2>2 DEF RaftStates, Roles
  <2>4. /\ NewRaft.applied = 1 /\ NewRaft.since = 1 /\ NewRaft.committed = 1
        /\ NewRaft.persisted = 1 /\ Len(NewRaft.log) = 1
    BY <2>1, <2>2
  <2> QED
    BY <2>3, <2>4 DEF GoodRaft
<1>7. GoodDisk(NewDisk, NewRaft)
  <2>1. NewDisk = Stored(NewRaft, NoSnapshot, TRUE)
    BY DEF NewDisk, NewRaft, Stored
  <2>2. GoodSnap(NoSnapshot, NewRaft.committed)
    BY <1>3, <1>6 DEF GoodRaft, RaftStates
  <2> QED
    BY <1>6, <2>1, <2>2, StoredGood
<1> DEFINE none == [log |-> <<>>, commit |-> 0, snap |-> NoSnapshot]
<1>8. GoodDispatch(none)
  BY <1>3, <1>4 DEF GoodDispatch, Dispatches
<1> HIDE DEF none
<1>9. CoreInv
  <2>1. \A n \in Nodes : raft[n] = NewRaft /\ disk[n] = NewDisk
    BY DEF Init
  <2>2. sent = [t \in Terms |-> none]
    BY DEF Init, none
  <2>3. /\ raft \in [Nodes -> RaftStates] /\ disk \in [Nodes -> DiskStates]
        /\ sent \in [Terms -> Dispatches]
    BY <1>6, <1>7, <1>8, <2>2 DEF Init, GoodRaft, GoodDisk, GoodDispatch
  <2>4. /\ acked \in [Terms -> [Nodes -> Nat]]
        /\ pc \in [Nodes -> {"select", "apply", "open"}]
        /\ cursor \in [Nodes -> Nat \ {0}]
    BY DEF Init
  <2> QED
    BY <1>6, <1>7, <1>8, <2>1, <2>2, <2>3, <2>4 DEF CoreInv
<1>10. TableInv
  BY <1>2 DEF TableInv, Init
<1>11. ClientInv
  <2>1. /\ pending \in [Nodes -> SUBSET Commands] /\ requestSeq \in [Nodes -> Nat]
        /\ observed \in [Nodes -> Roles]
        /\ reply \in [Writes -> [status : Statuses, lsn : Nat]]
        /\ restarts \in 0..MaxRestarts
    BY <1>1 DEF Init, Roles, Statuses
  <2>2. PendingInv /\ PendingUnique
    BY DEF Init, PendingInv, PendingUnique
  <2>3. WaitersPending
    BY DEF Init, WaitersPending
  <2>4. RoleInv
    BY DEF Init, RoleInv, NewRaft
  <2> QED
    BY <2>1, <2>2, <2>3, <2>4 DEF ClientInv
<1> QED
  BY <1>9, <1>10, <1>11 DEF Inv

LEMMA TickInv ==
  ASSUME Inv, NEW n \in Nodes, Tick(n)
  PROVE  Inv'
<1>1. GoodRaft(raft[n]) /\ raft[n].committed <= raft[n].committed
  BY DEF Inv, CoreInv, GoodRaft, RaftStates
<1> QED
  BY <1>1, QuietDrive DEF Tick

LEMMA StepHigherTermInv ==
  ASSUME Inv, NEW n \in Nodes, NEW m \in Nodes, StepHigherTerm(n, m)
  PROVE  Inv'
<1> DEFINE r == Follow(raft[n], disk[m].term)
<1>1. GoodRaft(raft[n]) /\ disk[m].term \in Terms
  BY DEF Inv, CoreInv, DiskStates
<1>2. GoodRaft(r) /\ raft[n].committed <= r.committed
  BY <1>1, FollowGood DEF Follow, GoodRaft, RaftStates
<1> HIDE DEF r
<1>3. DriveReady(n, r, 0) /\ pc[n] = "select" /\ UNCHANGED <<engineVars, reply, restarts>>
  BY DEF StepHigherTerm, r
<1> QED
  BY <1>2, <1>3, QuietDrive

LEMMA StepAppendInv ==
  ASSUME Inv, NEW n \in Nodes, NEW t \in Terms, NEW k \in 1..Len(sent[t].log),
         NEW c \in 1..sent[t].commit, StepAppend(n, t, k, c)
  PROVE  Inv'
<1> DEFINE r == Follow(raft[n], t)
           l == sent[t].log
           a == Appended(r, l, k)
           top == Max2(a.committed, c)
           q == [a EXCEPT !.committed = top]
<1>1. GoodRaft(r) /\ r.committed = raft[n].committed
  BY FollowGood DEF Follow, Inv, CoreInv
<1>2. /\ l \in Seq(Entries) /\ Len(l) \in Nat /\ k \in 1..Len(l) /\ c \in Nat
      /\ sent[t].commit \in Nat
  BY LenProperties DEF Inv, CoreInv, Dispatches
<1>3. r.committed <= k /\ c <= k
  BY <1>1, <1>2 DEF StepAppend, Min2, GoodRaft, RaftStates
<1> HIDE DEF r, l
<1>4. GoodRaft(a) /\ a.committed = r.committed /\ k <= Len(a.log)
  BY <1>1, <1>2, <1>3, AppendedGood
<1> HIDE DEF a
<1>5. a.committed \in Nat /\ Len(a.log) \in Nat
  BY <1>4, LenProperties DEF GoodRaft, RaftStates
<1>6. top \in Nat /\ a.committed <= top /\ top <= Len(a.log)
  BY <1>2, <1>3, <1>4, <1>5 DEF Max2
<1>7. DriveReady(n, q, k) /\ pc[n] = "select" /\ UNCHANGED <<engineVars, reply, restarts>>
  BY DEF StepAppend, Hears, q, a, r, l
<1> HIDE DEF top
<1>8. GoodRaft(q) /\ q.committed = top
  BY <1>4, <1>6, CommittedGood
<1> HIDE DEF q
<1>9. raft[n].committed <= q.committed /\ k \in Nat
  BY <1>1, <1>2, <1>4, <1>6, <1>8
<1> QED
  BY <1>7, <1>8, <1>9, QuietDrive

LEMMA StepSnapshotKnownInv ==
  ASSUME Inv, NEW n \in Nodes, NEW t \in Terms, StepSnapshotKnown(n, t)
  PROVE  Inv'
<1> DEFINE r == Follow(raft[n], t)
           i == sent[t].snap.index
           q == [r EXCEPT !.committed = i]
<1>1. GoodRaft(r) /\ r.committed = raft[n].committed
  BY FollowGood DEF Follow, Inv, CoreInv
<1>2. i \in Nat
  BY DEF Inv, CoreInv, Dispatches, Snapshots
<1>3. r.committed <= i /\ i <= Len(r.log)
  BY <1>1, <1>2 DEF StepSnapshotKnown, Agrees, GoodRaft, RaftStates
<1>4. DriveReady(n, q, i) /\ pc[n] = "select" /\ UNCHANGED <<engineVars, reply, restarts>>
  BY DEF StepSnapshotKnown, Hears
<1> HIDE DEF r, i
<1>5. GoodRaft(q) /\ q.committed = i
  BY <1>1, <1>2, <1>3, CommittedGood
<1> HIDE DEF q
<1> QED
  BY <1>1, <1>2, <1>3, <1>4, <1>5, QuietDrive

LEMMA StepSnapshotInstallInv ==
  ASSUME Inv, NEW n \in Nodes, NEW t \in Terms, StepSnapshotInstall(n, t)
  PROVE  Inv'
<1> DEFINE r == Follow(raft[n], t)
           i == sent[t].snap.index
           l == sent[t].log
           q == Restored(r, l, i)
           d == Stored(q, sent[t].snap, FALSE)
<1>1. GoodRaft(r) /\ r.committed = raft[n].committed /\ r.role = "follower"
  BY FollowGood DEF Follow, Inv, CoreInv
<1>2. /\ l \in Seq(Entries) /\ Len(l) \in Nat /\ i \in 0..Len(l)
      /\ GoodSnap(sent[t].snap, i)
  BY LenProperties DEF Inv, CoreInv, Dispatches, GoodDispatch, GoodSnap
<1>3. r.committed <= i
  BY <1>1, <1>2 DEF StepSnapshotInstall, GoodRaft, RaftStates
<1>4. /\ pc[n] = "select" /\ UNCHANGED <<engineVars, reply, restarts>>
      /\ Proceed(n, q, i + 1) /\ disk' = [disk EXCEPT ![n] = d]
      /\ acked' = [acked EXCEPT ![t][n] = Max2(@, i)] /\ sent' = sent
  BY DEF StepSnapshotInstall, Hears
<1> HIDE DEF r, l
<1>5. GoodRaft(q) /\ q.committed = i /\ q.role = "follower"
  BY <1>1, <1>2, <1>3, RestoredGood
<1>6. GoodDisk(d, q)
  BY <1>2, <1>5, StoredGood
<1>7. /\ CoreInv /\ i \in Nat /\ i + 1 \in Nat \ {0}
      /\ acked \in [Terms -> [Nodes -> Nat]]
  BY <1>2 DEF Inv, CoreInv
<1> HIDE DEF q, d, i
<1>8. acked' \in [Terms -> [Nodes -> Nat]]
  BY <1>4, <1>7, AckedType
<1>9. /\ raft' \in [Nodes -> RaftStates]
      /\ pc' \in [Nodes -> {"select", "apply", "open"}]
      /\ cursor' \in [Nodes -> Nat \ {0}]
      /\ GoodRaft(raft'[n]) /\ SameTurn(q, raft'[n])
      /\ TurnStep(n, q)
  BY <1>4, <1>5, <1>7, ProceedGood
<1>10. \A m \in Nodes \ {n} : raft'[m] = raft[m]
  BY <1>9 DEF TurnStep
<1>11. CoreInv'
  BY <1>4, <1>5, <1>6, <1>7, <1>8, <1>9, <1>10, NodeStepCore
<1> QED
  BY <1>4, <1>9, <1>11, QuietTurn DEF Inv

LEMMA StepAppendResponseInv ==
  ASSUME Inv, NEW n \in Nodes, NEW c \in 1..Len(raft[n].log), StepAppendResponse(n, c)
  PROVE  Inv'
<1> DEFINE r == raft[n]
           q == [r EXCEPT !.committed = c]
<1>1. GoodRaft(r) /\ Len(r.log) \in Nat
  BY LenProperties DEF Inv, CoreInv, GoodRaft, RaftStates
<1>2. c \in Nat /\ r.committed <= c /\ c <= Len(r.log)
  BY <1>1 DEF StepAppendResponse, GoodRaft, RaftStates
<1>3. DriveReady(n, q, 0) /\ pc[n] = "select" /\ UNCHANGED <<engineVars, reply, restarts>>
  BY DEF StepAppendResponse
<1>4. r = raft[n]
  OBVIOUS
<1> HIDE DEF r
<1>5. GoodRaft(q) /\ q.committed = c
  BY <1>1, <1>2, CommittedGood
<1> HIDE DEF q
<1> QED
  BY <1>2, <1>3, <1>4, <1>5, QuietDrive

(***************************************************************************)
(* An election touches every voter: each of them stores the new term.      *)
(***************************************************************************)
LEMMA BecomeLeaderInv ==
  ASSUME Inv, NEW n \in Nodes, NEW Q \in Electorates, NEW t \in Terms,
         BecomeLeader(n, Q, t)
  PROVE  Inv'
<1> DEFINE Voted(v) == IF v = n THEN Lead(raft[v], t) ELSE Follow(raft[v], t)
<1>1. ASSUME NEW v \in Nodes
      PROVE  GoodRaft(Voted(v)) /\ Voted(v).committed = raft[v].committed
  BY LeadGood, FollowGood DEF Inv, CoreInv, Lead, Follow
<1>2. ASSUME NEW v \in Nodes
      PROVE  GoodRaft(Taken(Voted(v))) /\ SameTurn(Voted(v), Taken(Voted(v)))
  <2> HIDE DEF Voted
  <2> QED
    BY <1>1, TakenGood
<1>3. ASSUME NEW v \in Nodes
      PROVE  GoodSnap(disk[v].snap, Voted(v).committed) /\ disk[v].own \in BOOLEAN
  <2> HIDE DEF Voted
  <2> QED
    BY <1>1 DEF Inv, CoreInv, GoodDisk, DiskStates
<1>4. ASSUME NEW v \in Nodes
      PROVE  GoodDisk(Stored(Voted(v), disk[v].snap, disk[v].own), Taken(Voted(v)))
  <2> HIDE DEF Voted
  <2>1. GoodDisk(Stored(Voted(v), disk[v].snap, disk[v].own), Voted(v))
    BY <1>1, <1>3, StoredGood
  <2> QED
    BY <1>2, <2>1, SameTurnDisk
<1>5. GoodDispatch(Dispatched(Voted(n), disk[n].snap))
  <2> HIDE DEF Voted
  <2> QED
    BY <1>1, <1>3, DispatchedGood
<1>6. /\ n \in Q /\ \A v \in Q : pc[v] = "select"
      /\ raft' = [v \in Nodes |-> IF v \in Q THEN Taken(Voted(v)) ELSE raft[v]]
      /\ disk' = [v \in Nodes |->
                    IF v \in Q THEN Stored(Voted(v), disk[v].snap, disk[v].own)
                    ELSE disk[v]]
      /\ sent' = [sent EXCEPT ![t] = Dispatched(Voted(n), disk[n].snap)]
      /\ pc' = [v \in Nodes |-> IF v \in Q THEN "apply" ELSE pc[v]]
      /\ UNCHANGED <<engineVars, cursor, acked, reply, restarts>>
  BY DEF BecomeLeader
<1> HIDE DEF Voted
<1>7. CoreInv'
  <2>1. \A v \in Nodes : GoodRaft(raft'[v]) /\ GoodDisk(disk'[v], raft'[v])
    BY <1>2, <1>4, <1>6 DEF Inv, CoreInv
  <2>2. raft' \in [Nodes -> RaftStates] /\ disk' \in [Nodes -> DiskStates]
    BY <1>2, <1>4, <1>6 DEF Inv, CoreInv, GoodRaft, GoodDisk
  <2> DEFINE x == Dispatched(Voted(n), disk[n].snap)
  <2>3. sent' = [sent EXCEPT ![t] = x] /\ GoodDispatch(x) /\ x \in Dispatches
    BY <1>5, <1>6 DEF GoodDispatch
  <2> HIDE DEF x
  <2>4. sent' \in [Terms -> Dispatches] /\ \A u \in Terms : GoodDispatch(sent'[u])
    BY <2>3 DEF Inv, CoreInv
  <2>5. pc' \in [Nodes -> {"select", "apply", "open"}]
    BY <1>6 DEF Inv, CoreInv
  <2> QED
    BY <1>6, <2>1, <2>2, <2>4, <2>5 DEF Inv, CoreInv
<1>8. TableInv'
  BY <1>6 DEF Inv, TableInv, engineVars, walVars
<1>9. ClientInv'
  <2>1. PendingInv' /\ PendingUnique' /\ WaitersPending'
    BY <1>6 DEF Inv, ClientInv, PendingInv, PendingUnique, WaitersPending, engineVars, walVars
  <2>2. RoleInv'
    <3> SUFFICES ASSUME NEW m \in Nodes
        PROVE  /\ pc'[m] = "select" => observed[m] = raft'[m].role
               /\ pc'[m] = "open" => observed[m] = "follower" /\ raft'[m].role = "follower"
               /\ pending[m] # {} =>
                    observed[m] = "leader" /\ (raft'[m].role = "leader" \/ pc'[m] = "apply")
      BY <1>6 DEF RoleInv, engineVars, walVars
    <3>1. CASE m \in Q
      BY <1>6, <3>1 DEF Inv, ClientInv, RoleInv
    <3>2. CASE m \notin Q
      BY <1>6, <3>2 DEF Inv, ClientInv, RoleInv
    <3> QED
      BY <3>1, <3>2
  <2> QED
    BY <1>6, <2>1, <2>2 DEF Inv, ClientInv, engineVars, walVars
<1> QED
  BY <1>7, <1>8, <1>9 DEF Inv

LEMMA UnchangedCore ==
  ASSUME CoreInv, UNCHANGED <<raft, disk, pc, cursor, netVars>>
  PROVE  CoreInv'
  BY DEF CoreInv, netVars

\* a write answered at once: its client never waited
LEMMA AnswerInv ==
  ASSUME Inv, NEW w \in Writes, NEW status \in {"not_leader", "fenced"},
         NextWrite(w), Answer(w, status),
         UNCHANGED <<raft, disk, engineVars, pc, cursor, netVars, restarts>>
  PROVE  Inv'
<1>1. CoreInv' /\ TableInv'
  BY UnchangedCore DEF Inv, TableInv, engineVars, walVars
<1>2. reply' = [reply EXCEPT ![w] = [status |-> status, lsn |-> 0]]
  BY DEF Answer
<1>3. /\ reply[w].status = "unsent"
      /\ \A v \in Writes : v # w => reply'[v] = reply[v]
      /\ reply'[w].status # "waiting"
      /\ reply' \in [Writes -> [status : Statuses, lsn : Nat]]
  BY <1>2 DEF NextWrite, Inv, ClientInv, Statuses
<1>4. \A n \in Nodes : \A p \in pending[n] : p.w \in Writes /\ p.w # w
  BY <1>3 DEF Inv, ClientInv, PendingInv, Commands
<1>5. PendingInv' /\ PendingUnique' /\ WaitersPending'
  <2>1. PendingInv'
    BY <1>3, <1>4 DEF Inv, ClientInv, PendingInv, engineVars, walVars
  <2>2. PendingUnique'
    BY DEF Inv, ClientInv, PendingUnique, engineVars, walVars
  <2>3. WaitersPending'
    BY <1>3 DEF Inv, ClientInv, WaitersPending, engineVars, walVars
  <2> QED
    BY <2>1, <2>2, <2>3
<1>6. RoleInv'
  BY DEF Inv, ClientInv, RoleInv, engineVars, walVars
<1> QED
  BY <1>1, <1>3, <1>5, <1>6 DEF Inv, ClientInv, engineVars, walVars

(***************************************************************************)
(* A step of node n that changes one stream of its table.                  *)
(***************************************************************************)
LEMMA StreamStep ==
  ASSUME TableInv, NEW n \in Nodes, NEW s \in Streams, NEW st \in SoundStreams,
         streams' = [streams EXCEPT ![n][s] = st]
  PROVE  /\ streams' \in [Nodes -> [Streams -> SoundStreams]]
         /\ \A m \in Nodes, u \in Streams :
              streams'[m][u] = IF m = n /\ u = s THEN st ELSE streams[m][u]
  BY DEF TableInv

LEMMA WriteProposeInv ==
  ASSUME Inv, NEW n \in Nodes, NEW w \in Writes, NEW s \in Streams,
         NEW epoch \in Epochs, WritePropose(n, w, s, epoch)
  PROVE  Inv'
<1> DEFINE r == raft[n]
           cmd == [rid |-> requestSeq[n] + 1, w |-> w, stream |-> s,
                   epoch |-> epoch, lsn |-> streams[n][s].next]
           e == [term |-> r.term, cmd |-> cmd]
           q == [r EXCEPT !.log = Append(@, e)]
           st == AllocateAppend(streams[n][s], epoch)
<1>1. /\ pc[n] = "select" /\ NextWrite(w) /\ r.role = "leader"
      /\ streams' = [streams EXCEPT ![n][s] = st]
      /\ requestSeq' = [requestSeq EXCEPT ![n] = @ + 1]
      /\ pending' = [pending EXCEPT ![n] = @ \cup {cmd}]
      /\ DriveReady(n, q, 0)
      /\ reply' = [reply EXCEPT ![w] = [status |-> "waiting", lsn |-> 0]]
      /\ UNCHANGED <<wal, observed, restarts>>
  BY DEF WritePropose, walVars, IsLeader, Answer
<1>2. streams[n][s] \in SoundStreams /\ requestSeq[n] \in Nat /\ epoch \in Nat
  BY GroupAssumption DEF Inv, TableInv, ClientInv
<1>3. streams[n][s].next \in Nat
  BY <1>2 DEF SoundStreams, StreamStates
<1>4. st \in SoundStreams /\ st.next = streams[n][s].next + 1
  BY <1>2, AllocateSound
<1>5. /\ cmd \in Commands /\ cmd.w = w /\ cmd.stream = s
      /\ cmd.lsn = streams[n][s].next /\ cmd.rid = requestSeq[n] + 1
  BY <1>2, <1>3 DEF Commands
<1>6. GoodRaft(r) /\ r.term \in Terms
  BY DEF Inv, CoreInv, RaftStates
<1> HIDE DEF cmd, st
<1>7. e \in Entries
  BY <1>5, <1>6 DEF Entries
<1>8. r = raft[n]
  OBVIOUS
<1> HIDE DEF e, r
<1>9. GoodRaft(q) /\ q.committed = r.committed /\ q.role = "leader"
  BY <1>1, <1>6, <1>7, ProposedGood
<1> HIDE DEF q
<1>10. raft[n].committed <= q.committed /\ CoreInv
  BY <1>6, <1>8, <1>9 DEF GoodRaft, RaftStates, Inv
<1>11. CoreInv' /\ TurnStep(n, q)
  BY <1>1, <1>9, <1>10, DriveReadyCore
<1>12. /\ streams' \in [Nodes -> [Streams -> SoundStreams]]
       /\ \A m \in Nodes, u \in Streams :
            streams'[m][u] = IF m = n /\ u = s THEN st ELSE streams[m][u]
  BY <1>1, <1>4, StreamStep DEF Inv
<1>13. TableInv'
  BY <1>1, <1>12 DEF Inv, TableInv
<1>14. /\ pending' \in [Nodes -> SUBSET Commands]
       /\ requestSeq' \in [Nodes -> Nat]
       /\ \A m \in Nodes : /\ pending'[m] = IF m = n THEN pending[n] \cup {cmd} ELSE pending[m]
                           /\ requestSeq'[m] = IF m = n THEN requestSeq[n] + 1 ELSE requestSeq[m]
  BY <1>1, <1>2, <1>5 DEF Inv, ClientInv
<1>15. /\ reply[w].status = "unsent" /\ reply'[w].status = "waiting"
       /\ \A v \in Writes : v # w => reply'[v] = reply[v]
       /\ reply' \in [Writes -> [status : Statuses, lsn : Nat]]
  BY <1>1 DEF NextWrite, Inv, ClientInv, Statuses
<1>16. \A m \in Nodes : \A p \in pending[m] :
         /\ p.w \in Writes /\ p.w # w /\ p.stream \in Streams /\ p.lsn \in Nat
         /\ p.rid \in Nat /\ p.rid <= requestSeq[m]
         /\ p.lsn < streams[m][p.stream].next
         /\ reply[p.w].status = "waiting"
  BY <1>15 DEF Inv, ClientInv, PendingInv, Commands
<1>17. \A m \in Nodes, u \in Streams : streams[m][u].next \in Nat /\ requestSeq[m] \in Nat
  BY DEF Inv, TableInv, ClientInv, SoundStreams, StreamStates
<1>18. PendingInv'
  <2> SUFFICES ASSUME NEW m \in Nodes, NEW p \in pending'[m]
      PROVE  /\ p.lsn < streams'[m][p.stream].next
             /\ p.rid <= requestSeq'[m]
             /\ reply'[p.w].status = "waiting"
    BY DEF PendingInv
  <2>1. CASE p \in pending[m]
    <3>1. p.lsn < streams'[m][p.stream].next
      BY <1>4, <1>12, <1>16, <1>17, <2>1
    <3>2. p.rid <= requestSeq'[m]
      BY <1>14, <1>16, <1>17, <2>1
    <3> QED
      BY <1>15, <1>16, <2>1, <3>1, <3>2
  <2>2. CASE m = n /\ p = cmd
    <3>1. p.lsn < streams'[m][p.stream].next
      BY <1>3, <1>4, <1>5, <1>12, <2>2
    <3>2. p.rid <= requestSeq'[m]
      BY <1>2, <1>5, <1>14, <2>2
    <3> QED
      BY <1>5, <1>15, <2>2, <3>1, <3>2
  <2> QED
    BY <1>14, <2>1, <2>2
<1>19. PendingUnique'
  <2> SUFFICES ASSUME NEW m \in Nodes, NEW k \in Nodes,
                      NEW p \in pending'[m], NEW x \in pending'[k]
      PROVE  /\ p.w = x.w => m = k /\ p = x
             /\ m = k /\ p # x => p.rid # x.rid /\ (p.stream # x.stream \/ p.lsn # x.lsn)
    BY DEF PendingUnique
  <2>1. CASE p \in pending[m] /\ x \in pending[k]
    BY <2>1 DEF Inv, ClientInv, PendingUnique
  <2>2. CASE p \in pending[m] /\ k = n /\ x = cmd
    BY <1>2, <1>3, <1>5, <1>16, <2>2
  <2>3. CASE x \in pending[k] /\ m = n /\ p = cmd
    BY <1>2, <1>3, <1>5, <1>16, <2>3
  <2>4. CASE m = n /\ p = cmd /\ k = n /\ x = cmd
    BY <2>4
  <2> QED
    BY <1>14, <2>1, <2>2, <2>3, <2>4
<1>20. WaitersPending'
  <2> SUFFICES ASSUME NEW v \in Writes, reply'[v].status = "waiting"
      PROVE  \E m \in Nodes : \E p \in pending'[m] : p.w = v
    BY DEF WaitersPending
  <2>1. CASE v = w
    BY <1>5, <1>14, <2>1
  <2>2. CASE v # w
    <3>1. PICK m \in Nodes : \E p \in pending[m] : p.w = v
      BY <1>15, <2>2 DEF Inv, ClientInv, WaitersPending
    <3> QED
      BY <1>14, <3>1
  <2> QED
    BY <2>1, <2>2
<1>21. RoleInv'
  <2> SUFFICES ASSUME NEW m \in Nodes
      PROVE  /\ pc'[m] = "select" => observed[m] = raft'[m].role
             /\ pc'[m] = "open" => observed[m] = "follower" /\ raft'[m].role = "follower"
             /\ pending'[m] # {} =>
                  observed[m] = "leader" /\ (raft'[m].role = "leader" \/ pc'[m] = "apply")
    BY <1>1 DEF RoleInv
  <2>1. CASE m = n
    <3>1. observed[n] = "leader"
      BY <1>1, <1>8 DEF Inv, ClientInv, RoleInv
    <3> QED
      BY <1>9, <1>11, <2>1, <3>1 DEF TurnStep
  <2>2. CASE m # n
    BY <1>11, <1>14, <2>2 DEF TurnStep, Inv, ClientInv, RoleInv
  <2> QED
    BY <2>1, <2>2
<1> QED
  BY <1>1, <1>11, <1>13, <1>14, <1>15, <1>18, <1>19, <1>20, <1>21 DEF Inv, ClientInv

(***************************************************************************)
(* A step that only moves positions of a table forward leaves the clients  *)
(* as they were.                                                           *)
(***************************************************************************)
LEMMA TableOnly ==
  ASSUME Inv, NEW n \in Nodes, NEW s \in Streams, NEW st \in SoundStreams,
         streams' = [streams EXCEPT ![n][s] = st], streams[n][s].next <= st.next,
         UNCHANGED <<wal, pending, requestSeq, observed, reply, restarts, raft, pc>>
  PROVE  TableInv' /\ ClientInv'
<1>1. /\ streams' \in [Nodes -> [Streams -> SoundStreams]]
      /\ \A m \in Nodes, u \in Streams :
           streams'[m][u] = IF m = n /\ u = s THEN st ELSE streams[m][u]
  BY StreamStep DEF Inv
<1>2. \A m \in Nodes, u \in Streams :
        streams[m][u].next \in Nat /\ streams'[m][u].next \in Nat
        /\ streams[m][u].next <= streams'[m][u].next
  <2> TAKE m \in Nodes, u \in Streams
  <2>1. streams[m][u] \in SoundStreams /\ streams'[m][u] \in SoundStreams
    BY <1>1 DEF Inv, TableInv
  <2>2. streams[m][u].next \in Nat /\ streams'[m][u].next \in Nat
    BY <2>1 DEF SoundStreams, StreamStates
  <2>3. CASE m = n /\ u = s
    BY <1>1, <2>2, <2>3
  <2>4. CASE ~(m = n /\ u = s)
    <3>1. streams'[m][u] = streams[m][u]
      BY <1>1, <2>4
    <3> QED
      BY <2>2, <3>1
  <2> QED
    BY <2>2, <2>3, <2>4
<1>3. \A m \in Nodes : \A p \in pending[m] : p.stream \in Streams /\ p.lsn \in Nat
  BY DEF Inv, ClientInv, Commands
<1>4. PendingInv'
  BY <1>2, <1>3 DEF Inv, ClientInv, PendingInv
<1>5. PendingUnique' /\ WaitersPending' /\ RoleInv'
  BY DEF Inv, ClientInv, PendingUnique, WaitersPending, RoleInv
<1> QED
  BY <1>1, <1>4, <1>5 DEF Inv, ClientInv, TableInv

LEMMA ConsumeInv ==
  ASSUME Inv, NEW n \in Nodes, NEW s \in Streams, NEW o \in ConsumerOffsets,
         Consume(n, s, o)
  PROVE  Inv'
<1> DEFINE st == AdvanceConsumed(streams[n][s], o)
<1>1. streams[n][s] \in SoundStreams /\ o \in Nat
  BY GroupAssumption DEF Inv, TableInv
<1>2. st \in SoundStreams /\ st.next = streams[n][s].next
  BY <1>1, ConsumeSound
<1>3. streams[n][s].next <= st.next
  BY <1>1, <1>2 DEF SoundStreams, StreamStates
<1>4. /\ streams' = [streams EXCEPT ![n][s] = st]
      /\ UNCHANGED <<raft, disk, wal, pending, requestSeq, observed, pc, cursor,
                     netVars, reply, restarts>>
  BY DEF Consume, walVars
<1> HIDE DEF st
<1>5. TableInv' /\ ClientInv'
  BY <1>2, <1>3, <1>4, TableOnly
<1>6. CoreInv'
  BY <1>4, UnchangedCore DEF Inv
<1> QED
  BY <1>5, <1>6 DEF Inv

\* the record replayed next is the first one left
LEMMA ReplayedIsThere ==
  ASSUME Inv, NEW n \in Nodes, ToReplay(n) # {}
  PROVE  (CHOOSE j \in ToReplay(n) : \A l \in ToReplay(n) : j <= l) \in ToReplay(n)
<1>1. ToReplay(n) \subseteq Nat
  BY DEF ToReplay, Inv, CoreInv
<1>2. PICK j \in ToReplay(n) : \A l \in ToReplay(n) : j <= l
  BY <1>1, LeastNat
<1> QED
  BY <1>2

\* ReplayRecord of the k-th record ever appended, one that run_gc has left there
LEMMA ReplayView ==
  ASSUME Inv, NEW n \in Nodes, ReplayRecord(n)
  PROVE  \E k \in 1..Len(wal[n]) :
           /\ k \in ToReplay(n) /\ wal[n][k] \in WalRecords /\ pc[n] = "open"
           /\ index' = [index EXCEPT ![n] = Inserted(index[n], wal[n], wal[n][k], k)]
           /\ streams' = [streams EXCEPT ![n][wal[n][k].stream] =
                            Replayed(streams[n][wal[n][k].stream], disk[n], wal[n][k])]
           /\ cursor' = [cursor EXCEPT ![n] = k + 1]
           /\ UNCHANGED <<raft, disk, wal, gone, pending, requestSeq, observed, pc,
                          netVars, reply, restarts>>
<1> DEFINE k == CHOOSE j \in ToReplay(n) : \A l \in ToReplay(n) : j <= l
<1>1. /\ index' = [index EXCEPT ![n] = Inserted(index[n], wal[n], wal[n][k], k)]
      /\ streams' = [streams EXCEPT ![n][wal[n][k].stream] =
                       Replayed(streams[n][wal[n][k].stream], disk[n], wal[n][k])]
      /\ cursor' = [cursor EXCEPT ![n] = k + 1]
      /\ UNCHANGED <<raft, disk, wal, gone, pending, requestSeq, observed, pc,
                     netVars, reply, restarts>>
      /\ pc[n] = "open" /\ ToReplay(n) # {}
  BY DEF ReplayRecord
<1>2. k \in ToReplay(n)
  BY <1>1, ReplayedIsThere
<1> HIDE DEF k
<1>3. wal[n] \in Seq(WalRecords) /\ cursor[n] \in Nat \ {0}
  BY DEF Inv, CoreInv, TableInv
<1>4. k \in 1..Len(wal[n])
  BY <1>2, <1>3 DEF ToReplay
<1>5. wal[n][k] \in WalRecords
  BY <1>3, <1>4, ElementOfSeq
<1> QED
  BY <1>1, <1>2, <1>4, <1>5

LEMMA ReplayRecordInv ==
  ASSUME Inv, NEW n \in Nodes, ReplayRecord(n)
  PROVE  Inv'
<1>1. PICK k \in 1..Len(wal[n]) :
        /\ wal[n][k] \in WalRecords /\ pc[n] = "open"
        /\ streams' = [streams EXCEPT ![n][wal[n][k].stream] =
                         Replayed(streams[n][wal[n][k].stream], disk[n], wal[n][k])]
        /\ cursor' = [cursor EXCEPT ![n] = k + 1]
        /\ UNCHANGED <<raft, disk, wal, pending, requestSeq, observed, pc, netVars,
                       reply, restarts>>
  BY ReplayView
<1> DEFINE x == wal[n][k]
           old == streams[n][x.stream]
           st == Replayed(old, disk[n], x)
<1>3. k \in Nat /\ x \in WalRecords
  BY <1>1
<1>2. streams' = [streams EXCEPT ![n][x.stream] = st]
  BY <1>1
<1> HIDE DEF x
<1>4. /\ x.stream \in Streams /\ x.epoch \in Nat /\ x.index \in Nat
      /\ x.lsn \in Nat /\ x.w \in Writes
  BY <1>3, GroupAssumption DEF WalRecords
<1>5. old \in SoundStreams /\ old.next \in Nat
  BY <1>4 DEF Inv, TableInv, SoundStreams, StreamStates
<1> HIDE DEF old
<1>6. /\ ObserveRecovered(old, x.epoch, x.index, x.lsn, x.w) \in SoundStreams
      /\ ObserveRecovered(old, x.epoch, x.index, x.lsn, x.w).next >= old.next
  BY <1>4, <1>5, MarkSound DEF ObserveRecovered
<1>7. st \in SoundStreams /\ old.next <= st.next
  <2>1. CASE x.index > ReplayFrom(disk[n])
    <3>1. st = ObserveRecovered(old, x.epoch, x.index, x.lsn, x.w)
      BY <2>1 DEF Replayed
    <3>2. st.next \in Nat
      BY <1>6, <3>1 DEF SoundStreams, StreamStates
    <3> QED
      BY <1>5, <1>6, <3>1, <3>2
  <2>2. CASE ~(x.index > ReplayFrom(disk[n]))
    BY <1>5, <2>2 DEF Replayed
  <2> QED
    BY <2>1, <2>2
<1> HIDE DEF st
<1>8. streams[n][x.stream].next <= st.next
  BY <1>7 DEF old
<1>9. TableInv' /\ ClientInv'
  BY <1>1, <1>2, <1>4, <1>7, <1>8, TableOnly
<1>10. CoreInv'
  <2>1. cursor' \in [Nodes -> Nat \ {0}]
    BY <1>1, <1>3 DEF Inv, CoreInv
  <2> QED
    BY <1>1, <2>1 DEF Inv, CoreInv, netVars
<1> QED
  BY <1>9, <1>10 DEF Inv

LEMMA OpenDoneInv ==
  ASSUME Inv, NEW n \in Nodes, OpenDone(n)
  PROVE  Inv'
<1>1. /\ pc[n] = "open" /\ pc' = [pc EXCEPT ![n] = "select"]
      /\ cursor' = [cursor EXCEPT ![n] = raft[n].since + 1]
      /\ UNCHANGED <<raft, disk, engineVars, netVars, reply, restarts>>
  BY DEF OpenDone
<1>2. raft[n].since + 1 \in Nat \ {0}
  BY DEF Inv, CoreInv, RaftStates
<1>3. CoreInv'
  BY <1>1, <1>2 DEF Inv, CoreInv, netVars
<1>4. TableInv'
  BY <1>1 DEF Inv, TableInv, engineVars, walVars
<1>5. PendingInv' /\ PendingUnique' /\ WaitersPending'
  BY <1>1 DEF Inv, ClientInv, PendingInv, PendingUnique, WaitersPending, engineVars, walVars
<1>6. RoleInv'
  BY <1>1 DEF Inv, CoreInv, ClientInv, RoleInv, engineVars, walVars
<1> QED
  BY <1>1, <1>3, <1>4, <1>5, <1>6 DEF Inv, ClientInv, engineVars, walVars

LEMMA RunGcInv ==
  ASSUME Inv, NEW n \in Nodes, RunGc(n)
  PROVE  Inv'
<1>1. UNCHANGED <<raft, disk, wal, streams, pending, requestSeq, observed, pc,
                  cursor, netVars, reply, restarts>>
  BY DEF RunGc
<1>2. CoreInv'
  BY <1>1, UnchangedCore DEF Inv
<1>3. TableInv' /\ ClientInv'
  BY <1>1 DEF Inv, TableInv, ClientInv, PendingInv, PendingUnique, WaitersPending, RoleInv
<1> QED
  BY <1>2, <1>3 DEF Inv

(***************************************************************************)
(* Node n drops its pending writes and tells their clients, or a crash     *)
(* does: nobody else's client hears of it, and none of its own waits on.   *)
(***************************************************************************)
LEMMA DrainedClients ==
  ASSUME Inv, NEW n \in Nodes, NEW status \in {"not_leader", "lost"},
         pending' = [pending EXCEPT ![n] = {}], reply' = FailedReplies(n, status),
         \A m \in Nodes \ {n} : streams'[m] = streams[m] /\ requestSeq'[m] = requestSeq[m]
  PROVE  /\ pending' \in [Nodes -> SUBSET Commands]
         /\ reply' \in [Writes -> [status : Statuses, lsn : Nat]]
         /\ \A m \in Nodes : pending'[m] = IF m = n THEN {} ELSE pending[m]
         /\ PendingInv' /\ PendingUnique' /\ WaitersPending'
<1>1. /\ pending' \in [Nodes -> SUBSET Commands]
      /\ \A m \in Nodes : pending'[m] = IF m = n THEN {} ELSE pending[m]
  BY DEF Inv, ClientInv
<1>2. \A w \in Writes :
        reply'[w] = IF \E p \in pending[n] : p.w = w
                    THEN [status |-> status, lsn |-> 0] ELSE reply[w]
  BY DEF FailedReplies
<1>3. reply' \in [Writes -> [status : Statuses, lsn : Nat]]
  <2>1. reply' = [w \in Writes |-> reply'[w]]
    BY DEF FailedReplies
  <2>2. \A w \in Writes : reply'[w] \in [status : Statuses, lsn : Nat]
    BY <1>2 DEF Inv, ClientInv, Statuses
  <2> QED
    BY <2>1, <2>2
<1>4. \A m \in Nodes \ {n} : \A p \in pending[m] :
        p.w \in Writes /\ ~\E q \in pending[n] : q.w = p.w
  BY DEF Inv, ClientInv, PendingUnique, Commands
<1>5. PendingInv'
  BY <1>1, <1>2, <1>4 DEF Inv, ClientInv, PendingInv
<1>6. PendingUnique'
  BY <1>1 DEF Inv, ClientInv, PendingUnique
<1>7. WaitersPending'
  <2> SUFFICES ASSUME NEW w \in Writes, reply'[w].status = "waiting"
      PROVE  \E m \in Nodes : \E p \in pending'[m] : p.w = w
    BY DEF WaitersPending
  <2>1. (~\E p \in pending[n] : p.w = w) /\ reply[w].status = "waiting"
    BY <1>2
  <2>2. PICK m \in Nodes : \E p \in pending[m] : p.w = w
    BY <2>1 DEF Inv, ClientInv, WaitersPending
  <2> QED
    BY <1>1, <2>1, <2>2
<1> QED
  BY <1>1, <1>3, <1>5, <1>6, <1>7

LEMMA RestartInv ==
  ASSUME Inv, NEW n \in Nodes, Restart(n)
  PROVE  Inv'
<1> DEFINE r == Reopened(disk[n])
<1>1. /\ restarts < MaxRestarts /\ restarts' = restarts + 1
      /\ raft' = [raft EXCEPT ![n] = r]
      /\ streams' = [streams EXCEPT ![n] = disk[n].snap.data]
      /\ pending' = [pending EXCEPT ![n] = {}]
      /\ reply' = FailedReplies(n, "lost")
      /\ requestSeq' = [requestSeq EXCEPT ![n] = 0]
      /\ observed' = [observed EXCEPT ![n] = "follower"]
      /\ pc' = [pc EXCEPT ![n] = "open"]
      /\ cursor' = [cursor EXCEPT ![n] = 1]
      /\ UNCHANGED <<disk, wal, netVars>>
  BY DEF Restart
<1>2. GoodRaft(raft[n]) /\ GoodDisk(disk[n], raft[n])
  BY DEF Inv, CoreInv
<1>3. GoodRaft(r) /\ GoodDisk(disk[n], r)
  BY <1>2, ReopenedGood
<1>4. r.role = "follower"
  BY DEF Reopened
<1> HIDE DEF r
<1>5. CoreInv'
  <2>1. raft' \in [Nodes -> RaftStates] /\ \A m \in Nodes : raft'[m] = IF m = n THEN r ELSE raft[m]
    BY <1>1, <1>3 DEF Inv, CoreInv, GoodRaft
  <2>2. pc' \in [Nodes -> {"select", "apply", "open"}] /\ cursor' \in [Nodes -> Nat \ {0}]
    BY <1>1 DEF Inv, CoreInv
  <2>3. \A m \in Nodes : GoodRaft(raft'[m]) /\ GoodDisk(disk'[m], raft'[m])
    BY <1>1, <1>3, <2>1 DEF Inv, CoreInv
  <2> QED
    BY <1>1, <2>1, <2>2, <2>3 DEF Inv, CoreInv, netVars
<1>6. TableInv'
  <2>1. disk[n].snap.data \in [Streams -> SoundStreams]
    BY <1>2 DEF GoodDisk, GoodSnap
  <2> QED
    BY <1>1, <2>1 DEF Inv, TableInv
<1>7. \A m \in Nodes \ {n} : streams'[m] = streams[m] /\ requestSeq'[m] = requestSeq[m]
  BY <1>1 DEF Inv, TableInv, ClientInv
<1>8. /\ pending' \in [Nodes -> SUBSET Commands]
      /\ reply' \in [Writes -> [status : Statuses, lsn : Nat]]
      /\ \A m \in Nodes : pending'[m] = IF m = n THEN {} ELSE pending[m]
      /\ PendingInv' /\ PendingUnique' /\ WaitersPending'
  BY <1>1, <1>7, DrainedClients
<1>9. RoleInv'
  BY <1>1, <1>4, <1>8 DEF Inv, CoreInv, ClientInv, RoleInv
<1>10. requestSeq' \in [Nodes -> Nat] /\ observed' \in [Nodes -> Roles]
  BY <1>1 DEF Inv, ClientInv, Roles
<1>11. restarts' \in 0..MaxRestarts
  BY <1>1, GroupAssumption DEF Inv, ClientInv
<1> QED
  BY <1>5, <1>6, <1>8, <1>9, <1>10, <1>11 DEF Inv, ClientInv

LEMMA AdvanceInv ==
  ASSUME Inv, NEW n \in Nodes, Advance(n)
  PROVE  Inv'
<1>1. /\ pc[n] = "apply"
      /\ raft' = [raft EXCEPT ![n] = Ended(raft[n])]
      /\ cursor' = [cursor EXCEPT ![n] = Ended(raft[n]).since + 1]
      /\ IF Deposed(n) THEN FailPending(n) ELSE UNCHANGED <<streams, pending, reply>>
      /\ observed' = [observed EXCEPT ![n] = raft[n].role]
      /\ pc' = [pc EXCEPT ![n] = "select"]
      /\ UNCHANGED <<disk, wal, requestSeq, netVars, restarts>>
  BY DEF Advance, walVars
<1>2. GoodRaft(raft[n]) /\ GoodDisk(disk[n], raft[n])
  BY DEF Inv, CoreInv
<1>3. GoodRaft(Ended(raft[n])) /\ SameTurn(raft[n], Ended(raft[n]))
  BY <1>2, EndedGood
<1>4. raft' \in [Nodes -> RaftStates] /\ raft'[n] = Ended(raft[n])
      /\ \A m \in Nodes \ {n} : raft'[m] = raft[m]
  BY <1>1, <1>3 DEF Inv, CoreInv, GoodRaft
<1>5. CoreInv'
  <2>1. Ended(raft[n]).since + 1 \in Nat \ {0}
    BY <1>3 DEF GoodRaft, RaftStates
  <2>2. pc' \in [Nodes -> {"select", "apply", "open"}] /\ cursor' \in [Nodes -> Nat \ {0}]
    BY <1>1, <2>1 DEF Inv, CoreInv
  <2>3. disk' = [disk EXCEPT ![n] = disk[n]]
    BY <1>1 DEF Inv, CoreInv
  <2>4. acked' \in [Terms -> [Nodes -> Nat]] /\ sent' = sent /\ CoreInv
    BY <1>1 DEF Inv, CoreInv, netVars
  <2> QED
    BY <1>2, <1>3, <1>4, <2>2, <2>3, <2>4, NodeStepCore
<1>6. observed' \in [Nodes -> Roles]
  BY <1>1, <1>2 DEF Inv, ClientInv, GoodRaft, RaftStates
<1>7. \A m \in Nodes : /\ observed'[m] = IF m = n THEN raft'[n].role ELSE observed[m]
                       /\ pc'[m] = IF m = n THEN "select" ELSE pc[m]
  BY <1>1, <1>3, <1>4 DEF Inv, CoreInv, ClientInv, SameTurn
<1>8. CASE Deposed(n)
  <2>1. /\ streams' = RolledBack(n) /\ reply' = FailedReplies(n, "not_leader")
        /\ pending' = [pending EXCEPT ![n] = {}]
    BY <1>1, <1>8 DEF FailPending
  <2>2. TableInv' /\ \A m \in Nodes \ {n} : streams'[m] = streams[m]
    <3> DEFINE t == [s \in Streams |->
                       RollbackUncommittedAppends(streams[n][s], PendingLsns(n, s))]
    <3>1. t \in [Streams -> SoundStreams]
      BY RollbackSound DEF Inv, TableInv
    <3>2. streams' = [streams EXCEPT ![n] = t]
      BY <2>1 DEF RolledBack
    <3> HIDE DEF t
    <3> QED
      BY <1>1, <3>1, <3>2 DEF Inv, TableInv
  <2>3. /\ pending' \in [Nodes -> SUBSET Commands]
        /\ reply' \in [Writes -> [status : Statuses, lsn : Nat]]
        /\ \A m \in Nodes : pending'[m] = IF m = n THEN {} ELSE pending[m]
        /\ PendingInv' /\ PendingUnique' /\ WaitersPending'
    BY <1>1, <2>1, <2>2, DrainedClients
  <2>4. RoleInv'
    BY <1>4, <1>7, <2>3 DEF Inv, ClientInv, RoleInv
  <2> QED
    BY <1>1, <1>5, <1>6, <2>2, <2>3, <2>4 DEF Inv, ClientInv
<1>9. CASE ~Deposed(n)
  <2>1. UNCHANGED <<streams, pending, reply, wal, requestSeq, restarts>>
    BY <1>1, <1>9
  <2>2. TableInv' /\ PendingInv' /\ PendingUnique' /\ WaitersPending'
    BY <2>1 DEF Inv, TableInv, ClientInv, PendingInv, PendingUnique, WaitersPending
  <2>3. RoleInv'
    <3> SUFFICES ASSUME NEW m \in Nodes
        PROVE  /\ pc'[m] = "select" => observed'[m] = raft'[m].role
               /\ pc'[m] = "open" => observed'[m] = "follower" /\ raft'[m].role = "follower"
               /\ pending[m] # {} =>
                    observed'[m] = "leader" /\ (raft'[m].role = "leader" \/ pc'[m] = "apply")
      BY <2>1 DEF RoleInv
    <3>1. CASE m = n
      <4>1. raft'[n].role = raft[n].role
        BY <1>3, <1>4 DEF SameTurn
      <4>2. pending[n] # {} => raft[n].role = "leader"
        BY <1>9 DEF Deposed, IsLeader, Inv, ClientInv, RoleInv
      <4> QED
        BY <1>7, <3>1, <4>1, <4>2
    <3>2. CASE m # n
      BY <1>4, <1>7, <3>2 DEF Inv, ClientInv, RoleInv
    <3> QED
      BY <3>1, <3>2
  <2> QED
    BY <1>5, <1>6, <2>1, <2>2, <2>3 DEF Inv, ClientInv
<1> QED
  BY <1>8, <1>9

(***************************************************************************)
(* apply_append_entry.  The entry exists because the cursor and since lie  *)
(* inside the log.                                                         *)
(***************************************************************************)
LEMMA ApplyAppendEntryInv ==
  ASSUME Inv, NEW n \in Nodes, ApplyAppendEntry(n)
  PROVE  Inv'
<1> DEFINE todo == ToApply(raft[n], cursor[n])
           i == CHOOSE j \in todo : \A k \in todo : j <= k
           c == raft[n].log[i].cmd
           st == Applied(streams[n][c.stream], i, c)
           table == [streams[n] EXCEPT ![c.stream] = st]
           snap == TakeSnapshot(SnapshotIndex(raft[n]), table)
           x == [index |-> i, w |-> c.w, stream |-> c.stream, epoch |-> c.epoch,
                 lsn |-> c.lsn]
           d == IF SnapshotDue(n)
                THEN [term |-> disk[n].term, commit |-> disk[n].commit,
                      log |-> disk[n].log, snap |-> snap, own |-> TRUE]
                ELSE disk[n]
           Told(w) == \E p \in pending[n] : p.rid = c.rid /\ p.w = w
           Who(w) == CHOOSE p \in pending[n] : p.rid = c.rid /\ p.w = w
<1>1. /\ pc[n] = "apply" /\ todo # {}
      /\ wal' = [wal EXCEPT ![n] = Append(@, x)]
      /\ streams' = [streams EXCEPT ![n] = table]
      /\ pending' = [pending EXCEPT ![n] = Resolve(@, c.rid)]
      /\ reply' = [w \in Writes |->
           IF Told(w) THEN [status |-> "ok", lsn |-> Who(w).lsn] ELSE reply[w]]
      /\ disk' = IF SnapshotDue(n)
                 THEN [disk EXCEPT ![n] =
                         [term |-> @.term, commit |-> @.commit, log |-> @.log,
                          snap |-> snap, own |-> TRUE]]
                 ELSE disk
      /\ sent' = IF SnapshotDue(n) /\ IsLeader(n)
                 THEN [sent EXCEPT ![raft[n].term] = Dispatched(raft[n], snap)] ELSE sent
      /\ Proceed(n, raft[n], i + 1)
      /\ UNCHANGED <<requestSeq, observed, acked, restarts>>
  BY DEF ApplyAppendEntry, RecordFor
<1>2. GoodRaft(raft[n]) /\ GoodDisk(disk[n], raft[n]) /\ cursor[n] \in Nat \ {0}
  BY DEF Inv, CoreInv
<1>3. /\ i \in todo /\ i \in Nat \ {0} /\ i <= Len(raft[n].log)
      /\ raft[n].log \in Seq(Entries) /\ raft[n].log[i].cmd # NoCmd
  <2>1. /\ raft[n].log \in Seq(Entries) /\ Len(raft[n].log) \in Nat
        /\ raft[n].since \in Nat /\ raft[n].since <= Len(raft[n].log)
    BY <1>2, LenProperties DEF GoodRaft, RaftStates
  <2>2. \A j \in todo : j \in Nat \ {0} /\ j <= Len(raft[n].log) /\ raft[n].log[j].cmd # NoCmd
    BY <1>2, <2>1 DEF ToApply
  <2>3. todo \in SUBSET Nat
    BY <2>2
  <2> HIDE DEF todo
  <2>4. \E j \in todo : \A k \in todo : j <= k
    BY <1>1, <2>3, LeastNat
  <2>5. i \in todo
    BY <2>4
  <2> HIDE DEF i
  <2> QED
    BY <2>1, <2>2, <2>5
<1> HIDE DEF todo, i
<1>4. c \in Commands
  <2>1. raft[n].log[i] \in Entries
    BY <1>3, ElementOfSeq, LenProperties
  <2> QED
    BY <1>3, <2>1 DEF Entries
<1> HIDE DEF c
<1>5. /\ c.stream \in Streams /\ c.epoch \in Epochs /\ c.epoch \in Nat /\ c.lsn \in Nat
      /\ c.w \in Writes /\ c.rid \in Nat
  BY <1>4, GroupAssumption DEF Commands
<1>6. /\ streams[n] \in [Streams -> SoundStreams]
      /\ streams[n][c.stream] \in SoundStreams
  BY <1>5 DEF Inv, TableInv
<1>7. st \in SoundStreams /\ st.next >= streams[n][c.stream].next
  BY <1>3, <1>5, <1>6, MarkSound DEF Applied
<1> HIDE DEF st
<1>8. /\ table \in [Streams -> SoundStreams]
      /\ \A s \in Streams : table[s] = IF s = c.stream THEN st ELSE streams[n][s]
  BY <1>5, <1>6, <1>7
<1> HIDE DEF table
<1>9. x \in WalRecords
  BY <1>3, <1>5 DEF WalRecords
<1> HIDE DEF x
<1>10. TableInv' /\ \A m \in Nodes : streams'[m] = IF m = n THEN table ELSE streams[m]
  <2>1. wal[n] \in Seq(WalRecords)
    BY DEF Inv, TableInv
  <2>2. Append(wal[n], x) \in Seq(WalRecords)
    BY <1>9, <2>1, AppendProperties
  <2> QED
    BY <1>1, <1>8, <2>2 DEF Inv, TableInv
<1>11. GoodSnap(snap, raft[n].committed)
  <2>1. \A s \in Streams : SnapshotOf(table[s]) \in SoundStreams
    BY <1>8, SnapshotSound
  <2>2. raft[n].applied \in Nat /\ raft[n].applied <= raft[n].committed
    BY <1>2 DEF GoodRaft, RaftStates
  <2> QED
    BY <2>1, <2>2 DEF GoodSnap, TakeSnapshot, SnapshotIndex
<1> HIDE DEF snap
<1>12. CoreInv' /\ TurnStep(n, raft[n])
  <2>1. /\ raft' \in [Nodes -> RaftStates]
        /\ pc' \in [Nodes -> {"select", "apply", "open"}]
        /\ cursor' \in [Nodes -> Nat \ {0}]
        /\ GoodRaft(raft'[n]) /\ SameTurn(raft[n], raft'[n])
        /\ TurnStep(n, raft[n])
    <3>1. CoreInv /\ i + 1 \in Nat \ {0}
      BY <1>3 DEF Inv
    <3> QED
      BY <1>1, <1>2, <3>1, ProceedGood
  <2>2. GoodDisk(d, raft[n])
    <3>1. CASE SnapshotDue(n)
      <4>1. d = Stored(raft[n], snap, TRUE)
        BY <1>2, <3>1 DEF Stored, GoodDisk
      <4> QED
        BY <1>2, <1>11, <4>1, StoredGood
    <3>2. CASE ~SnapshotDue(n)
      BY <1>2, <3>2
    <3> QED
      BY <3>1, <3>2
  <2>3. disk' = [disk EXCEPT ![n] = d]
    BY <1>1 DEF Inv, CoreInv
  <2>4. \/ sent' = sent
        \/ \E t \in Terms, y \in Dispatches : GoodDispatch(y) /\ sent' = [sent EXCEPT ![t] = y]
    <3>1. GoodDispatch(Dispatched(raft[n], snap)) /\ raft[n].term \in Terms
      BY <1>2, <1>11, DispatchedGood DEF GoodRaft, RaftStates
    <3>2. Dispatched(raft[n], snap) \in Dispatches
      BY <3>1 DEF GoodDispatch
    <3> QED
      BY <1>1, <3>1, <3>2
  <2>5. \A m \in Nodes \ {n} : raft'[m] = raft[m]
    BY <2>1 DEF TurnStep
  <2>6. CoreInv /\ acked' \in [Terms -> [Nodes -> Nat]]
    BY <1>1 DEF Inv, CoreInv
  <2> HIDE DEF d
  <2> QED
    BY <1>2, <2>1, <2>2, <2>3, <2>4, <2>5, <2>6, NodeStepCore
<1>13. /\ pending' \in [Nodes -> SUBSET Commands]
       /\ \A m \in Nodes : pending'[m] = IF m = n THEN Resolve(pending[n], c.rid) ELSE pending[m]
       /\ \A m \in Nodes : pending'[m] \subseteq pending[m]
       /\ \A p \in pending'[n] : p.rid # c.rid
  BY <1>1 DEF Inv, ClientInv, Resolve
<1>14. \A w \in Writes : Told(w) =>
         Who(w) \in pending[n] /\ Who(w).lsn \in Nat
  BY DEF Inv, ClientInv, Commands
<1>15. reply' \in [Writes -> [status : Statuses, lsn : Nat]]
  <2>1. \A w \in Writes :
          (IF Told(w) THEN [status |-> "ok", lsn |-> Who(w).lsn] ELSE reply[w])
            \in [status : Statuses, lsn : Nat]
    <3> TAKE w \in Writes
    <3> HIDE DEF Told, Who
    <3> QED
      BY <1>14 DEF Inv, ClientInv, Statuses
  <2> HIDE DEF Told, Who
  <2> QED
    BY <1>1, <2>1
<1>16. \A w \in Writes : /\ Told(w) => reply'[w].status = "ok"
                         /\ ~Told(w) => reply'[w] = reply[w]
  <2> HIDE DEF Told, Who
  <2> QED
    BY <1>1
<1>17. \A m \in Nodes : \A p \in pending'[m] : p.w \in Writes /\ ~Told(p.w)
  <2> SUFFICES ASSUME NEW m \in Nodes, NEW p \in pending'[m], NEW q \in pending[n],
                      q.rid = c.rid, q.w = p.w
      PROVE  FALSE
    BY <1>13 DEF Inv, ClientInv, Commands
  <2>1. p \in pending[m]
    BY <1>13
  <2>2. m = n /\ p = q
    BY <2>1 DEF Inv, ClientInv, PendingUnique
  <2> QED
    BY <1>13, <2>2
<1> HIDE DEF Told, Who
<1>18. PendingInv'
  <2> SUFFICES ASSUME NEW m \in Nodes, NEW p \in pending'[m]
      PROVE  /\ p.lsn < streams'[m][p.stream].next
             /\ p.rid <= requestSeq[m]
             /\ reply'[p.w].status = "waiting"
    BY <1>1 DEF PendingInv
  <2>1. /\ p \in pending[m] /\ p.lsn \in Nat /\ p.stream \in Streams
        /\ p.lsn < streams[m][p.stream].next
        /\ p.rid <= requestSeq[m] /\ reply[p.w].status = "waiting"
    BY <1>13 DEF Inv, ClientInv, PendingInv, Commands
  <2>2. streams[m][p.stream].next \in Nat /\ st.next \in Nat
    BY <1>7, <2>1 DEF Inv, TableInv, SoundStreams, StreamStates
  <2>3. p.lsn < streams'[m][p.stream].next
    BY <1>7, <1>8, <1>10, <2>1, <2>2
  <2> QED
    BY <1>16, <1>17, <2>1, <2>3
<1>19. PendingUnique'
  BY <1>13 DEF Inv, ClientInv, PendingUnique
<1>20. WaitersPending'
  <2> SUFFICES ASSUME NEW w \in Writes, reply'[w].status = "waiting"
      PROVE  \E m \in Nodes : \E p \in pending'[m] : p.w = w
    BY DEF WaitersPending
  <2>1. ~Told(w) /\ reply[w].status = "waiting"
    BY <1>16
  <2>2. PICK m \in Nodes : \E p \in pending[m] : p.w = w
    BY <2>1 DEF Inv, ClientInv, WaitersPending
  <2>3. PICK p \in pending[m] : p.w = w
    BY <2>2
  <2>4. p \in pending'[m]
    BY <1>13, <2>1, <2>3 DEF Told, Resolve
  <2> QED
    BY <2>3, <2>4
<1>21. RoleInv'
  <2> SUFFICES ASSUME NEW m \in Nodes
      PROVE  /\ pc'[m] = "select" => observed[m] = raft'[m].role
             /\ pc'[m] = "open" => observed[m] = "follower" /\ raft'[m].role = "follower"
             /\ pending'[m] # {} =>
                  observed[m] = "leader" /\ (raft'[m].role = "leader" \/ pc'[m] = "apply")
    BY <1>1 DEF RoleInv
  <2>1. pending'[m] # {} => pending[m] # {}
    BY <1>13
  <2>2. CASE m = n
    BY <1>1, <1>12, <2>1, <2>2 DEF TurnStep, Inv, ClientInv, RoleInv
  <2>3. CASE m # n
    BY <1>12, <2>1, <2>3 DEF TurnStep, Inv, ClientInv, RoleInv
  <2> QED
    BY <2>2, <2>3
<1> QED
  BY <1>1, <1>10, <1>12, <1>13, <1>15, <1>18, <1>19, <1>20, <1>21 DEF Inv, ClientInv

-----------------------------------------------------------------------------
LEMMA NextInv == Inv /\ [Next]_vars => Inv'
<1> SUFFICES ASSUME Inv, [Next]_vars PROVE Inv'
  OBVIOUS
<1>1. CASE Next
  <2> SUFFICES ASSUME NEW n \in Nodes,
                      \/ Request(n) \/ Receive(n) \/ Engine(n) \/ Restart(n)
                      \/ \E Q \in Electorates, t \in Terms : BecomeLeader(n, Q, t)
      PROVE  Inv'
    BY <1>1 DEF Next
  <2>1. CASE Request(n)
    <3>1. ASSUME NEW w \in Writes, WriteNotLeader(n, w) PROVE Inv'
      BY <3>1, AnswerInv DEF WriteNotLeader
    <3>2. ASSUME NEW w \in Writes, NEW s \in Streams, NEW e \in Epochs,
                 WriteFenced(n, w, s, e)
          PROVE  Inv'
      BY <3>2, AnswerInv DEF WriteFenced
    <3> QED
      BY <2>1, <3>1, <3>2, WriteProposeInv, ConsumeInv DEF Request
  <2>2. CASE Receive(n)
    BY <2>2, StepHigherTermInv, StepAppendInv, StepSnapshotKnownInv,
       StepSnapshotInstallInv, StepAppendResponseInv DEF Receive
  <2>3. CASE Engine(n)
    BY <2>3, TickInv, ApplyAppendEntryInv, AdvanceInv, ReplayRecordInv, OpenDoneInv,
       RunGcInv DEF Engine
  <2>4. CASE Restart(n)
    BY <2>4, RestartInv
  <2>5. CASE \E Q \in Electorates, t \in Terms : BecomeLeader(n, Q, t)
    BY <2>5, BecomeLeaderInv
  <2> QED
    BY <2>1, <2>2, <2>3, <2>4, <2>5
<1>2. CASE UNCHANGED vars
  <2>1. CoreInv'
    BY <1>2, UnchangedCore DEF Inv, vars, netVars
  <2>2. TableInv'
    BY <1>2 DEF Inv, TableInv, vars
  <2>3. ClientInv'
    BY <1>2 DEF Inv, ClientInv, PendingInv, PendingUnique, WaitersPending, RoleInv, vars
  <2> QED
    BY <2>1, <2>2, <2>3 DEF Inv
<1> QED
  BY <1>1, <1>2

\* Inv is an invariant of the group.
THEOREM InvHolds == Spec => []Inv
  BY InitInv, NextInv, PTL DEF Spec

(***************************************************************************)
(* The files of the WAL: what the index points to has been written and is  *)
(* in a segment that is still there.                                       *)
(***************************************************************************)
FilesInv ==
  /\ gone \in [Nodes -> SUBSET Nat] /\ index \in [Nodes -> SUBSET Nat]
  /\ \A n \in Nodes : /\ gone[n] \subseteq 1..Len(wal[n])
                      /\ index[n] \subseteq (1..Len(wal[n])) \ gone[n]

\* one node's index and WAL move, the others' stay
LEMMA FilesStep ==
  ASSUME Inv, FilesInv, NEW n \in Nodes, NEW ix \in SUBSET Nat, NEW g \in SUBSET Nat,
         index' = [index EXCEPT ![n] = ix], gone' = [gone EXCEPT ![n] = g],
         \A m \in Nodes \ {n} : wal'[m] = wal[m],
         g \subseteq 1..Len(wal'[n]), ix \subseteq (1..Len(wal'[n])) \ g
  PROVE  FilesInv'
  BY DEF FilesInv

LEMMA RemovedAreOthers ==
  ASSUME NEW n \in Nodes
  PROVE  Truncated(n) \cap Removed(n) = {}
  BY DEF Removed

LEMMA FilesNext == Inv /\ FilesInv /\ [Next]_vars => FilesInv'
<1> SUFFICES ASSUME Inv, FilesInv, [Next]_vars PROVE FilesInv'
  OBVIOUS
<1>1. CASE UNCHANGED walVars
  BY <1>1 DEF walVars, FilesInv
<1>2. ASSUME NEW n \in Nodes, ApplyAppendEntry(n) PROVE FilesInv'
  <2> DEFINE k == Len(wal[n]) + 1
  <2>1. PICK x : /\ wal' = [wal EXCEPT ![n] = Append(@, x)]
                 /\ index' = [index EXCEPT ![n] = Inserted(@, wal[n], x, k)]
                 /\ gone' = gone
    BY <1>2 DEF ApplyAppendEntry
  <2>2. wal[n] \in Seq(WalRecords) /\ wal \in [Nodes -> Seq(WalRecords)]
    BY DEF Inv, TableInv
  <2>3. Len(wal[n]) \in Nat /\ Len(wal'[n]) = Len(wal[n]) + 1
    BY <2>1, <2>2
  <2>4. gone' = [gone EXCEPT ![n] = gone[n]] /\ gone[n] \in SUBSET Nat
    BY <2>1 DEF FilesInv
  <2>5. gone[n] \subseteq 1..Len(wal[n]) /\ index[n] \subseteq (1..Len(wal[n])) \ gone[n]
    BY DEF FilesInv
  <2>6. Inserted(index[n], wal[n], x, k) \subseteq (1..Len(wal'[n])) \ gone[n]
    BY <2>3, <2>5 DEF Inserted
  <2>7. gone[n] \subseteq 1..Len(wal'[n])
    BY <2>3, <2>5
  <2>8. \A m \in Nodes \ {n} : wal'[m] = wal[m]
    BY <2>1, <2>2
  <2>9. Inserted(index[n], wal[n], x, k) \in SUBSET Nat
    BY <2>3, <2>6
  <2> HIDE DEF k
  <2> QED
    BY <2>1, <2>4, <2>6, <2>7, <2>8, <2>9, FilesStep
<1>3. ASSUME NEW n \in Nodes, ReplayRecord(n) PROVE FilesInv'
  <2>1. PICK k \in ToReplay(n) :
          /\ index' = [index EXCEPT ![n] = Inserted(@, wal[n], wal[n][k], k)]
          /\ wal' = wal /\ gone' = gone
    BY <1>3, ReplayedIsThere DEF ReplayRecord
  <2>2. gone' = [gone EXCEPT ![n] = gone[n]] /\ gone[n] \in SUBSET Nat
    BY <2>1 DEF FilesInv
  <2>3. k \in 1..Len(wal[n]) /\ k \notin gone[n]
    BY <2>1 DEF ToReplay, Inv, CoreInv
  <2>4. gone[n] \subseteq 1..Len(wal[n]) /\ index[n] \subseteq (1..Len(wal[n])) \ gone[n]
    BY DEF FilesInv
  <2>5. Inserted(index[n], wal[n], wal[n][k], k) \subseteq (1..Len(wal'[n])) \ gone[n]
    BY <2>1, <2>3, <2>4 DEF Inserted
  <2>6. Inserted(index[n], wal[n], wal[n][k], k) \in SUBSET Nat
    BY <2>5
  <2> QED
    BY <2>1, <2>2, <2>4, <2>5, <2>6, FilesStep
<1>4. ASSUME NEW n \in Nodes, RunGc(n) PROVE FilesInv'
  <2>1. /\ index' = [index EXCEPT ![n] = Truncated(n)]
        /\ gone' = [gone EXCEPT ![n] = gone[n] \cup Removed(n)] /\ wal' = wal
    BY <1>4 DEF RunGc
  <2>2. gone[n] \subseteq 1..Len(wal[n]) /\ index[n] \subseteq (1..Len(wal[n])) \ gone[n]
    BY DEF FilesInv
  <2>3. gone[n] \cup Removed(n) \subseteq 1..Len(wal[n])
    BY <2>2 DEF Removed
  <2>4. Truncated(n) \subseteq (1..Len(wal[n])) \ (gone[n] \cup Removed(n))
    BY <2>2, RemovedAreOthers DEF Truncated
  <2>5. Truncated(n) \in SUBSET Nat /\ gone[n] \cup Removed(n) \in SUBSET Nat
    BY <2>3, <2>4
  <2> QED
    BY <2>1, <2>3, <2>4, <2>5, FilesStep
<1>5. ASSUME NEW n \in Nodes, Restart(n) PROVE FilesInv'
  <2>1. /\ index' = [index EXCEPT ![n] = {}] /\ gone' = gone /\ wal' = wal
    BY <1>5 DEF Restart
  <2>2. gone' = [gone EXCEPT ![n] = gone[n]] /\ gone[n] \in SUBSET Nat
    BY <2>1 DEF FilesInv
  <2> QED
    BY <2>1, <2>2, FilesStep DEF FilesInv
<1>6. ASSUME NEW n \in Nodes,
             \/ Request(n) \/ Receive(n) \/ Tick(n) \/ Advance(n) \/ OpenDone(n)
             \/ \E Q \in Electorates, t \in Terms : BecomeLeader(n, Q, t)
      PROVE  UNCHANGED walVars
  BY <1>6 DEF Request, WriteNotLeader, WriteFenced, WritePropose, Consume, Receive,
              StepHigherTerm, StepAppend, StepSnapshotKnown, StepSnapshotInstall,
              StepAppendResponse, Tick, Advance, OpenDone, BecomeLeader, engineVars, walVars
<1>7. CASE UNCHANGED vars
  BY <1>1, <1>7 DEF vars, walVars
<1> QED
  BY <1>1, <1>2, <1>3, <1>4, <1>5, <1>6, <1>7 DEF Next, Engine

LEMMA FilesInit == Init => FilesInv
  BY DEF Init, FilesInv

\* FilesInv: run_gc removes no segment that the index leads into, and neither an
\* append nor a replay indexes a record that is gone.
THEOREM FilesHold == Spec => []FilesInv
  BY InvHolds, FilesInit, FilesNext, PTL DEF Spec

\* TypeOK: every variable keeps its type, the tail caches never outgrow their
\* limit, the index never points into a segment run_gc has removed, and every
\* CHOOSE and log access of the engine is defined.
THEOREM TypeCorrect == Spec => []TypeOK
<1>1. Inv /\ FilesInv => TypeOK
  <2> SUFFICES ASSUME Inv, FilesInv PROVE TypeOK
    OBVIOUS
  <2>1. streams \in [Nodes -> [Streams -> StreamStates]]
    BY DEF Inv, TableInv, SoundStreams
  <2> QED
    BY <2>1 DEF Inv, CoreInv, TableInv, ClientInv, FilesInv, TypeOK, Dispatches
<1> QED
  BY <1>1, InvHolds, FilesHold, PTL

\* TablesSound: no sequence of appends, commits, rollbacks, snapshots and
\* replays lets the commit position of a stream pass its next position.
THEOREM TablesAreSound == Spec => []TablesSound
<1>1. Inv => TablesSound
  BY DEF Inv, TableInv, SoundStreams, TablesSound
<1> QED
  BY <1>1, InvHolds, PTL

\* PendingDistinct: two clients waiting at one node hold different request ids
\* and different positions, also after allocate_append reuses a position that
\* fail_pending_writes_not_leader rolled back.
THEOREM PendingAreDistinct == Spec => []PendingDistinct
<1>1. Inv => PendingDistinct
  BY DEF Inv, ClientInv, PendingInv, PendingUnique, PendingDistinct
<1> QED
  BY <1>1, InvHolds, PTL

\* NoForgottenClient: whoever waits is held by a node that leads or is about
\* to fail its pending writes.
THEOREM NoClientForgotten == Spec => []NoForgottenClient
<1>1. Inv => NoForgottenClient
  BY DEF Inv, ClientInv, WaitersPending, RoleInv, NoForgottenClient, IsLeader
<1> QED
  BY <1>1, InvHolds, PTL

(***************************************************************************)
(* A step changes the reply of a write only while it is unsent or waiting. *)
(***************************************************************************)
LEMMA FinalStays ==
  ASSUME Inv, [Next]_vars, NEW w \in Writes, reply[w].status \in Final
  PROVE  reply'[w] = reply[w]
<1> USE DEF Final
<1>1. \A n \in Nodes : \A p \in pending[n] : p.w # w
  BY DEF Inv, ClientInv, PendingInv
<1>2. ASSUME NEW v \in Writes, NEW status, NextWrite(v), Answer(v, status)
      PROVE  reply'[w] = reply[w]
  BY <1>2 DEF NextWrite, Answer, Inv, ClientInv
<1>3. ASSUME NEW n \in Nodes, NEW status, reply' = FailedReplies(n, status)
      PROVE  reply'[w] = reply[w]
  BY <1>1, <1>3 DEF FailedReplies
<1>4. CASE UNCHANGED vars
  BY <1>4 DEF vars
<1>5. CASE Next
  <2> SUFFICES ASSUME NEW n \in Nodes,
                      \/ Request(n) \/ Receive(n) \/ Engine(n) \/ Restart(n)
                      \/ \E Q \in Electorates, t \in Terms : BecomeLeader(n, Q, t)
      PROVE  reply'[w] = reply[w]
    BY <1>5 DEF Next
  <2>1. CASE Request(n)
    <3>1. ASSUME NEW v \in Writes, WriteNotLeader(n, v) PROVE reply'[w] = reply[w]
      BY <1>2, <3>1 DEF WriteNotLeader
    <3>2. ASSUME NEW v \in Writes, NEW s \in Streams, NEW e \in Epochs,
                 WriteFenced(n, v, s, e) \/ WritePropose(n, v, s, e)
          PROVE  reply'[w] = reply[w]
      BY <1>2, <3>2 DEF WriteFenced, WritePropose
    <3>3. ASSUME NEW s \in Streams, NEW o \in ConsumerOffsets, Consume(n, s, o)
          PROVE  reply'[w] = reply[w]
      BY <3>3 DEF Consume
    <3> QED
      BY <2>1, <3>1, <3>2, <3>3 DEF Request
  <2>2. CASE Receive(n)
    BY <2>2 DEF Receive, StepHigherTerm, StepAppend, StepSnapshotKnown,
                StepSnapshotInstall, StepAppendResponse
  <2>3. CASE Engine(n)
    <3>1. CASE Tick(n) \/ ReplayRecord(n) \/ OpenDone(n) \/ RunGc(n)
      BY <3>1 DEF Tick, ReplayRecord, OpenDone, RunGc
    <3>2. CASE ApplyAppendEntry(n)
      BY <1>1, <3>2 DEF ApplyAppendEntry
    <3>3. CASE Advance(n)
      BY <1>3, <3>3 DEF Advance, FailPending
    <3> QED
      BY <2>3, <3>1, <3>2, <3>3 DEF Engine
  <2>4. CASE Restart(n)
    BY <1>3, <2>4 DEF Restart
  <2>5. CASE \E Q \in Electorates, t \in Terms : BecomeLeader(n, Q, t)
    BY <2>5 DEF BecomeLeader
  <2> QED
    BY <2>1, <2>2, <2>3, <2>4, <2>5
<1> QED
  BY <1>4, <1>5

\* AnsweredOnce: no client gets a second answer, neither from the node that
\* answered it nor from another one.
THEOREM ClientsAnsweredOnce == Spec => AnsweredOnce
<1>1. Inv /\ [Next]_vars =>
        [\A w \in Writes : reply[w].status \in Final => reply'[w] = reply[w]]_vars
  BY FinalStays
<1> QED
  BY <1>1, InvHolds, PTL DEF Spec, AnsweredOnce
=============================================================================
