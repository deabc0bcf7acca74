----------------------------- MODULE RaftStorage -----------------------------
(***************************************************************************)
(* PersistentStorage (raft/storage.rs) under drive_ready: the file behind  *)
(* one node's raft-rs, the calls that change it, in the order drive_ready  *)
(* makes them, and a crash of the process between any two of them.         *)
(*                                                                         *)
(* Every call ends in persist(), which replaces the file by a rename, so   *)
(* the state in memory and the file are the same between two calls.  An    *)
(* entry is its index and term.  raft-rs (external) is what it believes    *)
(* the log to be; the entries below first_index are kept there only for    *)
(* the properties.                                                         *)
(***************************************************************************)
EXTENDS Integers, Sequences

CONSTANTS
  MaxTerm,           \* bound: terms
  MaxIndex,          \* bound: length of the log
  MaxCrashes,        \* bound: crashes
  SnapshotInterval   \* SNAPSHOT_INTERVAL

ASSUME StorageAssumption ==
  /\ {MaxTerm, MaxIndex, SnapshotInterval} \subseteq Nat \ {0}
  /\ MaxCrashes \in Nat

VARIABLES
  st,      \* PersistentState: hard state, entries, snapshot
  raft,    \* the RawNode: log, stable and committed and applied positions
  ready,   \* the snapshot and the first entry of the Ready being handled
  pc,      \* the next call of drive_ready
  known,   \* the committed entries this node ever learned of (history)
  crashes

vars == <<st, raft, ready, pc, known, crashes>>

Terms == 1..MaxTerm
Smaller(a, b) == IF a <= b THEN a ELSE b
Larger(a, b) == IF a >= b THEN a ELSE b

-----------------------------------------------------------------------------
(***************************************************************************)
(* PersistentState.                                                        *)
(***************************************************************************)
PersistentState(term, commit, entries, snap) ==
  [term |-> term, commit |-> commit, entries |-> entries, snap |-> snap]

FirstIndex(s) == IF s.entries = <<>> THEN s.snap.index + 1 ELSE s.entries[1].index

LastIndex(s) ==
  IF s.entries = <<>> THEN s.snap.index ELSE s.entries[Len(s.entries)].index

\* term() answers for the snapshot's index, for the one before the first
\* entry, and for the entries; anything else is Compacted or Unavailable
HasTerm(s, i) == i = s.snap.index \/ i \in (FirstIndex(s) - 1)..LastIndex(s)

Term(s, i) ==
  IF i = s.snap.index \/ i < FirstIndex(s) THEN s.snap.term
  ELSE s.entries[i - FirstIndex(s) + 1].term

HardStateSwapped(s, term, commit) ==  \* mutant
  PersistentState(commit, term, s.entries, s.snap)

SetHardState(s, term, commit) ==
  PersistentState(term, commit, s.entries, s.snap)

KeepOverlap(s, from) == s.entries  \* mutant: the overlap is not truncated

Kept(s, from) ==
  SubSeq(s.entries, 1, Smaller(from - FirstIndex(s), Len(s.entries)))

Appended(s, ents) ==
  PersistentState(s.term, s.commit, Kept(s, ents[1].index) \o ents, s.snap)

SnapshotTermWins(s, snap) == snap.term  \* mutant: no max

TermWithSnapshot(s, snap) == Larger(s.term, snap.term)

WithSnapshot(s, snap) ==
  PersistentState(TermWithSnapshot(s, snap), snap.index, <<>>, snap)

Snapshotted(s, i) ==
  PersistentState(s.term, s.commit, s.entries, [index |-> i, term |-> Term(s, i)])

CompactedTooFar(s, to) ==  \* mutant: off by one
  PersistentState(s.term, s.commit,
    SubSeq(s.entries, to - FirstIndex(s) + 2, Len(s.entries)), s.snap)

Compacted(s, to) ==
  IF to <= FirstIndex(s) THEN s
  ELSE PersistentState(s.term, s.commit,
         SubSeq(s.entries, to - FirstIndex(s) + 1, Len(s.entries)), s.snap)

-----------------------------------------------------------------------------
(***************************************************************************)
(* raft-rs.  A fresh store holds the bootstrap entry, committed.           *)
(***************************************************************************)
Fresh ==
  PersistentState(1, 1, <<[index |-> 1, term |-> 1]>>, [index |-> 0, term |-> 0])

\* RawNode::new on what the store answers
Loaded(s, old) ==
  [term |-> s.term,
   log |-> [i \in 1..LastIndex(s) |->
              IF i < FirstIndex(s) THEN old[i] ELSE s.entries[i - FirstIndex(s) + 1].term],
   persisted |-> LastIndex(s), committed |-> s.commit,
   since |-> FirstIndex(s) - 1, applied |-> FirstIndex(s) - 1]

NoReady == [snap |-> 0, from |-> 0]

Init ==
  /\ st = Fresh /\ raft = Loaded(Fresh, <<>>)
  /\ ready = NoReady /\ pc = "idle" /\ known = <<1>> /\ crashes = 0

\* logs a leader of term t can have: the bootstrap entry, then entries of later
\* terms that never fall, and what is committed is in them
LeaderLogs(t) ==
  {l \in UNION {[1..n -> 1..t] : n \in 1..MaxIndex} :
     /\ l[1] = 1 /\ \A i \in 2..Len(l) : l[i] > 1 /\ l[i - 1] <= l[i]
     /\ \A i \in 1..Smaller(Len(l), Len(known)) : l[i] = known[i]}

(***************************************************************************)
(* The messages of one turn: the log is brought to l, of which the entries *)
(* from `from' on are new to the store, and c is known to be committed.    *)
(* With a snapshot, everything up to it is replaced.                       *)
(***************************************************************************)
Learn(l, c) == known' = IF c > Len(known) THEN SubSeq(l, 1, c) ELSE known

Stepped(t, l, c, persisted, since) ==
  [term |-> t, log |-> l, persisted |-> persisted, committed |-> c,
   since |-> Larger(since, Smaller(c, persisted)), applied |-> raft.applied]

\* l and the log are the same up to k, and not further
SharedPrefix(l, k) ==
  /\ \A i \in 1..k : l[i] = raft.log[i]
  /\ k < Smaller(Len(l), Len(raft.log)) => l[k + 1] # raft.log[k + 1]

\* SetHardstate: ready() is taken and the hard state stored
Take(t, l, c, r) ==
  /\ st' = SetHardState(st, t, c)
  /\ raft' = r
  /\ Learn(l, c)
  /\ UNCHANGED crashes

StepAppend(t, l, c) ==
  /\ pc = "idle"
  /\ t >= raft.term /\ l \in LeaderLogs(t)
  /\ c \in raft.committed..Len(l)
  /\ \E k \in raft.committed..Smaller(Len(l) - 1, Len(raft.log)) :
       /\ SharedPrefix(l, k)
       /\ Take(t, l, c, Stepped(t, l, c, Smaller(raft.persisted, k), raft.since))
       /\ ready' = [snap |-> 0, from |-> k + 1]
  /\ pc' = "append"

StepCommit(t, c) ==
  /\ pc = "idle"
  /\ t >= raft.term /\ c \in raft.committed..Len(raft.log)
  /\ raft.log \in LeaderLogs(t)
  /\ t > raft.term \/ c > raft.committed \/ raft.since < Smaller(c, raft.persisted)
  /\ Take(t, raft.log, c, Stepped(t, raft.log, c, raft.persisted, raft.since))
  /\ ready' = NoReady
  /\ pc' = "apply"

StepSnapshot(t, l, i, c) ==
  /\ pc = "idle"
  /\ t >= raft.term /\ l \in LeaderLogs(t)
  /\ i \in (raft.committed + 1)..Len(l) /\ c \in i..Len(l)
  /\ ~(i <= Len(raft.log) /\ raft.log[i] = l[i])
  /\ Take(t, l, c, Stepped(t, l, c, Smaller(raft.persisted, i), i))
  /\ ready' = [snap |-> i, from |-> IF i < Len(l) THEN i + 1 ELSE 0]
  /\ pc' = "snapshot"

-----------------------------------------------------------------------------
(***************************************************************************)
(* The rest of drive_ready, call by call.                                  *)
(***************************************************************************)
ApplySnapshot ==
  /\ pc = "snapshot"
  /\ st' = WithSnapshot(st, [index |-> ready.snap, term |-> raft.log[ready.snap]])
  /\ pc' = IF ready.from > 0 THEN "append" ELSE "apply"
  /\ UNCHANGED <<raft, ready, known, crashes>>

NewEntries ==
  [j \in 1..(Len(raft.log) - ready.from + 1) |->
     [index |-> ready.from + j - 1, term |-> raft.log[ready.from + j - 1]]]

AppendEntries ==
  /\ pc = "append"
  /\ st' = Appended(st, NewEntries)
  /\ pc' = "apply"
  /\ UNCHANGED <<raft, ready, known, crashes>>

\* the entry with which a leader starts its term carries no data
HasData(i) == i > 1 /\ raft.log[i] = raft.log[i - 1]

\* maybe_snapshot_raft_state, reached when some entry of the batch has data
Due ==
  /\ \E i \in (Larger(raft.applied, ready.snap) + 1)..raft.since : HasData(i)
  /\ raft.applied >= st.snap.index + SnapshotInterval

LastStored == LastIndex(st)  \* mutant: the end of the log, applied or not

SnapshotPoint == raft.applied

CreateSnapshot ==
  /\ pc = "apply" /\ Due
  /\ st' = Snapshotted(st, SnapshotPoint)
  /\ pc' = "compact"
  /\ UNCHANGED <<raft, ready, known, crashes>>

Compact ==
  /\ pc = "compact"
  /\ st' = Compacted(st, st.snap.index + 1)
  /\ pc' = "apply"
  /\ UNCHANGED <<raft, ready, known, crashes>>

\* advance(): what was handed out is stable and applied
Advance ==
  /\ pc = "apply" /\ ~Due
  /\ raft' = [term |-> raft.term, log |-> raft.log, persisted |-> Len(raft.log),
              committed |-> raft.committed,
              since |-> Larger(raft.since, Smaller(raft.committed, Len(raft.log))),
              applied |-> raft.since]
  /\ ready' = NoReady
  /\ pc' = "idle"
  /\ UNCHANGED <<st, known, crashes>>

(***************************************************************************)
(* The process dies, and PersistentStorage::open and RawNode::new follow.  *)
(* raft-rs panics when the hard state's commit is outside the log.         *)
(***************************************************************************)
Loadable(s) == s.commit \in (FirstIndex(s) - 1)..LastIndex(s)

Crash ==
  /\ pc # "failed" /\ crashes < MaxCrashes
  /\ crashes' = crashes + 1
  /\ IF Loadable(st) THEN raft' = Loaded(st, raft.log) /\ pc' = "idle"
                     ELSE raft' = raft /\ pc' = "failed"
  /\ ready' = NoReady
  /\ UNCHANGED <<st, known>>

Next ==
  \/ \E t \in Terms : \E l \in LeaderLogs(t), c \in 1..MaxIndex :
       \/ StepAppend(t, l, c)
       \/ \E i \in 1..MaxIndex : StepSnapshot(t, l, i, c)
  \/ \E t \in Terms, c \in 1..MaxIndex : StepCommit(t, c)
  \/ ApplySnapshot \/ AppendEntries \/ CreateSnapshot \/ Compact \/ Advance
  \/ Crash

Spec == Init /\ [][Next]_vars

-----------------------------------------------------------------------------
StoredEntries == [index : 1..MaxIndex, term : Terms]

\* Types: every field of the file and of raft-rs stays in its range.
TypeOK ==
  /\ st \in [term : Terms, commit : 0..MaxIndex, entries : Seq(StoredEntries),
             snap : [index : 0..MaxIndex, term : 0..MaxTerm]]
  /\ raft.log \in Seq(Terms) /\ raft.term \in Terms
  /\ {raft.persisted, raft.committed, raft.since, raft.applied} \subseteq 0..MaxIndex
  /\ ready \in [snap : 0..MaxIndex, from : 0..MaxIndex]
  /\ pc \in {"idle", "append", "snapshot", "apply", "compact", "failed"}
  /\ known \in Seq(Terms) /\ crashes \in 0..MaxCrashes

\* Snapshot and entries make one log without a hole, at every crash point: the
\* entries are consecutive and begin no later than after the snapshot.
OneLog ==
  /\ \A j \in 1..Len(st.entries) : st.entries[j].index = FirstIndex(st) + j - 1
  /\ FirstIndex(st) <= st.snap.index + 1 /\ st.snap.index <= LastIndex(st)

\* Once drive_ready is over, the file holds exactly the log raft-rs was told
\* is stored.
StoredIsBelieved ==
  pc = "idle" =>
    /\ st.term = raft.term /\ LastIndex(st) = Len(raft.log)
    /\ \A i \in FirstIndex(st)..LastIndex(st) : Term(st, i) = raft.log[i]
    /\ st.snap.index > 0 => st.snap.term = raft.log[st.snap.index]

\* None of the calls that return an error can do so: append never meets a
\* compacted index, the snapshot's term is found, and compact stays in the log.
CallsSucceed ==
  /\ pc = "append" => ready.from >= FirstIndex(st) /\ ready.from <= LastIndex(st) + 1
  /\ pc = "apply" /\ Due => HasTerm(st, SnapshotPoint)
  /\ pc = "compact" => st.snap.index <= LastIndex(st)

\* The term a node has promised to obey never goes back, restarts included.
TermNeverBack == [][st'.term >= st.term]_vars

\* What a node takes to be committed is committed, restarts included.
CommittedIsCommitted ==
  \A i \in 1..Smaller(raft.committed, Len(raft.log)) :
    i <= Len(known) => raft.log[i] = known[i]
=============================================================================
