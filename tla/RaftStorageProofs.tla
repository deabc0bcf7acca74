------------------------- MODULE RaftStorageProofs -------------------------
(***************************************************************************)
(* Theorems about RaftStorage, for any number of terms, entries and        *)
(* crashes and any snapshot interval.                                      *)
(***************************************************************************)
EXTENDS RaftStorage, SequenceTheorems, TLAPS

(***************************************************************************)
(* What the file says of an entry it holds.                                *)
(***************************************************************************)
TermAt(s, i) == s.entries[i - FirstIndex(s) + 1].term

(***************************************************************************)
(* raft-rs: its log and the positions in it.  What is handed out is        *)
(* applied before more is; a commit is stored no later than it is handed   *)
(* out.  Only what was learned to be committed is handed out.              *)
(***************************************************************************)
RaftTypes ==
  /\ raft.term \in Terms /\ raft.log \in Seq(Terms) /\ Len(raft.log) \in 0..MaxIndex
  /\ raft.persisted \in 0..Len(raft.log) /\ raft.committed \in 0..Len(raft.log)
  /\ raft.since \in 0..raft.committed /\ raft.applied \in 0..raft.since
  /\ known \in Seq(Terms) /\ raft.since <= Len(known)

Positions ==
  /\ st.term = raft.term
  /\ raft.applied <= st.commit /\ st.commit <= raft.committed
  /\ st.snap.index <= st.commit
  /\ st.snap.index <= Len(known)

\* the log and the history agree up to j
AgreeTo(j) == \A i \in 1..j : raft.log[i] = known[i]

(***************************************************************************)
(* The part of the file that stands for the snapshot is what was committed *)
(* there, although, after a crash, the rest of it need not be.             *)
(***************************************************************************)
SnapshotSound ==
  /\ st.snap.index <= Len(raft.log)
  /\ st.snap.index > 0 => st.snap.term = known[st.snap.index]
  /\ \A i \in FirstIndex(st)..st.snap.index : TermAt(st, i) = known[i]
  /\ AgreeTo(st.snap.index) /\ AgreeTo(raft.since)

(***************************************************************************)
(* The stations of drive_ready.                                            *)
(***************************************************************************)
Busy ==
  pc \in {"append", "snapshot", "apply", "compact"} =>
    /\ raft.since <= st.commit /\ raft.committed <= Len(known)
    /\ AgreeTo(Smaller(Len(raft.log), Len(known)))
    /\ \A i \in 1..Len(raft.log) : raft.log[i] <= raft.term

\* the file and the log agree from the file's first entry up to j
StoredTo(j) == \A i \in FirstIndex(st)..j : TermAt(st, i) = raft.log[i]

Stations ==
  /\ pc \in {"idle", "apply", "compact"} =>
       LastIndex(st) = Len(raft.log) /\ StoredTo(Len(raft.log))
  /\ pc = "append" =>
       /\ ready.from \in FirstIndex(st)..(LastIndex(st) + 1) /\ ready.from <= Len(raft.log)
       /\ StoredTo(ready.from - 1)
  /\ pc = "snapshot" =>
       /\ ready.snap \in 1..raft.committed /\ raft.since = ready.snap
       /\ ready.from = IF ready.snap < Len(raft.log) THEN ready.snap + 1 ELSE 0

StorageInv ==
  /\ TypeOK /\ OneLog /\ RaftTypes /\ Positions /\ SnapshotSound /\ Busy /\ Stations

-----------------------------------------------------------------------------
(***************************************************************************)
(* Files with consecutive entries.                                         *)
(***************************************************************************)
Contiguous(s) ==
  /\ \A j \in 1..Len(s.entries) : s.entries[j].index = FirstIndex(s) + j - 1
  /\ FirstIndex(s) <= s.snap.index + 1 /\ s.snap.index <= LastIndex(s)

LEMMA Bounds ==
  /\ MaxTerm \in Nat \ {0} /\ MaxIndex \in Nat \ {0} /\ SnapshotInterval \in Nat \ {0}
  /\ MaxCrashes \in Nat /\ Terms = 1..MaxTerm
  BY StorageAssumption DEF Terms

LEMMA EntryFields ==
  \A e \in StoredEntries : e.index \in 1..MaxIndex /\ e.term \in Terms
  BY DEF StoredEntries

LEMMA StoreShape ==
  ASSUME NEW s, s.entries \in Seq(StoredEntries), s.snap.index \in 0..MaxIndex, Contiguous(s)
  PROVE  /\ FirstIndex(s) \in Nat \ {0} /\ LastIndex(s) \in 0..MaxIndex
         /\ LastIndex(s) = FirstIndex(s) - 1 + Len(s.entries) /\ Len(s.entries) \in Nat
         /\ FirstIndex(s) - 1 <= s.snap.index /\ s.snap.index <= LastIndex(s)
         /\ s.entries = <<>> => FirstIndex(s) = s.snap.index + 1
         /\ \A i \in FirstIndex(s)..LastIndex(s) :
              i - FirstIndex(s) + 1 \in 1..Len(s.entries) /\ TermAt(s, i) \in Terms
<1>1. Len(s.entries) \in Nat /\ MaxIndex \in Nat
  BY Bounds
<1>2. CASE s.entries = <<>>
  <2>1. FirstIndex(s) = s.snap.index + 1 /\ LastIndex(s) = s.snap.index /\ Len(s.entries) = 0
    BY <1>2 DEF FirstIndex, LastIndex
  <2> QED
    BY <1>1, <2>1
<1>3. CASE s.entries # <<>>
  <2>1. FirstIndex(s) = s.entries[1].index /\ LastIndex(s) = s.entries[Len(s.entries)].index
    BY <1>3 DEF FirstIndex, LastIndex
  <2>2. Len(s.entries) \in Nat \ {0}
    BY <1>1, <1>3, EmptySeq
  <2>3. \A j \in 1..Len(s.entries) : s.entries[j].index \in 1..MaxIndex /\ s.entries[j].term \in Terms
    BY EntryFields
  <2>4. LastIndex(s) = FirstIndex(s) + Len(s.entries) - 1
    BY <2>1, <2>2 DEF Contiguous
  <2>5. FirstIndex(s) \in 1..MaxIndex /\ LastIndex(s) \in 1..MaxIndex
    BY <2>1, <2>2, <2>3
  <2>6. FirstIndex(s) <= s.snap.index + 1 /\ s.snap.index <= LastIndex(s)
    BY DEF Contiguous
  <2>7. \A i \in FirstIndex(s)..LastIndex(s) :
          i - FirstIndex(s) + 1 \in 1..Len(s.entries) /\ TermAt(s, i) \in Terms
    <3>1. \A i \in FirstIndex(s)..LastIndex(s) : i - FirstIndex(s) + 1 \in 1..Len(s.entries)
      BY <2>2, <2>4, <2>5
    <3> QED
      BY <2>3, <3>1 DEF TermAt
  <2>8. FirstIndex(s) - 1 <= s.snap.index /\ LastIndex(s) = FirstIndex(s) - 1 + Len(s.entries)
    BY <1>1, <2>2, <2>4, <2>5, <2>6
  <2> QED
    BY <1>1, <1>3, <2>5, <2>6, <2>7, <2>8
<1> QED
  BY <1>2, <1>3

LEMMA MakeStore ==
  ASSUME NEW s, NEW f \in Nat \ {0}, s.entries \in Seq(StoredEntries), s.snap.index \in 0..MaxIndex,
         \A j \in 1..Len(s.entries) : s.entries[j].index = f + j - 1,
         s.entries = <<>> => f = s.snap.index + 1,
         f <= s.snap.index + 1, s.snap.index <= f - 1 + Len(s.entries)
  PROVE  Contiguous(s) /\ FirstIndex(s) = f /\ LastIndex(s) = f - 1 + Len(s.entries)
<1>1. Len(s.entries) \in Nat /\ MaxIndex \in Nat
  BY Bounds
<1>2. CASE s.entries = <<>>
  <2>1. FirstIndex(s) = f /\ LastIndex(s) = s.snap.index /\ Len(s.entries) = 0
    BY <1>2 DEF FirstIndex, LastIndex
  <2> QED
    BY <1>1, <1>2, <2>1 DEF Contiguous
<1>3. CASE s.entries # <<>>
  <2>1. FirstIndex(s) = s.entries[1].index /\ LastIndex(s) = s.entries[Len(s.entries)].index
    BY <1>3 DEF FirstIndex, LastIndex
  <2>2. Len(s.entries) \in Nat \ {0}
    BY <1>1, <1>3, EmptySeq
  <2>3. FirstIndex(s) = f
    BY <2>1, <2>2
  <2>4. LastIndex(s) = f + Len(s.entries) - 1
    <3>1. Len(s.entries) \in 1..Len(s.entries)
      BY <2>2
    <3> QED
      BY <2>1, <3>1
  <2> QED
    BY <1>1, <2>2, <2>3, <2>4 DEF Contiguous
<1> QED
  BY <1>2, <1>3

LEMMA FunctionIsSeq ==
  ASSUME NEW S, NEW n \in Nat, NEW l \in [1..n -> S]
  PROVE  l \in Seq(S) /\ Len(l) = n
  OBVIOUS

LEMMA StateFields ==
  ASSUME NEW t, NEW c, NEW e, NEW p
  PROVE  /\ PersistentState(t, c, e, p).term = t /\ PersistentState(t, c, e, p).commit = c
         /\ PersistentState(t, c, e, p).entries = e /\ PersistentState(t, c, e, p).snap = p
  BY DEF PersistentState

\* what an action need not look at again
LEMMA SameStore ==
  ASSUME NEW s, NEW r, r.entries = s.entries, r.snap = s.snap
  PROVE  /\ FirstIndex(r) = FirstIndex(s) /\ LastIndex(r) = LastIndex(s)
         /\ Contiguous(s) => Contiguous(r)
         /\ \A i : TermAt(r, i) = TermAt(s, i)
  BY DEF FirstIndex, LastIndex, Contiguous, TermAt

Stores ==
  [term : Terms, commit : 0..MaxIndex, entries : Seq(StoredEntries),
   snap : [index : 0..MaxIndex, term : 0..MaxTerm]]

LEMMA StoreFields ==
  \A s \in Stores :
    /\ s.term \in Terms /\ s.commit \in 0..MaxIndex /\ s.entries \in Seq(StoredEntries)
    /\ s.snap \in [index : 0..MaxIndex, term : 0..MaxTerm]
    /\ s.snap.index \in 0..MaxIndex /\ s.snap.term \in 0..MaxTerm
  BY DEF Stores

LEMMA MakeStored ==
  \A t \in Terms, c \in 0..MaxIndex, e \in Seq(StoredEntries),
     p \in [index : 0..MaxIndex, term : 0..MaxTerm] : PersistentState(t, c, e, p) \in Stores
  BY DEF PersistentState, Stores

LEMMA InvFacts ==
  StorageInv => /\ st \in Stores /\ Contiguous(st) /\ RaftTypes /\ Positions /\ SnapshotSound
                /\ Busy /\ Stations
                /\ FirstIndex(st) \in Nat \ {0} /\ LastIndex(st) \in 0..MaxIndex
                /\ FirstIndex(st) - 1 <= st.snap.index /\ st.snap.index <= LastIndex(st)
                /\ st.snap.index \in 0..MaxIndex
<1> SUFFICES ASSUME StorageInv
             PROVE  /\ st \in Stores /\ Contiguous(st) /\ RaftTypes /\ Positions /\ SnapshotSound
                    /\ Busy /\ Stations
                    /\ FirstIndex(st) \in Nat \ {0} /\ LastIndex(st) \in 0..MaxIndex
                    /\ FirstIndex(st) - 1 <= st.snap.index /\ st.snap.index <= LastIndex(st)
                    /\ st.snap.index \in 0..MaxIndex
  OBVIOUS
<1>1. st \in Stores /\ Contiguous(st)
  BY DEF StorageInv, TypeOK, OneLog, Stores, Contiguous
<1>2. st.entries \in Seq(StoredEntries) /\ st.snap.index \in 0..MaxIndex
  BY <1>1, StoreFields
<1> QED
  BY <1>1, <1>2, StoreShape DEF StorageInv

LEMMA LeaderFacts ==
  ASSUME NEW t \in Terms, NEW l \in LeaderLogs(t)
  PROVE  /\ l \in Seq(Terms) /\ Len(l) \in 1..MaxIndex /\ \A i \in 1..Len(l) : l[i] <= t
         /\ \A i \in 1..Smaller(Len(l), Len(known)) : l[i] = known[i]
<1>1. PICK n \in 1..MaxIndex : l \in [1..n -> 1..t]
  BY DEF LeaderLogs
<1>2. n \in Nat /\ t \in Nat /\ t <= MaxTerm /\ Terms = 1..MaxTerm /\ MaxTerm \in Nat
  BY Bounds
<1>3. \A i \in 1..n : l[i] \in 1..t /\ l[i] \in Terms
  BY <1>1, <1>2
<1>4. l \in Seq(Terms) /\ Len(l) = n
  BY <1>1, <1>2, <1>3
<1>5. \A i \in 1..Smaller(Len(l), Len(known)) : l[i] = known[i]
  BY DEF LeaderLogs
<1> QED
  BY <1>2, <1>3, <1>4, <1>5

LEMMA LearnFacts ==
  ASSUME NEW l \in Seq(Terms), NEW c \in 0..Len(l), known \in Seq(Terms), Learn(l, c),
         \A i \in 1..Smaller(Len(l), Len(known)) : l[i] = known[i]
  PROVE  /\ known' \in Seq(Terms) /\ Len(known') >= Len(known) /\ Len(known') >= c
         /\ \A i \in 1..Len(known) : known'[i] = known[i]
         /\ \A i \in 1..Smaller(Len(l), Len(known')) : l[i] = known'[i]
<1>1. Len(l) \in Nat /\ Len(known) \in Nat /\ c \in Nat
  OBVIOUS
<1>2. CASE c > Len(known)
  <2>1. known' = SubSeq(l, 1, c)
    BY <1>2 DEF Learn
  <2>2. SubSeq(l, 1, c) \in Seq(Terms) /\ Len(SubSeq(l, 1, c)) = c
        /\ \A i \in 1..c : SubSeq(l, 1, c)[i] = l[i]
    OBVIOUS
  <2>3. \A i \in 1..Len(known) : i \in 1..c /\ l[i] = known[i]
    BY <1>1, <1>2 DEF Smaller
  <2> QED
    BY <1>1, <1>2, <2>1, <2>2, <2>3 DEF Smaller
<1>3. CASE ~(c > Len(known))
  <2>1. known' = known
    BY <1>3 DEF Learn
  <2> QED
    BY <1>1, <1>3, <2>1
<1> QED
  BY <1>2, <1>3

\* the invariant in the form in which the steps establish it
Parts ==
  /\ st \in Stores /\ Contiguous(st) /\ ready \in [snap : 0..MaxIndex, from : 0..MaxIndex]
  /\ pc \in {"idle", "append", "snapshot", "apply", "compact", "failed"}
  /\ crashes \in 0..MaxCrashes
  /\ RaftTypes /\ Positions /\ SnapshotSound /\ Busy /\ Stations

LEMMA PartsAreInv == Parts <=> StorageInv
<1>1. RaftTypes => {raft.persisted, raft.committed, raft.since, raft.applied} \subseteq 0..MaxIndex
  <2> SUFFICES ASSUME RaftTypes
               PROVE  {raft.persisted, raft.committed, raft.since, raft.applied} \subseteq 0..MaxIndex
    OBVIOUS
  <2>1. MaxIndex \in Nat /\ Len(raft.log) \in 0..MaxIndex
    BY Bounds DEF RaftTypes
  <2>2. raft.persisted \in 0..MaxIndex /\ raft.committed \in 0..MaxIndex
    BY <2>1 DEF RaftTypes
  <2>3. raft.since \in 0..MaxIndex
    BY <2>1, <2>2 DEF RaftTypes
  <2>4. raft.applied \in 0..MaxIndex
    BY <2>1, <2>3 DEF RaftTypes
  <2> QED
    BY <2>2, <2>3, <2>4
<1>2. OneLog <=> Contiguous(st)
  BY DEF OneLog, Contiguous
<1>3. Parts => TypeOK
  BY <1>1 DEF Parts, TypeOK, Stores, RaftTypes
<1>4. StorageInv => st \in Stores /\ ready \in [snap : 0..MaxIndex, from : 0..MaxIndex]
                    /\ pc \in {"idle", "append", "snapshot", "apply", "compact", "failed"}
                    /\ crashes \in 0..MaxCrashes
  BY DEF StorageInv, TypeOK, Stores
<1> QED
  BY <1>2, <1>3, <1>4 DEF Parts, StorageInv

LEMMA RaftNumbers ==
  RaftTypes => /\ raft.log \in Seq(Terms) /\ known \in Seq(Terms)
               /\ Len(raft.log) \in Nat /\ Len(known) \in Nat
               /\ raft.committed \in Nat /\ raft.since \in Nat /\ raft.applied \in Nat
               /\ raft.persisted \in Nat /\ raft.term \in Nat
               /\ raft.applied <= raft.since /\ raft.since <= raft.committed
               /\ raft.committed <= Len(raft.log) /\ raft.persisted <= Len(raft.log)
               /\ Len(raft.log) <= MaxIndex /\ raft.since <= Len(known)
  BY Bounds DEF RaftTypes

\* the numbers the calls compute with
LEMMA Numbers ==
  StorageInv =>
    /\ raft.log \in Seq(Terms) /\ known \in Seq(Terms)
    /\ Len(raft.log) \in Nat /\ Len(known) \in Nat
    /\ raft.committed \in Nat /\ raft.since \in Nat /\ raft.applied \in Nat
    /\ raft.applied <= raft.since /\ raft.since <= raft.committed
    /\ raft.committed <= Len(raft.log) /\ raft.since <= Len(known)
    /\ Len(raft.log) <= MaxIndex /\ MaxIndex \in Nat
    /\ st.term \in Terms /\ st.term = raft.term /\ st.commit \in 0..MaxIndex /\ st.commit \in Nat
    /\ st.entries \in Seq(StoredEntries) /\ Len(st.entries) \in Nat
    /\ st.snap \in [index : 0..MaxIndex, term : 0..MaxTerm]
    /\ st.snap.index \in Nat /\ st.snap.index \in 0..MaxIndex
    /\ FirstIndex(st) \in Nat \ {0} /\ LastIndex(st) \in Nat
    /\ LastIndex(st) = FirstIndex(st) - 1 + Len(st.entries)
    /\ FirstIndex(st) - 1 <= st.snap.index /\ st.snap.index <= LastIndex(st)
    /\ st.snap.index <= Len(raft.log) /\ st.snap.index <= Len(known)
    /\ raft.applied <= st.commit /\ st.commit <= raft.committed /\ st.snap.index <= st.commit
    /\ crashes \in 0..MaxCrashes
    /\ ready \in [snap : 0..MaxIndex, from : 0..MaxIndex]
<1> SUFFICES ASSUME StorageInv
             PROVE  /\ raft.log \in Seq(Terms) /\ known \in Seq(Terms)
                    /\ Len(raft.log) \in Nat /\ Len(known) \in Nat
                    /\ raft.committed \in Nat /\ raft.since \in Nat /\ raft.applied \in Nat
                    /\ raft.applied <= raft.since /\ raft.since <= raft.committed
                    /\ raft.committed <= Len(raft.log) /\ raft.since <= Len(known)
                    /\ Len(raft.log) <= MaxIndex /\ MaxIndex \in Nat
                    /\ st.term \in Terms /\ st.term = raft.term
                    /\ st.commit \in 0..MaxIndex /\ st.commit \in Nat
                    /\ st.entries \in Seq(StoredEntries) /\ Len(st.entries) \in Nat
                    /\ st.snap \in [index : 0..MaxIndex, term : 0..MaxTerm]
                    /\ st.snap.index \in Nat /\ st.snap.index \in 0..MaxIndex
                    /\ FirstIndex(st) \in Nat \ {0} /\ LastIndex(st) \in Nat
                    /\ LastIndex(st) = FirstIndex(st) - 1 + Len(st.entries)
                    /\ FirstIndex(st) - 1 <= st.snap.index /\ st.snap.index <= LastIndex(st)
                    /\ st.snap.index <= Len(raft.log) /\ st.snap.index <= Len(known)
                    /\ raft.applied <= st.commit /\ st.commit <= raft.committed
                    /\ st.snap.index <= st.commit
                    /\ crashes \in 0..MaxCrashes
                    /\ ready \in [snap : 0..MaxIndex, from : 0..MaxIndex]
  OBVIOUS
<1>1. /\ st \in Stores /\ Contiguous(st) /\ RaftTypes /\ Positions /\ SnapshotSound
  BY InvFacts
<1>2. /\ st.term \in Terms /\ st.commit \in 0..MaxIndex /\ st.entries \in Seq(StoredEntries)
      /\ st.snap \in [index : 0..MaxIndex, term : 0..MaxTerm] /\ st.snap.index \in 0..MaxIndex
  BY <1>1, StoreFields
<1>3. /\ FirstIndex(st) \in Nat \ {0} /\ LastIndex(st) \in 0..MaxIndex
      /\ LastIndex(st) = FirstIndex(st) - 1 + Len(st.entries) /\ Len(st.entries) \in Nat
      /\ FirstIndex(st) - 1 <= st.snap.index /\ st.snap.index <= LastIndex(st)
  BY <1>1, <1>2, StoreShape
<1>4. MaxIndex \in Nat
  BY Bounds
<1>5. st.commit \in Nat /\ st.snap.index \in Nat /\ LastIndex(st) \in Nat
  BY <1>2, <1>3, <1>4
<1>6. st.term = raft.term /\ st.snap.index <= Len(raft.log) /\ st.snap.index <= Len(known)
      /\ raft.applied <= st.commit /\ st.commit <= raft.committed /\ st.snap.index <= st.commit
  BY <1>1 DEF Positions, SnapshotSound
<1>7. crashes \in 0..MaxCrashes /\ ready \in [snap : 0..MaxIndex, from : 0..MaxIndex]
  BY DEF StorageInv, TypeOK
<1>8. /\ raft.log \in Seq(Terms) /\ known \in Seq(Terms)
      /\ Len(raft.log) \in Nat /\ Len(known) \in Nat
      /\ raft.committed \in Nat /\ raft.since \in Nat /\ raft.applied \in Nat
      /\ raft.applied <= raft.since /\ raft.since <= raft.committed
      /\ raft.committed <= Len(raft.log) /\ raft.since <= Len(known) /\ Len(raft.log) <= MaxIndex
  BY <1>1, RaftNumbers
<1> QED
  BY <1>2, <1>3, <1>4, <1>5, <1>6, <1>7, <1>8

(***************************************************************************)
(* SetHardstate.  What the messages of a turn bring is in agreement with   *)
(* the history, and so is then the log.                                    *)
(***************************************************************************)
LEMMA TakeParts ==
  ASSUME StorageInv, pc = "idle", NEW t \in Terms, t >= raft.term, NEW l \in LeaderLogs(t),
         NEW c \in 0..Len(l), c >= raft.committed,
         NEW p \in 0..Len(l), NEW f \in 0..c, raft.applied <= f,
         Take(t, l, c, Stepped(t, l, c, p, f))
  PROVE  /\ st' \in Stores /\ Contiguous(st') /\ RaftTypes' /\ Positions' /\ SnapshotSound'
         /\ raft'.since <= st'.commit /\ raft'.committed <= Len(known')
         /\ AgreeTo(Smaller(Len(raft.log), Len(known)))'
         /\ \A i \in 1..Len(raft'.log) : raft'.log[i] <= raft'.term
         /\ raft'.since = Larger(f, Smaller(c, p)) /\ raft'.committed = c /\ raft'.log = l
         /\ FirstIndex(st') = FirstIndex(st) /\ LastIndex(st') = LastIndex(st)
         /\ \A i : TermAt(st', i) = TermAt(st, i)
         /\ crashes' = crashes
<1> DEFINE since == Larger(f, Smaller(c, p))
<1>1. /\ st' = PersistentState(t, c, st.entries, st.snap)
      /\ raft' = Stepped(t, l, c, p, f) /\ Learn(l, c) /\ crashes' = crashes
  BY DEF Take, SetHardState
<1>2. /\ st'.term = t /\ st'.commit = c /\ st'.entries = st.entries /\ st'.snap = st.snap
  BY <1>1, StateFields
<1>3. /\ raft'.term = t /\ raft'.log = l /\ raft'.persisted = p /\ raft'.committed = c
      /\ raft'.since = since /\ raft'.applied = raft.applied
  BY <1>1 DEF Stepped
<1>4. /\ l \in Seq(Terms) /\ Len(l) \in 1..MaxIndex /\ \A i \in 1..Len(l) : l[i] <= t
      /\ \A i \in 1..Smaller(Len(l), Len(known)) : l[i] = known[i]
  BY LeaderFacts
<1>5. /\ st \in Stores /\ Contiguous(st) /\ RaftTypes /\ Positions /\ SnapshotSound
      /\ FirstIndex(st) \in Nat \ {0} /\ FirstIndex(st) - 1 <= st.snap.index
      /\ st.snap.index \in 0..MaxIndex
  BY InvFacts
<1>6. /\ known \in Seq(Terms) /\ Len(known) \in Nat /\ raft.applied \in Nat
      /\ raft.committed \in Nat /\ raft.applied <= raft.committed
  BY <1>5, RaftNumbers DEF RaftTypes
<1>7. /\ known' \in Seq(Terms) /\ Len(known') >= Len(known) /\ Len(known') >= c
      /\ \A i \in 1..Len(known) : known'[i] = known[i]
      /\ \A i \in 1..Smaller(Len(l), Len(known')) : l[i] = known'[i]
  BY <1>1, <1>4, <1>6, LearnFacts
<1>8. /\ c \in Nat /\ p \in Nat /\ f \in Nat /\ Len(l) \in Nat /\ c <= Len(l) /\ p <= Len(l) /\ f <= c
      /\ MaxIndex \in Nat /\ Len(l) <= MaxIndex /\ Len(known') \in Nat
  BY <1>4, <1>7, Bounds
<1>9. since \in f..c /\ since \in Nat /\ since <= c /\ raft.applied <= since
  BY <1>6, <1>8 DEF Larger, Smaller
<1> HIDE DEF since
<1>10. st' \in Stores
  <2>1. /\ st.entries \in Seq(StoredEntries)
        /\ st.snap \in [index : 0..MaxIndex, term : 0..MaxTerm] /\ c \in 0..MaxIndex
    BY <1>5, <1>8, StoreFields
  <2> QED
    BY <1>1, <2>1, MakeStored
<1>11. /\ Contiguous(st') /\ FirstIndex(st') = FirstIndex(st) /\ LastIndex(st') = LastIndex(st)
       /\ \A i : TermAt(st', i) = TermAt(st, i)
  BY <1>2, <1>5, SameStore
<1>12. RaftTypes'
  BY <1>3, <1>4, <1>6, <1>7, <1>8, <1>9 DEF RaftTypes
<1>13. st.snap.index <= raft.committed /\ st.snap.index <= Len(known) /\ st.snap.index \in Nat
  <2>1. st.commit \in Nat
    BY <1>5, <1>8, StoreFields
  <2> QED
    BY <1>5, <1>6, <1>8, <2>1 DEF Positions
<1>14. Positions'
  <2>1. /\ raft.applied <= c /\ c <= c /\ st.snap.index <= c /\ st.snap.index <= Len(known')
    BY <1>6, <1>7, <1>8, <1>9, <1>13
  <2> QED
    BY <1>2, <1>3, <2>1 DEF Positions
<1>15. \A j \in Nat : j <= c => \A i \in 1..j : l[i] = known'[i]
  BY <1>7, <1>8 DEF Smaller
<1>16. SnapshotSound'
  <2>1. st'.snap.index <= Len(raft'.log)
    BY <1>2, <1>3, <1>6, <1>8, <1>13
  <2>2. st'.snap.index > 0 => st'.snap.term = known'[st'.snap.index]
    BY <1>2, <1>5, <1>6, <1>7, <1>13 DEF SnapshotSound
  <2>3. \A i \in FirstIndex(st')..st'.snap.index : TermAt(st', i) = known'[i]
    <3>1. \A i \in FirstIndex(st)..st.snap.index : i \in 1..Len(known) /\ TermAt(st, i) = known[i]
      BY <1>5, <1>6, <1>13 DEF SnapshotSound
    <3> QED
      BY <1>2, <1>7, <1>11, <3>1
  <2>4. \A i \in 1..st'.snap.index : raft'.log[i] = known'[i]
    <3>1. st.snap.index \in Nat /\ st.snap.index <= c
      BY <1>6, <1>8, <1>13
    <3> QED
      BY <1>2, <1>3, <1>15, <3>1
  <2>5. \A i \in 1..raft'.since : raft'.log[i] = known'[i]
    BY <1>3, <1>9, <1>15
  <2> QED
    BY <2>1, <2>2, <2>3, <2>4, <2>5 DEF SnapshotSound, AgreeTo
<1>17. AgreeTo(Smaller(Len(raft.log), Len(known)))'
  BY <1>3, <1>7 DEF AgreeTo
<1> QED
  BY <1>1, <1>2, <1>3, <1>4, <1>7, <1>9, <1>10, <1>11, <1>12, <1>14, <1>16, <1>17 DEF since

LEMMA StepAppendInv ==
  ASSUME StorageInv, NEW t \in Terms, NEW l \in LeaderLogs(t), NEW c \in 1..MaxIndex,
         StepAppend(t, l, c)
  PROVE  StorageInv'
<1>1. /\ pc = "idle" /\ t >= raft.term /\ c \in raft.committed..Len(l) /\ pc' = "append"
  BY DEF StepAppend
<1>2. PICK k \in raft.committed..Smaller(Len(l) - 1, Len(raft.log)) :
        /\ SharedPrefix(l, k)
        /\ Take(t, l, c, Stepped(t, l, c, Smaller(raft.persisted, k), raft.since))
        /\ ready' = [snap |-> 0, from |-> k + 1]
  BY DEF StepAppend
<1>3. /\ l \in Seq(Terms) /\ Len(l) \in 1..MaxIndex /\ Len(l) \in Nat /\ MaxIndex \in Nat
  BY LeaderFacts, Bounds
<1>4. /\ RaftTypes /\ Positions /\ Stations
      /\ FirstIndex(st) \in Nat \ {0} /\ LastIndex(st) \in 0..MaxIndex
      /\ FirstIndex(st) - 1 <= st.snap.index /\ st.snap.index \in 0..MaxIndex
      /\ st.commit \in 0..MaxIndex
  BY InvFacts, StoreFields
<1>5. /\ Len(raft.log) \in Nat /\ raft.committed \in Nat /\ raft.since \in Nat
      /\ raft.applied \in Nat /\ raft.persisted \in Nat
      /\ raft.applied <= raft.since /\ raft.since <= raft.committed
  BY <1>4, RaftNumbers
<1>6. /\ k \in Nat /\ raft.committed <= k /\ k < Len(l) /\ k <= Len(raft.log)
      /\ c \in 0..Len(l) /\ c >= raft.committed /\ raft.since \in 0..c
      /\ Smaller(raft.persisted, k) \in 0..Len(l)
  <2>1. /\ k \in Int /\ raft.committed <= k /\ k <= Smaller(Len(l) - 1, Len(raft.log))
    BY <1>2, <1>3, <1>5 DEF Smaller
  <2>2. k \in Nat /\ k < Len(l) /\ k <= Len(raft.log)
    BY <1>3, <1>5, <2>1 DEF Smaller
  <2>3. c \in 0..Len(l) /\ c >= raft.committed /\ raft.since \in 0..c
    BY <1>1, <1>3, <1>5
  <2>4. Smaller(raft.persisted, k) \in 0..Len(l)
    BY <1>3, <1>5, <2>2 DEF Smaller
  <2> QED
    BY <2>1, <2>2, <2>3, <2>4
<1>7. /\ st' \in Stores /\ Contiguous(st') /\ RaftTypes' /\ Positions' /\ SnapshotSound'
      /\ raft'.since <= st'.commit /\ raft'.committed <= Len(known')
      /\ AgreeTo(Smaller(Len(raft.log), Len(known)))'
      /\ \A i \in 1..Len(raft'.log) : raft'.log[i] <= raft'.term
      /\ raft'.log = l
      /\ FirstIndex(st') = FirstIndex(st) /\ LastIndex(st') = LastIndex(st)
      /\ \A i : TermAt(st', i) = TermAt(st, i)
      /\ crashes' = crashes
  BY <1>1, <1>2, <1>5, <1>6, TakeParts
<1>8. Busy'
  BY <1>7 DEF Busy
<1>9. /\ LastIndex(st) = Len(raft.log) /\ FirstIndex(st) <= k + 1
      /\ \A i \in FirstIndex(st)..Len(raft.log) : TermAt(st, i) = raft.log[i]
  <2>1. FirstIndex(st) - 1 <= raft.committed
    <3>1. /\ st.snap.index \in Nat /\ st.commit \in Nat /\ st.snap.index <= st.commit
          /\ st.commit <= raft.committed
      BY Numbers
    <3> QED
      BY <1>4, <1>5, <3>1
  <2>2. FirstIndex(st) <= k + 1
    BY <1>4, <1>5, <1>6, <2>1
  <2> QED
    BY <1>1, <1>4, <2>2 DEF Stations, StoredTo
<1>10. ready'.from = k + 1 /\ ready' \in [snap : 0..MaxIndex, from : 0..MaxIndex]
  BY <1>2, <1>3, <1>6
<1>n. /\ FirstIndex(st) \in Nat /\ FirstIndex(st) > 0 /\ k \in Nat /\ FirstIndex(st) <= k + 1
      /\ Len(raft.log) \in Nat /\ k <= Len(raft.log) /\ Len(l) \in Nat /\ k < Len(l)
  BY <1>3, <1>4, <1>5, <1>6, <1>9
<1>11. Stations'
  <2>1. \A i \in FirstIndex(st)..k : TermAt(st, i) = l[i]
    <3>1. \A i \in FirstIndex(st)..k : i \in 1..k /\ i \in FirstIndex(st)..Len(raft.log)
      BY <1>n
    <3> QED
      BY <1>2, <1>9, <3>1 DEF SharedPrefix
  <2>2. /\ ready'.from \in FirstIndex(st')..(LastIndex(st') + 1) /\ ready'.from <= Len(raft'.log)
        /\ ready'.from - 1 = k
    <3>1. k + 1 \in FirstIndex(st)..(Len(raft.log) + 1) /\ k + 1 <= Len(l) /\ (k + 1) - 1 = k
      BY <1>n
    <3> QED
      BY <1>7, <1>9, <1>10, <3>1
  <2>3. StoredTo(ready.from - 1)'
    BY <1>7, <2>1, <2>2 DEF StoredTo
  <2> QED
    BY <1>1, <2>2, <2>3 DEF Stations
<1>12. Parts'
  <2>1. crashes \in 0..MaxCrashes
    BY DEF StorageInv, TypeOK
  <2> QED
    BY <1>1, <1>7, <1>8, <1>10, <1>11, <2>1 DEF Parts
<1> QED
  BY <1>12, PartsAreInv, PTL

LEMMA StepCommitInv ==
  ASSUME StorageInv, NEW t \in Terms, NEW c \in 1..MaxIndex, StepCommit(t, c)
  PROVE  StorageInv'
<1> DEFINE l == raft.log
<1>1. /\ pc = "idle" /\ t >= raft.term /\ c \in raft.committed..Len(l) /\ pc' = "apply"
      /\ l \in LeaderLogs(t) /\ ready' = NoReady
      /\ Take(t, l, c, Stepped(t, l, c, raft.persisted, raft.since))
  BY DEF StepCommit
<1>2. RaftTypes /\ Stations
  BY InvFacts
<1>3. /\ Len(raft.log) \in Nat /\ raft.committed \in Nat /\ raft.since \in Nat
      /\ raft.applied \in Nat /\ raft.persisted \in Nat
      /\ raft.applied <= raft.since /\ raft.since <= raft.committed
      /\ raft.persisted <= Len(raft.log)
  BY <1>2, RaftNumbers
<1>4. /\ c \in 0..Len(l) /\ c >= raft.committed /\ raft.since \in 0..c
      /\ raft.persisted \in 0..Len(l)
  BY <1>1, <1>3
<1>5. /\ st' \in Stores /\ Contiguous(st') /\ RaftTypes' /\ Positions' /\ SnapshotSound'
      /\ raft'.since <= st'.commit /\ raft'.committed <= Len(known')
      /\ AgreeTo(Smaller(Len(raft.log), Len(known)))'
      /\ \A i \in 1..Len(raft'.log) : raft'.log[i] <= raft'.term
      /\ raft'.log = raft.log
      /\ FirstIndex(st') = FirstIndex(st) /\ LastIndex(st') = LastIndex(st)
      /\ \A i : TermAt(st', i) = TermAt(st, i)
      /\ crashes' = crashes
  BY <1>1, <1>3, <1>4, TakeParts
<1>6. Busy'
  BY <1>5 DEF Busy
<1>7. Stations'
  BY <1>1, <1>2, <1>5 DEF Stations, StoredTo
<1>8. Parts'
  <2>1. crashes \in 0..MaxCrashes
    BY DEF StorageInv, TypeOK
  <2>2. ready' \in [snap : 0..MaxIndex, from : 0..MaxIndex]
    BY <1>1, Bounds DEF NoReady
  <2> QED
    BY <1>1, <1>5, <1>6, <1>7, <2>1, <2>2 DEF Parts
<1> QED
  BY <1>8, PartsAreInv, PTL

LEMMA StepSnapshotInv ==
  ASSUME StorageInv, NEW t \in Terms, NEW l \in LeaderLogs(t), NEW c \in 1..MaxIndex,
         NEW i \in 1..MaxIndex, StepSnapshot(t, l, i, c)
  PROVE  StorageInv'
<1>1. /\ pc = "idle" /\ t >= raft.term /\ pc' = "snapshot"
      /\ i \in (raft.committed + 1)..Len(l) /\ c \in i..Len(l)
      /\ Take(t, l, c, Stepped(t, l, c, Smaller(raft.persisted, i), i))
      /\ ready' = [snap |-> i, from |-> IF i < Len(l) THEN i + 1 ELSE 0]
  BY DEF StepSnapshot
<1>2. Len(l) \in 1..MaxIndex /\ Len(l) \in Nat /\ MaxIndex \in Nat
  BY LeaderFacts, Bounds
<1>3. RaftTypes
  BY InvFacts
<1>4. /\ raft.committed \in Nat /\ raft.applied \in Nat /\ raft.persisted \in Nat
      /\ raft.applied <= raft.committed
  BY <1>3, RaftNumbers
<1>5. /\ i \in Nat /\ i > 0 /\ i <= c /\ raft.committed < i /\ i <= Len(l)
      /\ c \in 0..Len(l) /\ c >= raft.committed /\ i \in 0..c /\ raft.applied <= i
      /\ Smaller(raft.persisted, i) \in 0..Len(l)
      /\ Larger(i, Smaller(c, Smaller(raft.persisted, i))) = i
  BY <1>1, <1>2, <1>4 DEF Smaller, Larger
<1>6. /\ st' \in Stores /\ Contiguous(st') /\ RaftTypes' /\ Positions' /\ SnapshotSound'
      /\ raft'.since <= st'.commit /\ raft'.committed <= Len(known')
      /\ AgreeTo(Smaller(Len(raft.log), Len(known)))'
      /\ \A j \in 1..Len(raft'.log) : raft'.log[j] <= raft'.term
      /\ raft'.since = Larger(i, Smaller(c, Smaller(raft.persisted, i)))
      /\ raft'.committed = c /\ raft'.log = l /\ crashes' = crashes
  BY <1>1, <1>5, TakeParts
<1>7. Busy'
  BY <1>6 DEF Busy
<1>8. /\ ready'.snap = i /\ ready'.from = (IF i < Len(l) THEN i + 1 ELSE 0)
      /\ ready' \in [snap : 0..MaxIndex, from : 0..MaxIndex]
  BY <1>1, <1>2, <1>5
<1>9. Stations'
  BY <1>1, <1>5, <1>6, <1>8 DEF Stations
<1>10. Parts'
  <2>1. crashes \in 0..MaxCrashes
    BY DEF StorageInv, TypeOK
  <2> QED
    BY <1>1, <1>6, <1>7, <1>8, <1>9, <2>1 DEF Parts
<1> QED
  BY <1>10, PartsAreInv, PTL

(***************************************************************************)
(* The calls of drive_ready after the hard state.                          *)
(***************************************************************************)
LEMMA ApplySnapshotInv ==
  ASSUME StorageInv, ApplySnapshot
  PROVE  StorageInv'
<1> DEFINE i == ready.snap
           p == [index |-> i, term |-> raft.log[i]]
<1>1. /\ pc = "snapshot" /\ st' = WithSnapshot(st, p)
      /\ pc' = (IF ready.from > 0 THEN "append" ELSE "apply")
      /\ raft' = raft /\ ready' = ready /\ known' = known /\ crashes' = crashes
  BY DEF ApplySnapshot
<1>2. /\ RaftTypes /\ Positions /\ SnapshotSound /\ Busy /\ Stations
  BY InvFacts
<1>3. /\ i \in 1..raft.committed /\ raft.since = i
      /\ ready.from = IF i < Len(raft.log) THEN i + 1 ELSE 0
  BY <1>1, <1>2 DEF Stations
<1>4. /\ raft.since <= st.commit /\ raft.committed <= Len(known)
      /\ AgreeTo(Smaller(Len(raft.log), Len(known)))
      /\ \A j \in 1..Len(raft.log) : raft.log[j] <= raft.term
  BY <1>1, <1>2 DEF Busy
<1>5. /\ raft.log \in Seq(Terms) /\ Len(raft.log) \in Nat /\ Len(known) \in Nat
      /\ raft.committed \in Nat /\ raft.since \in Nat /\ raft.applied \in Nat
      /\ raft.applied <= raft.since /\ raft.committed <= Len(raft.log)
      /\ Len(raft.log) <= MaxIndex /\ MaxIndex \in Nat
      /\ st.term \in Terms /\ st.term = raft.term /\ crashes \in 0..MaxCrashes
      /\ ready \in [snap : 0..MaxIndex, from : 0..MaxIndex]
  BY Numbers
<1>6. /\ i \in Nat /\ i > 0 /\ i <= raft.committed /\ i <= Len(raft.log) /\ i <= Len(known)
      /\ i \in 0..MaxIndex /\ i \in 1..Len(raft.log)
  BY <1>3, <1>4, <1>5
<1>7. raft.log[i] \in Terms /\ raft.log[i] <= raft.term /\ raft.log[i] \in Nat
      /\ raft.term \in Nat /\ raft.log[i] \in 0..MaxTerm
  <2>1. raft.log[i] \in Terms /\ raft.log[i] <= raft.term /\ raft.term \in Terms
    BY <1>4, <1>5, <1>6
  <2>2. \A t \in Terms : t \in Nat /\ t \in 0..MaxTerm
    BY Bounds DEF Terms
  <2> QED
    BY <2>1, <2>2
<1>8. p.index = i /\ p.term = raft.log[i] /\ p \in [index : 0..MaxIndex, term : 0..MaxTerm]
  BY <1>6, <1>7
<1> HIDE DEF p
<1>9. TermWithSnapshot(st, p) = raft.term
  BY <1>5, <1>7, <1>8 DEF TermWithSnapshot, Larger
<1>10. st' = PersistentState(raft.term, i, <<>>, p)
  BY <1>1, <1>8, <1>9 DEF WithSnapshot
<1>11. st'.term = raft.term /\ st'.commit = i /\ st'.entries = <<>> /\ st'.snap = p
  BY <1>10, StateFields
<1>12. <<>> \in Seq(StoredEntries) /\ Len(<<>>) = 0
  OBVIOUS
<1>13. st' \in Stores
  BY <1>5, <1>6, <1>8, <1>10, <1>12, MakeStored
<1>14. /\ Contiguous(st') /\ FirstIndex(st') = i + 1 /\ LastIndex(st') = i
  <2>1. FirstIndex(st') = i + 1 /\ LastIndex(st') = i
    BY <1>8, <1>11 DEF FirstIndex, LastIndex
  <2> QED
    BY <1>6, <1>8, <1>11, <1>12, <2>1 DEF Contiguous
<1>15. RaftTypes'
  BY <1>1, <1>2 DEF RaftTypes
<1>16. Positions'
  BY <1>1, <1>3, <1>5, <1>6, <1>8, <1>11 DEF Positions
<1>17. \A j \in 1..i : raft.log[j] = known[j]
  BY <1>4, <1>5, <1>6 DEF AgreeTo, Smaller
<1>18. SnapshotSound'
  <2>1. st'.snap.index = i /\ st'.snap.term = known[i] /\ i <= Len(raft'.log)
    BY <1>1, <1>6, <1>8, <1>11, <1>17
  <2>2. \A j \in FirstIndex(st')..st'.snap.index : TermAt(st', j) = known'[j]
    BY <1>6, <1>14, <2>1
  <2> QED
    BY <1>1, <1>3, <1>17, <2>1, <2>2 DEF SnapshotSound, AgreeTo
<1>19. Busy'
  BY <1>1, <1>3, <1>4, <1>6, <1>11 DEF Busy, AgreeTo
<1>20. Stations'
  <2>1. \A j \in (i + 1)..i : TermAt(st', j) = raft'.log[j]
    BY <1>6
  <2>2. CASE i < Len(raft.log)
    <3>1. ready'.from = i + 1 /\ pc' = "append" /\ ready'.from - 1 = i
      BY <1>1, <1>3, <1>6, <2>2
    <3>2. StoredTo(ready.from - 1)'
      BY <1>1, <1>14, <2>1, <3>1 DEF StoredTo
    <3>3. ready'.from \in FirstIndex(st')..(LastIndex(st') + 1) /\ ready'.from <= Len(raft'.log)
      BY <1>1, <1>5, <1>6, <1>14, <2>2, <3>1
    <3> QED
      BY <3>1, <3>2, <3>3 DEF Stations
  <2>3. CASE ~(i < Len(raft.log))
    <3>1. i = Len(raft.log) /\ pc' = "apply"
      BY <1>1, <1>3, <1>5, <1>6, <2>3
    <3>2. StoredTo(Len(raft.log))'
      BY <1>1, <1>14, <2>1, <3>1 DEF StoredTo
    <3> QED
      BY <1>1, <1>14, <3>1, <3>2 DEF Stations
  <2> QED
    BY <2>2, <2>3
<1>21. Parts'
  BY <1>1, <1>5, <1>13, <1>14, <1>15, <1>16, <1>18, <1>19, <1>20 DEF Parts
<1> QED
  BY <1>21, PartsAreInv, PTL

LEMMA AppendEntriesInv ==
  ASSUME StorageInv, AppendEntries
  PROVE  StorageInv'
<1> DEFINE f == FirstIndex(st)
           from == ready.from
           n == Len(raft.log)
           ents == NewEntries
           kept == Kept(st, from)
           all == kept \o ents
<1>1. /\ pc = "append" /\ st' = Appended(st, NewEntries) /\ pc' = "apply"
      /\ raft' = raft /\ ready' = ready /\ known' = known /\ crashes' = crashes
  BY DEF AppendEntries
<1>2. /\ RaftTypes /\ Positions /\ SnapshotSound /\ Busy /\ Stations /\ Contiguous(st)
  BY InvFacts
<1>3. /\ from \in f..(LastIndex(st) + 1) /\ from <= n
      /\ \A i \in f..(from - 1) : TermAt(st, i) = raft.log[i]
  BY <1>1, <1>2 DEF Stations, StoredTo
<1>4. /\ raft.log \in Seq(Terms) /\ n \in Nat /\ n <= MaxIndex /\ MaxIndex \in Nat
      /\ st.term \in Terms /\ st.commit \in 0..MaxIndex
      /\ st.entries \in Seq(StoredEntries) /\ Len(st.entries) \in Nat
      /\ st.snap \in [index : 0..MaxIndex, term : 0..MaxTerm]
      /\ st.snap.index \in 0..MaxIndex /\ st.snap.index \in Nat
      /\ f \in Nat \ {0} /\ LastIndex(st) \in Nat
      /\ LastIndex(st) = f - 1 + Len(st.entries)
      /\ f - 1 <= st.snap.index /\ st.snap.index <= n
      /\ crashes \in 0..MaxCrashes /\ ready \in [snap : 0..MaxIndex, from : 0..MaxIndex]
  BY Numbers
<1>6. ents = [j \in 1..(n - from + 1) |->
                [index |-> from + j - 1, term |-> raft.log[from + j - 1]]]
  BY DEF NewEntries
<1> HIDE DEF f, from, n, ents, kept, all
<1>n. /\ n \in Nat /\ f \in Nat /\ f > 0 /\ st.snap.index \in Nat
      /\ f - 1 <= st.snap.index /\ st.snap.index <= n
  BY <1>4
<1>5. /\ from \in Nat \ {0} /\ f <= from /\ from - f \in 0..Len(st.entries)
      /\ n - from + 1 \in Nat \ {0}
  <2>1. f <= from /\ from <= LastIndex(st) + 1 /\ from \in Nat
    BY <1>3, <1>4
  <2>2. from <= n /\ Len(st.entries) \in Nat /\ LastIndex(st) = f - 1 + Len(st.entries)
    BY <1>3, <1>4
  <2> QED
    BY <1>n, <2>1, <2>2
<1>7. \A j \in 1..(n - from + 1) :
        /\ from + j - 1 \in 1..n /\ from + j - 1 \in 1..MaxIndex
        /\ raft.log[from + j - 1] \in Terms
  <2>1. \A j \in 1..(n - from + 1) : from + j - 1 \in 1..n /\ from + j - 1 \in 1..MaxIndex
    BY <1>4, <1>5
  <2> QED
    BY <1>4, <2>1 DEF n
<1>8. \A j \in 1..(n - from + 1) : ents[j] \in StoredEntries
        /\ ents[j].index = from + j - 1 /\ ents[j].term = raft.log[from + j - 1]
  BY <1>6, <1>7 DEF StoredEntries
<1>9. ents \in Seq(StoredEntries) /\ Len(ents) = n - from + 1
  BY <1>5, <1>6, <1>8
<1>10. ents[1].index = from
  BY <1>5, <1>8
<1>11. kept = SubSeq(st.entries, 1, from - f)
  BY <1>5, <1>4 DEF kept, Kept, Smaller, f
<1>12. /\ kept \in Seq(StoredEntries) /\ Len(kept) = from - f
       /\ \A j \in 1..(from - f) : kept[j] = st.entries[j]
  <2>1. st.entries \in Seq(StoredEntries) /\ from - f \in 0..Len(st.entries)
    BY <1>4, <1>5
  <2> QED
    BY <1>11, <2>1
<1>13. st' = PersistentState(st.term, st.commit, all, st.snap)
  BY <1>1, <1>10 DEF Appended, ents, kept, all
<1>14. /\ st'.term = st.term /\ st'.commit = st.commit /\ st'.entries = all
       /\ st'.snap = st.snap
  BY <1>13, StateFields
<1>15. /\ all \in Seq(StoredEntries) /\ Len(all) = n - f + 1
       /\ \A j \in 1..(from - f) : all[j] = st.entries[j]
       /\ \A j \in (from - f + 1)..(n - f + 1) : all[j] = ents[j - (from - f)]
  <2>1. /\ all \in Seq(StoredEntries) /\ Len(all) = Len(kept) + Len(ents)
        /\ \A j \in 1..Len(kept) : all[j] = kept[j]
        /\ \A j \in (Len(kept) + 1)..(Len(kept) + Len(ents)) : all[j] = ents[j - Len(kept)]
    BY <1>9, <1>12 DEF all
  <2>2. Len(kept) + Len(ents) = n - f + 1
    BY <1>4, <1>5, <1>9, <1>12
  <2> QED
    BY <1>12, <2>1, <2>2
<1>16. \A j \in 1..(n - f + 1) :
         /\ st'.entries[j].index = f + j - 1 /\ st'.entries[j].term = raft.log[f + j - 1]
  <2> SUFFICES ASSUME NEW j \in 1..(n - f + 1)
               PROVE  st'.entries[j].index = f + j - 1 /\ st'.entries[j].term = raft.log[f + j - 1]
    OBVIOUS
  <2>1. j \in Nat /\ j > 0 /\ j <= n - f + 1
    BY <1>4, <1>5
  <2>2. CASE j <= from - f
    <3>1. j \in 1..(from - f) /\ j \in 1..Len(st.entries) /\ f + j - 1 \in f..(from - 1)
          /\ (f + j - 1) - f + 1 = j
      BY <1>4, <1>5, <2>1, <2>2
    <3>2. st'.entries[j] = st.entries[j]
      BY <1>14, <1>15, <3>1
    <3>3. st.entries[j].index = f + j - 1
      BY <1>2, <3>1 DEF Contiguous, f
    <3>4. st.entries[j].term = raft.log[f + j - 1]
      <4>1. TermAt(st, f + j - 1) = raft.log[f + j - 1]
        BY <1>3, <3>1
      <4> QED
        BY <3>1, <4>1 DEF TermAt, f
    <3> QED
      BY <3>2, <3>3, <3>4
  <2>3. CASE ~(j <= from - f)
    <3>1. j \in (from - f + 1)..(n - f + 1) /\ j - (from - f) \in 1..(n - from + 1)
          /\ from + (j - (from - f)) - 1 = f + j - 1
      BY <1>4, <1>5, <2>1, <2>3
    <3>2. st'.entries[j] = ents[j - (from - f)]
      BY <1>14, <1>15, <3>1
    <3> QED
      BY <1>8, <3>1, <3>2
  <2> QED
    BY <2>2, <2>3
<1>17. st' \in Stores
  BY <1>4, <1>13, <1>15, MakeStored
<1>18. Contiguous(st') /\ FirstIndex(st') = f /\ LastIndex(st') = n
  <2>1. n - f + 1 \in Nat \ {0}
    BY <1>4, <1>5
  <2>2. st'.entries # <<>> /\ st'.entries \in Seq(StoredEntries) /\ Len(st'.entries) = n - f + 1
    BY <1>14, <1>15, <2>1
  <2>3. \A j \in 1..Len(st'.entries) : st'.entries[j].index = f + j - 1
    BY <1>16, <2>2
  <2>4. st'.snap.index \in 0..MaxIndex /\ f <= st'.snap.index + 1
        /\ st'.snap.index <= f - 1 + Len(st'.entries) /\ f - 1 + Len(st'.entries) = n
    <3>1. f - 1 + (n - f + 1) = n /\ f <= st.snap.index + 1
      BY <1>n
    <3>2. f - 1 + Len(st'.entries) = n
      BY <2>2, <3>1
    <3> QED
      BY <1>4, <1>14, <1>n, <3>1, <3>2
  <2> QED
    BY <1>4, <2>2, <2>3, <2>4, MakeStore
<1>19. \A i \in f..n : TermAt(st', i) = raft.log[i]
  <2> SUFFICES ASSUME NEW i \in f..n PROVE TermAt(st', i) = raft.log[i]
    OBVIOUS
  <2>1. i - f + 1 \in 1..(n - f + 1) /\ f + (i - f + 1) - 1 = i
    BY <1>4
  <2> QED
    BY <1>16, <1>18, <2>1 DEF TermAt
<1>20. RaftTypes' /\ Positions' /\ Busy'
  BY <1>1, <1>2, <1>14 DEF RaftTypes, Positions, Busy, AgreeTo
<1>21. SnapshotSound'
  <2>1. \A i \in FirstIndex(st')..st'.snap.index : TermAt(st', i) = known'[i]
    <3>1. \A i \in f..st.snap.index : i \in f..n /\ i \in 1..st.snap.index
      BY <1>4
    <3> QED
      BY <1>1, <1>2, <1>14, <1>18, <1>19, <3>1 DEF SnapshotSound, AgreeTo
  <2> QED
    BY <1>1, <1>2, <1>14, <2>1 DEF SnapshotSound, AgreeTo
<1>22. Stations'
  <2>1. LastIndex(st') = Len(raft'.log) /\ StoredTo(Len(raft.log))'
    BY <1>1, <1>18, <1>19 DEF StoredTo, n
  <2> QED
    BY <1>1, <2>1 DEF Stations
<1>23. Parts'
  BY <1>1, <1>4, <1>17, <1>18, <1>20, <1>21, <1>22 DEF Parts
<1> QED
  BY <1>23, PartsAreInv, PTL

\* a snapshot that is due is of an entry in the file
LEMMA DueFacts ==
  ASSUME StorageInv, pc = "apply", Due
  PROVE  /\ raft.applied \in FirstIndex(st)..LastIndex(st) /\ raft.applied > st.snap.index
         /\ Term(st, raft.applied) = TermAt(st, raft.applied)
         /\ TermAt(st, raft.applied) = raft.log[raft.applied]
         /\ raft.log[raft.applied] = known[raft.applied]
         /\ raft.log[raft.applied] \in Terms
         /\ LastIndex(st) = Len(raft.log)
<1>1. /\ Len(raft.log) \in Nat /\ raft.applied \in Nat /\ raft.since \in Nat
      /\ raft.applied <= raft.since /\ raft.since <= raft.committed
      /\ raft.committed \in Nat /\ raft.committed <= Len(raft.log)
      /\ raft.log \in Seq(Terms) /\ st.snap.index \in Nat
      /\ FirstIndex(st) \in Nat \ {0} /\ FirstIndex(st) - 1 <= st.snap.index
  BY Numbers
<1>2. SnapshotInterval \in Nat \ {0} /\ raft.applied >= st.snap.index + SnapshotInterval
  BY Bounds DEF Due
<1>3. /\ LastIndex(st) = Len(raft.log)
      /\ \A i \in FirstIndex(st)..Len(raft.log) : TermAt(st, i) = raft.log[i]
  BY InvFacts DEF Stations, StoredTo
<1>4. /\ raft.applied > st.snap.index /\ raft.applied \in FirstIndex(st)..LastIndex(st)
      /\ raft.applied \in 1..raft.since /\ raft.applied \in 1..Len(raft.log)
      /\ ~(raft.applied = st.snap.index \/ raft.applied < FirstIndex(st))
  BY <1>1, <1>2, <1>3
<1>5. raft.log[raft.applied] = known[raft.applied]
  BY <1>4, InvFacts DEF SnapshotSound, AgreeTo
<1>6. Term(st, raft.applied) = TermAt(st, raft.applied)
  BY <1>4 DEF Term, TermAt
<1> QED
  BY <1>1, <1>3, <1>4, <1>5, <1>6

LEMMA CreateSnapshotInv ==
  ASSUME StorageInv, CreateSnapshot
  PROVE  StorageInv'
<1> DEFINE f == FirstIndex(st)
           i == raft.applied
           p == [index |-> i, term |-> Term(st, i)]
<1>1. /\ pc = "apply" /\ Due /\ st' = Snapshotted(st, raft.applied) /\ pc' = "compact"
      /\ raft' = raft /\ ready' = ready /\ known' = known /\ crashes' = crashes
  BY DEF CreateSnapshot, SnapshotPoint
<1>2. /\ i \in f..LastIndex(st) /\ i > st.snap.index
      /\ Term(st, i) = raft.log[i] /\ raft.log[i] = known[i] /\ raft.log[i] \in Terms
      /\ LastIndex(st) = Len(raft.log)
  BY <1>1, DueFacts
<1>3. /\ RaftTypes /\ Positions /\ SnapshotSound /\ Busy /\ Stations /\ Contiguous(st)
  BY InvFacts
<1>4. /\ raft.log \in Seq(Terms) /\ Len(raft.log) \in Nat /\ Len(raft.log) <= MaxIndex
      /\ MaxIndex \in Nat /\ Len(known) \in Nat
      /\ i \in Nat /\ raft.since \in Nat /\ i <= raft.since /\ raft.since <= Len(known)
      /\ st.term \in Terms /\ st.commit \in 0..MaxIndex /\ i <= st.commit
      /\ st.entries \in Seq(StoredEntries) /\ Len(st.entries) \in Nat
      /\ st.snap.index \in Nat /\ f \in Nat \ {0} /\ LastIndex(st) \in Nat
      /\ LastIndex(st) = f - 1 + Len(st.entries) /\ f - 1 <= st.snap.index
      /\ crashes \in 0..MaxCrashes /\ ready \in [snap : 0..MaxIndex, from : 0..MaxIndex]
  BY Numbers
<1>5. Term(st, i) \in 0..MaxTerm /\ i \in 0..MaxIndex
  <2>1. \A t \in Terms : t \in 0..MaxTerm
    BY Bounds DEF Terms
  <2>2. i <= Len(raft.log)
    BY <1>2, <1>4
  <2>3. i \in Nat /\ Len(raft.log) \in Nat /\ Len(raft.log) <= MaxIndex /\ MaxIndex \in Nat
    BY <1>4
  <2>4. i \in 0..MaxIndex
    BY <2>2, <2>3
  <2> QED
    BY <1>2, <2>1, <2>4
<1>6. p.index = i /\ p.term = raft.log[i] /\ p \in [index : 0..MaxIndex, term : 0..MaxTerm]
  BY <1>2, <1>5
<1>7. st' = PersistentState(st.term, st.commit, st.entries, p)
  BY <1>1 DEF Snapshotted
<1> HIDE DEF p, f, i
<1>8. st'.term = st.term /\ st'.commit = st.commit /\ st'.entries = st.entries /\ st'.snap = p
  BY <1>7, StateFields
<1>9. st' \in Stores
  BY <1>4, <1>6, <1>7, MakeStored
<1>10. Contiguous(st') /\ FirstIndex(st') = f /\ LastIndex(st') = Len(raft.log)
  <2>1. st'.entries # <<>>
    BY <1>2, <1>4, <1>8
  <2>2. \A j \in 1..Len(st'.entries) : st'.entries[j].index = f + j - 1
    BY <1>3, <1>8 DEF Contiguous, f
  <2>3. st'.entries \in Seq(StoredEntries) /\ st'.snap.index \in 0..MaxIndex
        /\ f <= st'.snap.index + 1 /\ st'.snap.index <= f - 1 + Len(st'.entries)
        /\ f - 1 + Len(st'.entries) = Len(raft.log)
    <3>1. /\ f \in Nat /\ i \in Nat /\ f <= i /\ i <= LastIndex(st)
          /\ LastIndex(st) = f - 1 + Len(st.entries) /\ LastIndex(st) = Len(raft.log)
      BY <1>2, <1>4
    <3>2. f <= i + 1
      BY <3>1
    <3> QED
      BY <1>4, <1>5, <1>6, <1>8, <3>1, <3>2
  <2> QED
    BY <1>4, <2>1, <2>2, <2>3, MakeStore
<1>11. \A j : TermAt(st', j) = TermAt(st, j)
  BY <1>8, <1>10 DEF TermAt, f
<1>12. RaftTypes' /\ Busy'
  BY <1>1, <1>3, <1>8 DEF RaftTypes, Busy, AgreeTo
<1>13. Positions'
  <2>1. i <= Len(known) /\ i <= st.commit
    BY <1>4
  <2> QED
    BY <1>1, <1>3, <1>6, <1>8, <2>1 DEF Positions
<1>14. \A j \in f..Len(raft.log) : TermAt(st, j) = raft.log[j]
  BY <1>1, <1>3 DEF Stations, StoredTo, f
<1>15. \A j \in 1..i : raft.log[j] = known[j]
  BY <1>3, <1>4 DEF SnapshotSound, AgreeTo
<1>16. SnapshotSound'
  <2>1. \A j \in f..i : j \in f..Len(raft.log) /\ j \in 1..i
    BY <1>2, <1>4
  <2>2. \A j \in FirstIndex(st')..st'.snap.index : TermAt(st', j) = known'[j]
    <3>1. \A j \in f..i : TermAt(st', j) = known[j]
      BY <1>11, <1>14, <1>15, <2>1
    <3> QED
      BY <1>1, <1>6, <1>8, <1>10, <3>1
  <2>3. st'.snap.index <= Len(raft'.log) /\ st'.snap.term = known'[st'.snap.index]
    <3>1. i <= Len(raft.log)
      BY <1>2, <1>4
    <3> QED
      BY <1>1, <1>2, <1>6, <1>8, <3>1
  <2> QED
    BY <1>1, <1>3, <1>6, <1>8, <1>15, <2>2, <2>3 DEF SnapshotSound, AgreeTo
<1>17. Stations'
  <2>1. LastIndex(st') = Len(raft'.log) /\ StoredTo(Len(raft.log))'
    BY <1>1, <1>10, <1>11, <1>14 DEF StoredTo
  <2> QED
    BY <1>1, <2>1 DEF Stations
<1>18. Parts'
  BY <1>1, <1>4, <1>9, <1>10, <1>12, <1>13, <1>16, <1>17 DEF Parts
<1> QED
  BY <1>18, PartsAreInv, PTL

LEMMA CompactInv ==
  ASSUME StorageInv, Compact
  PROVE  StorageInv'
<1> DEFINE f == FirstIndex(st)
           to == st.snap.index + 1
           m == Len(st.entries)
           rest == SubSeq(st.entries, to - f + 1, m)
<1>1. /\ pc = "compact" /\ st' = Compacted(st, to) /\ pc' = "apply"
      /\ raft' = raft /\ ready' = ready /\ known' = known /\ crashes' = crashes
  BY DEF Compact
<1>2. /\ RaftTypes /\ Positions /\ SnapshotSound /\ Busy /\ Stations /\ Contiguous(st)
      /\ st \in Stores
  BY InvFacts
<1>3. /\ st.term \in Terms /\ st.commit \in 0..MaxIndex /\ MaxIndex \in Nat
      /\ st.entries \in Seq(StoredEntries) /\ m \in Nat
      /\ st.snap \in [index : 0..MaxIndex, term : 0..MaxTerm]
      /\ st.snap.index \in Nat /\ st.snap.index \in 0..MaxIndex
      /\ f \in Nat \ {0} /\ LastIndex(st) = f - 1 + m
      /\ f - 1 <= st.snap.index /\ st.snap.index <= LastIndex(st)
      /\ crashes \in 0..MaxCrashes /\ ready \in [snap : 0..MaxIndex, from : 0..MaxIndex]
  BY Numbers
<1>4. CASE to <= f
  <2>1. st' = st
    BY <1>1, <1>4 DEF Compacted
  <2>2. RaftTypes' /\ Positions' /\ SnapshotSound' /\ Busy'
    BY <1>1, <1>2, <2>1 DEF RaftTypes, Positions, SnapshotSound, Busy, AgreeTo
  <2>3. Stations'
    BY <1>1, <1>2, <2>1 DEF Stations, StoredTo
  <2>4. Parts'
    BY <1>1, <1>2, <1>3, <2>1, <2>2, <2>3 DEF Parts
  <2> QED
    BY <2>4, PartsAreInv, PTL
<1>5. CASE ~(to <= f)
  <2>1. st' = PersistentState(st.term, st.commit, rest, st.snap)
    BY <1>1, <1>5 DEF Compacted
  <2>n. /\ to = st.snap.index + 1 /\ st.snap.index \in Nat /\ f \in Nat /\ f > 0 /\ m \in Nat
        /\ LastIndex(st) = f - 1 + m /\ LastIndex(st) \in Nat
        /\ st.snap.index <= LastIndex(st)
    BY <1>3, Numbers
  <2> HIDE DEF f, to, m, rest
  <2>2. /\ to \in Nat /\ to > 0 /\ f < to /\ to - f \in Nat /\ to - f <= m
        /\ to - f + 1 \in 1..(m + 1) /\ to = st.snap.index + 1
    BY <2>n, <1>5
  <2>3. /\ rest \in Seq(StoredEntries) /\ Len(rest) = m - (to - f)
        /\ \A j \in 1..(m - (to - f)) : rest[j] = st.entries[(to - f) + j]
    <3>1. /\ rest \in Seq(StoredEntries) /\ Len(rest) = m - (to - f + 1) + 1
          /\ \A j \in 1..(m - (to - f + 1) + 1) : rest[j] = st.entries[(to - f + 1) + j - 1]
      <4>1. to - f + 1 \in 1..(Len(st.entries) + 1)
        BY <2>2 DEF m
      <4>2. /\ rest \in Seq(StoredEntries)
            /\ Len(rest) = IF to - f + 1 <= m THEN m - (to - f + 1) + 1 ELSE 0
            /\ \A j \in 1..(m - (to - f + 1) + 1) : rest[j] = st.entries[(to - f + 1) + j - 1]
        <5>1. /\ to - f + 1 \in Int /\ m \in Int
              /\ \A j \in (to - f + 1)..m : j \in 1..Len(st.entries)
          <6>1. to - f + 1 \in Nat /\ to - f + 1 >= 1 /\ m \in Nat
            BY <2>n, <2>2
          <6>2. \A j \in (to - f + 1)..m : j \in 1..m
            BY <6>1
          <6> QED
            BY <6>1, <6>2 DEF m
        <5>2. \A j \in (to - f + 1)..m : st.entries[j] \in StoredEntries
          BY <1>3, <5>1
        <5> QED
          BY <5>1, <5>2, SubSeqProperties DEF rest
      <4>3. (IF to - f + 1 <= m THEN m - (to - f + 1) + 1 ELSE 0) = m - (to - f + 1) + 1
        BY <2>n, <2>2
      <4> QED
        BY <4>2, <4>3
    <3>2. m - (to - f + 1) + 1 = m - (to - f)
      BY <2>n, <2>2
    <3>3. \A j \in 1..(m - (to - f)) : (to - f + 1) + j - 1 = (to - f) + j
      BY <2>n, <2>2
    <3> QED
      BY <3>1, <3>2, <3>3
  <2>4. st'.term = st.term /\ st'.commit = st.commit /\ st'.entries = rest /\ st'.snap = st.snap
    BY <2>1, StateFields
  <2>5. st' \in Stores
    BY <1>3, <2>1, <2>3, MakeStored
  <2>6. \A j \in 1..(m - (to - f)) : (to - f) + j \in 1..m
    BY <2>n, <2>2
  <2>7. Contiguous(st') /\ FirstIndex(st') = to /\ LastIndex(st') = LastIndex(st)
    <3>1. \A j \in 1..Len(st'.entries) : st'.entries[j].index = to + j - 1
      <4> SUFFICES ASSUME NEW j \in 1..(m - (to - f)) PROVE rest[j].index = to + j - 1
        BY <2>3, <2>4
      <4>1. rest[j] = st.entries[(to - f) + j] /\ (to - f) + j \in 1..m
        BY <2>3, <2>6
      <4>2. st.entries[(to - f) + j].index = f + ((to - f) + j) - 1
        BY <1>2, <4>1 DEF Contiguous, f, m
      <4>3. f + ((to - f) + j) - 1 = to + j - 1
        BY <2>n, <2>2
      <4> QED
        BY <4>1, <4>2, <4>3
    <3>2. to - 1 + Len(st'.entries) = LastIndex(st) /\ st'.snap.index <= to - 1 + Len(st'.entries)
      <4>1. to - 1 + (m - (to - f)) = f - 1 + m
        BY <2>n, <2>2
      <4> QED
        BY <2>n, <2>3, <2>4, <4>1
    <3>3. /\ to \in Nat \ {0} /\ to <= st'.snap.index + 1 /\ to = st'.snap.index + 1
          /\ st'.entries \in Seq(StoredEntries) /\ st'.snap.index \in 0..MaxIndex
      <4>1. to \in Nat \ {0} /\ to <= st.snap.index + 1 /\ to = st.snap.index + 1
        BY <2>n, <2>2
      <4> QED
        BY <1>3, <2>3, <2>4, <4>1
    <3> QED
      BY <3>1, <3>2, <3>3, MakeStore
  <2>8. \A i \in to..LastIndex(st) : TermAt(st', i) = TermAt(st, i)
    <3> SUFFICES ASSUME NEW i \in to..LastIndex(st) PROVE TermAt(st', i) = TermAt(st, i)
      OBVIOUS
    <3>1. i - to + 1 \in 1..(m - (to - f)) /\ (to - f) + (i - to + 1) = i - f + 1
      BY <2>n, <2>2
    <3>2. rest[i - to + 1] = st.entries[i - f + 1]
      BY <2>3, <3>1
    <3> QED
      BY <2>4, <2>7, <3>2 DEF TermAt, f
  <2>9. RaftTypes' /\ Positions' /\ Busy'
    BY <1>1, <1>2, <2>4 DEF RaftTypes, Positions, Busy, AgreeTo
  <2>10. SnapshotSound'
    <3>1. \A i \in FirstIndex(st')..st'.snap.index : TermAt(st', i) = known'[i]
      BY <1>3, <2>2, <2>4, <2>7
    <3> QED
      BY <1>1, <1>2, <2>4, <3>1 DEF SnapshotSound, AgreeTo
  <2>11. Stations'
    <3>1. LastIndex(st) = Len(raft.log) /\ \A i \in f..Len(raft.log) : TermAt(st, i) = raft.log[i]
      BY <1>1, <1>2 DEF Stations, StoredTo, f
    <3>2. \A i \in to..Len(raft.log) : i \in f..Len(raft.log)
      BY <2>n, <2>2
    <3>3. LastIndex(st') = Len(raft'.log) /\ StoredTo(Len(raft.log))'
      BY <1>1, <2>7, <2>8, <3>1, <3>2 DEF StoredTo
    <3> QED
      BY <1>1, <3>3 DEF Stations
  <2>12. Parts'
    BY <1>1, <1>3, <2>5, <2>7, <2>9, <2>10, <2>11 DEF Parts
  <2> QED
    BY <2>12, PartsAreInv, PTL
<1> QED
  BY <1>4, <1>5

LEMMA AdvanceInv ==
  ASSUME StorageInv, Advance
  PROVE  StorageInv'
<1> DEFINE n == Len(raft.log)
           next == Larger(raft.since, Smaller(raft.committed, n))
<1>1. /\ pc = "apply" /\ ready' = NoReady /\ pc' = "idle"
      /\ st' = st /\ known' = known /\ crashes' = crashes
      /\ raft' = [term |-> raft.term, log |-> raft.log, persisted |-> n,
                  committed |-> raft.committed, since |-> next, applied |-> raft.since]
  BY DEF Advance
<1>2. /\ raft'.term = raft.term /\ raft'.log = raft.log /\ raft'.persisted = n
      /\ raft'.committed = raft.committed /\ raft'.since = next /\ raft'.applied = raft.since
  BY <1>1
<1>3. /\ RaftTypes /\ Positions /\ SnapshotSound /\ Busy /\ Stations /\ Contiguous(st)
      /\ st \in Stores
  BY InvFacts
<1>4. /\ raft.since <= st.commit /\ raft.committed <= Len(known)
      /\ AgreeTo(Smaller(Len(raft.log), Len(known)))
  BY <1>1, <1>3 DEF Busy
<1>5. /\ n \in Nat /\ Len(known) \in Nat /\ raft.committed \in Nat /\ raft.since \in Nat
      /\ raft.since <= raft.committed /\ raft.committed <= n /\ crashes \in 0..MaxCrashes
  BY Numbers
<1>6. next = raft.committed
  BY <1>5 DEF Larger, Smaller
<1> HIDE DEF next
<1>7. RaftTypes'
  BY <1>1, <1>2, <1>3, <1>4, <1>5, <1>6 DEF RaftTypes
<1>8. Positions'
  BY <1>1, <1>2, <1>3, <1>4 DEF Positions
<1>9. SnapshotSound'
  <2>1. \A i \in 1..raft.committed : raft.log[i] = known[i]
    BY <1>4, <1>5 DEF AgreeTo, Smaller
  <2> QED
    BY <1>1, <1>2, <1>3, <1>6, <2>1 DEF SnapshotSound, AgreeTo
<1>10. Busy' /\ Stations'
  BY <1>1, <1>2, <1>3 DEF Busy, Stations, StoredTo
<1>11. ready' \in [snap : 0..MaxIndex, from : 0..MaxIndex]
  BY <1>1, Bounds DEF NoReady
<1>12. Parts'
  BY <1>1, <1>3, <1>5, <1>7, <1>8, <1>9, <1>10, <1>11 DEF Parts
<1> QED
  BY <1>12, PartsAreInv, PTL

(***************************************************************************)
(* A restart: what RawNode::new finds in the file is a log, and the part   *)
(* of it that stands for the snapshot is what was committed.               *)
(***************************************************************************)
LEMMA CrashInv ==
  ASSUME StorageInv, Crash
  PROVE  StorageInv'
<1> DEFINE f == FirstIndex(st)
           last == LastIndex(st)
           log == [i \in 1..last |-> IF i < f THEN raft.log[i] ELSE st.entries[i - f + 1].term]
<1>1. /\ crashes < MaxCrashes /\ crashes' = crashes + 1 /\ ready' = NoReady
      /\ st' = st /\ known' = known
  BY DEF Crash
<1>2. /\ RaftTypes /\ Positions /\ SnapshotSound /\ Busy /\ Stations /\ Contiguous(st)
      /\ st \in Stores /\ last \in 0..MaxIndex
  BY InvFacts
<1>3. /\ raft.log \in Seq(Terms) /\ Len(raft.log) \in Nat /\ Len(known) \in Nat
      /\ known \in Seq(Terms) /\ MaxIndex \in Nat
      /\ st.term \in Terms /\ st.commit \in Nat /\ st.entries \in Seq(StoredEntries)
      /\ st.snap.index \in Nat /\ f \in Nat \ {0} /\ last \in Nat
      /\ f - 1 <= st.snap.index /\ st.snap.index <= last /\ st.snap.index <= st.commit
      /\ st.snap.index <= Len(raft.log) /\ st.snap.index <= Len(known)
      /\ st.snap.index \in 0..MaxIndex /\ crashes \in 0..MaxCrashes
  BY Numbers
<1>4. crashes' \in 0..MaxCrashes /\ ready' \in [snap : 0..MaxIndex, from : 0..MaxIndex]
  BY <1>1, <1>3, Bounds DEF NoReady
<1>5. CASE Loadable(st)
  <2>1. raft' = Loaded(st, raft.log) /\ pc' = "idle"
    BY <1>5 DEF Crash
  <2>2. /\ raft'.term = st.term /\ raft'.log = log /\ raft'.persisted = last
        /\ raft'.committed = st.commit /\ raft'.since = f - 1 /\ raft'.applied = f - 1
    BY <2>1 DEF Loaded
  <2>3. st.commit <= last
    BY <1>3, <1>5 DEF Loadable
  <2>4. /\ \A i \in 1..last : log[i] = IF i < f THEN raft.log[i] ELSE st.entries[i - f + 1].term
        /\ DOMAIN log = 1..last /\ log = [i \in 1..last |-> log[i]]
    OBVIOUS
  <2> HIDE DEF log
  <2>5. \A i \in f..last : TermAt(st, i) \in Terms
    BY <1>2, <1>3, StoreShape
  <2>6. \A i \in 1..last : i >= f => log[i] = TermAt(st, i) /\ i \in f..last
    BY <1>3, <2>4 DEF TermAt
  <2>7. \A i \in 1..last : i < f => log[i] = raft.log[i] /\ i \in 1..Len(raft.log)
                                    /\ i \in 1..st.snap.index
    BY <1>3, <2>4
  <2>8. \A i \in 1..last : log[i] \in Terms
    <3> SUFFICES ASSUME NEW i \in 1..last PROVE log[i] \in Terms
      OBVIOUS
    <3>1. i < f \/ i >= f
      BY <1>3
    <3>2. CASE i < f
      <4>1. log[i] = raft.log[i] /\ i \in 1..Len(raft.log)
        BY <2>7, <3>2
      <4> QED
        BY <1>3, <4>1
    <3>3. CASE i >= f
      BY <2>5, <2>6, <3>3
    <3> QED
      BY <3>1, <3>2, <3>3
  <2>9. log \in Seq(Terms) /\ Len(log) = last
    <3>1. log \in [1..last -> Terms]
      BY <2>4, <2>8
    <3> QED
      BY <1>3, <3>1, FunctionIsSeq
  <2> HIDE DEF f, last
  <2>10. RaftTypes'
    <3>1. f - 1 \in 0..st.commit /\ f - 1 \in 0..(f - 1) /\ f - 1 <= Len(known)
          /\ st.commit \in 0..last /\ last \in 0..last
      BY <1>3, <2>3
    <3> QED
      BY <1>1, <1>2, <1>3, <2>2, <2>9, <3>1 DEF RaftTypes
  <2>11. Positions'
    <3>1. f - 1 <= st.commit /\ st.commit <= st.commit
      BY <1>3
    <3> QED
      BY <1>1, <1>3, <2>2, <3>1 DEF Positions
  <2>12. \A i \in 1..st.snap.index : log[i] = known[i]
    <3> SUFFICES ASSUME NEW i \in 1..st.snap.index PROVE log[i] = known[i]
      OBVIOUS
    <3>1. i \in 1..last /\ (i < f \/ (i >= f /\ i \in f..st.snap.index))
      BY <1>3
    <3> QED
      BY <1>2, <2>6, <2>7, <3>1 DEF SnapshotSound, AgreeTo, f
  <2>13. SnapshotSound'
    <3>1. \A i \in 1..(f - 1) : i \in 1..st.snap.index
      BY <1>3
    <3> QED
      BY <1>1, <1>2, <1>3, <2>2, <2>9, <2>12, <3>1 DEF SnapshotSound, AgreeTo
  <2>14. Stations'
    <3>1. \A i \in f..last : TermAt(st, i) = log[i]
      BY <1>3, <2>6
    <3>2. LastIndex(st') = Len(raft'.log) /\ StoredTo(Len(raft.log))'
      BY <1>1, <2>2, <2>9, <3>1 DEF StoredTo, f, last
    <3> QED
      BY <2>1, <3>2 DEF Stations
  <2>15. Parts'
    BY <1>1, <1>2, <1>4, <2>1, <2>10, <2>11, <2>13, <2>14 DEF Parts, Busy
  <2> QED
    BY <2>15, PartsAreInv, PTL
<1>6. CASE ~Loadable(st)
  <2>1. raft' = raft /\ pc' = "failed"
    BY <1>6 DEF Crash
  <2>2. RaftTypes' /\ Positions' /\ SnapshotSound'
    BY <1>1, <1>2, <2>1 DEF RaftTypes, Positions, SnapshotSound, AgreeTo
  <2>3. Parts'
    BY <1>1, <1>2, <1>4, <2>1, <2>2 DEF Parts, Busy, Stations
  <2> QED
    BY <2>3, PartsAreInv, PTL
<1> QED
  BY <1>5, <1>6

-----------------------------------------------------------------------------
LEMMA StorageInit == Init => StorageInv
<1> SUFFICES ASSUME Init PROVE StorageInv
  OBVIOUS
<1> DEFINE e == [index |-> 1, term |-> 1]
           p == [index |-> 0, term |-> 0]
<1>1. /\ st = PersistentState(1, 1, <<e>>, p) /\ raft = Loaded(st, <<>>)
      /\ ready = NoReady /\ pc = "idle" /\ known = <<1>> /\ crashes = 0
  BY DEF Init, Fresh
<1>2. /\ 1 \in Terms /\ 1 \in 0..MaxIndex /\ 0 \in 0..MaxIndex /\ 0 \in 0..MaxTerm
      /\ 1 \in 1..MaxIndex /\ MaxIndex \in Nat \ {0} /\ 0 \in 0..MaxCrashes
  BY Bounds DEF Terms
<1>3. e \in StoredEntries /\ e.index = 1 /\ e.term = 1
  BY <1>2 DEF StoredEntries
<1>4. /\ p \in [index : 0..MaxIndex, term : 0..MaxTerm] /\ p.index = 0
  BY <1>2
<1> HIDE DEF e, p
<1>5. <<e>> \in Seq(StoredEntries) /\ Len(<<e>>) = 1 /\ <<e>>[1] = e /\ <<e>> # <<>>
  BY <1>3
<1>6. st \in Stores
  BY <1>1, <1>2, <1>4, <1>5, MakeStored
<1>7. st.term = 1 /\ st.commit = 1 /\ st.entries = <<e>> /\ st.snap = p
  BY <1>1, StateFields
<1>8. FirstIndex(st) = 1 /\ LastIndex(st) = 1 /\ TermAt(st, 1) = 1
  <2>1. FirstIndex(st) = 1 /\ LastIndex(st) = 1
    BY <1>3, <1>5, <1>7 DEF FirstIndex, LastIndex
  <2> QED
    BY <1>3, <1>5, <1>7, <2>1 DEF TermAt
<1>9. Contiguous(st)
  BY <1>3, <1>4, <1>5, <1>7, <1>8 DEF Contiguous
<1>10. /\ raft.term = 1 /\ raft.persisted = 1 /\ raft.committed = 1
       /\ raft.since = 0 /\ raft.applied = 0
       /\ raft.log = [i \in 1..1 |-> IF i < 1 THEN <<>>[i] ELSE st.entries[i - 1 + 1].term]
  BY <1>1, <1>7, <1>8 DEF Loaded
<1>11. raft.log \in [1..1 -> Terms] /\ raft.log[1] = 1
  BY <1>2, <1>3, <1>5, <1>7, <1>10
<1>12. raft.log \in Seq(Terms) /\ Len(raft.log) = 1
  BY <1>11, FunctionIsSeq
<1>13. known \in Seq(Terms) /\ Len(known) = 1
  BY <1>1, <1>2
<1>14. RaftTypes
  BY <1>2, <1>10, <1>12, <1>13 DEF RaftTypes
<1>15. Positions
  BY <1>4, <1>7, <1>10, <1>13 DEF Positions
<1>16. SnapshotSound
  BY <1>4, <1>7, <1>8, <1>10, <1>12 DEF SnapshotSound, AgreeTo
<1>17. Stations
  <2>1. \A i \in 1..1 : i = 1
    OBVIOUS
  <2>2. LastIndex(st) = Len(raft.log) /\ StoredTo(Len(raft.log))
    BY <1>8, <1>11, <1>12, <2>1 DEF StoredTo
  <2> QED
    BY <1>1, <2>2 DEF Stations
<1>18. ready \in [snap : 0..MaxIndex, from : 0..MaxIndex]
  BY <1>1, <1>2 DEF NoReady
<1>19. Parts
  BY <1>1, <1>2, <1>6, <1>9, <1>14, <1>15, <1>16, <1>17, <1>18 DEF Parts, Busy
<1> QED
  BY <1>19, PartsAreInv

LEMMA StorageStep == StorageInv /\ [Next]_vars => StorageInv'
<1> SUFFICES ASSUME StorageInv, [Next]_vars
             PROVE  StorageInv'
  OBVIOUS
<1>1. CASE UNCHANGED vars
  <2>1. UNCHANGED <<st, raft, ready, pc, known, crashes>>
    BY <1>1 DEF vars
  <2>2. Parts
    BY PartsAreInv
  <2>3. Parts'
    BY <2>1, <2>2 DEF Parts, RaftTypes, Positions, SnapshotSound, Busy, Stations, AgreeTo, StoredTo
  <2> QED
    BY <2>3, PartsAreInv, PTL
<1>2. ASSUME NEW t \in Terms, NEW l \in LeaderLogs(t), NEW c \in 1..MaxIndex,
             StepAppend(t, l, c)
      PROVE  StorageInv'
  BY <1>2, StepAppendInv
<1>3. ASSUME NEW t \in Terms, NEW l \in LeaderLogs(t), NEW c \in 1..MaxIndex,
             NEW i \in 1..MaxIndex, StepSnapshot(t, l, i, c)
      PROVE  StorageInv'
  BY <1>3, StepSnapshotInv
<1>4. ASSUME NEW t \in Terms, NEW c \in 1..MaxIndex, StepCommit(t, c)
      PROVE  StorageInv'
  BY <1>4, StepCommitInv
<1>5. CASE ApplySnapshot
  BY <1>5, ApplySnapshotInv
<1>6. CASE AppendEntries
  BY <1>6, AppendEntriesInv
<1>7. CASE CreateSnapshot
  BY <1>7, CreateSnapshotInv
<1>8. CASE Compact
  BY <1>8, CompactInv
<1>9. CASE Advance
  BY <1>9, AdvanceInv
<1>10. CASE Crash
  BY <1>10, CrashInv
<1> QED
  BY <1>1, <1>2, <1>3, <1>4, <1>5, <1>6, <1>7, <1>8, <1>9, <1>10 DEF Next

LEMMA StorageAlways == Spec => []StorageInv
  BY StorageInit, StorageStep, PTL DEF Spec

(***************************************************************************)
(* Types: every call of PersistentStorage, and a crash after any of them,  *)
(* leaves the file and raft-rs's positions in their ranges.                *)
(***************************************************************************)
THEOREM StorageTypeCorrect == Spec => []TypeOK
<1>1. StorageInv => TypeOK
  BY DEF StorageInv
<1> QED
  BY <1>1, StorageAlways, PTL

(***************************************************************************)
(* One log: at every point at which the process can die, the snapshot and  *)
(* the entries in the file make one log without a hole, whatever append,   *)
(* apply_snapshot, create_snapshot and compact did before.                 *)
(***************************************************************************)
THEOREM FileIsOneLog == Spec => []OneLog
<1>1. StorageInv => OneLog
  BY DEF StorageInv
<1> QED
  BY <1>1, StorageAlways, PTL

(***************************************************************************)
(* When drive_ready is over, also after a restart, the file holds exactly  *)
(* the log that raft-rs was told is stored, with the terms it believes.    *)
(***************************************************************************)
THEOREM FileHoldsTheLog == Spec => []StoredIsBelieved
<1>1. StorageInv => StoredIsBelieved
  <2> SUFFICES ASSUME StorageInv, pc = "idle"
               PROVE  /\ st.term = raft.term /\ LastIndex(st) = Len(raft.log)
                      /\ \A i \in FirstIndex(st)..LastIndex(st) : Term(st, i) = raft.log[i]
                      /\ st.snap.index > 0 => st.snap.term = raft.log[st.snap.index]
    BY DEF StoredIsBelieved
  <2>1. /\ RaftTypes /\ Positions /\ SnapshotSound /\ Stations
    BY InvFacts
  <2>2. LastIndex(st) = Len(raft.log) /\ StoredTo(Len(raft.log))
    BY <2>1 DEF Stations
  <2>3. st.snap.index \in Nat /\ FirstIndex(st) \in Nat \ {0} /\ Len(raft.log) \in Nat
    BY Numbers
  <2>4. st.snap.index > 0 => st.snap.term = raft.log[st.snap.index]
    <3>1. st.snap.index > 0 => st.snap.index \in 1..st.snap.index
      BY <2>3
    <3> QED
      BY <2>1, <3>1 DEF SnapshotSound, AgreeTo
  <2>5. \A i \in FirstIndex(st)..LastIndex(st) : Term(st, i) = raft.log[i]
    <3> SUFFICES ASSUME NEW i \in FirstIndex(st)..LastIndex(st) PROVE Term(st, i) = raft.log[i]
      OBVIOUS
    <3>1. i \in Nat /\ i > 0 /\ ~(i < FirstIndex(st))
      BY <2>2, <2>3
    <3>2. CASE i = st.snap.index
      BY <2>4, <3>1, <3>2 DEF Term
    <3>3. CASE i # st.snap.index
      BY <2>2, <3>1, <3>3 DEF Term, TermAt, StoredTo
    <3> QED
      BY <3>2, <3>3
  <2> QED
    BY <2>1, <2>2, <2>4, <2>5 DEF Positions
<1> QED
  BY <1>1, StorageAlways, PTL

(***************************************************************************)
(* The errors of the storage calls are never met: an append begins inside  *)
(* the file or right after it, the term of a snapshot's entry is in the    *)
(* file, and compact stays within it.                                      *)
(***************************************************************************)
THEOREM StorageCallsSucceed == Spec => []CallsSucceed
<1>1. StorageInv => CallsSucceed
  <2> SUFFICES ASSUME StorageInv PROVE CallsSucceed
    OBVIOUS
  <2>1. /\ FirstIndex(st) \in Nat \ {0} /\ LastIndex(st) \in Nat
        /\ st.snap.index <= LastIndex(st)
    BY Numbers
  <2>2. pc = "append" => ready.from >= FirstIndex(st) /\ ready.from <= LastIndex(st) + 1
    BY <2>1, InvFacts DEF Stations
  <2>3. pc = "apply" /\ Due => HasTerm(st, SnapshotPoint)
    <3> SUFFICES ASSUME pc = "apply", Due PROVE HasTerm(st, raft.applied)
      BY DEF SnapshotPoint
    <3>1. raft.applied \in FirstIndex(st)..LastIndex(st)
      BY DueFacts
    <3>2. raft.applied \in (FirstIndex(st) - 1)..LastIndex(st)
      BY <2>1, <3>1
    <3> QED
      BY <3>2 DEF HasTerm
  <2> QED
    BY <2>1, <2>2, <2>3 DEF CallsSucceed
<1> QED
  BY <1>1, StorageAlways, PTL

(***************************************************************************)
(* The term in the file, which is the promise of a voter, never goes back: *)
(* neither a snapshot of an older term nor a restart lowers it.            *)
(***************************************************************************)
THEOREM PromiseKept == Spec => TermNeverBack
<1>1. StorageInv /\ StorageInv' /\ [Next]_vars => [st'.term >= st.term]_vars
  <2> SUFFICES ASSUME StorageInv, StorageInv', Next
               PROVE  st'.term >= st.term
    OBVIOUS
  <2>1. st.term = raft.term /\ st.term \in Nat /\ st'.term = raft'.term
    <3>1. st.term = raft.term /\ st.term \in Terms
      BY Numbers
    <3>2. Parts'
      BY PartsAreInv, PTL
    <3>3. st'.term = raft'.term
      BY <3>2 DEF Parts, Positions
    <3> QED
      BY <3>1, <3>3, Bounds DEF Terms
  <2>2. ASSUME NEW t \in Terms, NEW l, NEW c, NEW r, t >= raft.term, Take(t, l, c, r)
        PROVE  st'.term >= st.term
    <3>1. st'.term = t
      BY <2>2, StateFields DEF Take, SetHardState
    <3> QED
      BY <2>1, <2>2, <3>1
  <2>3. ASSUME NEW t \in Terms, NEW l \in LeaderLogs(t), NEW c \in 1..MaxIndex,
               StepAppend(t, l, c)
        PROVE  st'.term >= st.term
    BY <2>2, <2>3 DEF StepAppend
  <2>4. ASSUME NEW t \in Terms, NEW l \in LeaderLogs(t), NEW c \in 1..MaxIndex,
               NEW i \in 1..MaxIndex, StepSnapshot(t, l, i, c)
        PROVE  st'.term >= st.term
    BY <2>2, <2>4 DEF StepSnapshot
  <2>5. ASSUME NEW t \in Terms, NEW c \in 1..MaxIndex, StepCommit(t, c)
        PROVE  st'.term >= st.term
    BY <2>2, <2>5 DEF StepCommit
  <2>6. CASE ApplySnapshot \/ AppendEntries \/ CreateSnapshot \/ Compact
    <3>1. raft' = raft
      BY <2>6 DEF ApplySnapshot, AppendEntries, CreateSnapshot, Compact
    <3> QED
      BY <2>1, <3>1
  <2>7. CASE Advance \/ Crash
    <3>1. st' = st
      BY <2>7 DEF Advance, Crash
    <3> QED
      BY <2>1, <3>1
  <2> QED
    BY <2>3, <2>4, <2>5, <2>6, <2>7 DEF Next
<1> QED
  BY <1>1, StorageAlways, PTL DEF Spec, TermNeverBack
=============================================================================
