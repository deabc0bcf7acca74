------------------------------- MODULE WalLog -------------------------------
(***************************************************************************)
(* The WAL of one shard on one node: WalWriter (wal/writer.rs), its        *)
(* segment files (wal/segment.rs), the StreamLogIndex (wal/index.rs), the  *)
(* WalReader (wal/reader.rs) and run_gc of the engine, with crashes at     *)
(* every point where the code has something not yet synced.                *)
(*                                                                         *)
(* The engine feeds the WAL the committed entries of the raft log, in      *)
(* order; after a restart raft delivers again whatever lies above its      *)
(* snapshot.  A record is named by the raft index of its entry.  A segment *)
(* file is its header, present or not, and the records written after it;   *)
(* a record whose bytes are only partly there is Torn.                     *)
(***************************************************************************)
EXTENDS Integers, Sequences, FiniteSets, Functions

CONSTANTS
  Streams,         \* stream ids of the shard
  Log,             \* the committed entries: a sequence of [stream, lsn]
  SegmentRecords,  \* segment_max_bytes, in records
  SnapshotInterval,\* SNAPSHOT_INTERVAL
  MaxCrashes,      \* bound: crashes in all
  MaxOffset,       \* bound: offsets consumers acknowledge
  CrashTears,      \* a crash may leave part of an unsynced record behind
  CrashBeheads     \* a crash may leave a new file without its header

Indexes == 1..Len(Log)

ASSUME WalAssumption ==
  /\ Log \in Seq([stream : Streams, lsn : Nat])
  /\ {SegmentRecords, SnapshotInterval} \subseteq Nat \ {0}
  /\ MaxCrashes \in Nat /\ MaxOffset \in Nat
  /\ CrashTears \in BOOLEAN /\ CrashBeheads \in BOOLEAN

VARIABLES
  segs,      \* the files of the shard directory, by segment id
  cur,       \* current_segment_id
  nextSeg,   \* next_segment_id
  index,     \* StreamLogIndex: from <<stream, lsn>> to <<segment id, position>>
  loc,       \* where the append under way put its record
  consumed,  \* consumed_stream_lsn of the stream table
  snap,      \* the raft snapshot: its index and the consumed positions in it
  at,        \* the next entry raft delivers
  applied,   \* raft_log.applied: the end of the last batch raft was told about
  pc,        \* where the engine stands
  acked,     \* acked[s]: the highest offset ever acknowledged (history)
  damaged,   \* a crash left a torn record or a headless file behind (history)
  crashes

crashVars == <<damaged, crashes>>
vars == <<segs, cur, nextSeg, index, loc, consumed, snap, at, applied, pc, acked,
          crashVars>>
memory == <<cur, nextSeg, index, loc, consumed, at, applied>>

\* HashMap::insert
Insert(f, k, v) == [x \in DOMAIN f \cup {k} |-> IF x = k THEN v ELSE f[x]]

Torn == 0
NoLoc == <<0, 0>>
Headless == [header |-> FALSE, recs |-> <<>>]
Nothing == [s \in Streams |-> 0]

Init ==
  /\ segs = [g \in {} |-> Headless]
  /\ cur = 0 /\ nextSeg = 0 /\ index = [k \in {} |-> NoLoc] /\ loc = NoLoc
  /\ consumed = Nothing /\ acked = Nothing
  /\ snap = [index |-> 0, consumed |-> Nothing]
  /\ at = 1 /\ applied = 0 /\ pc = "down" /\ damaged = FALSE /\ crashes = 0

-----------------------------------------------------------------------------
(***************************************************************************)
(* WalWriter::open.  A file shorter than a header is skipped, one with a   *)
(* bad header is an error, and a segment is replayed up to the first       *)
(* record that does not decode.  A headless file that was written to again *)
(* has records where the header belongs: two of them always fill 64 bytes, *)
(* one does when its payload is long enough.                               *)
(***************************************************************************)
Key(i) == <<Log[i].stream, Log[i].lsn>>

Decodable(f) ==
  IF f.header THEN {p \in 1..Len(f.recs) : \A q \in 1..p : f.recs[q] # Torn} ELSE {}

Replayable == UNION {{<<g, p>> : p \in Decodable(segs[g])} : g \in DOMAIN segs}

RecordAt(l) == segs[l[1]].recs[l[2]]

Later(a, b) == a[1] > b[1] \/ (a[1] = b[1] /\ a[2] >= b[2])

RebuiltIndex ==
  [k \in {Key(RecordAt(l)) : l \in Replayable} |->
     CHOOSE l \in Replayable :
       /\ Key(RecordAt(l)) = k
       /\ \A m \in Replayable : Key(RecordAt(m)) = k => Later(l, m)]

LastSegment == CHOOSE g \in DOMAIN segs : \A h \in DOMAIN segs : h <= g

MayFail(f) == ~f.header /\ Len(f.recs) >= 1
MustFail(f) == ~f.header /\ Len(f.recs) >= 2

SameSegmentNext == LastSegment  \* mutant: off by one

NextSegment == LastSegment + 1

\* mutant: the snapshot's own entry is delivered again
ResumeAtSnapshot ==
  /\ at' = snap.index /\ applied' = snap.index
  /\ consumed' = snap.consumed
  /\ UNCHANGED <<snap, acked, crashVars>>

\* the engine resumes from its snapshot
Resume ==
  /\ at' = snap.index + 1 /\ applied' = snap.index
  /\ consumed' = snap.consumed
  /\ UNCHANGED <<snap, acked, crashVars>>

Open ==
  /\ pc = "down" /\ DOMAIN segs # {}
  /\ \A g \in DOMAIN segs : ~MustFail(segs[g])
  /\ index' = RebuiltIndex
  /\ cur' = LastSegment /\ nextSeg' = NextSegment
  /\ pc' = "run"
  /\ Resume
  /\ UNCHANGED <<segs, loc>>

OpenFails ==
  /\ pc = "down"
  /\ \E g \in DOMAIN segs : MayFail(segs[g])
  /\ pc' = "failed"
  /\ UNCHANGED <<segs, memory, snap, acked, crashVars>>

\* create_segment, first half: the file exists
Create(g) == segs' = Insert(segs, g, Headless)

OpenEmpty ==
  /\ pc = "down" /\ DOMAIN segs = {}
  /\ Create(0)
  /\ cur' = 0 /\ nextSeg' = 1 /\ index' = RebuiltIndex
  /\ pc' = "first header"
  /\ Resume
  /\ UNCHANGED loc

FirstHeader ==
  /\ pc = "first header"
  /\ segs' = [segs EXCEPT ![cur].header = TRUE]
  /\ pc' = "run"
  /\ UNCHANGED <<memory, snap, acked, crashVars>>

-----------------------------------------------------------------------------
(***************************************************************************)
(* apply_append_entry: append_with_log_index writes at current_offset, the *)
(* end of the file; a full segment is synced and a new one created, header *)
(* and all; then the current file is synced and the index learns the       *)
(* location.                                                               *)
(***************************************************************************)
Full(f) == Len(f.recs) >= SegmentRecords

AppendWithLogIndex ==
  LET f == [segs[cur] EXCEPT !.recs = Append(@, at)] IN
  /\ pc \in {"run", "apply"} /\ at \in Indexes
  /\ segs' = [segs EXCEPT ![cur] = f]
  /\ loc' = <<cur, Len(f.recs)>>
  /\ pc' = IF Full(f) THEN "rotate" ELSE "sync"
  /\ UNCHANGED <<cur, nextSeg, index, consumed, snap, at, applied, acked, crashVars>>

Rotate ==
  /\ pc = "rotate"
  /\ Create(nextSeg)
  /\ cur' = nextSeg /\ nextSeg' = nextSeg + 1
  /\ pc' = "header"
  /\ UNCHANGED <<index, loc, consumed, snap, at, applied, acked, crashVars>>

Header ==
  /\ pc = "header"
  /\ segs' = [segs EXCEPT ![cur].header = TRUE]
  /\ pc' = "sync"
  /\ UNCHANGED <<memory, snap, acked, crashVars>>

LocationAfterRotation == <<cur, loc[2]>>  \* mutant: the id is read too late

Location == loc

SnapshotDue == applied >= snap.index + SnapshotInterval

\* the end of apply_append_entry, maybe_snapshot_raft_state included; the ready
\* batch goes on, or is over and raft is told by advance
Sync ==
  /\ pc = "sync"
  /\ index' = Insert(index, Key(at), Location)
  /\ at' = at + 1
  /\ loc' = NoLoc
  /\ snap' = IF SnapshotDue THEN [index |-> applied, consumed |-> consumed] ELSE snap
  /\ \/ pc' = "apply" /\ at + 1 \in Indexes /\ UNCHANGED applied
     \/ pc' = "run" /\ applied' = at
  /\ UNCHANGED <<segs, cur, nextSeg, consumed, acked, crashVars>>

\* OpCode::Ack: advance_consumed
Consume(s, offset) ==
  /\ pc = "run" /\ offset > consumed[s]
  /\ consumed' = [consumed EXCEPT ![s] = offset]
  /\ acked' = [acked EXCEPT ![s] = IF offset > @ THEN offset ELSE @]
  /\ UNCHANGED <<segs, cur, nextSeg, index, loc, snap, at, applied, pc, crashVars>>

-----------------------------------------------------------------------------
(***************************************************************************)
(* run_gc: the index forgets what was consumed, then every segment but the *)
(* current one that no index entry points into is removed.                 *)
(***************************************************************************)
TruncateThrough(k) == k[2] > consumed[k[1]]  \* mutant: drops the boundary too

TruncateLate(k) == k[2] >= consumed[k[1]] - 1  \* mutant: keeps one too many

Kept(k) == k[2] >= consumed[k[1]]

Truncated == Restrict(index, {k \in DOMAIN index : Kept(k)})

LiveSegments(ix) == {l[1] : l \in Range(ix)}

Removable(live) == {g \in DOMAIN segs : g # cur /\ g \notin live}

RunGc ==
  LET dead == Removable(LiveSegments(Truncated)) IN
  /\ pc = "run"
  /\ index # Truncated \/ dead # {}
  /\ index' = Truncated
  /\ segs' = Restrict(segs, DOMAIN segs \ dead)
  /\ UNCHANGED <<cur, nextSeg, loc, consumed, snap, at, applied, pc, acked, crashVars>>

(***************************************************************************)
(* A crash.  Everything synced stays.  The last record of the current file *)
(* may be there, gone or torn while an append is under way; a file just    *)
(* created may be there, gone, or without its header.                      *)
(***************************************************************************)
LastTorn(f) == [f EXCEPT !.recs = [@ EXCEPT ![Len(f.recs)] = Torn]]
LastLost(f) == [f EXCEPT !.recs = SubSeq(@, 1, Len(@) - 1)]

NewFile == pc \in {"header", "first header"} \/ (pc = "sync" /\ loc[1] # cur)
NewRecord == pc = "rotate" \/ (pc = "sync" /\ loc[1] = cur)

Survivors ==
  CASE NewRecord -> {segs, [segs EXCEPT ![cur] = LastLost(@)]} \cup
                    (IF CrashTears THEN {[segs EXCEPT ![cur] = LastTorn(@)]} ELSE {})
    [] NewFile   -> {Restrict(segs, DOMAIN segs \ {cur})} \cup
                    (IF segs[cur].header THEN {segs} ELSE {}) \cup
                    (IF CrashBeheads THEN {[segs EXCEPT ![cur] = Headless]} ELSE {})
    [] OTHER     -> {segs}

Damaged(f) == ~f.header \/ Torn \in Range(f.recs)

Crash ==
  /\ pc \notin {"down", "failed"} /\ crashes < MaxCrashes
  /\ crashes' = crashes + 1
  /\ segs' \in Survivors
  /\ damaged' = (damaged \/ \E g \in DOMAIN segs' : Damaged(segs'[g]))
  /\ pc' = "down"
  /\ cur' = 0 /\ nextSeg' = 0 /\ index' = [k \in {} |-> NoLoc] /\ loc' = NoLoc
  /\ consumed' = Nothing /\ at' = 1 /\ applied' = 0
  /\ UNCHANGED <<snap, acked>>

Next ==
  \/ Open \/ OpenFails \/ OpenEmpty \/ FirstHeader
  \/ AppendWithLogIndex \/ Rotate \/ Header \/ Sync
  \/ \E s \in Streams, o \in 1..MaxOffset : Consume(s, o)
  \/ RunGc \/ Crash

Spec == Init /\ [][Next]_vars

\* The loop of the engine finishes the entries at hand and calls run_gc again
\* and again; nothing obliges a consumer to acknowledge or raft to deliver.
FairSpec ==
  /\ Spec
  /\ WF_vars(RunGc)
  /\ WF_vars(FirstHeader \/ Rotate \/ Header \/ Sync)
  /\ WF_vars(pc = "apply" /\ AppendWithLogIndex)

-----------------------------------------------------------------------------
Files == [header : BOOLEAN, recs : Seq(Indexes \cup {Torn})]

\* Types.  The files are numbered below next_segment_id while the engine runs.
TypeOK ==
  /\ \A g \in DOMAIN segs : g \in Nat /\ segs[g] \in Files
  /\ cur \in Nat /\ nextSeg \in Nat /\ loc \in Nat \X Nat
  /\ at \in 1..(Len(Log) + 1) /\ applied \in 0..(at - 1)
  /\ \A k \in DOMAIN index : k \in Streams \X Nat /\ index[k] \in Nat \X Nat
  /\ consumed \in [Streams -> 0..MaxOffset] /\ acked \in [Streams -> 0..MaxOffset]
  /\ snap.index \in 0..Len(Log) /\ snap.consumed \in [Streams -> 0..MaxOffset]
  /\ pc \in {"down", "first header", "run", "apply", "rotate", "header", "sync", "failed"}
  /\ damaged \in BOOLEAN /\ crashes \in 0..MaxCrashes

\* A lookup in the index leads to an existing file and, at that place, to a
\* whole record of the stream and position asked for (read_record never finds
\* the wrong record or a removed segment).
IndexSound ==
  \A k \in DOMAIN index :
    LET l == index[k] IN
    /\ l[1] \in DOMAIN segs /\ l[2] \in 1..Len(segs[l[1]].recs)
    /\ RecordAt(l) # Torn /\ Key(RecordAt(l)) = k

\* Every entry that raft will not deliver again and no consumer acknowledged
\* can be read, across rotation, garbage collection and restarts.
AppliedReadable ==
  pc = "run" =>
    \A i \in 1..(at - 1) : Log[i].lsn >= acked[Log[i].stream] => Key(i) \in DOMAIN index

\* The same as long as every crash left whole records and whole files only.
CleanlyReadable == ~damaged => AppliedReadable

\* rotate() never asks create_new for a file that exists.
FreshSegment ==
  pc \notin {"down", "failed"} =>
    cur \in DOMAIN segs /\ \A g \in DOMAIN segs : g < nextSeg /\ g <= cur

\* A segment is drained when it is not the current one and the consumers have
\* moved past every record in it.
Drained(g) ==
  /\ g \in DOMAIN segs /\ g # cur
  /\ \A i \in Range(segs[g].recs) \ {Torn} : Log[i].lsn < consumed[Log[i].stream]

\* run_gc gives the disk space back: while the engine is up no drained segment
\* stays on disk for ever.
EventuallyReclaimed ==
  \A g \in 0..Len(Log) : []<>(pc \in {"down", "failed"} \/ ~Drained(g))
=============================================================================
