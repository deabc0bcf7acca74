---------------------------- MODULE StreamState ----------------------------
(***************************************************************************)
(* One entry of the stream table (shard/stream_state.rs): the replica      *)
(* state the engine keeps per stream, and the operations the engine calls  *)
(* on it, as operators from a state to a state.                            *)
(*                                                                         *)
(* A stream the table has never seen reads as NewStream: every operation   *)
(* first goes through ensure_stream, and a lookup of a missing stream      *)
(* reports the same epoch, positions and (empty) tail.                     *)
(***************************************************************************)
EXTENDS Integers, Sequences

CONSTANT TailCacheEntries  \* config.tail_cache_entries

ASSUME TailCacheAssumption == TailCacheEntries \in Nat

Max2(a, b) == IF a >= b THEN a ELSE b
Min2(a, b) == IF a <= b THEN a ELSE b

NewStream ==
  [max_epoch |-> 0, next |-> 0, commit |-> 0, consumed |-> 0,
   last_entry |-> 0, tail |-> <<>>]

(***************************************************************************)
(* allocate_append: the writer's epoch is checked against the highest one  *)
(* seen; an accepted append takes the next position of the stream.         *)
(***************************************************************************)
NeverFenced(st, epoch) == FALSE  \* mutant: no check

Fenced(st, epoch) == epoch < st.max_epoch

AllocateWithoutAdvance(st, epoch) == [st EXCEPT !.max_epoch = epoch]  \* mutant

AllocateAppend(st, epoch) ==
  [max_epoch |-> epoch, next |-> st.next + 1, commit |-> st.commit,
   consumed |-> st.consumed, last_entry |-> st.last_entry, tail |-> st.tail]

(***************************************************************************)
(* rollback_uncommitted_append, called by fail_pending_writes_not_leader   *)
(* for every drained write of the stream, highest position first.  What    *)
(* the calls do together: next falls back to the lowest position from      *)
(* which everything up to the old next was pending, and never below        *)
(* commit.                                                                 *)
(***************************************************************************)
Reclaimable(st, lsns, m) ==
  /\ m..(st.next - 1) \subseteq lsns
  /\ m = st.next \/ st.commit <= m

RollbackTarget(st, lsns) ==
  CHOOSE m \in 0..st.next :
    /\ Reclaimable(st, lsns, m)
    /\ \A k \in 0..st.next : Reclaimable(st, lsns, k) => m <= k

RollbackUncommittedAppends(st, lsns) ==
  [st EXCEPT !.next = RollbackTarget(st, lsns)]

(***************************************************************************)
(* The bounded tail cache: push_back, then pop_front down to the limit.    *)
(***************************************************************************)
PushTailUntrimmed(tail, r) == Append(tail, r)  \* mutant: no limit

PushTail(tail, r) ==
  LET t == Append(tail, r) IN
  SubSeq(t, Max2(Len(t) - TailCacheEntries, 0) + 1, Len(t))

AppendedWithoutNext(st, epoch, entry_id, lsn, payload) ==  \* mutant
  [max_epoch  |-> Max2(st.max_epoch, epoch),
   next       |-> st.next,
   commit     |-> st.commit,
   consumed   |-> st.consumed,
   last_entry |-> Max2(st.last_entry, entry_id),
   tail       |-> PushTail(st.tail, [lsn |-> lsn, entry_id |-> entry_id,
                                     payload |-> payload])]

MarkAppended(st, epoch, entry_id, lsn, payload) ==
  [max_epoch  |-> Max2(st.max_epoch, epoch),
   next       |-> Max2(st.next, lsn + 1),
   commit     |-> st.commit,
   consumed   |-> st.consumed,
   last_entry |-> Max2(st.last_entry, entry_id),
   tail       |-> PushTail(st.tail, [lsn |-> lsn, entry_id |-> entry_id,
                                     payload |-> payload])]

MarkCommitted(st, entry_id, lsn) ==
  [max_epoch |-> st.max_epoch, next |-> st.next,
   commit |-> Max2(st.commit, lsn + 1), consumed |-> st.consumed,
   last_entry |-> Max2(st.last_entry, entry_id), tail |-> st.tail]

ObserveRecovered(st, epoch, entry_id, lsn, payload) ==
  MarkCommitted(MarkAppended(st, epoch, entry_id, lsn, payload), entry_id, lsn)

(***************************************************************************)
(* advance_consumed: the consumed position only grows, and the records at  *)
(* the front of the tail cache that lie below it are dropped.              *)
(***************************************************************************)
DropConsumed(tail, consumed) ==
  LET live == {i \in 1..Len(tail) : tail[i].lsn >= consumed} IN
  IF live = {} THEN <<>>
  ELSE SubSeq(tail, CHOOSE i \in live : \A j \in live : i <= j, Len(tail))

AdvanceConsumed(st, lsn) ==
  LET consumed == Max2(st.consumed, lsn) IN
  [max_epoch |-> st.max_epoch, next |-> st.next, commit |-> st.commit,
   consumed |-> consumed, last_entry |-> st.last_entry,
   tail |-> DropConsumed(st.tail, consumed)]

(***************************************************************************)
(* read_from_tail: the first cached record of that position, if any.       *)
(***************************************************************************)
TailHits(st, lsn) == {i \in 1..Len(st.tail) : st.tail[i].lsn = lsn}

ReadFromTail(st, lsn) ==
  st.tail[CHOOSE i \in TailHits(st, lsn) : \A j \in TailHits(st, lsn) : i <= j]

\* encode_snapshot then decode_snapshot: everything but the tail cache
SnapshotOf(st) == [st EXCEPT !.tail = <<>>]

(***************************************************************************)
(* The GET_STATUS positions of a stream make sense together only if what   *)
(* is committed has been allocated.                                        *)
(***************************************************************************)
CommittedIsAllocated(st) == st.commit <= st.next
=============================================================================
