---------------------------- MODULE ClusterBench ----------------------------
(***************************************************************************)
(* bin/cluster_bench.rs against the shards of a cluster: one writer that   *)
(* retries until enough appends are acknowledged, readers that follow it,  *)
(* and a reporter that waits until they have caught up.  The threads share *)
(* highest_written, highest_read and writer_done.                          *)
(*                                                                         *)
(* The cluster is one stream of ShardGroup with what a benchmark can       *)
(* notice: the nodes that take themselves for the leader, the positions    *)
(* they hand out and serve, and whom they answer.  Nothing is read back    *)
(* from a file (no crashes) and nobody sends an Ack, so that run_gc        *)
(* touches nothing.  Every attempt of the writer is a write of its own:    *)
(* the protocol has no way to say that a request is a repetition.          *)
(***************************************************************************)
EXTENDS Naturals, Sequences, FiniteSets

CONSTANTS
  Addrs,      \* how many addresses the benchmark is given
  Readers,    \* the reader threads, by number from 0
  Primary,    \* the writer thread
  Target,     \* --writes
  MaxFaults   \* bound: leader changes, timeouts and failed searches in all

ASSUME BenchAssumption ==
  /\ Addrs \in Nat \ {0} /\ Target \in Nat \ {0} /\ MaxFaults \in Nat
  /\ Readers # {} /\ Readers \subseteq Nat

Hints == 0..(Addrs - 1)

\* an attempt fails by a fault, or because the leader was not known yet
Attempts == 1..(Target + 2 * MaxFaults + 1)

VARIABLES
  raftlog,         \* raftlog[n]: the log of n as it leads, or as it last led (external)
  log,             \* the entries that are committed
  leader, leads,   \* the leader, and all nodes that take themselves for it
  next,            \* next[n]: next_stream_lsn
  requestSeq,      \* requestSeq[n]: request_seq
  pending,         \* pending[n]: pending_writes
  applied,         \* applied[n]: how much of log is behind node n
  served,          \* served[n]: the positions its index holds
  told,            \* told[w]: how attempt w was answered
  moved,           \* whether the leader has ever changed
  faults,
  attempts,        \* attempts made so far
  issued,          \* issued: the attempts that were acknowledged
  conn,            \* conn: the attempts whose answers the writer's stream holds
  hint,            \* hint[t]: leader_hint of thread t
  writer,          \* where the writer stands
  written, done,   \* highest_written, writer_done
  reader,          \* reader[r]: where reader r stands, next_lsn, available
  read,            \* highest_read
  reporter         \* where the reporter stands, and the lag it computed

logVars == <<raftlog, log, leader, leads>>
engineVars == <<next, requestSeq, pending, applied, served>>
clusterVars == <<logVars, engineVars, told, moved>>
writerVars == <<attempts, issued, conn, writer, written, done>>
readerVars == <<reader, read>>
vars == <<clusterVars, faults, writerVars, hint, readerVars, reporter>>

Max2(a, b) == IF a >= b THEN a ELSE b

Told(status, lsn) == [status |-> status, lsn |-> lsn]

Init ==
  /\ raftlog = [n \in Hints |-> <<>>] /\ log = <<>>
  /\ leader \in Hints /\ leads = {leader}
  /\ next = [n \in Hints |-> 0] /\ requestSeq = [n \in Hints |-> 0]
  /\ pending = [n \in Hints |-> {}]
  /\ applied = [n \in Hints |-> 0] /\ served = [n \in Hints |-> {}]
  /\ told = [w \in Attempts |-> Told("unsent", 0)]
  /\ moved = FALSE /\ faults = 0
  /\ attempts = 0 /\ issued = 0 /\ conn = <<>> /\ writer = "loop"
  /\ hint = [t \in Readers \cup {Primary} |-> IF t = Primary THEN 0 ELSE t % Addrs]
  /\ written = 0 /\ done = FALSE
  /\ reader = [r \in Readers |-> [pc |-> "load", next |-> 0, available |-> 0]]
  /\ read = [r \in Readers |-> 0]
  /\ reporter = [pc |-> "load", writes |-> 0, lag |-> 0]

-----------------------------------------------------------------------------
(***************************************************************************)
(* raft-rs (external).  A new leader has every committed entry and what it *)
(* has received of some earlier leader's others.  Who led before knows     *)
(* nothing of it until a message of the new term arrives.                  *)
(***************************************************************************)
Fault == faults < MaxFaults /\ faults' = faults + 1

LeaderMoves(n, m, k) ==
  /\ Fault /\ n \notin leads
  /\ k >= Len(log) /\ SubSeq(raftlog[m], 1, Len(log)) = log
  /\ raftlog' = [raftlog EXCEPT ![n] = SubSeq(raftlog[m], 1, k)]
  /\ leader' = n /\ leads' = leads \cup {n} /\ moved' = TRUE
  /\ UNCHANGED <<log, engineVars, told, writerVars, hint, readerVars, reporter>>

Commit ==
  /\ Len(log) < Len(raftlog[leader])
  /\ log' = Append(log, raftlog[leader][Len(log) + 1])
  /\ UNCHANGED <<raftlog, leader, leads, engineVars, told, moved, faults, writerVars,
                 hint, readerVars, reporter>>

-----------------------------------------------------------------------------
(***************************************************************************)
(* The engine of a node (shard/engine.rs).  Propose is handle_client_      *)
(* request for a Write at a node that takes itself for the leader.         *)
(***************************************************************************)
ProposeAtOnePosition(n, w) ==  \* mutant: next_stream_lsn stays
  LET e == [w |-> w, rid |-> requestSeq[n] + 1, lsn |-> next[n]] IN
  /\ requestSeq' = [requestSeq EXCEPT ![n] = @ + 1]
  /\ pending' = [pending EXCEPT ![n] = @ \cup {e}]
  /\ raftlog' = [raftlog EXCEPT ![n] = Append(@, e)]
  /\ UNCHANGED next

Propose(n, w) ==
  LET e == [w |-> w, rid |-> requestSeq[n] + 1, lsn |-> next[n]] IN
  /\ next' = [next EXCEPT ![n] = @ + 1]
  /\ requestSeq' = [requestSeq EXCEPT ![n] = @ + 1]
  /\ pending' = [pending EXCEPT ![n] = @ \cup {e}]
  /\ raftlog' = [raftlog EXCEPT ![n] = Append(@, e)]

\* apply_append_entry of the next committed entry: whoever waits here under its
\* request_id is told Ok and the position of what he waits for.  A node that was
\* deposed applies and answers, too, until it has noticed.
Apply(n) ==
  LET e == log[applied[n] + 1]
      mine == {p \in pending[n] : p.rid = e.rid}
  IN
  /\ applied[n] < Len(log)
  /\ applied' = [applied EXCEPT ![n] = @ + 1]
  /\ served' = [served EXCEPT ![n] = @ \cup {e.lsn}]
  /\ next' = [next EXCEPT ![n] = Max2(@, e.lsn + 1)]
  /\ pending' = [pending EXCEPT ![n] = @ \ mine]
  /\ told' = [w \in Attempts |->
       IF \E p \in mine : p.w = w
       THEN Told("ok", (CHOOSE p \in mine : p.w = w).lsn) ELSE told[w]]
  /\ UNCHANGED <<logVars, requestSeq, moved, faults, writerVars, hint, readerVars,
                 reporter>>

\* an entry that came with the LightReady of advance(), or with a snapshot
Skip(n) ==
  /\ n \notin leads /\ applied[n] < Len(log)
  /\ applied' = [applied EXCEPT ![n] = @ + 1]
  /\ UNCHANGED <<logVars, next, requestSeq, pending, served, told, moved, faults,
                 writerVars, hint, readerVars, reporter>>

\* rollback_uncommitted_append for all pending writes, see StreamState
Reclaimable(n, m) ==
  /\ m..(next[n] - 1) \subseteq {p.lsn : p \in pending[n]}
  /\ m = next[n] \/ \A i \in served[n] : i < m

RolledBack(n) ==
  CHOOSE m \in 0..next[n] :
    /\ Reclaimable(n, m)
    /\ \A k \in 0..next[n] : Reclaimable(n, k) => m <= k

\* fail_pending_writes_not_leader, when a message of the new leader has arrived
StepDown(n) ==
  /\ n \in leads \ {leader}
  /\ leads' = leads \ {n}
  /\ next' = [next EXCEPT ![n] = RolledBack(n)]
  /\ pending' = [pending EXCEPT ![n] = {}]
  /\ told' = [w \in Attempts |->
       IF \E p \in pending[n] : p.w = w THEN Told("not_leader", 0) ELSE told[w]]
  /\ UNCHANGED <<raftlog, log, leader, requestSeq, applied, served, moved, faults,
                 writerVars, hint, readerVars, reporter>>

-----------------------------------------------------------------------------
(***************************************************************************)
(* discover_leader asks every address for position 0 and takes the first   *)
(* that does not answer ErrNotLeader, which may have been deposed.  When a *)
(* node does not answer in time, or the office changes hands during the    *)
(* search, it finds another or nobody.                                     *)
(***************************************************************************)
FirstLeading == CHOOSE n \in leads : \A m \in leads : n <= m

Elsewhere(t) == leads \cup {(hint[t] + 1) % Addrs}

Discover(t) ==
  \/ hint' = [hint EXCEPT ![t] = FirstLeading] /\ UNCHANGED faults
  \/ Fault /\ \E h \in Elsewhere(t) : hint' = [hint EXCEPT ![t] = h]

(***************************************************************************)
(* The writer.  conn.send connects if need be, writes the request and      *)
(* waits up to two seconds; an error drops the stream, and with it the     *)
(* answer that may still come.                                             *)
(***************************************************************************)
WriterDone ==
  /\ writer = "loop" /\ issued >= Target
  /\ writer' = "done" /\ done' = TRUE
  /\ UNCHANGED <<clusterVars, faults, attempts, issued, conn, written, hint,
                 readerVars, reporter>>

WriterSend ==
  LET w == attempts + 1 IN
  /\ writer = "loop" /\ issued < Target /\ w \in Attempts
  /\ attempts' = w
  /\ conn' = Append(conn, w)
  /\ IF hint[Primary] \in leads
     THEN Propose(hint[Primary], w) /\ told' = [told EXCEPT ![w] = Told("waiting", 0)]
     ELSE /\ told' = [told EXCEPT ![w] = Told("not_leader", 0)]
          /\ UNCHANGED <<raftlog, next, requestSeq, pending>>
  /\ writer' = "wait"
  /\ UNCHANGED <<log, leader, leads, applied, served, moved, faults, issued, written,
                 done, hint, readerVars, reporter>>

(***************************************************************************)
(* Any other answer, an error or no answer in time, which may come too     *)
(* late: the search that follows is part of the same fault.                *)
(***************************************************************************)
SearchAgain(t) ==
  \E h \in Elsewhere(t) : hint' = [hint EXCEPT ![t] = h]

\* the answer the stream holds first; answers carry no request id
Answer == told[conn[1]]

AnyAnswerIsOk == Answer.status \in {"ok", "not_leader"}  \* mutant: no look at the status

AnswerIsOk == Answer.status = "ok"

WriterOk ==
  /\ writer = "wait" /\ AnswerIsOk
  /\ issued' = issued + 1
  /\ written' = Answer.lsn + 1
  /\ conn' = Tail(conn)
  /\ writer' = "loop"
  /\ UNCHANGED <<clusterVars, faults, attempts, done, hint, readerVars, reporter>>

WriterNotLeader ==
  /\ writer = "wait" /\ Answer.status = "not_leader"
  /\ conn' = <<>>
  /\ Discover(Primary)
  /\ writer' = "loop"
  /\ UNCHANGED <<clusterVars, attempts, issued, written, done, readerVars, reporter>>

TimeoutKeepsStream ==  \* mutant: the stream is used again after an error
  /\ writer = "wait" /\ Fault
  /\ SearchAgain(Primary)
  /\ conn' = IF hint'[Primary] = hint[Primary] THEN conn ELSE <<>>
  /\ writer' = "loop"
  /\ UNCHANGED <<clusterVars, attempts, issued, written, done, readerVars, reporter>>

WriterTimesOut ==
  /\ writer = "wait" /\ Fault
  /\ conn' = <<>>
  /\ SearchAgain(Primary)
  /\ writer' = "loop"
  /\ UNCHANGED <<clusterVars, attempts, issued, written, done, readerVars, reporter>>

-----------------------------------------------------------------------------
(***************************************************************************)
(* A reader: it loads highest_written, then writer_done.                   *)
(***************************************************************************)
ReaderLoad(r) ==
  /\ reader[r].pc = "load"
  /\ reader' = [reader EXCEPT ![r] = [@ EXCEPT !.pc = "check", !.available = written]]
  /\ UNCHANGED <<clusterVars, faults, writerVars, hint, read, reporter>>

ReaderCheck(r) ==
  LET x == reader[r] IN
  /\ x.pc = "check"
  /\ reader' = [reader EXCEPT ![r].pc =
       IF x.next < x.available THEN "read" ELSE IF done THEN "done" ELSE "load"]
  /\ UNCHANGED <<clusterVars, faults, writerVars, hint, read, reporter>>

ReaderOk(r) ==
  LET lsn == reader[r].next IN
  /\ reader[r].pc = "read" /\ hint[r] \in leads /\ lsn \in served[hint[r]]
  /\ read' = [read EXCEPT ![r] = lsn + 1]
  /\ reader' = [reader EXCEPT ![r] = [@ EXCEPT !.pc = "load", !.next = lsn + 1]]
  /\ UNCHANGED <<clusterVars, faults, writerVars, hint, reporter>>

\* ErrNotFound: the node has not applied that far, or it has passed that position
\* by; the same address is asked again
ReaderNotFound(r) ==
  /\ reader[r].pc = "read" /\ hint[r] \in leads /\ reader[r].next \notin served[hint[r]]
  /\ reader' = [reader EXCEPT ![r].pc = "load"]
  /\ UNCHANGED <<clusterVars, faults, writerVars, hint, read, reporter>>

ReaderStays(r) ==  \* mutant: no search for the leader
  /\ reader[r].pc = "read" /\ hint[r] \notin leads
  /\ reader' = [reader EXCEPT ![r].pc = "load"]
  /\ UNCHANGED <<clusterVars, faults, writerVars, hint, read, reporter>>

ReaderNotLeader(r) ==
  /\ reader[r].pc = "read" /\ hint[r] \notin leads
  /\ Discover(r)
  /\ reader' = [reader EXCEPT ![r].pc = "load"]
  /\ UNCHANGED <<clusterVars, writerVars, read, reporter>>

ReaderTimesOut(r) ==
  /\ reader[r].pc = "read" /\ Fault
  /\ SearchAgain(r)
  /\ reader' = [reader EXCEPT ![r].pc = "load"]
  /\ UNCHANGED <<clusterVars, writerVars, read, reporter>>

(***************************************************************************)
(* The reporter: highest_written, highest_read, then writer_done.          *)
(***************************************************************************)
ReportWrites ==
  /\ reporter.pc = "load"
  /\ reporter' = [reporter EXCEPT !.pc = "reads", !.writes = written]
  /\ UNCHANGED <<clusterVars, faults, writerVars, hint, readerVars>>

ReportReads ==
  LET min_read == CHOOSE k \in {read[r] : r \in Readers} : \A r \in Readers : k <= read[r]
      writes == reporter.writes
  IN
  /\ reporter.pc = "reads"
  /\ reporter' = [pc |-> "decide", writes |-> writes,
                  lag |-> IF writes > min_read THEN writes - min_read ELSE 0]
  /\ UNCHANGED <<clusterVars, faults, writerVars, hint, readerVars>>

ReportDecide ==
  /\ reporter.pc = "decide"
  /\ reporter' = [reporter EXCEPT !.pc = IF done /\ reporter.lag = 0 THEN "done" ELSE "load"]
  /\ UNCHANGED <<clusterVars, faults, writerVars, hint, readerVars>>

-----------------------------------------------------------------------------
Writer == WriterDone \/ WriterSend \/ WriterOk \/ WriterNotLeader \/ WriterTimesOut

Reader(r) ==
  \/ ReaderLoad(r) \/ ReaderCheck(r) \/ ReaderOk(r) \/ ReaderNotFound(r)
  \/ ReaderNotLeader(r) \/ ReaderTimesOut(r)

Reporter == ReportWrites \/ ReportReads \/ ReportDecide

Next ==
  \/ \E n, m \in Hints : \E k \in 0..Len(raftlog[m]) : LeaderMoves(n, m, k)
  \/ Commit
  \/ \E n \in Hints : Apply(n) \/ Skip(n) \/ StepDown(n)
  \/ Writer \/ (\E r \in Readers : Reader(r)) \/ Reporter

Spec == Init /\ [][Next]_vars

\* The threads run, a leader that stays commits, applies and answers what it has
\* taken (EveryWriteAnswered of ShardGroup), and its heartbeats reach the others.
FairSpec ==
  /\ Spec
  /\ WF_vars(Commit)
  /\ \A n \in Hints : WF_vars(n \in leads /\ Apply(n)) /\ WF_vars(StepDown(n))
  /\ WF_vars(Writer) /\ WF_vars(Reporter)
  /\ \A r \in Readers : WF_vars(Reader(r))

-----------------------------------------------------------------------------
\* When the writer is done, highest_written comes from the answer to its very last
\* attempt: no late answer to an attempt it had given up was taken for another's.
\* As long as the leader has not changed, its record is committed at that position;
\* after a change the answer may be another's (FailoverAck).
DoneMeansWritten ==
  done => /\ told[attempts] = Told("ok", written - 1)
          /\ ~moved => \E i \in 1..Len(log) :
                         log[i].w = attempts /\ log[i].lsn = written - 1

\* highest_written is stored, not maximised, and yet every acknowledged append raises
\* it while the leader stays, although attempts that were given up are committed late.
\* A new leader that lags hands out lower positions (FailoverLsn).
WrittenGrows ==
  [][moved \/ written' > written \/ (written' = written /\ issued' = issued)]_vars

\* A reader has left early: it loaded highest_written before the last append and
\* writer_done after it, so that the reporter waits for ever for it to catch up.
LeftEarly(r) == reader[r].pc = "done" /\ reader[r].next < written

\* A reader asks for a position that the leader neither serves nor will apply.
Hole(r) ==
  LET lsn == reader[r].next IN
  /\ lsn < written /\ lsn \notin served[leader]
  /\ \A i \in (applied[leader] + 1)..Len(raftlog[leader]) : raftlog[leader][i].lsn # lsn

\* main returns, or a reader has left early, or after a change of leader a reader
\* asks for a hole and is told ErrNotFound for ever.  Nothing else keeps the
\* benchmark from ending.
Ended == writer = "done" /\ reporter.pc = "done" /\ \A r \in Readers : reader[r].pc = "done"

BenchEnds == <>[](Ended \/ \E r \in Readers : LeftEarly(r) \/ (moved /\ Hole(r)))
=============================================================================
