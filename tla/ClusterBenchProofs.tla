------------------------- MODULE ClusterBenchProofs -------------------------
(***************************************************************************)
(* Theorems about ClusterBench, for any number of addresses, readers,      *)
(* appends and faults.                                                     *)
(***************************************************************************)
EXTENDS ClusterBench, SequenceTheorems, WellFoundedInduction, TLAPS

Entries == [w : Attempts, rid : Nat, lsn : Nat]

Replies == [status : {"unsent", "waiting", "ok", "not_leader"}, lsn : Nat]

Types ==
  /\ raftlog \in [Hints -> Seq(Entries)] /\ log \in Seq(Entries)
  /\ leader \in Hints /\ leads \subseteq Hints
  /\ next \in [Hints -> Nat] /\ requestSeq \in [Hints -> Nat]
  /\ pending \in [Hints -> SUBSET Entries] /\ applied \in [Hints -> Nat]
  /\ told \in [Attempts -> Replies]
  /\ moved \in BOOLEAN
  /\ attempts \in Nat /\ issued \in Nat /\ written \in Nat

(***************************************************************************)
(* An attempt waits at one node, under one request id, so that it is       *)
(* answered once.                                                          *)
(***************************************************************************)
PendingInv ==
  /\ \A n \in Hints : \A p \in pending[n] : p.w <= attempts /\ told[p.w].status = "waiting"
  /\ \A n, m \in Hints : \A p \in pending[n], q \in pending[m] : p.w = q.w => n = m /\ p = q

(***************************************************************************)
(* The writer's stream holds at most the answer to the attempt under way.  *)
(***************************************************************************)
WriterInv ==
  /\ conn = IF writer = "wait" THEN <<attempts>> ELSE <<>>
  /\ writer = "wait" => attempts \in Attempts /\ issued < Target
  /\ issued >= Target =>
       attempts \in Attempts /\ told[attempts] = Told("ok", written - 1)
  /\ done => issued >= Target /\ writer = "done"

(***************************************************************************)
(* As long as the leader stays, its log holds at place i the entry with    *)
(* request id i and position i - 1, its counters stand at the end of it    *)
(* and nobody waits elsewhere.  An Ok names the record, and the attempt    *)
(* under way can only be committed behind highest_written, because it was  *)
(* made later.                                                             *)
(***************************************************************************)
Log == raftlog[leader]

LogInv ==
  /\ Len(log) <= Len(Log) /\ \A i \in 1..Len(log) : log[i] = Log[i]
  /\ \A i \in 1..Len(Log) : Log[i].rid = i /\ Log[i].lsn = i - 1 /\ Log[i].w <= attempts
  /\ next[leader] = Len(Log) /\ requestSeq[leader] = Len(Log)

NobodyElse ==
  /\ leads = {leader}
  /\ \A n \in Hints \ {leader} : pending[n] = {}
  /\ \A p \in pending[leader] : p.rid \in 1..Len(Log) /\ Log[p.rid] = p

OkInv == \A w \in Attempts : told[w].status = "ok" =>
           told[w].lsn + 1 \in 1..Len(log) /\ log[told[w].lsn + 1].w = w

WrittenInv ==
  /\ written <= Len(log)
  /\ writer = "wait" => \A i \in 1..Len(Log) : Log[i].w = attempts => i > written

StaysInv == LogInv /\ NobodyElse /\ OkInv /\ WrittenInv

BenchInv == Types /\ PendingInv /\ WriterInv /\ (~moved => StaysInv)

-----------------------------------------------------------------------------
LEMMA LeastNat ==
  ASSUME NEW S \in SUBSET Nat, S # {}
  PROVE  \E m \in S : \A k \in S : m <= k
<1> DEFINE R == {e \in Nat \X Nat : e[1] < e[2]}
<1>1. IsWellFoundedOn(R, Nat)
  BY NatLessThanWellFounded DEF OpToRel
<1> HIDE DEF R
<1>2. PICK x \in S : \A y \in S : ~(<<y, x>> \in R)
  BY <1>1, WFMin
<1>3. \A y \in S : ~(y < x)
  BY <1>2 DEF R
<1> QED
  BY <1>2, <1>3

\* next itself is reclaimable, so that the CHOOSE of RolledBack has a witness
LEMMA RolledBackType ==
  ASSUME NEW n, next[n] \in Nat
  PROVE  RolledBack(n) \in Nat
<1> DEFINE S == {m \in 0..next[n] : Reclaimable(n, m)}
<1>1. S \in SUBSET Nat /\ next[n] \in S
  BY DEF Reclaimable
<1>2. \E m \in S : \A k \in S : m <= k
  <2> HIDE DEF S
  <2> QED
    BY <1>1, LeastNat
<1>3. RolledBack(n) \in 0..next[n]
  BY <1>2 DEF RolledBack
<1> QED
  BY <1>3

LEMMA AttemptsAreNats == Attempts \subseteq Nat /\ Target \in Nat /\ Target >= 1
BY BenchAssumption DEF Attempts

LEMMA LogTypes ==
  ASSUME Types
  PROVE  /\ Log \in Seq(Entries) /\ Len(Log) \in Nat /\ Len(log) \in Nat
         /\ \A i \in 1..Len(Log) : Log[i] \in Entries
         /\ \A i \in 1..Len(log) : log[i] \in Entries
BY LenProperties, ElementOfSeq DEF Types, Log

LEMMA InitBench == Init => BenchInv
<1> SUFFICES ASSUME Init PROVE BenchInv
  OBVIOUS
<1>1. /\ raftlog = [n \in Hints |-> <<>>] /\ log = <<>> /\ leader \in Hints /\ leads = {leader}
      /\ next = [n \in Hints |-> 0] /\ requestSeq = [n \in Hints |-> 0]
      /\ pending = [n \in Hints |-> {}] /\ applied = [n \in Hints |-> 0]
      /\ told = [w \in Attempts |-> [status |-> "unsent", lsn |-> 0]] /\ moved = FALSE
      /\ attempts = 0 /\ issued = 0 /\ conn = <<>> /\ writer = "loop"
      /\ written = 0 /\ done = FALSE
  BY DEF Init, Told
<1>2. Log = <<>> /\ Len(Log) = 0 /\ Len(log) = 0
  BY <1>1 DEF Log
<1>3. Types
  <2>1. [status |-> "unsent", lsn |-> 0] \in Replies /\ <<>> \in Seq(Entries)
    BY DEF Replies
  <2> QED
    BY <1>1, <2>1 DEF Types
<1>4. PendingInv
  BY <1>1 DEF PendingInv
<1>5. WriterInv
  <2>1. ~(issued >= Target)
    BY <1>1, AttemptsAreNats
  <2> QED
    BY <1>1, <2>1 DEF WriterInv
<1>6. StaysInv
  BY <1>1, <1>2 DEF StaysInv, LogInv, NobodyElse, OkInv, WrittenInv
<1> QED
  BY <1>3, <1>4, <1>5, <1>6 DEF BenchInv

-----------------------------------------------------------------------------
(***************************************************************************)
(* Steps of the cluster: the writer does not move.  Whoever is answered    *)
(* waits no longer.                                                        *)
(***************************************************************************)
LEMMA AnsweredBench ==
  ASSUME Types, PendingInv, WriterInv, NEW n \in Hints, NEW mine \in SUBSET pending[n],
         pending' = [pending EXCEPT ![n] = @ \ mine],
         \A w \in Attempts : (\E p \in mine : p.w = w) \/ told'[w] = told[w],
         UNCHANGED <<attempts, issued, conn, writer, written, done>>
  PROVE  pending' \in [Hints -> SUBSET Entries] /\ PendingInv' /\ WriterInv'
<1>1. /\ pending' \in [Hints -> SUBSET Entries]
      /\ \A m \in Hints : pending'[m] \subseteq pending[m]
      /\ pending'[n] = pending[n] \ mine
  BY DEF Types
<1>2. ASSUME NEW m \in Hints, NEW q \in pending'[m]
      PROVE  told'[q.w] = told[q.w]
  <2>1. q \in pending[m] /\ q.w \in Attempts
    BY <1>1, <1>2 DEF Types, Entries
  <2>2. CASE \E p \in mine : p.w = q.w
    <3>1. PICK p \in mine : p.w = q.w
      BY <2>2
    <3>2. m = n /\ p = q
      BY <2>1, <3>1 DEF PendingInv
    <3> QED
      BY <1>1, <1>2, <3>1, <3>2
  <2> QED
    BY <2>1, <2>2
<1>3. PendingInv'
  BY <1>1, <1>2 DEF PendingInv
<1>4. WriterInv'
  <2>1. ASSUME issued >= Target PROVE told'[attempts] = told[attempts]
    <3>1. attempts \in Attempts /\ told[attempts] = Told("ok", written - 1)
      BY <2>1 DEF WriterInv
    <3>2. told[attempts].status # "waiting"
      BY <3>1 DEF Told
    <3> QED
      BY <3>1, <3>2 DEF PendingInv
  <2> QED
    BY <2>1 DEF WriterInv
<1> QED
  BY <1>1, <1>3, <1>4

LEMMA LeaderMovesBench ==
  ASSUME BenchInv, NEW n \in Hints, NEW m \in Hints, NEW k \in 0..Len(raftlog[m]),
         LeaderMoves(n, m, k)
  PROVE  BenchInv' /\ moved'
<1> DEFINE short == SubSeq(raftlog[m], 1, k)
<1>1. /\ raftlog' = [raftlog EXCEPT ![n] = short] /\ leader' = n
      /\ leads' = leads \cup {n} /\ moved' = TRUE
      /\ UNCHANGED <<log, next, requestSeq, pending, applied, told, attempts, issued, conn,
                     writer, written, done>>
  BY DEF LeaderMoves, engineVars, writerVars
<1>2. short \in Seq(Entries)
  <2>1. raftlog[m] \in Seq(Entries) /\ k \in Int /\ k <= Len(raftlog[m]) /\ Len(raftlog[m]) \in Nat
    BY LenProperties DEF BenchInv, Types
  <2>2. \A i \in 1..k : raftlog[m][i] \in Entries
    BY <2>1, ElementOfSeq
  <2> QED
    BY <2>1, <2>2, SubSeqProperties
<1> HIDE DEF short
<1>3. Types'
  BY <1>1, <1>2 DEF BenchInv, Types
<1>4. PendingInv' /\ WriterInv'
  BY <1>1 DEF BenchInv, PendingInv, WriterInv
<1> QED
  BY <1>1, <1>3, <1>4 DEF BenchInv

LEMMA CommitBench ==
  ASSUME BenchInv, Commit
  PROVE  BenchInv'
<1> DEFINE e == Log[Len(log) + 1]
<1>1. /\ Len(log) < Len(Log) /\ log' = Append(log, e)
      /\ UNCHANGED <<raftlog, leader, leads, next, requestSeq, pending, applied, told, moved,
                     attempts, issued, conn, writer, written, done>>
  BY DEF Commit, engineVars, writerVars, Log
<1>2. Len(Log) \in Nat /\ Len(log) \in Nat /\ log \in Seq(Entries) /\ Len(log) + 1 \in 1..Len(Log)
  BY <1>1, LogTypes DEF BenchInv, Types
<1>3. e \in Entries
  BY <1>2, LogTypes DEF BenchInv
<1>4. e = Log[Len(log) + 1]
  OBVIOUS
<1> HIDE DEF e
<1>5. /\ log' \in Seq(Entries) /\ Len(log') = Len(log) + 1 /\ log'[Len(log) + 1] = e
      /\ \A i \in 1..Len(log) : log'[i] = log[i]
  BY <1>1, <1>2, <1>3, AppendProperties
<1>6. Types'
  BY <1>1, <1>5 DEF BenchInv, Types
<1>7. PendingInv' /\ WriterInv'
  BY <1>1 DEF BenchInv, PendingInv, WriterInv
<1>8. ASSUME ~moved PROVE StaysInv'
  <2>1. Log' = Log /\ StaysInv
    BY <1>1, <1>8 DEF Log, BenchInv
  <2>2. \A i \in 1..Len(log') : i \in 1..Len(log) \/ i = Len(log) + 1
    BY <1>2, <1>5
  <2>3. LogInv'
    BY <1>1, <1>2, <1>4, <1>5, <2>1, <2>2 DEF StaysInv, LogInv
  <2>4. NobodyElse'
    BY <1>1, <2>1 DEF StaysInv, NobodyElse
  <2>5. OkInv'
    <3>1. \A j \in 1..Len(log) : j \in 1..Len(log')
      BY <1>2, <1>5
    <3> QED
      BY <1>1, <1>5, <2>1, <3>1 DEF StaysInv, OkInv
  <2>6. WrittenInv'
    BY <1>1, <1>2, <1>5, <2>1 DEF StaysInv, WrittenInv, BenchInv, Types
  <2> QED
    BY <2>3, <2>4, <2>5, <2>6 DEF StaysInv
<1> QED
  BY <1>1, <1>6, <1>7, <1>8 DEF BenchInv

LEMMA ApplyBench ==
  ASSUME BenchInv, NEW n \in Hints, Apply(n)
  PROVE  BenchInv'
<1> DEFINE e == log[applied[n] + 1]
           mine == {p \in pending[n] : p.rid = e.rid}
<1>1. /\ applied[n] < Len(log)
      /\ applied' = [applied EXCEPT ![n] = @ + 1]
      /\ next' = [next EXCEPT ![n] = Max2(@, e.lsn + 1)]
      /\ pending' = [pending EXCEPT ![n] = @ \ mine]
      /\ told' = [w \in Attempts |-> IF \E p \in mine : p.w = w
                    THEN Told("ok", (CHOOSE p \in mine : p.w = w).lsn) ELSE told[w]]
      /\ UNCHANGED <<raftlog, log, leader, leads, requestSeq, moved,
                     attempts, issued, conn, writer, written, done>>
  BY DEF Apply, logVars, writerVars
<1>2. applied[n] \in Nat /\ applied[n] + 1 \in 1..Len(log) /\ e \in Entries
  BY <1>1, LogTypes DEF BenchInv, Types
<1>3. mine \in SUBSET pending[n] /\ mine \in SUBSET Entries /\ \A p \in mine : p.rid = e.rid
  BY DEF BenchInv, Types
<1>4. e = log[applied[n] + 1]
  OBVIOUS
<1> HIDE DEF e, mine
<1>5. ASSUME NEW w \in Attempts
      PROVE  \/ told'[w] = told[w]
             \/ \E p \in mine : p.w = w /\ told'[w] = Told("ok", p.lsn)
  <2>1. CASE \E p \in mine : p.w = w
    <3> DEFINE c == CHOOSE p \in mine : p.w = w
    <3>1. c \in mine /\ c.w = w
      BY <2>1
    <3>2. told'[w] = Told("ok", c.lsn)
      BY <1>1, <2>1
    <3> QED
      BY <3>1, <3>2
  <2>2. CASE ~\E p \in mine : p.w = w
    BY <1>1, <2>2
  <2> QED
    BY <2>1, <2>2
<1>6. pending' \in [Hints -> SUBSET Entries] /\ PendingInv' /\ WriterInv'
  BY <1>1, <1>3, <1>5, AnsweredBench DEF BenchInv
<1>7. told' \in [Attempts -> Replies]
  <2>1. \A p \in mine : Told("ok", p.lsn) \in Replies
    BY <1>3 DEF Entries, Told, Replies
  <2>2. \A w \in Attempts : told[w] \in Replies
    BY DEF BenchInv, Types
  <2>3. \A w \in Attempts : told'[w] \in Replies
    BY <1>5, <2>1, <2>2
  <2> QED
    BY <1>1, <2>3
<1>8. Types'
  <2>1. Max2(next[n], e.lsn + 1) \in Nat
    <3>1. e.lsn \in Nat
      BY <1>2 DEF Entries
    <3>2. next[n] \in Nat
      BY DEF BenchInv, Types
    <3> QED
      BY <3>1, <3>2 DEF Max2
  <2> QED
    BY <1>1, <1>2, <1>6, <1>7, <2>1 DEF BenchInv, Types
<1>9. ASSUME ~moved PROVE StaysInv'
  <2>1. Log' = Log /\ StaysInv
    BY <1>1, <1>9 DEF Log, BenchInv
  <2>2. e = Log[applied[n] + 1] /\ e.rid = applied[n] + 1 /\ e.lsn = applied[n]
    <3>1. PICK k \in Nat : k = applied[n]
      BY <1>2
    <3>2. Len(log) \in Nat /\ Len(Log) \in Nat /\ Len(log) <= Len(Log)
      BY <2>1, LogTypes DEF StaysInv, LogInv, BenchInv
    <3>3. k + 1 \in 1..Len(log)
      BY <1>2, <3>1
    <3>4. k + 1 \in 1..Len(Log)
      BY <3>2, <3>3
    <3>5. e = Log[k + 1]
      BY <1>4, <2>1, <3>1, <3>3 DEF StaysInv, LogInv
    <3>6. Log[k + 1].rid = k + 1 /\ Log[k + 1].lsn = (k + 1) - 1
      BY <2>1, <3>4, Zenon DEF StaysInv, LogInv
    <3>7. Log[k + 1].lsn = k
      BY <3>1, <3>6
    <3> QED
      BY <3>1, <3>5, <3>6, <3>7, Zenon
  <2>3. LogInv'
    <3>1. next'[leader] = Len(Log)
      <4>1. next[leader] = Len(Log) /\ Len(Log) \in Nat /\ leader \in Hints
            /\ next \in [Hints -> Nat]
        BY <2>1, LogTypes DEF StaysInv, LogInv, BenchInv, Types
      <4>2. e.lsn + 1 <= Len(Log) /\ e.lsn + 1 \in Nat
        BY <1>2, <2>1, <2>2, <4>1, LogTypes DEF StaysInv, LogInv, BenchInv
      <4>3. Max2(Len(Log), e.lsn + 1) = Len(Log)
        BY <4>1, <4>2 DEF Max2
      <4> QED
        BY <1>1, <4>1, <4>3
    <3> QED
      BY <1>1, <2>1, <3>1 DEF StaysInv, LogInv
  <2>4. NobodyElse'
    <3>1. \A m \in Hints : pending'[m] \subseteq pending[m]
      BY <1>1 DEF BenchInv, Types
    <3> QED
      BY <1>1, <2>1, <3>1 DEF StaysInv, NobodyElse, BenchInv, Types
  <2>5. OkInv'
    <3> SUFFICES ASSUME NEW w \in Attempts, told'[w].status = "ok"
                 PROVE  told'[w].lsn + 1 \in 1..Len(log) /\ log[told'[w].lsn + 1].w = w
      BY <1>1 DEF OkInv
    <3>1. CASE told'[w] = told[w]
      BY <2>1, <3>1 DEF StaysInv, OkInv
    <3>2. CASE \E p \in mine : p.w = w /\ told'[w] = Told("ok", p.lsn)
      <4>1. PICK p \in mine : p.w = w /\ told'[w] = Told("ok", p.lsn)
        BY <3>2
      <4>2. n = leader /\ p \in pending[leader]
        BY <1>3, <2>1, <4>1 DEF StaysInv, NobodyElse
      <4>3. p = e
        BY <1>3, <2>1, <2>2, <4>1, <4>2 DEF StaysInv, NobodyElse
      <4>4. told'[w].lsn = applied[n]
        BY <2>2, <4>1, <4>3 DEF Told
      <4> QED
        BY <1>2, <1>4, <4>1, <4>3, <4>4
    <3> QED
      BY <1>5, <3>1, <3>2
  <2>6. WrittenInv'
    BY <1>1, <2>1 DEF StaysInv, WrittenInv
  <2> QED
    BY <2>3, <2>4, <2>5, <2>6 DEF StaysInv
<1> QED
  BY <1>1, <1>6, <1>8, <1>9 DEF BenchInv

LEMMA SkipBench ==
  ASSUME BenchInv, NEW n \in Hints, Skip(n)
  PROVE  BenchInv'
<1>1. /\ applied' = [applied EXCEPT ![n] = @ + 1]
      /\ UNCHANGED <<raftlog, log, leader, leads, next, requestSeq, pending, told, moved,
                     attempts, issued, conn, writer, written, done>>
  BY DEF Skip, logVars, writerVars
<1>2. Types'
  BY <1>1 DEF BenchInv, Types
<1>3. PendingInv' /\ WriterInv' /\ (StaysInv => StaysInv')
  BY <1>1 DEF BenchInv, PendingInv, WriterInv, StaysInv, LogInv, NobodyElse, OkInv,
       WrittenInv, Log
<1> QED
  BY <1>1, <1>2, <1>3 DEF BenchInv

\* a leader that steps down has been followed by another
LEMMA StepDownBench ==
  ASSUME BenchInv, NEW n \in Hints, StepDown(n)
  PROVE  BenchInv' /\ moved'
<1>1. /\ n \in leads \ {leader} /\ leads' = leads \ {n}
      /\ next' = [next EXCEPT ![n] = RolledBack(n)]
      /\ pending' = [pending EXCEPT ![n] = {}]
      /\ told' = [w \in Attempts |->
           IF \E p \in pending[n] : p.w = w THEN Told("not_leader", 0) ELSE told[w]]
      /\ UNCHANGED <<raftlog, log, leader, requestSeq, applied, moved,
                     attempts, issued, conn, writer, written, done>>
  BY DEF StepDown, writerVars
<1>2. moved
  BY <1>1 DEF BenchInv, StaysInv, NobodyElse
<1>3. pending' \in [Hints -> SUBSET Entries] /\ PendingInv' /\ WriterInv'
  <2>1. pending' = [pending EXCEPT ![n] = @ \ pending[n]]
    BY <1>1
  <2> QED
    BY <1>1, <2>1, AnsweredBench DEF BenchInv
<1>4. Types'
  <2>1. RolledBack(n) \in Nat
    BY RolledBackType DEF BenchInv, Types
  <2>2. Told("not_leader", 0) \in Replies
    BY DEF Told, Replies
  <2>3. told' \in [Attempts -> Replies]
    BY <1>1, <2>2 DEF BenchInv, Types
  <2> QED
    BY <1>1, <1>3, <2>1, <2>3 DEF BenchInv, Types
<1> QED
  BY <1>1, <1>2, <1>3, <1>4 DEF BenchInv

-----------------------------------------------------------------------------
(***************************************************************************)
(* Steps of the writer.                                                    *)
(***************************************************************************)
LEMMA WriterDoneBench ==
  ASSUME BenchInv, WriterDone
  PROVE  BenchInv'
<1>1. /\ writer = "loop" /\ issued >= Target /\ writer' = "done" /\ done' = TRUE
      /\ UNCHANGED <<raftlog, log, leader, leads, next, requestSeq, pending, applied, told,
                     moved, attempts, issued, conn, written>>
  BY DEF WriterDone, clusterVars, logVars, engineVars
<1>2. Types' /\ PendingInv' /\ WriterInv'
  BY <1>1 DEF BenchInv, Types, PendingInv, WriterInv
<1>3. StaysInv => StaysInv'
  BY <1>1 DEF StaysInv, LogInv, NobodyElse, OkInv, WrittenInv, Log
<1> QED
  BY <1>1, <1>2, <1>3 DEF BenchInv

LEMMA PendingTypes ==
  ASSUME Types, PendingInv
  PROVE  \A n \in Hints : \A p \in pending[n] : p.w \in Attempts /\ p.w \in Nat /\ p.w <= attempts
<1>1. \A n \in Hints : \A p \in pending[n] : p.w \in Attempts
  BY DEF Types, Entries
<1>2. \A n \in Hints : \A p \in pending[n] : p.w <= attempts
  BY DEF PendingInv
<1> QED
  BY <1>1, <1>2, AttemptsAreNats

LEMMA LoggedAttempts ==
  ASSUME Types, LogInv
  PROVE  \A i \in 1..Len(Log) : Log[i].w \in Nat /\ Log[i].w <= attempts
<1>1. \A i \in 1..Len(Log) : Log[i].w \in Attempts
  BY LogTypes DEF Entries
<1> QED
  BY <1>1, AttemptsAreNats DEF LogInv

\* a node that does not lead refuses
LEMMA RefusedBench ==
  ASSUME BenchInv, WriterSend, hint[Primary] \notin leads
  PROVE  BenchInv'
<1> DEFINE v == attempts + 1
<1>1. /\ writer = "loop" /\ issued < Target /\ v \in Attempts /\ attempts' = v
      /\ conn' = Append(conn, v) /\ writer' = "wait"
      /\ told' = [told EXCEPT ![v] = Told("not_leader", 0)]
      /\ UNCHANGED <<raftlog, log, leader, leads, next, requestSeq, pending, applied, moved,
                     issued, written, done>>
  BY DEF WriterSend
<1>2. /\ v \in Nat /\ attempts \in Nat /\ v > attempts
      /\ issued \in Nat /\ Target \in Nat /\ ~(issued >= Target)
  BY <1>1, AttemptsAreNats DEF BenchInv, Types
<1> HIDE DEF v
<1>3. Told("not_leader", 0) \in Replies /\ Told("not_leader", 0).status # "ok"
  BY DEF Told, Replies
<1>4. Types'
  BY <1>1, <1>2, <1>3 DEF BenchInv, Types
<1>5. \A n \in Hints : \A p \in pending[n] : p.w \in Attempts /\ p.w <= attempts /\ p.w \in Nat
  BY PendingTypes DEF BenchInv
<1>6. PendingInv'
  <2>1. \A n \in Hints : \A p \in pending[n] : p.w <= v /\ p.w # v
    BY <1>2, <1>5
  <2>2. \A w \in Attempts : w # v => told'[w] = told[w]
    BY <1>1 DEF BenchInv, Types
  <2> QED
    BY <1>1, <1>5, <2>1, <2>2 DEF BenchInv, PendingInv
<1>7. WriterInv'
  BY <1>1, <1>2 DEF BenchInv, WriterInv
<1>8. ASSUME ~moved PROVE StaysInv'
  <2>1. Log' = Log /\ StaysInv
    BY <1>1, <1>8 DEF Log, BenchInv
  <2>2. \A i \in 1..Len(Log) : Log[i].w \in Nat /\ Log[i].w <= attempts
    BY <2>1, LoggedAttempts DEF StaysInv, BenchInv
  <2>3. LogInv'
    <3>1. \A i \in 1..Len(Log) : Log[i].w <= v
      BY <1>2, <2>2
    <3> QED
      BY <1>1, <2>1, <3>1 DEF StaysInv, LogInv
  <2>4. NobodyElse'
    BY <1>1, <2>1 DEF StaysInv, NobodyElse
  <2>5. OkInv'
    <3>1. \A w \in Attempts : told'[w].status = "ok" => told'[w] = told[w]
      BY <1>1, <1>3 DEF BenchInv, Types
    <3> QED
      BY <1>1, <2>1, <3>1 DEF StaysInv, OkInv
  <2>6. WrittenInv'
    <3>1. \A i \in 1..Len(Log) : Log[i].w # v
      BY <1>2, <2>2
    <3> QED
      BY <1>1, <2>1, <3>1 DEF StaysInv, WrittenInv
  <2> QED
    BY <2>3, <2>4, <2>5, <2>6 DEF StaysInv
<1> QED
  BY <1>1, <1>4, <1>6, <1>7, <1>8 DEF BenchInv

\* a node that leads allocates, remembers and proposes
LEMMA ProposedBench ==
  ASSUME BenchInv, WriterSend, hint[Primary] \in leads
  PROVE  BenchInv'
<1> DEFINE v == attempts + 1
           n == hint[Primary]
           e == [w |-> v, rid |-> requestSeq[n] + 1, lsn |-> next[n]]
<1>1. /\ writer = "loop" /\ issued < Target /\ v \in Attempts /\ attempts' = v
      /\ conn' = Append(conn, v) /\ writer' = "wait"
      /\ told' = [told EXCEPT ![v] = Told("waiting", 0)]
      /\ next' = [next EXCEPT ![n] = @ + 1]
      /\ requestSeq' = [requestSeq EXCEPT ![n] = @ + 1]
      /\ pending' = [pending EXCEPT ![n] = @ \cup {e}]
      /\ raftlog' = [raftlog EXCEPT ![n] = Append(@, e)]
      /\ UNCHANGED <<log, leader, leads, applied, moved, issued, written, done>>
  BY DEF WriterSend, Propose
<1>2. /\ v \in Nat /\ attempts \in Nat /\ v > attempts
      /\ issued \in Nat /\ Target \in Nat /\ ~(issued >= Target)
  BY <1>1, AttemptsAreNats DEF BenchInv, Types
<1>3. /\ n \in Hints /\ n \in leads /\ next[n] \in Nat /\ requestSeq[n] \in Nat
      /\ raftlog[n] \in Seq(Entries) /\ Len(raftlog[n]) \in Nat
  BY LenProperties DEF BenchInv, Types
<1>4. e \in Entries /\ e.w = v /\ e.rid = requestSeq[n] + 1 /\ e.lsn = next[n]
  BY <1>1, <1>3 DEF Entries
<1> HIDE DEF v, n, e
<1>5. Told("waiting", 0) \in Replies /\ Told("waiting", 0).status = "waiting"
  BY DEF Told, Replies
<1>6. /\ raftlog'[n] \in Seq(Entries) /\ Len(raftlog'[n]) = Len(raftlog[n]) + 1
      /\ raftlog'[n][Len(raftlog[n]) + 1] = e
      /\ \A i \in 1..Len(raftlog[n]) : raftlog'[n][i] = raftlog[n][i]
  <2>1. raftlog'[n] = Append(raftlog[n], e)
    BY <1>1, <1>3 DEF BenchInv, Types
  <2> QED
    BY <1>3, <1>4, <2>1, AppendProperties
<1>7. /\ \A m \in Hints \ {n} : pending'[m] = pending[m]
      /\ pending'[n] = pending[n] \cup {e}
      /\ pending' \in [Hints -> SUBSET Entries]
  BY <1>1, <1>3, <1>4 DEF BenchInv, Types
<1>8. Types'
  <2>1. raftlog' \in [Hints -> Seq(Entries)]
    BY <1>1, <1>3, <1>6 DEF BenchInv, Types
  <2>2. next' \in [Hints -> Nat] /\ requestSeq' \in [Hints -> Nat]
    <3>1. next[n] + 1 \in Nat /\ requestSeq[n] + 1 \in Nat
      BY <1>3
    <3>2. next' \in [Hints -> Nat]
      BY <1>1, <3>1 DEF BenchInv, Types
    <3>3. requestSeq' \in [Hints -> Nat]
      BY <1>1, <3>1 DEF BenchInv, Types
    <3> QED
      BY <3>2, <3>3
  <2>3. told' \in [Attempts -> Replies]
    BY <1>1, <1>5 DEF BenchInv, Types
  <2> QED
    BY <1>1, <1>2, <1>7, <2>1, <2>2, <2>3 DEF BenchInv, Types
<1>9. \A m \in Hints : \A p \in pending[m] : p.w \in Attempts /\ p.w # v /\ p.w <= v
  <2>1. \A m \in Hints : \A p \in pending[m] : p.w \in Attempts /\ p.w \in Nat /\ p.w <= attempts
    BY PendingTypes DEF BenchInv
  <2> QED
    BY <1>2, <2>1
<1>10. \A w \in Attempts : told'[w] = IF w = v THEN Told("waiting", 0) ELSE told[w]
  BY <1>1 DEF BenchInv, Types
<1>11. PendingInv'
  <2>1. ASSUME NEW m \in Hints, NEW p \in pending'[m]
        PROVE  p.w <= v /\ told'[p.w].status = "waiting"
    <3>1. CASE p = e /\ m = n
      BY <1>1, <1>2, <1>4, <1>5, <1>10, <3>1
    <3>2. CASE p \in pending[m]
      BY <1>9, <1>10, <3>2 DEF BenchInv, PendingInv
    <3> QED
      BY <1>7, <2>1, <3>1, <3>2
  <2>2. ASSUME NEW k \in Hints, NEW m \in Hints, NEW p \in pending'[k], NEW q \in pending'[m],
               p.w = q.w
        PROVE  k = m /\ p = q
    <3>1. (p \in pending[k] \/ (p = e /\ k = n)) /\ (q \in pending[m] \/ (q = e /\ m = n))
      BY <1>7, <2>2
    <3>2. CASE p \in pending[k] /\ q \in pending[m]
      BY <2>2, <3>2 DEF BenchInv, PendingInv
    <3> QED
      BY <1>4, <1>9, <2>2, <3>1, <3>2
  <2> QED
    BY <1>1, <2>1, <2>2 DEF PendingInv
<1>12. WriterInv'
  BY <1>1, <1>2 DEF BenchInv, WriterInv
<1>13. ASSUME ~moved PROVE StaysInv'
  <2>1. StaysInv /\ n = leader /\ Log = raftlog[n] /\ Log' = raftlog'[n]
    BY <1>1, <1>3, <1>13 DEF Log, BenchInv, StaysInv, NobodyElse
  <2>2. /\ Len(Log) \in Nat /\ Len(Log') = Len(Log) + 1 /\ Log'[Len(Log) + 1] = e
        /\ \A i \in 1..Len(Log) : Log'[i] = Log[i]
    BY <1>3, <1>6, <2>1
  <2>3. \A i \in 1..Len(Log') : i \in 1..Len(Log) \/ i = Len(Log) + 1
    BY <2>2
  <2>4. next[n] = Len(Log) /\ requestSeq[n] = Len(Log)
    BY <2>1 DEF StaysInv, LogInv
  <2>5. \A i \in 1..Len(Log) : Log[i].w # v /\ Log[i].w <= v
    <3>1. \A i \in 1..Len(Log) : Log[i].w \in Nat /\ Log[i].w <= attempts
      BY <2>1, LoggedAttempts DEF StaysInv, BenchInv
    <3> QED
      BY <1>2, <3>1
  <2>6. Len(log) \in Nat /\ Len(log) <= Len(Log)
    BY <2>1, LogTypes DEF StaysInv, LogInv, BenchInv
  <2>7. LogInv'
    <3>1. Len(log) <= Len(Log') /\ \A i \in 1..Len(log) : log[i] = Log'[i]
      BY <2>1, <2>2, <2>6 DEF StaysInv, LogInv
    <3>2. \A i \in 1..Len(Log') : Log'[i].rid = i /\ Log'[i].lsn = i - 1 /\ Log'[i].w <= v
      <4>1. \A i \in 1..Len(Log) : Log[i].rid = i /\ Log[i].lsn = i - 1
        BY <2>1 DEF StaysInv, LogInv
      <4>2. e.rid = Len(Log) + 1 /\ e.lsn = (Len(Log) + 1) - 1 /\ e.w <= v
        BY <1>2, <1>4, <2>2, <2>4
      <4> QED
        BY <2>2, <2>3, <2>5, <4>1, <4>2
    <3>3. next'[n] = Len(Log') /\ requestSeq'[n] = Len(Log')
      BY <1>1, <1>3, <2>2, <2>4 DEF BenchInv, Types
    <3> QED
      BY <1>1, <2>1, <3>1, <3>2, <3>3 DEF LogInv
  <2>8. NobodyElse'
    <3>1. \A p \in pending'[n] : p.rid \in 1..Len(Log') /\ Log'[p.rid] = p
      <4>1. \A p \in pending[n] : p.rid \in 1..Len(Log) /\ Log[p.rid] = p
        BY <2>1 DEF StaysInv, NobodyElse
      <4>2. \A i \in 1..Len(Log) : i \in 1..Len(Log')
        BY <2>2
      <4>3. e.rid \in 1..Len(Log') /\ Log'[e.rid] = e
        BY <1>4, <2>2, <2>4
      <4> QED
        BY <1>7, <2>2, <4>1, <4>2, <4>3
    <3> QED
      BY <1>1, <1>7, <2>1, <3>1 DEF StaysInv, NobodyElse
  <2>9. OkInv'
    BY <1>1, <1>5, <1>10, <2>1 DEF StaysInv, OkInv
  <2>10. WrittenInv'
    <3>1. written \in Nat /\ written <= Len(log)
      BY <2>1 DEF StaysInv, WrittenInv, BenchInv, Types
    <3>2. \A i \in 1..Len(Log') : Log'[i].w = v => i > written
      BY <2>2, <2>3, <2>5, <2>6, <3>1
    <3> QED
      BY <1>1, <3>1, <3>2 DEF WrittenInv
  <2> QED
    BY <2>7, <2>8, <2>9, <2>10 DEF StaysInv
<1> QED
  BY <1>1, <1>8, <1>11, <1>12, <1>13 DEF BenchInv

\* while the leader stays, an answer names a position behind highest_written
LEMMA AnswerIsNews ==
  ASSUME BenchInv, writer = "wait", AnswerIsOk
  PROVE  /\ attempts \in Attempts /\ Answer = told[attempts]
         /\ told[attempts] = Told("ok", Answer.lsn) /\ Answer.lsn \in Nat
         /\ ~moved => /\ Answer.lsn + 1 \in 1..Len(log) /\ log[Answer.lsn + 1].w = attempts
                      /\ Answer.lsn + 1 > written
<1>1. conn = <<attempts>> /\ attempts \in Attempts
  BY DEF BenchInv, WriterInv
<1>2. Answer = told[attempts] /\ told[attempts].status = "ok" /\ told[attempts] \in Replies
  BY <1>1 DEF AnswerIsOk, Answer, BenchInv, Types
<1>3. told[attempts] = Told("ok", Answer.lsn) /\ Answer.lsn \in Nat
  BY <1>2 DEF Told, Replies
<1>4. ASSUME ~moved
      PROVE  /\ Answer.lsn + 1 \in 1..Len(log) /\ log[Answer.lsn + 1].w = attempts
             /\ Answer.lsn + 1 > written
  <2>1. Answer.lsn + 1 \in 1..Len(log) /\ log[Answer.lsn + 1].w = attempts
    BY <1>1, <1>2, <1>4 DEF BenchInv, StaysInv, OkInv
  <2>2. Answer.lsn + 1 \in 1..Len(Log) /\ Log[Answer.lsn + 1].w = attempts
    BY <1>4, <2>1, LogTypes DEF BenchInv, StaysInv, LogInv
  <2> QED
    BY <1>4, <2>1, <2>2 DEF BenchInv, StaysInv, WrittenInv
<1> QED
  BY <1>1, <1>2, <1>3, <1>4

LEMMA WriterOkBench ==
  ASSUME BenchInv, WriterOk
  PROVE  BenchInv' /\ (moved \/ written' > written)
<1>1. /\ writer = "wait" /\ AnswerIsOk /\ issued' = issued + 1 /\ written' = Answer.lsn + 1
      /\ conn' = Tail(conn) /\ writer' = "loop"
      /\ UNCHANGED <<raftlog, log, leader, leads, next, requestSeq, pending, applied, told,
                     moved, attempts, done>>
  BY DEF WriterOk, clusterVars, logVars, engineVars
<1>2. /\ attempts \in Attempts /\ told[attempts] = Told("ok", Answer.lsn) /\ Answer.lsn \in Nat
      /\ ~moved => Answer.lsn + 1 \in 1..Len(log) /\ Answer.lsn + 1 > written
  BY <1>1, AnswerIsNews
<1>3. /\ Answer.lsn = written' - 1 /\ written' \in Nat
      /\ ~moved => written' \in 1..Len(log) /\ written' > written
  BY <1>1, <1>2
<1>4. Types' /\ PendingInv'
  BY <1>1, <1>3 DEF BenchInv, Types, PendingInv
<1>5. WriterInv'
  BY <1>1, <1>2, <1>3 DEF BenchInv, WriterInv
<1>6. ASSUME ~moved PROVE StaysInv'
  <2>1. WrittenInv'
    BY <1>1, <1>3, <1>6, LogTypes DEF WrittenInv, BenchInv
  <2>2. LogInv' /\ NobodyElse' /\ OkInv'
    BY <1>1, <1>6 DEF BenchInv, StaysInv, LogInv, NobodyElse, OkInv, Log
  <2> QED
    BY <2>1, <2>2 DEF StaysInv
<1> QED
  BY <1>1, <1>3, <1>4, <1>5, <1>6 DEF BenchInv

\* the stream goes with the attempt
LEMMA WriterGivesUpBench ==
  ASSUME BenchInv, WriterNotLeader \/ WriterTimesOut
  PROVE  BenchInv'
<1>1. /\ writer = "wait" /\ conn' = <<>> /\ writer' = "loop"
      /\ UNCHANGED <<raftlog, log, leader, leads, next, requestSeq, pending, applied, told,
                     moved, attempts, issued, written, done>>
  BY DEF WriterNotLeader, WriterTimesOut, clusterVars, logVars, engineVars
<1>2. Types' /\ PendingInv' /\ WriterInv'
  BY <1>1 DEF BenchInv, Types, PendingInv, WriterInv
<1>3. StaysInv => StaysInv'
  BY <1>1 DEF StaysInv, LogInv, NobodyElse, OkInv, WrittenInv, Log
<1> QED
  BY <1>1, <1>2, <1>3 DEF BenchInv

\* each acknowledgement raises highest_written, as long as the leader stays
Raised == moved \/ written' > written \/ (written' = written /\ issued' = issued)

LEMMA NextBench == BenchInv /\ [Next]_vars => BenchInv' /\ Raised
<1> SUFFICES ASSUME BenchInv, [Next]_vars PROVE BenchInv' /\ Raised
  OBVIOUS
<1>1. ASSUME NEW n \in Hints, NEW m \in Hints, NEW k \in 0..Len(raftlog[m]),
             LeaderMoves(n, m, k)
      PROVE  BenchInv' /\ Raised
  BY <1>1, LeaderMovesBench DEF LeaderMoves, writerVars, Raised
<1>2. CASE Commit
  BY <1>2, CommitBench DEF Commit, writerVars, Raised
<1>3. ASSUME NEW n \in Hints, Apply(n) PROVE BenchInv' /\ Raised
  BY <1>3, ApplyBench DEF Apply, writerVars, Raised
<1>4. ASSUME NEW n \in Hints, Skip(n) PROVE BenchInv' /\ Raised
  BY <1>4, SkipBench DEF Skip, writerVars, Raised
<1>5. ASSUME NEW n \in Hints, StepDown(n) PROVE BenchInv' /\ Raised
  BY <1>5, StepDownBench DEF StepDown, writerVars, Raised
<1>6. CASE WriterDone
  BY <1>6, WriterDoneBench DEF WriterDone, Raised
<1>7. CASE WriterSend
  BY <1>7, RefusedBench, ProposedBench DEF WriterSend, Raised
<1>8. CASE WriterOk
  BY <1>8, WriterOkBench DEF Raised
<1>9. CASE WriterNotLeader \/ WriterTimesOut
  BY <1>9, WriterGivesUpBench DEF WriterNotLeader, WriterTimesOut, Raised
<1>10. CASE (\E r \in Readers : Reader(r)) \/ Reporter \/ UNCHANGED vars
  <2>1. UNCHANGED <<raftlog, log, leader, leads, next, requestSeq, pending, applied, told, moved,
                    attempts, issued, conn, writer, written, done>>
    BY <1>10 DEF Reader, ReaderLoad, ReaderCheck, ReaderOk, ReaderNotFound, ReaderNotLeader,
         ReaderTimesOut, Reporter, ReportWrites, ReportReads, ReportDecide, vars,
         clusterVars, logVars, engineVars, writerVars
  <2>2. Types' /\ PendingInv' /\ WriterInv'
    BY <2>1 DEF BenchInv, Types, PendingInv, WriterInv
  <2>3. StaysInv => StaysInv'
    BY <2>1 DEF StaysInv, LogInv, NobodyElse, OkInv, WrittenInv, Log
  <2> QED
    BY <2>1, <2>2, <2>3 DEF BenchInv, Raised
<1> QED
  BY <1>1, <1>2, <1>3, <1>4, <1>5, <1>6, <1>7, <1>8, <1>9, <1>10 DEF Next, Writer

\* DoneMeansWritten: whatever attempts were given up and committed late, a writer
\* that is done has its position from the answer to its last attempt; as long as the
\* leader has not changed, that position is the record's.
THEOREM DoneIsWritten == Spec => []DoneMeansWritten
<1>1. Init => BenchInv
  BY InitBench
<1>2. BenchInv /\ [Next]_vars => BenchInv'
  BY NextBench
<1>3. BenchInv => DoneMeansWritten
  <2> SUFFICES ASSUME BenchInv, done PROVE DoneMeansWritten
    BY DEF DoneMeansWritten
  <2>1. attempts \in Attempts /\ told[attempts] = Told("ok", written - 1) /\ written \in Nat
    BY DEF BenchInv, WriterInv, Types
  <2>2. ASSUME ~moved
        PROVE  \E i \in 1..Len(log) : log[i].w = attempts /\ log[i].lsn = written - 1
    <3>1. told[attempts].status = "ok" /\ told[attempts].lsn = written - 1
      BY <2>1 DEF Told
    <3>2. told[attempts].lsn + 1 = written
      BY <2>1, <3>1
    <3>3. written \in 1..Len(log) /\ log[written].w = attempts
      BY <2>1, <2>2, <3>1, <3>2 DEF BenchInv, StaysInv, OkInv
    <3>4. log[written].lsn = written - 1
      BY <2>2, <3>3, LogTypes DEF BenchInv, StaysInv, LogInv
    <3> QED
      BY <3>3, <3>4
  <2> QED
    BY <2>1, <2>2 DEF DoneMeansWritten
<1> QED
  BY <1>1, <1>2, <1>3, PTL DEF Spec

\* WrittenGrows: as long as the leader stays, every acknowledged append raises
\* highest_written, although it is stored and not maximised.
THEOREM WrittenOnlyGrows == Spec => WrittenGrows
<1>1. Init => BenchInv
  BY InitBench
<1>2. BenchInv /\ [Next]_vars =>
        BenchInv' /\ [moved \/ written' > written \/ (written' = written /\ issued' = issued)]_vars
  BY NextBench DEF Raised
<1> QED
  BY <1>1, <1>2, PTL DEF Spec, WrittenGrows
=============================================================================
