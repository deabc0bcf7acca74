--------------------------- MODULE StreamService ---------------------------
(***************************************************************************)
(* What a client may rely on: every stream is a log, a write is appended   *)
(* to it at most once and as a whole, and an Ok names the position of the  *)
(* write in that log.  ShardService shows that a group with one leader     *)
(* keeps this promise.                                                     *)
(*                                                                         *)
(* An answer other than Ok says less.  A write that is fenced will never   *)
(* be in a log; one that is told not_leader, or whose connection is lost,  *)
(* may be there already or get there later.                                *)
(***************************************************************************)
EXTENDS Naturals, Sequences

CONSTANTS Streams, Writes, Epochs

VARIABLES
  log,   \* log[s]: the committed records of stream s; positions from 0
  told   \* told[w]: what the client of write w has been told

vars == <<log, told>>

Records == [w : Writes, epoch : Epochs]

Answers == {"ok", "not_leader", "fenced", "lost"}

Told(status, lsn) == [status |-> status, lsn |-> lsn]

Init ==
  /\ log = [s \in Streams |-> <<>>]
  /\ told = [w \in Writes |-> Told("unsent", 0)]

\* a write is taken and its client waits
Submit(w) ==
  /\ told[w].status = "unsent"
  /\ told' = [told EXCEPT ![w] = Told("waiting", 0)]
  /\ UNCHANGED log

\* a write is refused on arrival
Refuse(w, status) ==
  /\ told[w].status = "unsent"
  /\ status \in {"not_leader", "fenced"}
  /\ told' = [told EXCEPT ![w] = Told(status, 0)]
  /\ UNCHANGED log

\* clients that wait are told that nobody knows
Abandon(W, status) ==
  /\ \A w \in W : told[w].status = "waiting"
  /\ status \in {"not_leader", "lost"}
  /\ told' = [w \in Writes |-> IF w \in W THEN Told(status, 0) ELSE told[w]]
  /\ UNCHANGED log

\* each write once, epochs in order
Sound(l) ==
  /\ \A s \in Streams : \A i, j \in 1..Len(l[s]) :
       i < j => l[s][i].epoch <= l[s][j].epoch
  /\ \A s, q \in Streams : \A i \in 1..Len(l[s]), j \in 1..Len(l[q]) :
       <<s, i>> # <<q, j>> => l[s][i].w # l[q][j].w

Grows(l, m) ==
  \A s \in Streams : /\ Len(l[s]) <= Len(m[s])
                     /\ SubSeq(m[s], 1, Len(l[s])) = l[s]

\* records of writes that were taken go to the ends of the logs
Commit ==
  /\ UNCHANGED told
  /\ log' # log
  /\ Grows(log, log') /\ Sound(log')
  /\ \A s \in Streams : \A i \in 1..Len(log'[s]) :
       /\ log'[s][i] \in Records
       /\ told[log'[s][i].w].status \notin {"unsent", "fenced"}

\* a client learns the position of its write
Acknowledge(w, s, i) ==
  /\ told[w].status = "waiting"
  /\ i \in 1..Len(log[s]) /\ log[s][i].w = w
  /\ told' = [told EXCEPT ![w] = Told("ok", i - 1)]
  /\ UNCHANGED log

Next ==
  \/ \E w \in Writes : Submit(w)
  \/ \E w \in Writes, status \in Answers : Refuse(w, status)
  \/ \E W \in SUBSET Writes, status \in Answers : Abandon(W, status)
  \/ Commit
  \/ \E w \in Writes, s \in Streams : \E i \in 1..Len(log[s]) : Acknowledge(w, s, i)

Spec == Init /\ [][Next]_vars
=============================================================================
