-------------------------- MODULE ReplicationProofs --------------------------
(***************************************************************************)
(* What the replicas of a group agree on, for every set of nodes and every *)
(* value of the bounds: the entries below the commit index, and through    *)
(* them the WAL, the reads and the positions a leader hands out.           *)
(***************************************************************************)
EXTENDS ShardGroupProofs, FiniteSetTheorems

(***************************************************************************)
(* The state of the consensus: what the proofs below need of the types.    *)
(***************************************************************************)
Shapes ==
  /\ \A n \in Nodes :
       /\ raft[n].log \in Seq(Entries) /\ Len(raft[n].log) \in Nat
       /\ raft[n].term \in Terms
       /\ raft[n].committed \in Nat /\ raft[n].committed <= Len(raft[n].log)
  /\ \A t \in Terms :
       /\ sent[t].log \in Seq(Entries) /\ Len(sent[t].log) \in Nat
       /\ sent[t].commit \in Nat /\ sent[t].commit <= Len(sent[t].log)
       /\ sent[t].snap.index \in Nat
       /\ \A m \in Nodes : acked[t][m] \in Nat

LEMMA CoreShapes == CoreInv => Shapes
<1> SUFFICES ASSUME CoreInv PROVE Shapes
  OBVIOUS
<1>1. ASSUME NEW n \in Nodes
      PROVE  /\ raft[n].log \in Seq(Entries) /\ Len(raft[n].log) \in Nat
             /\ raft[n].term \in Terms
             /\ raft[n].committed \in Nat /\ raft[n].committed <= Len(raft[n].log)
  BY LenProperties DEF CoreInv, GoodRaft, RaftStates
<1>2. ASSUME NEW t \in Terms
      PROVE  /\ sent[t].log \in Seq(Entries) /\ Len(sent[t].log) \in Nat
             /\ sent[t].commit \in Nat /\ sent[t].commit <= Len(sent[t].log)
             /\ sent[t].snap.index \in Nat
             /\ \A m \in Nodes : acked[t][m] \in Nat
  BY LenProperties DEF CoreInv, GoodDispatch, Dispatches, Snapshots
<1> QED
  BY <1>1, <1>2 DEF Shapes

LEMMA TermIsNat == \A t \in Terms : t \in Nat /\ t >= 1
  BY DEF Terms

LEMMA EntryTerm ==
  ASSUME NEW l \in Seq(Entries), NEW i \in 1..Len(l)
  PROVE  l[i] \in Entries /\ l[i].term \in Terms
<1>1. l[i] \in Entries
  BY ElementOfSeq
<1> QED
  BY <1>1 DEF Entries

-----------------------------------------------------------------------------
(***************************************************************************)
(* The log of a term is what its leader dispatched (S is the value of sent *)
(* and A that of acked); term 1 has only the bootstrap entry.  A log       *)
(* matches when, up to each of its entries, it is the log of that entry's  *)
(* term.                                                                   *)
(***************************************************************************)
Src(S, t) == IF t = 1 THEN <<Bootstrap>> ELSE S[t].log

Elected(S, t) == Len(S[t].log) > 0

Matches(S, l, t) ==
  \A i \in 1..Len(l) :
    /\ l[i].term <= t /\ i <= Len(Src(S, l[i].term))
    /\ \A j \in 1..i : l[j] = Src(S, l[i].term)[j]

\* the log l holds the entry that term t has at index c
Has(l, t, c) == c <= Len(l) /\ l[c].term = t

\* every leader after t up to term u has that entry
Good(S, t, c, u) ==
  \A v \in Terms : t < v /\ v <= u /\ Elected(S, v) => Has(S[v].log, t, c)

\* m has acknowledged the entry at c of term t, or proposed it
Acc(S, A, L, t, m, c) ==
  /\ c \in 1..Len(S[t].log) /\ S[t].log[c].term = t
  /\ c <= A[t][m] \/ L[t] = m

LeaderPart(L) ==
  \A n \in Nodes : raft[n].role = "leader" =>
    sent[raft[n].term].log = raft[n].log /\ L[raft[n].term] = n

NodeLogs ==
  \A n \in Nodes : /\ Len(raft[n].log) > 0 /\ raft[n].log[1] = Bootstrap
                   /\ Matches(sent, raft[n].log, raft[n].term)

TermLogs(S) ==
  \A t \in Terms : /\ Matches(S, S[t].log, t)
                   /\ Elected(S, t) => t > 1 /\ S[t].log[1] = Bootstrap

AckPart ==
  \A t \in Terms, m \in Nodes :
    acked[t][m] <= Len(sent[t].log) /\ (acked[t][m] > 0 => raft[m].term >= t)

\* Q[u] voted for L[u], and a voter never falls back behind its vote
ElectPart(L, Q) ==
  \A u \in Terms : Elected(sent, u) =>
    /\ Majority(Q[u]) /\ L[u] \in Q[u] /\ \A m \in Q[u] : raft[m].term >= u

\* an acknowledged entry stays, unless a later leader has lost it
KeptPart(L) ==
  \A m \in Nodes, t \in Terms, c \in Nat :
    Acc(sent, acked, L, t, m, c) /\ Good(sent, t, c, raft[m].term)
    => Has(raft[m].log, t, c)

\* what a voter for u had acknowledged, the leader of u has
SafePart(L, Q) ==
  \A u \in Terms, t \in Terms : Elected(sent, u) /\ t < u =>
    \A m \in Q[u], c \in Nat :
      Acc(sent, acked, L, t, m, c) /\ Good(sent, t, c, u - 1) => Has(sent[u].log, t, c)

Witnesses(L, Q) == L \in [Terms -> Nodes] /\ Q \in [Terms -> SUBSET Nodes]

LogInv(L, Q) ==
  /\ Witnesses(L, Q) /\ LeaderPart(L) /\ NodeLogs /\ TermLogs(sent) /\ AckPart
  /\ ElectPart(L, Q) /\ KeptPart(L) /\ SafePart(L, Q)

-----------------------------------------------------------------------------
(***************************************************************************)
(* Logs that match.                                                        *)
(***************************************************************************)
SentShape(S) ==
  \A t \in Terms : S[t].log \in Seq(Entries) /\ Len(S[t].log) \in Nat

LEMMA SrcFacts ==
  ASSUME NEW S, SentShape(S), NEW t \in Terms
  PROVE  /\ Src(S, t) \in Seq(Entries) /\ Len(Src(S, t)) \in Nat
         /\ t = 1 => Len(Src(S, t)) = 1 /\ Src(S, t)[1] = Bootstrap
         /\ t # 1 => Src(S, t) = S[t].log
         /\ Bootstrap.term = 1 /\ Bootstrap.cmd = NoCmd
<1>1. 1 \in Terms
  BY GroupAssumption DEF Terms
<1>2. Bootstrap \in Entries /\ Bootstrap.term = 1 /\ Bootstrap.cmd = NoCmd
  BY <1>1 DEF Bootstrap, Entries
<1> DEFINE l == <<Bootstrap>>
<1>3. l \in Seq(Entries) /\ Len(l) = 1 /\ l[1] = Bootstrap
  BY <1>2
<1> HIDE DEF l
<1>4. Src(S, t) = IF t = 1 THEN l ELSE S[t].log
  BY DEF Src, l
<1> QED
  BY <1>2, <1>3, <1>4 DEF SentShape

LEMMA SamePrefix ==
  ASSUME NEW S, NEW l, NEW m, NEW t, NEW u, Matches(S, l, t), Matches(S, m, u),
         NEW i \in 1..Len(l), i \in 1..Len(m), l[i].term = m[i].term
  PROVE  \A j \in 1..i : l[j] = m[j]
  BY DEF Matches

LEMMA TermsAscend ==
  ASSUME NEW S, SentShape(S), TermLogs(S), NEW l \in Seq(Entries), NEW t,
         Matches(S, l, t), NEW i \in 1..Len(l), NEW j \in 1..i
  PROVE  l[j].term <= l[i].term
<1> DEFINE v == l[i].term
<1>1. Len(l) \in Nat /\ v \in Terms
  BY EntryTerm, LenProperties
<1>2. j \in 1..Len(Src(S, v)) /\ l[j] = Src(S, v)[j]
  <2>1. i <= Len(Src(S, v)) /\ Len(Src(S, v)) \in Nat
    BY <1>1, SrcFacts DEF Matches
  <2>2. l[j] = Src(S, v)[j]
    BY DEF Matches
  <2> QED
    BY <1>1, <2>1, <2>2
<1>3. CASE v = 1
  <2>1. Len(Src(S, v)) = 1 /\ Src(S, v)[1] = Bootstrap /\ Bootstrap.term = 1
    BY <1>1, <1>3, SrcFacts
  <2>2. j = 1
    BY <1>2, <2>1
  <2> QED
    BY <1>2, <1>3, <2>1, <2>2
<1>4. CASE v # 1
  <2>1. Src(S, v) = S[v].log /\ Matches(S, S[v].log, v)
    BY <1>1, <1>4, SrcFacts DEF TermLogs
  <2> QED
    BY <1>2, <2>1 DEF Matches
<1> QED
  BY <1>3, <1>4

\* two logs that both hold the entry of term t at c are the same up to there
LEMMA HasSame ==
  ASSUME NEW S, NEW l, NEW m, NEW t, NEW u, NEW v, NEW c \in Nat \ {0},
         Len(l) \in Nat, Len(m) \in Nat, Matches(S, l, t), Matches(S, m, u),
         Has(l, v, c), Has(m, v, c)
  PROVE  \A j \in 1..c : l[j] = m[j]
<1>1. c \in 1..Len(l) /\ c \in 1..Len(m) /\ l[c].term = m[c].term
  BY DEF Has
<1> QED
  BY <1>1, SamePrefix

-----------------------------------------------------------------------------
(***************************************************************************)
(* The logs of the terms only grow.                                        *)
(***************************************************************************)
Grown(S, T) ==
  \A t \in Terms : /\ Len(S[t].log) <= Len(T[t].log)
                   /\ \A j \in 1..Len(S[t].log) : T[t].log[j] = S[t].log[j]

LEMMA MatchesGrown ==
  ASSUME NEW S, NEW T, SentShape(S), SentShape(T), Grown(S, T),
         NEW l \in Seq(Entries), NEW t \in Nat, NEW u \in Nat, t <= u, Matches(S, l, t)
  PROVE  Matches(T, l, u)
<1> SUFFICES ASSUME NEW i \in 1..Len(l)
    PROVE  /\ l[i].term <= u /\ i <= Len(Src(T, l[i].term))
           /\ \A j \in 1..i : l[j] = Src(T, l[i].term)[j]
  BY DEF Matches
<1> DEFINE v == l[i].term
<1>1. Len(l) \in Nat /\ v \in Terms /\ v \in Nat
  BY EntryTerm, LenProperties, TermIsNat
<1>2. v <= t /\ i <= Len(Src(S, v)) /\ \A j \in 1..i : l[j] = Src(S, v)[j]
  BY DEF Matches
<1>3. CASE v = 1
  <2>1. Src(S, v) = Src(T, v)
    BY <1>3 DEF Src
  <2> QED
    BY <1>1, <1>2, <2>1
<1>4. CASE v # 1
  <2>1. Src(S, v) = S[v].log /\ Src(T, v) = T[v].log
    BY <1>4 DEF Src
  <2>2. /\ Len(S[v].log) \in Nat /\ Len(T[v].log) \in Nat /\ Len(S[v].log) <= Len(T[v].log)
        /\ \A j \in 1..Len(S[v].log) : T[v].log[j] = S[v].log[j]
    BY <1>1 DEF SentShape, Grown
  <2>3. i \in Nat /\ i <= Len(S[v].log)
    BY <1>1, <1>2, <2>1
  <2> HIDE DEF v
  <2>4. v <= u /\ i <= Len(T[v].log)
    BY <1>1, <1>2, <2>2, <2>3
  <2>5. \A j \in 1..i : j \in 1..Len(S[v].log)
    BY <2>2, <2>3
  <2>6. \A j \in 1..i : l[j] = T[v].log[j]
    BY <1>2, <2>1, <2>2, <2>5
  <2> QED
    BY <2>1, <2>4, <2>6 DEF v
<1> QED
  BY <1>3, <1>4

LEMMA GrownShape ==
  ASSUME NEW S, NEW T, SentShape(S), \A t \in Terms : T[t].log = S[t].log
  PROVE  SentShape(T) /\ Grown(S, T)
  BY DEF SentShape, Grown

-----------------------------------------------------------------------------
(***************************************************************************)
(* Every step is one of four kinds.  A calm one touches no log: terms grow *)
(* and leaders may step down.                                              *)
(***************************************************************************)
CalmStep ==
  /\ \A m \in Nodes :
       /\ raft'[m].log = raft[m].log /\ raft[m].term <= raft'[m].term
       /\ raft'[m].role = "leader" =>
            raft[m].role = "leader" /\ raft'[m].term = raft[m].term
  /\ \A t \in Terms : sent'[t].log = sent[t].log
  /\ \A t \in Terms, m \in Nodes : acked'[t][m] = acked[t][m]

LEMMA ShapesSent == Shapes => SentShape(sent)
  BY DEF Shapes, SentShape

LEMMA CalmLogs ==
  ASSUME NEW L, NEW Q, Shapes, Shapes', LogInv(L, Q), CalmStep
  PROVE  LogInv(L, Q)'
<1>1. /\ \A t \in Terms : sent'[t].log = sent[t].log
      /\ \A t \in Terms, m \in Nodes : acked'[t][m] = acked[t][m]
      /\ \A m \in Nodes : raft'[m].log = raft[m].log /\ raft[m].term <= raft'[m].term
                          /\ raft[m].term \in Terms /\ raft'[m].term \in Terms
                          /\ raft[m].log \in Seq(Entries)
  BY DEF CalmStep, Shapes
<1>2. SentShape(sent) /\ SentShape(sent') /\ Grown(sent, sent')
  BY <1>1, ShapesSent, GrownShape
<1>3. LeaderPart(L)'
  BY <1>1 DEF LogInv, LeaderPart, CalmStep
<1>4. NodeLogs'
  <2> SUFFICES ASSUME NEW n \in Nodes
      PROVE  /\ Len(raft'[n].log) > 0 /\ raft'[n].log[1] = Bootstrap
             /\ Matches(sent', raft'[n].log, raft'[n].term)
    BY DEF NodeLogs
  <2>1. Matches(sent, raft[n].log, raft[n].term)
    BY DEF LogInv, NodeLogs
  <2>2. Matches(sent', raft[n].log, raft'[n].term)
    BY <1>1, <1>2, <2>1, TermIsNat, MatchesGrown
  <2> QED
    BY <1>1, <2>2 DEF LogInv, NodeLogs
<1>5. TermLogs(sent')
  <2> SUFFICES ASSUME NEW t \in Terms
      PROVE  /\ Matches(sent', sent'[t].log, t)
             /\ Elected(sent', t) => t > 1 /\ sent'[t].log[1] = Bootstrap
    BY DEF TermLogs
  <2>1. Matches(sent, sent[t].log, t) /\ sent[t].log \in Seq(Entries) /\ t \in Nat /\ t <= t
    BY <1>2, TermIsNat DEF LogInv, TermLogs, SentShape
  <2>2. Matches(sent', sent[t].log, t)
    BY <1>2, <2>1, MatchesGrown
  <2> QED
    BY <1>1, <2>2 DEF LogInv, TermLogs, Elected
<1>6. AckPart'
  <2> SUFFICES ASSUME NEW t \in Terms, NEW m \in Nodes
      PROVE  /\ acked'[t][m] <= Len(sent'[t].log)
             /\ acked'[t][m] > 0 => raft'[m].term >= t
    BY DEF AckPart
  <2>1. /\ acked[t][m] <= Len(sent[t].log) /\ (acked[t][m] > 0 => raft[m].term >= t)
        /\ t \in Nat /\ raft[m].term \in Nat /\ raft'[m].term \in Nat
        /\ raft[m].term <= raft'[m].term
    BY <1>1, TermIsNat DEF LogInv, AckPart
  <2> QED
    BY <1>1, <2>1
<1>7. \A t \in Terms : Elected(sent', t) <=> Elected(sent, t)
  BY <1>1 DEF Elected
<1>8. ElectPart(L, Q)'
  <2> SUFFICES ASSUME NEW u \in Terms, Elected(sent', u)
      PROVE  Majority(Q[u]) /\ L[u] \in Q[u] /\ \A m \in Q[u] : raft'[m].term >= u
    BY DEF ElectPart, Majority
  <2>1. /\ Majority(Q[u]) /\ L[u] \in Q[u] /\ Q[u] \subseteq Nodes
        /\ \A m \in Q[u] : raft[m].term >= u
    BY <1>7 DEF LogInv, ElectPart, Witnesses
  <2>2. u \in Nat /\ \A m \in Nodes : /\ raft[m].term \in Nat /\ raft'[m].term \in Nat
                                      /\ raft[m].term <= raft'[m].term
    BY <1>1, TermIsNat
  <2>3. \A m \in Q[u] : raft'[m].term >= u
    BY <2>1, <2>2
  <2> QED
    BY <2>1, <2>3
<1>9. \A t \in Terms, m \in Nodes, c \in Nat :
        Acc(sent', acked', L, t, m, c) <=> Acc(sent, acked, L, t, m, c)
  BY <1>1 DEF Acc
<1>10. ASSUME NEW t \in Terms, NEW c \in Nat, NEW u \in Int, NEW v \in Int, u <= v,
              Good(sent', t, c, v)
       PROVE  Good(sent, t, c, u)
  BY <1>1, <1>7, <1>10, TermIsNat DEF Good
<1>11. KeptPart(L)'
  <2> SUFFICES ASSUME NEW m \in Nodes, NEW t \in Terms, NEW c \in Nat,
                      Acc(sent', acked', L, t, m, c), Good(sent', t, c, raft'[m].term)
      PROVE  Has(raft'[m].log, t, c)
    BY DEF KeptPart
  <2>1. Good(sent, t, c, raft[m].term)
    BY <1>1, <1>10, TermIsNat
  <2> QED
    BY <1>1, <1>9, <2>1 DEF LogInv, KeptPart
<1>12. SafePart(L, Q)'
  <2> SUFFICES ASSUME NEW u \in Terms, NEW t \in Terms, Elected(sent', u), t < u,
                      NEW m \in Q[u], NEW c \in Nat,
                      Acc(sent', acked', L, t, m, c), Good(sent', t, c, u - 1)
      PROVE  Has(sent'[u].log, t, c)
    BY DEF SafePart
  <2>1. Good(sent, t, c, u - 1)
    BY <1>10, TermIsNat
  <2>2. m \in Nodes
    BY DEF LogInv, Witnesses
  <2> QED
    BY <1>1, <1>7, <1>9, <2>1, <2>2 DEF LogInv, SafePart
<1> QED
  BY <1>3, <1>4, <1>5, <1>6, <1>8, <1>11, <1>12 DEF LogInv, Witnesses

-----------------------------------------------------------------------------
(***************************************************************************)
(* The leader of a term appends one entry to its log, which is the log of  *)
(* the term.                                                               *)
(***************************************************************************)
OneMore(l, m, t) ==
  /\ Len(m) = Len(l) + 1 /\ m[Len(l) + 1].term = t
  /\ \A j \in 1..Len(l) : m[j] = l[j]

LEMMA MatchesOneMore ==
  ASSUME NEW S, NEW l \in Seq(Entries), NEW m \in Seq(Entries), NEW t \in Terms,
         NEW u \in Nat, u <= t, t # 1, Matches(S, l, u), OneMore(l, m, t), S[t].log = m
  PROVE  Matches(S, m, t)
<1>1. Len(l) \in Nat /\ Len(m) = Len(l) + 1 /\ t \in Nat
  BY LenProperties, TermIsNat DEF OneMore
<1> SUFFICES ASSUME NEW i \in 1..Len(m)
    PROVE  /\ m[i].term <= t /\ i <= Len(Src(S, m[i].term))
           /\ \A j \in 1..i : m[j] = Src(S, m[i].term)[j]
  BY DEF Matches
<1>2. CASE i = Len(l) + 1
  <2>1. m[i].term = t /\ Src(S, t) = m
    BY <1>2 DEF OneMore, Src
  <2> QED
    BY <1>1, <2>1
<1>3. CASE i # Len(l) + 1
  <2>1. i \in 1..Len(l) /\ \A j \in 1..i : j \in 1..Len(l)
    BY <1>1, <1>3
  <2>2. m[i] = l[i] /\ \A j \in 1..i : m[j] = l[j]
    BY <2>1 DEF OneMore
  <2>3. /\ l[i].term <= u /\ i <= Len(Src(S, l[i].term))
        /\ \A j \in 1..i : l[j] = Src(S, l[i].term)[j]
    BY <2>1 DEF Matches
  <2>4. l[i].term \in Nat
    BY <2>1, EntryTerm, TermIsNat
  <2>5. l[i].term <= t
    BY <1>1, <2>3, <2>4
  <2> QED
    BY <2>2, <2>3, <2>5
<1> QED
  BY <1>2, <1>3

LEMMA OneMoreHas ==
  ASSUME NEW l \in Seq(Entries), NEW m \in Seq(Entries), NEW t, OneMore(l, m, t),
         NEW c \in Nat \ {0}, NEW u
  PROVE  /\ Has(l, u, c) => Has(m, u, c)
         /\ Has(m, u, c) /\ u # t => Has(l, u, c)
<1>1. Len(l) \in Nat /\ Len(m) = Len(l) + 1
  BY LenProperties DEF OneMore
<1>2. c <= Len(l) => m[c] = l[c]
  BY <1>1 DEF OneMore
<1>3. c <= Len(m) /\ ~(c <= Len(l)) => m[c].term = t
  <2>1. c <= Len(m) /\ ~(c <= Len(l)) => c = Len(l) + 1
    BY <1>1
  <2> QED
    BY <2>1 DEF OneMore
<1> QED
  BY <1>1, <1>2, <1>3 DEF Has

ProposeStep(n) ==
  /\ raft[n].role = "leader" /\ OneMore(raft[n].log, raft'[n].log, raft[n].term)
  /\ \A m \in Nodes : /\ raft'[m].term = raft[m].term /\ raft'[m].role = raft[m].role
                      /\ m # n => raft'[m].log = raft[m].log
  /\ \A t \in Terms :
       sent'[t].log = IF t = raft[n].term THEN raft'[n].log ELSE sent[t].log
  /\ \A t \in Terms, m \in Nodes : acked'[t][m] = acked[t][m]

LEMMA ProposeLogs ==
  ASSUME NEW L, NEW Q, NEW n \in Nodes, Shapes, Shapes', LogInv(L, Q), ProposeStep(n)
  PROVE  LogInv(L, Q)' /\ Grown(sent, sent')
<1> DEFINE u == raft[n].term
<1>1. /\ u \in Terms /\ sent[u].log = raft[n].log /\ L[u] = n
      /\ raft[n].log \in Seq(Entries) /\ raft'[n].log \in Seq(Entries)
      /\ Len(raft[n].log) \in Nat /\ Len(raft'[n].log) \in Nat
  BY DEF LogInv, LeaderPart, ProposeStep, Shapes
<1>2. /\ \A t \in Terms : sent'[t].log = IF t = u THEN raft'[n].log ELSE sent[t].log
      /\ \A t \in Terms, m \in Nodes : acked'[t][m] = acked[t][m]
      /\ \A m \in Nodes : raft'[m].term = raft[m].term
      /\ \A m \in Nodes : m # n => raft'[m].log = raft[m].log
  BY DEF ProposeStep
<1>3. SentShape(sent) /\ SentShape(sent')
  BY ShapesSent DEF Shapes, SentShape
<1>4. u # 1 /\ Elected(sent, u) /\ \A t \in Terms : Elected(sent', t) <=> Elected(sent, t)
  <2>1. Len(raft[n].log) > 0 /\ Len(raft'[n].log) = Len(raft[n].log) + 1
    BY DEF LogInv, NodeLogs, ProposeStep, OneMore
  <2>2. Elected(sent, u) /\ Len(raft'[n].log) > 0
    BY <1>1, <2>1 DEF Elected
  <2>3. u > 1 /\ u \in Nat
    BY <1>1, <2>2, TermIsNat DEF LogInv, TermLogs
  <2> QED
    BY <1>1, <1>2, <2>2, <2>3 DEF Elected
<1>5. OneMore(sent[u].log, sent'[u].log, u)
  BY <1>1, <1>2 DEF ProposeStep
<1>6. Grown(sent, sent')
  <2> SUFFICES ASSUME NEW t \in Terms
      PROVE  /\ Len(sent[t].log) <= Len(sent'[t].log)
             /\ \A j \in 1..Len(sent[t].log) : sent'[t].log[j] = sent[t].log[j]
    BY DEF Grown
  <2>1. Len(sent[t].log) \in Nat
    BY <1>3 DEF SentShape
  <2>2. CASE t = u
    <3>1. /\ Len(sent'[u].log) = Len(sent[u].log) + 1
          /\ \A j \in 1..Len(sent[u].log) : sent'[u].log[j] = sent[u].log[j]
      BY <1>5 DEF OneMore
    <3>2. sent[t].log = sent[u].log /\ sent'[t].log = sent'[u].log
      BY <2>2
    <3> QED
      BY <2>1, <3>1, <3>2
  <2>3. CASE t # u
    BY <1>2, <2>1, <2>3
  <2> QED
    BY <2>2, <2>3
<1>7. LeaderPart(L)'
  <2> SUFFICES ASSUME NEW m \in Nodes, raft'[m].role = "leader"
      PROVE  sent'[raft'[m].term].log = raft'[m].log /\ L[raft'[m].term] = m
    BY DEF LeaderPart
  <2>1. /\ raft'[m].term = raft[m].term /\ raft[m].term \in Terms
        /\ sent[raft[m].term].log = raft[m].log /\ L[raft[m].term] = m
    BY DEF ProposeStep, LogInv, LeaderPart, Shapes
  <2>2. CASE m = n
    BY <1>2, <2>1, <2>2
  <2>3. CASE m # n
    <3>1. raft[m].term # u
      BY <1>1, <2>1, <2>3
    <3> QED
      BY <1>2, <2>1, <2>3, <3>1
  <2> QED
    BY <2>2, <2>3
<1>8. ASSUME NEW l \in Seq(Entries), NEW t \in Terms, Matches(sent, l, t)
      PROVE  Matches(sent', l, t)
  <2>1. t \in Nat /\ t <= t
    BY TermIsNat
  <2> QED
    BY <1>3, <1>6, <1>8, <2>1, MatchesGrown
<1>9. Matches(sent', raft'[n].log, u)
  <2>1. Matches(sent', raft[n].log, u)
    BY <1>1, <1>8 DEF LogInv, NodeLogs
  <2>2. u \in Nat /\ u <= u /\ sent'[u].log = raft'[n].log
    BY <1>1, <1>2, TermIsNat
  <2>3. OneMore(raft[n].log, raft'[n].log, u)
    BY DEF ProposeStep
  <2> HIDE DEF u
  <2> QED
    BY <1>1, <1>4, <2>1, <2>2, <2>3, MatchesOneMore
<1>10. Len(raft'[n].log) > 0 /\ raft'[n].log[1] = Bootstrap
  <2>1. Len(raft[n].log) > 0 /\ raft[n].log[1] = Bootstrap
    BY DEF LogInv, NodeLogs
  <2> QED
    BY <1>1, <2>1 DEF ProposeStep, OneMore
<1>11. NodeLogs'
  <2> SUFFICES ASSUME NEW m \in Nodes
      PROVE  /\ Len(raft'[m].log) > 0 /\ raft'[m].log[1] = Bootstrap
             /\ Matches(sent', raft'[m].log, raft'[m].term)
    BY DEF NodeLogs
  <2>1. CASE m = n
    BY <1>2, <1>9, <1>10, <2>1
  <2>2. CASE m # n
    <3>1. /\ raft[m].log \in Seq(Entries) /\ raft[m].term \in Terms
          /\ Len(raft[m].log) > 0 /\ raft[m].log[1] = Bootstrap
          /\ Matches(sent, raft[m].log, raft[m].term)
      BY DEF LogInv, NodeLogs, Shapes
    <3>2. Matches(sent', raft[m].log, raft[m].term)
      BY <1>8, <3>1
    <3> QED
      BY <1>2, <2>2, <3>1, <3>2
  <2> QED
    BY <2>1, <2>2
<1>12. TermLogs(sent')
  <2> SUFFICES ASSUME NEW t \in Terms
      PROVE  /\ Matches(sent', sent'[t].log, t)
             /\ Elected(sent', t) => t > 1 /\ sent'[t].log[1] = Bootstrap
    BY DEF TermLogs
  <2>1. CASE t = u
    <3>1. t > 1
      BY <1>1, <1>4, <2>1 DEF LogInv, TermLogs
    <3> QED
      BY <1>1, <1>2, <1>9, <1>10, <2>1, <3>1
  <2>2. CASE t # u
    <3>1. Matches(sent, sent[t].log, t) /\ sent[t].log \in Seq(Entries)
      BY <1>3 DEF LogInv, TermLogs, SentShape
    <3>2. Matches(sent', sent[t].log, t)
      BY <1>8, <3>1
    <3> QED
      BY <1>2, <1>4, <2>2, <3>2 DEF LogInv, TermLogs
  <2> QED
    BY <2>1, <2>2
<1>13. AckPart'
  <2> SUFFICES ASSUME NEW t \in Terms, NEW m \in Nodes
      PROVE  /\ acked'[t][m] <= Len(sent'[t].log)
             /\ acked'[t][m] > 0 => raft'[m].term >= t
    BY DEF AckPart
  <2>1. acked[t][m] <= Len(sent[t].log) /\ (acked[t][m] > 0 => raft[m].term >= t)
    BY DEF LogInv, AckPart
  <2>2. /\ Len(sent[t].log) <= Len(sent'[t].log) /\ acked[t][m] \in Nat
        /\ Len(sent[t].log) \in Nat /\ Len(sent'[t].log) \in Nat
    BY <1>3, <1>6 DEF SentShape, Grown, Shapes
  <2> QED
    BY <1>2, <2>1, <2>2
<1>14. ElectPart(L, Q)'
  <2> SUFFICES ASSUME NEW t \in Terms, Elected(sent', t)
      PROVE  Majority(Q[t]) /\ L[t] \in Q[t] /\ \A m \in Q[t] : raft'[m].term >= t
    BY DEF ElectPart, Majority
  <2>1. /\ Majority(Q[t]) /\ L[t] \in Q[t] /\ Q[t] \subseteq Nodes
        /\ \A m \in Q[t] : raft[m].term >= t
    BY <1>4 DEF LogInv, ElectPart, Witnesses
  <2> QED
    BY <1>2, <2>1
<1>15. ASSUME NEW t \in Terms, NEW v \in Terms, t < v, NEW c \in Nat \ {0}
       PROVE  Has(sent'[v].log, t, c) <=> Has(sent[v].log, t, c)
  <2>1. CASE v = u
    <3>1. t # v
      BY <1>15, TermIsNat
    <3>2. sent[v].log \in Seq(Entries) /\ sent'[v].log \in Seq(Entries)
      BY <1>3 DEF SentShape
    <3> QED
      BY <1>5, <1>15, <2>1, <3>1, <3>2, OneMoreHas
  <2>2. CASE v # u
    BY <1>2, <2>2
  <2> QED
    BY <2>1, <2>2
<1>16. ASSUME NEW t \in Terms, NEW c \in Nat \ {0}, NEW v
       PROVE  Good(sent', t, c, v) => Good(sent, t, c, v)
  BY <1>4, <1>15 DEF Good
<1>17. ASSUME NEW t \in Terms, NEW m \in Nodes, NEW c \in Nat,
              Acc(sent', acked', L, t, m, c)
       PROVE  /\ c \in Nat \ {0}
              /\ \/ Acc(sent, acked, L, t, m, c)
                 \/ t = u /\ m = n /\ Has(raft'[n].log, t, c)
  <2>1. /\ c \in 1..Len(sent'[t].log) /\ sent'[t].log[c].term = t
        /\ c <= acked[t][m] \/ L[t] = m
    BY <1>2, <1>17 DEF Acc
  <2>2. /\ acked[t][m] <= Len(sent[t].log) /\ acked[t][m] \in Nat
        /\ Len(sent[t].log) \in Nat /\ Len(sent'[t].log) \in Nat
    BY <1>3 DEF LogInv, AckPart, SentShape, Shapes
  <2>3. CASE c <= Len(sent[t].log)
    <3>1. c \in 1..Len(sent[t].log)
      BY <2>1, <2>2, <2>3
    <3>2. sent'[t].log[c] = sent[t].log[c]
      BY <1>6, <3>1 DEF Grown
    <3> QED
      BY <2>1, <3>1, <3>2 DEF Acc
  <2>4. CASE ~(c <= Len(sent[t].log))
    <3>1. L[t] = m /\ t = u
      BY <1>2, <2>1, <2>2, <2>4
    <3> QED
      BY <1>1, <1>2, <2>1, <2>2, <3>1 DEF Has
  <2> QED
    BY <2>3, <2>4
<1>18. KeptPart(L)'
  <2> SUFFICES ASSUME NEW m \in Nodes, NEW t \in Terms, NEW c \in Nat,
                      Acc(sent', acked', L, t, m, c), Good(sent', t, c, raft'[m].term)
      PROVE  Has(raft'[m].log, t, c)
    BY DEF KeptPart
  <2>1. CASE Acc(sent, acked, L, t, m, c)
    <3>1. c \in Nat \ {0} /\ Good(sent, t, c, raft[m].term)
      BY <1>2, <1>16, <1>17
    <3>2. Has(raft[m].log, t, c)
      BY <2>1, <3>1 DEF LogInv, KeptPart
    <3>3. CASE m = n
      <4>1. OneMore(raft[n].log, raft'[n].log, u)
        BY DEF ProposeStep
      <4> QED
        BY <1>1, <3>1, <3>2, <3>3, <4>1, OneMoreHas
    <3> QED
      BY <1>2, <3>2, <3>3
  <2> QED
    BY <1>17, <2>1
<1>19. SafePart(L, Q)'
  <2> SUFFICES ASSUME NEW v \in Terms, NEW t \in Terms, Elected(sent', v), t < v,
                      NEW m \in Q[v], NEW c \in Nat,
                      Acc(sent', acked', L, t, m, c), Good(sent', t, c, v - 1)
      PROVE  Has(sent'[v].log, t, c)
    BY DEF SafePart
  <2>1. m \in Nodes /\ Elected(sent, v) /\ raft[m].term >= v
    BY <1>4 DEF LogInv, Witnesses, ElectPart
  <2>2. ~(t = u /\ m = n)
    BY <1>1, <2>1, TermIsNat
  <2>3. c \in Nat \ {0} /\ Acc(sent, acked, L, t, m, c) /\ Good(sent, t, c, v - 1)
    BY <1>16, <1>17, <2>1, <2>2
  <2>4. Has(sent[v].log, t, c)
    BY <2>1, <2>3 DEF LogInv, SafePart
  <2> QED
    BY <1>15, <2>3, <2>4
<1> QED
  BY <1>6, <1>7, <1>11, <1>12, <1>13, <1>14, <1>18, <1>19 DEF LogInv, Witnesses

-----------------------------------------------------------------------------
(***************************************************************************)
(* Node n takes the log of term t up to k: it keeps its own log when that  *)
(* agrees at k, and cuts it to those k entries otherwise.                  *)
(***************************************************************************)
UpTo(l, m, k) == k <= Len(m) /\ \A j \in 1..k : m[j] = l[j]

AcceptStep(n, t, k) ==
  /\ t \in Terms /\ k \in 1..Len(sent[t].log) /\ raft[n].term <= t
  /\ raft'[n].term = t /\ raft'[n].role # "leader"
  /\ \/ Agrees(raft[n].log, sent[t].log, k) /\ raft'[n].log = raft[n].log
     \/ /\ ~Agrees(raft[n].log, sent[t].log, k)
        /\ Len(raft'[n].log) = k /\ UpTo(sent[t].log, raft'[n].log, k)
  /\ \A m \in Nodes : m # n =>
       /\ raft'[m].log = raft[m].log /\ raft'[m].term = raft[m].term
       /\ raft'[m].role = raft[m].role
  /\ \A u \in Terms : sent'[u].log = sent[u].log
  /\ \A u \in Terms, m \in Nodes :
       acked'[u][m] = IF u = t /\ m = n THEN Max2(acked[u][m], k) ELSE acked[u][m]

LEMMA AcceptUpTo ==
  ASSUME NEW n \in Nodes, NEW t, NEW k, Shapes, NodeLogs, TermLogs(sent),
         AcceptStep(n, t, k)
  PROVE  UpTo(sent[t].log, raft'[n].log, k)
<1>1. CASE Agrees(raft[n].log, sent[t].log, k) /\ raft'[n].log = raft[n].log
  <2>1. t \in Terms /\ k \in 1..Len(sent[t].log) /\ Len(raft[n].log) \in Nat
    BY DEF AcceptStep, Shapes
  <2>2. k \in 1..Len(raft[n].log) /\ raft[n].log[k].term = sent[t].log[k].term
    BY <1>1, <2>1 DEF Agrees
  <2>3. Matches(sent, raft[n].log, raft[n].term) /\ Matches(sent, sent[t].log, t)
    BY <2>1 DEF NodeLogs, TermLogs
  <2>4. \A j \in 1..k : raft[n].log[j] = sent[t].log[j]
    BY <2>1, <2>2, <2>3, SamePrefix
  <2> QED
    BY <1>1, <2>1, <2>2, <2>4 DEF UpTo
<1> QED
  BY <1>1 DEF AcceptStep

\* an entry that the node and the term's log share survives the cut
LEMMA AcceptKeeps ==
  ASSUME NEW n \in Nodes, NEW t, NEW k, Shapes, NodeLogs, TermLogs(sent),
         AcceptStep(n, t, k), NEW u, NEW c \in Nat \ {0},
         Has(raft[n].log, u, c), Has(sent[t].log, u, c)
  PROVE  Has(raft'[n].log, u, c)
<1>1. /\ t \in Terms /\ k \in 1..Len(sent[t].log) /\ Len(raft[n].log) \in Nat
      /\ Len(sent[t].log) \in Nat
  BY DEF AcceptStep, Shapes
<1>2. CASE raft'[n].log = raft[n].log
  BY <1>2
<1>3. CASE ~Agrees(raft[n].log, sent[t].log, k) /\ UpTo(sent[t].log, raft'[n].log, k)
           /\ Len(raft'[n].log) = k
  <2>1. CASE c <= k
    BY <1>1, <1>3, <2>1 DEF Has, UpTo
  <2>2. CASE ~(c <= k)
    <3>1. Matches(sent, raft[n].log, raft[n].term) /\ Matches(sent, sent[t].log, t)
      BY <1>1 DEF NodeLogs, TermLogs
    <3>2. \A j \in 1..c : raft[n].log[j] = sent[t].log[j]
      BY <1>1, <3>1, HasSame
    <3>3. k \in 1..c /\ k <= Len(raft[n].log)
      BY <1>1, <2>2 DEF Has
    <3> QED
      BY <1>3, <3>2, <3>3 DEF Agrees
  <2> QED
    BY <2>1, <2>2
<1> QED
  BY <1>2, <1>3 DEF AcceptStep

LEMMA AcceptLogs ==
  ASSUME NEW L, NEW Q, NEW n \in Nodes, NEW t, NEW k, Shapes, Shapes', LogInv(L, Q),
         AcceptStep(n, t, k)
  PROVE  LogInv(L, Q)'
<1>1. /\ \A u \in Terms : sent'[u].log = sent[u].log
      /\ \A u \in Terms, m \in Nodes : u # t \/ m # n => acked'[u][m] = acked[u][m]
      /\ t \in Terms /\ k \in 1..Len(sent[t].log) /\ raft'[n].term = t
      /\ \A m \in Nodes : raft[m].term <= raft'[m].term
                          /\ raft[m].term \in Nat /\ raft'[m].term \in Nat
      /\ \A m \in Nodes : m # n => raft'[m].log = raft[m].log /\ raft'[m].term = raft[m].term
  BY TermIsNat DEF AcceptStep, Shapes
<1>2. /\ SentShape(sent) /\ SentShape(sent') /\ Grown(sent, sent')
      /\ NodeLogs /\ TermLogs(sent)
  BY <1>1, ShapesSent, GrownShape DEF LogInv
<1>3. LeaderPart(L)'
  <2> SUFFICES ASSUME NEW m \in Nodes, raft'[m].role = "leader"
      PROVE  sent'[raft'[m].term].log = raft'[m].log /\ L[raft'[m].term] = m
    BY DEF LeaderPart
  <2>1. /\ m # n /\ raft[m].role = "leader" /\ raft[m].term \in Terms
        /\ raft'[m].term = raft[m].term /\ raft'[m].log = raft[m].log
    BY DEF AcceptStep, Shapes
  <2> QED
    BY <1>1, <2>1 DEF LogInv, LeaderPart
<1>4. UpTo(sent[t].log, raft'[n].log, k)
  BY <1>2, AcceptUpTo
<1>5. ASSUME NEW l \in Seq(Entries), NEW u \in Nat, NEW v \in Nat, u <= v, Matches(sent, l, u)
      PROVE  Matches(sent', l, v)
  BY <1>2, <1>5, MatchesGrown
<1>6. NodeLogs'
  <2> SUFFICES ASSUME NEW m \in Nodes
      PROVE  /\ Len(raft'[m].log) > 0 /\ raft'[m].log[1] = Bootstrap
             /\ Matches(sent', raft'[m].log, raft'[m].term)
    BY DEF NodeLogs
  <2>1. /\ Len(raft[m].log) > 0 /\ raft[m].log[1] = Bootstrap
        /\ raft[m].log \in Seq(Entries) /\ Matches(sent, raft[m].log, raft[m].term)
    BY <1>2 DEF NodeLogs, Shapes
  <2>2. CASE raft'[m].log = raft[m].log
    BY <1>1, <1>5, <2>1, <2>2
  <2>3. CASE m = n /\ Len(raft'[n].log) = k
    <3>1. /\ k \in Nat /\ k >= 1 /\ Len(sent[t].log) \in Nat /\ k <= Len(sent[t].log)
      BY <1>1, <1>2 DEF SentShape
    <3>2. Elected(sent, t) /\ sent[t].log[1] = Bootstrap /\ Matches(sent, sent[t].log, t)
      BY <1>1, <1>2, <3>1 DEF Elected, TermLogs
    <3>3. \A j \in 1..k : raft'[n].log[j] = sent[t].log[j] /\ j \in 1..Len(sent[t].log)
      BY <1>4, <3>1 DEF UpTo
    <3>4. Matches(sent, raft'[n].log, t)
      <4> SUFFICES ASSUME NEW i \in 1..k
          PROVE  LET l == raft'[n].log IN
                 /\ l[i].term <= t /\ i <= Len(Src(sent, l[i].term))
                 /\ \A j \in 1..i : l[j] = Src(sent, l[i].term)[j]
        BY <2>3 DEF Matches
      <4>1. raft'[n].log[i] = sent[t].log[i] /\ i \in 1..Len(sent[t].log)
        BY <3>3
      <4>2. \A j \in 1..i : j \in 1..k
        BY <3>1
      <4>3. \A j \in 1..i : raft'[n].log[j] = sent[t].log[j]
        BY <3>3, <4>2
      <4> QED
        BY <3>2, <4>1, <4>3 DEF Matches
    <3>5. raft'[n].log \in Seq(Entries) /\ t \in Nat /\ t <= t
      BY <1>1, TermIsNat DEF Shapes
    <3>6. Matches(sent', raft'[n].log, t)
      BY <1>5, <3>4, <3>5
    <3> QED
      BY <1>1, <2>3, <3>1, <3>2, <3>3, <3>6
  <2> QED
    BY <2>2, <2>3 DEF AcceptStep
<1>7. TermLogs(sent')
  <2> SUFFICES ASSUME NEW u \in Terms
      PROVE  /\ Matches(sent', sent'[u].log, u)
             /\ Elected(sent', u) => u > 1 /\ sent'[u].log[1] = Bootstrap
    BY DEF TermLogs
  <2>1. Matches(sent, sent[u].log, u) /\ sent[u].log \in Seq(Entries) /\ u \in Nat /\ u <= u
    BY <1>2, TermIsNat DEF TermLogs, SentShape
  <2>2. Matches(sent', sent[u].log, u)
    BY <1>5, <2>1
  <2> QED
    BY <1>1, <1>2, <2>2 DEF TermLogs, Elected
<1>8. AckPart'
  <2> SUFFICES ASSUME NEW u \in Terms, NEW m \in Nodes
      PROVE  /\ acked'[u][m] <= Len(sent'[u].log)
             /\ acked'[u][m] > 0 => raft'[m].term >= u
    BY DEF AckPart
  <2>1. /\ acked[u][m] <= Len(sent[u].log) /\ (acked[u][m] > 0 => raft[m].term >= u)
        /\ acked[u][m] \in Nat /\ Len(sent[u].log) \in Nat
    BY DEF LogInv, AckPart, Shapes
  <2>2. CASE u = t /\ m = n
    <3>1. acked'[u][m] = Max2(acked[u][m], k)
      BY <2>2 DEF AcceptStep
    <3>2. acked'[u][m] <= Len(sent[u].log)
      BY <1>1, <2>1, <2>2, <3>1 DEF Max2
    <3> QED
      BY <1>1, <2>2, <3>2
  <2>3. CASE ~(u = t /\ m = n)
    <3>1. u \in Nat /\ raft[m].term <= raft'[m].term /\ raft[m].term \in Nat /\ raft'[m].term \in Nat
      BY <1>1, TermIsNat
    <3>2. acked'[u][m] = acked[u][m] /\ sent'[u].log = sent[u].log
      BY <1>1, <2>3
    <3> QED
      BY <2>1, <3>1, <3>2
  <2> QED
    BY <2>2, <2>3
<1>9. \A u \in Terms : Elected(sent', u) <=> Elected(sent, u)
  BY <1>1 DEF Elected
<1>10. ElectPart(L, Q)'
  <2> SUFFICES ASSUME NEW u \in Terms, Elected(sent', u)
      PROVE  Majority(Q[u]) /\ L[u] \in Q[u] /\ \A m \in Q[u] : raft'[m].term >= u
    BY DEF ElectPart, Majority
  <2>1. /\ Majority(Q[u]) /\ L[u] \in Q[u] /\ Q[u] \subseteq Nodes
        /\ \A m \in Q[u] : raft[m].term >= u
    BY <1>9 DEF LogInv, ElectPart, Witnesses
  <2>2. u \in Nat /\ \A m \in Nodes : /\ raft[m].term \in Nat /\ raft'[m].term \in Nat
                                      /\ raft[m].term <= raft'[m].term
    BY <1>1, TermIsNat
  <2>3. \A m \in Q[u] : raft'[m].term >= u
    BY <2>1, <2>2
  <2> QED
    BY <2>1, <2>3
<1>11. ASSUME NEW u \in Terms, NEW c \in Nat, NEW v \in Int, NEW w \in Int, v <= w,
              Good(sent', u, c, w)
       PROVE  Good(sent, u, c, v)
  BY <1>1, <1>9, <1>11, TermIsNat DEF Good
<1>12. ASSUME NEW u \in Terms, NEW m \in Nodes, NEW c \in Nat,
              Acc(sent', acked', L, u, m, c)
       PROVE  /\ c \in Nat \ {0} /\ c \in 1..Len(sent[u].log) /\ sent[u].log[c].term = u
              /\ Acc(sent, acked, L, u, m, c) \/ (u = t /\ m = n /\ c <= k)
  <2>1. /\ c \in 1..Len(sent[u].log) /\ sent[u].log[c].term = u
        /\ c <= acked'[u][m] \/ L[u] = m
    BY <1>1, <1>12 DEF Acc
  <2>2. CASE u = t /\ m = n
    <3>1. acked'[u][m] = Max2(acked[u][m], k) /\ acked[u][m] \in Nat
      BY <2>2 DEF AcceptStep, Shapes
    <3>2. c <= acked'[u][m] => c <= acked[u][m] \/ c <= k
      BY <3>1 DEF Max2
    <3> QED
      BY <2>1, <2>2, <3>2 DEF Acc
  <2>3. CASE ~(u = t /\ m = n)
    BY <1>1, <2>1, <2>3 DEF Acc
  <2> QED
    BY <2>1, <2>2, <2>3
<1>13. KeptPart(L)'
  <2> SUFFICES ASSUME NEW m \in Nodes, NEW u \in Terms, NEW c \in Nat,
                      Acc(sent', acked', L, u, m, c), Good(sent', u, c, raft'[m].term)
      PROVE  Has(raft'[m].log, u, c)
    BY DEF KeptPart
  <2>1. /\ c \in Nat \ {0} /\ c \in 1..Len(sent[u].log) /\ sent[u].log[c].term = u
        /\ Acc(sent, acked, L, u, m, c) \/ (u = t /\ m = n /\ c <= k)
    BY <1>12
  <2>2. Good(sent, u, c, raft[m].term) /\ Good(sent, u, c, raft'[m].term)
    <3>1. raft[m].term \in Int /\ raft'[m].term \in Int /\ raft[m].term <= raft'[m].term
          /\ raft'[m].term <= raft'[m].term
      BY <1>1
    <3> QED
      BY <1>11, <3>1
  <2>3. CASE m # n
    BY <1>1, <2>1, <2>2, <2>3 DEF LogInv, KeptPart
  <2>4. CASE m = n /\ u = t /\ c <= k
    <3>1. raft'[n].log[c] = sent[t].log[c] /\ c <= Len(raft'[n].log)
      <4>1. k \in Nat /\ c \in 1..k /\ Len(raft'[n].log) \in Nat /\ k <= Len(raft'[n].log)
        BY <1>1, <1>4, <2>1, <2>4 DEF UpTo, Shapes
      <4> QED
        BY <1>4, <4>1 DEF UpTo
    <3> QED
      BY <2>1, <2>4, <3>1 DEF Has
  <2>5. CASE m = n /\ Acc(sent, acked, L, u, m, c)
    <3>1. Has(raft[n].log, u, c)
      BY <2>2, <2>5 DEF LogInv, KeptPart
    <3>2. u <= t
      <4>1. CASE c <= acked[u][n]
        <5>1. acked[u][n] \in Nat /\ (acked[u][n] > 0 => raft[n].term >= u)
          BY DEF LogInv, AckPart, Shapes
        <5> QED
          BY <1>1, <2>1, <4>1, <5>1, TermIsNat
      <4>2. CASE L[u] = n
        <5>1. Elected(sent, u)
          BY <1>2, <2>1 DEF Elected, SentShape
        <5>2. raft[n].term >= u
          BY <4>2, <5>1 DEF LogInv, ElectPart
        <5> QED
          BY <1>1, <5>2, TermIsNat
      <4> QED
        BY <2>5, <4>1, <4>2 DEF Acc
    <3>3. Has(sent[t].log, u, c)
      <4>1. CASE u = t
        BY <1>2, <2>1, <4>1 DEF Has, SentShape
      <4>2. CASE u # t
        <5>1. u < t /\ t <= t
          BY <1>1, <3>2, <4>2, TermIsNat
        <5>2. Elected(sent, t)
          BY <1>1, <1>2 DEF Elected, SentShape
        <5> QED
          BY <1>1, <2>2, <2>5, <5>1, <5>2 DEF Good
      <4> QED
        BY <4>1, <4>2
    <3> QED
      BY <1>2, <2>1, <2>5, <3>1, <3>3, AcceptKeeps
  <2> QED
    BY <2>1, <2>3, <2>4, <2>5
<1>14. SafePart(L, Q)'
  <2> SUFFICES ASSUME NEW v \in Terms, NEW u \in Terms, Elected(sent', v), u < v,
                      NEW m \in Q[v], NEW c \in Nat,
                      Acc(sent', acked', L, u, m, c), Good(sent', u, c, v - 1)
      PROVE  Has(sent'[v].log, u, c)
    BY DEF SafePart
  <2>1. m \in Nodes /\ Elected(sent, v) /\ raft[m].term >= v
    BY <1>9 DEF LogInv, Witnesses, ElectPart
  <2>2. ~(u = t /\ m = n)
    BY <1>1, <2>1, TermIsNat
  <2>3. v - 1 \in Int /\ v - 1 <= v - 1
    BY TermIsNat
  <2>4. Acc(sent, acked, L, u, m, c) /\ Good(sent, u, c, v - 1)
    BY <1>11, <1>12, <2>1, <2>2, <2>3
  <2>5. Has(sent[v].log, u, c)
    BY <2>1, <2>4 DEF LogInv, SafePart
  <2> QED
    BY <1>1, <2>5
<1> QED
  BY <1>3, <1>6, <1>7, <1>8, <1>10, <1>13, <1>14 DEF LogInv, Witnesses

-----------------------------------------------------------------------------
(***************************************************************************)
(* An election.  Two majorities share a node, so no term is won twice and  *)
(* terms are won in increasing order.                                      *)
(***************************************************************************)
LEMMA QuorumsMeet ==
  ASSUME NEW A \in SUBSET Nodes, NEW B \in SUBSET Nodes, Majority(A), Majority(B)
  PROVE  \E m \in Nodes : m \in A /\ m \in B
<1>1. IsFiniteSet(Nodes) /\ IsFiniteSet(A) /\ IsFiniteSet(B)
  BY GroupAssumption, FS_Subset
<1>2. Cardinality(Nodes) \in Nat /\ Cardinality(A) \in Nat /\ Cardinality(B) \in Nat
  BY <1>1, FS_CardinalityType
<1>3. Cardinality(A) + Cardinality(B) > Cardinality(Nodes)
  BY <1>2 DEF Majority
<1>4. A \cap B # {}
  BY <1>1, <1>3, FS_MajoritiesIntersect
<1> QED
  BY <1>4

ElectStep(n, V, t) ==
  /\ t \in Terms /\ V \in SUBSET Nodes /\ Majority(V) /\ n \in V
  /\ \A v \in V : /\ raft[v].term < t /\ UpToDate(raft[n].log, raft[v].log)
                  /\ raft'[v].term = t
  /\ OneMore(raft[n].log, raft'[n].log, t)
  /\ \A m \in Nodes : m # n =>
       /\ raft'[m].log = raft[m].log
       /\ raft'[m].role = "leader" => raft[m].role = "leader" /\ m \notin V
       /\ m \notin V => raft'[m].term = raft[m].term
  /\ \A u \in Terms : sent'[u].log = IF u = t THEN raft'[n].log ELSE sent[u].log
  /\ \A u \in Terms, m \in Nodes : acked'[u][m] = acked[u][m]

\* the new leader has what the voters had acknowledged
LEMMA ElectSafe ==
  ASSUME NEW L, NEW Q, NEW n \in Nodes, NEW V, NEW t, Shapes, LogInv(L, Q),
         ElectStep(n, V, t), NEW m \in V, NEW u \in Terms, u < t, NEW c \in Nat,
         Acc(sent, acked, L, u, m, c), Good(sent, u, c, t - 1)
  PROVE  Has(raft[n].log, u, c)
<1> DEFINE l == raft[n].log
           k == raft[m].log
           v == LastTerm(l)
           w == LastTerm(k)
<1>1. /\ t \in Terms /\ t \in Nat /\ u \in Nat /\ m \in Nodes /\ n \in V
      /\ raft[m].term \in Nat /\ raft[n].term \in Nat
      /\ raft[m].term < t /\ raft[n].term < t /\ UpToDate(l, k)
      /\ l \in Seq(Entries) /\ k \in Seq(Entries) /\ Len(l) \in Nat /\ Len(k) \in Nat
  BY TermIsNat DEF ElectStep, Shapes
<1>2. /\ Len(l) > 0 /\ Len(k) > 0
      /\ Matches(sent, l, raft[n].term) /\ Matches(sent, k, raft[m].term)
  BY <1>1 DEF LogInv, NodeLogs
<1>3. SentShape(sent) /\ TermLogs(sent)
  BY ShapesSent DEF LogInv
<1>4. c \in Nat \ {0} /\ Has(k, u, c)
  <2>1. Good(sent, u, c, raft[m].term)
    BY <1>1, TermIsNat DEF Good
  <2>2. Has(k, u, c)
    BY <1>1, <2>1 DEF LogInv, KeptPart
  <2> QED
    BY <2>2 DEF Acc
<1> HIDE DEF l, k
<1>5. v = l[Len(l)].term /\ w = k[Len(k)].term /\ v \in Terms /\ w \in Terms
  BY <1>1, <1>2, EntryTerm DEF LastTerm
<1>6. u <= w /\ c \in 1..Len(k)
  <2>1. c \in 1..Len(k) /\ Len(k) \in 1..Len(k) /\ k[c].term = u
    BY <1>1, <1>4 DEF Has
  <2>2. k[c].term <= k[Len(k)].term
    BY <1>1, <1>2, <1>3, <2>1, TermsAscend
  <2> QED
    BY <1>5, <2>1, <2>2
<1>7. v > w \/ (v = w /\ Len(l) >= Len(k))
  BY <1>1 DEF UpToDate
<1>8. v <= raft[n].term
  BY <1>1, <1>2, <1>5 DEF Matches
<1> HIDE DEF v, w
<1>9. CASE v > u
  <2>1. v \in Nat /\ v # 1 /\ v <= t - 1
    BY <1>1, <1>5, <1>8, <1>9, TermIsNat
  <2>2. /\ Len(l) <= Len(sent[v].log) /\ Len(sent[v].log) \in Nat
        /\ sent[v].log \in Seq(Entries) /\ Matches(sent, sent[v].log, v)
        /\ \A j \in 1..Len(l) : l[j] = sent[v].log[j]
    <3>1. Src(sent, v) = sent[v].log /\ sent[v].log \in Seq(Entries) /\ Len(sent[v].log) \in Nat
      BY <1>3, <1>5, <2>1 DEF SentShape, Src
    <3>2. Len(l) \in 1..Len(l)
      BY <1>1, <1>2
    <3>3. Len(l) <= Len(Src(sent, v)) /\ \A j \in 1..Len(l) : l[j] = Src(sent, v)[j]
      BY <1>2, <1>5, <3>2 DEF Matches
    <3> QED
      BY <1>3, <1>5, <3>1, <3>3 DEF TermLogs
  <2>3. Elected(sent, v)
    BY <1>1, <1>2, <2>2 DEF Elected
  <2>4. Has(sent[v].log, u, c)
    BY <1>5, <1>9, <2>1, <2>3 DEF Good
  <2>5. c <= Len(l)
    <3> SUFFICES ASSUME ~(c <= Len(l)) PROVE FALSE
      OBVIOUS
    <3>1. Len(l) \in 1..c /\ c \in 1..Len(sent[v].log)
      BY <1>1, <1>2, <1>4, <2>2, <2>4 DEF Has
    <3>2. sent[v].log[Len(l)].term <= sent[v].log[c].term
      BY <1>3, <2>2, <3>1, TermsAscend
    <3>3. sent[v].log[Len(l)].term = v /\ sent[v].log[c].term = u
      <4>1. Len(l) \in 1..Len(l) /\ sent[v].log[Len(l)] = l[Len(l)]
        BY <1>1, <1>2, <2>2
      <4> QED
        BY <1>5, <2>4, <4>1 DEF Has
    <3> QED
      BY <1>1, <1>9, <2>1, <3>2, <3>3
  <2>6. l[c] = sent[v].log[c]
    BY <1>1, <1>4, <2>2, <2>5
  <2> QED
    BY <2>4, <2>5, <2>6 DEF Has, l
<1>10. CASE ~(v > u)
  <2>1. v = u /\ w = u /\ Len(l) >= Len(k)
    BY <1>1, <1>5, <1>6, <1>7, <1>10, TermIsNat
  <2>2. c <= Len(l) /\ c \in 1..Len(l) /\ Len(l) \in 1..Len(l)
    BY <1>1, <1>2, <1>6, <2>1
  <2>3. l[c] = Src(sent, u)[c]
    BY <1>2, <1>5, <2>1, <2>2 DEF Matches
  <2>4. k[c] = Src(sent, u)[c] /\ k[c].term = u
    <3>1. k[c].term = u
      BY <1>4 DEF Has
    <3>2. c \in 1..c
      BY <1>4
    <3> QED
      BY <1>2, <1>6, <3>1, <3>2 DEF Matches
  <2> QED
    BY <2>2, <2>3, <2>4 DEF Has, l
<1> QED
  BY <1>9, <1>10

LEMMA ElectFresh ==
  ASSUME NEW L, NEW Q, NEW n \in Nodes, NEW V, NEW t, Shapes, LogInv(L, Q),
         ElectStep(n, V, t), NEW u \in Terms, Elected(sent, u)
  PROVE  u < t
<1>1. Majority(Q[u]) /\ Q[u] \in SUBSET Nodes /\ \A m \in Q[u] : raft[m].term >= u
  BY DEF LogInv, Witnesses, ElectPart
<1>2. V \in SUBSET Nodes /\ Majority(V) /\ \A m \in V : raft[m].term < t
  BY DEF ElectStep
<1>3. PICK m \in Nodes : m \in Q[u] /\ m \in V
  BY <1>1, <1>2, QuorumsMeet
<1>4. /\ raft[m].term \in Nat /\ t \in Nat /\ u \in Nat
      /\ raft[m].term >= u /\ raft[m].term < t
  BY <1>1, <1>2, <1>3, TermIsNat DEF Shapes, ElectStep
<1> QED
  BY <1>4

LEMMA ElectLogs ==
  ASSUME NEW L, NEW Q, NEW M, NEW R, NEW n \in Nodes, NEW V, NEW t,
         Shapes, Shapes', LogInv(L, Q), ElectStep(n, V, t), Witnesses(M, R),
         M[t] = n, R[t] = V, \A u \in Terms : u # t => M[u] = L[u] /\ R[u] = Q[u]
  PROVE  LogInv(M, R)' /\ Grown(sent, sent')
<1>1. /\ t \in Terms /\ t \in Nat /\ n \in V /\ V \in SUBSET Nodes
      /\ OneMore(raft[n].log, raft'[n].log, t)
      /\ \A m \in V : raft[m].term < t /\ raft'[m].term = t
      /\ \A m \in Nodes : m # n => raft'[m].log = raft[m].log
      /\ \A m \in Nodes : m \notin V => raft'[m].term = raft[m].term
      /\ \A u \in Terms : u # t => sent'[u].log = sent[u].log
      /\ sent'[t].log = raft'[n].log
      /\ \A u \in Terms, m \in Nodes : acked'[u][m] = acked[u][m]
  BY TermIsNat DEF ElectStep
<1>2. \A m \in Nodes : /\ raft[m].term \in Nat /\ raft'[m].term \in Nat
                       /\ raft[m].term <= raft'[m].term
  <2> TAKE m \in Nodes
  <2>1. raft[m].term \in Nat /\ raft'[m].term \in Nat
    BY TermIsNat DEF Shapes
  <2>2. CASE m \in V
    BY <1>1, <2>1, <2>2
  <2>3. CASE m \notin V
    BY <1>1, <2>1, <2>3
  <2> QED
    BY <2>1, <2>2, <2>3
<1>3. SentShape(sent) /\ SentShape(sent') /\ NodeLogs /\ TermLogs(sent)
  BY ShapesSent DEF LogInv, Shapes, SentShape
<1>4. \A u \in Terms : Elected(sent, u) => u < t /\ u # t
  BY <1>1, ElectFresh, TermIsNat
<1>5. Len(sent[t].log) = 0 /\ t > 1
  <2>1. Len(sent[t].log) \in Nat /\ ~Elected(sent, t)
    BY <1>1, <1>3, <1>4 DEF SentShape
  <2>2. raft[n].term >= 1 /\ raft[n].term < t
    BY <1>1, TermIsNat DEF Shapes
  <2> QED
    BY <1>1, <1>2, <2>1, <2>2 DEF Elected
<1>6. Grown(sent, sent')
  <2> SUFFICES ASSUME NEW u \in Terms
      PROVE  /\ Len(sent[u].log) <= Len(sent'[u].log)
             /\ \A j \in 1..Len(sent[u].log) : sent'[u].log[j] = sent[u].log[j]
    BY DEF Grown
  <2>1. Len(sent[u].log) \in Nat /\ Len(sent'[u].log) \in Nat
    BY <1>3 DEF SentShape
  <2>2. CASE u = t
    BY <1>5, <2>1, <2>2
  <2>3. CASE u # t
    BY <1>1, <2>1, <2>3
  <2> QED
    BY <2>2, <2>3
<1>7. ASSUME NEW l \in Seq(Entries), NEW u \in Nat, NEW v \in Nat, u <= v, Matches(sent, l, u)
      PROVE  Matches(sent', l, v)
  BY <1>3, <1>6, <1>7, MatchesGrown
<1>8. /\ raft[n].log \in Seq(Entries) /\ raft'[n].log \in Seq(Entries)
      /\ Len(raft[n].log) \in Nat /\ Len(raft[n].log) > 0 /\ raft[n].log[1] = Bootstrap
      /\ Len(raft'[n].log) = Len(raft[n].log) + 1
      /\ raft'[n].log[Len(raft[n].log) + 1].term = t
      /\ raft'[n].log[1] = Bootstrap
  BY <1>1, <1>3 DEF Shapes, NodeLogs, OneMore
<1>9. Matches(sent', raft'[n].log, t)
  <2>1. Matches(sent', raft[n].log, raft[n].term)
    BY <1>2, <1>3, <1>7, <1>8 DEF NodeLogs
  <2>2. raft[n].term <= t /\ t # 1
    BY <1>1, <1>2, <1>5
  <2> QED
    BY <1>1, <1>2, <1>8, <2>1, <2>2, MatchesOneMore
<1>10. LeaderPart(M)'
  <2> SUFFICES ASSUME NEW m \in Nodes, raft'[m].role = "leader"
      PROVE  sent'[raft'[m].term].log = raft'[m].log /\ M[raft'[m].term] = m
    BY DEF LeaderPart
  <2>1. CASE m = n
    BY <1>1, <2>1
  <2>2. CASE m # n
    <3>1. /\ raft[m].role = "leader" /\ raft'[m].term = raft[m].term
          /\ raft'[m].log = raft[m].log /\ raft[m].term \in Terms
      BY <2>2 DEF ElectStep, Shapes
    <3>2. sent[raft[m].term].log = raft[m].log /\ L[raft[m].term] = m
      BY <3>1 DEF LogInv, LeaderPart
    <3>3. Elected(sent, raft[m].term)
      BY <1>3, <3>2 DEF Elected, NodeLogs
    <3>4. raft[m].term # t
      BY <1>4, <3>1, <3>3
    <3> QED
      BY <1>1, <3>1, <3>2, <3>4
  <2> QED
    BY <2>1, <2>2
<1>11. NodeLogs'
  <2> SUFFICES ASSUME NEW m \in Nodes
      PROVE  /\ Len(raft'[m].log) > 0 /\ raft'[m].log[1] = Bootstrap
             /\ Matches(sent', raft'[m].log, raft'[m].term)
    BY DEF NodeLogs
  <2>1. CASE m = n
    BY <1>1, <1>8, <1>9, <2>1
  <2>2. CASE m # n
    <3>1. /\ raft[m].log \in Seq(Entries) /\ raft'[m].log = raft[m].log
          /\ Len(raft[m].log) > 0 /\ raft[m].log[1] = Bootstrap
          /\ Matches(sent, raft[m].log, raft[m].term)
      BY <1>1, <1>3, <2>2 DEF NodeLogs, Shapes
    <3>2. Matches(sent', raft[m].log, raft'[m].term)
      BY <1>2, <1>7, <3>1
    <3> QED
      BY <3>1, <3>2
  <2> QED
    BY <2>1, <2>2
<1>12. TermLogs(sent')
  <2> SUFFICES ASSUME NEW u \in Terms
      PROVE  /\ Matches(sent', sent'[u].log, u)
             /\ Elected(sent', u) => u > 1 /\ sent'[u].log[1] = Bootstrap
    BY DEF TermLogs
  <2>1. CASE u = t
    BY <1>1, <1>5, <1>8, <1>9, <2>1
  <2>2. CASE u # t
    <3>1. /\ Matches(sent, sent[u].log, u) /\ sent[u].log \in Seq(Entries)
          /\ u \in Nat /\ u <= u
      BY <1>3, TermIsNat DEF TermLogs, SentShape
    <3>2. Matches(sent', sent[u].log, u)
      BY <1>7, <3>1
    <3> QED
      BY <1>1, <1>3, <2>2, <3>2 DEF TermLogs, Elected
  <2> QED
    BY <2>1, <2>2
<1>13. AckPart'
  <2> SUFFICES ASSUME NEW u \in Terms, NEW m \in Nodes
      PROVE  /\ acked'[u][m] <= Len(sent'[u].log)
             /\ acked'[u][m] > 0 => raft'[m].term >= u
    BY DEF AckPart
  <2>1. /\ acked[u][m] <= Len(sent[u].log) /\ (acked[u][m] > 0 => raft[m].term >= u)
        /\ acked[u][m] \in Nat /\ acked'[u][m] = acked[u][m] /\ u \in Nat
        /\ Len(sent[u].log) \in Nat /\ Len(sent'[u].log) \in Nat
        /\ Len(sent[u].log) <= Len(sent'[u].log)
    BY <1>1, <1>3, <1>6, TermIsNat DEF LogInv, AckPart, Shapes, SentShape, Grown
  <2> QED
    BY <1>2, <2>1
<1>14. \A u \in Terms : u # t => (Elected(sent', u) <=> Elected(sent, u))
  BY <1>1 DEF Elected
<1>15. ElectPart(M, R)'
  <2> SUFFICES ASSUME NEW u \in Terms, Elected(sent', u)
      PROVE  Majority(R[u]) /\ M[u] \in R[u] /\ \A m \in R[u] : raft'[m].term >= u
    BY DEF ElectPart, Majority
  <2>1. CASE u = t
    BY <1>1, <2>1 DEF ElectStep
  <2>2. CASE u # t
    <3>1. /\ Majority(Q[u]) /\ L[u] \in Q[u] /\ Q[u] \subseteq Nodes
          /\ \A m \in Q[u] : raft[m].term >= u
      BY <1>14, <2>2 DEF LogInv, ElectPart, Witnesses
    <3>2. u \in Nat
      BY TermIsNat
    <3>3. \A m \in Q[u] : raft'[m].term >= u
      BY <1>2, <3>1, <3>2
    <3> QED
      BY <2>2, <3>1, <3>3
  <2> QED
    BY <2>1, <2>2
<1>16. ASSUME NEW u \in Terms, NEW c \in Nat, NEW v \in Int, NEW w \in Int, v <= w,
              Good(sent', u, c, w)
       PROVE  Good(sent, u, c, v)
  <2> SUFFICES ASSUME NEW x \in Terms, u < x, x <= v, Elected(sent, x)
      PROVE  Has(sent[x].log, u, c)
    BY DEF Good
  <2>1. x # t /\ x <= w
    BY <1>4, <1>16, TermIsNat
  <2> QED
    BY <1>1, <1>14, <1>16, <2>1 DEF Good
<1>17. ASSUME NEW u \in Terms, NEW m \in Nodes, NEW c \in Nat,
              Acc(sent', acked', M, u, m, c)
       PROVE  /\ c \in Nat \ {0}
              /\ \/ u # t /\ Acc(sent, acked, L, u, m, c)
                 \/ u = t /\ m = n /\ Has(raft'[n].log, t, c)
  <2>1. /\ c \in 1..Len(sent'[u].log) /\ sent'[u].log[c].term = u
        /\ c <= acked[u][m] \/ M[u] = m
    BY <1>1, <1>17 DEF Acc
  <2>2. CASE u # t
    BY <1>1, <2>1, <2>2 DEF Acc
  <2>3. CASE u = t
    <3>1. acked[u][m] = 0
      BY <1>5, <2>3 DEF LogInv, AckPart, Shapes
    <3>2. M[u] = m /\ c <= Len(sent'[u].log)
      BY <1>3, <2>1, <3>1 DEF SentShape
    <3> QED
      BY <1>1, <2>1, <2>3, <3>2 DEF Has
  <2> QED
    BY <2>2, <2>3
<1>18. ASSUME NEW c \in Nat \ {0}, NEW u, Has(raft[n].log, u, c)
       PROVE  Has(raft'[n].log, u, c)
  BY <1>1, <1>8, <1>18, OneMoreHas
<1>19. KeptPart(M)'
  <2> SUFFICES ASSUME NEW m \in Nodes, NEW u \in Terms, NEW c \in Nat,
                      Acc(sent', acked', M, u, m, c), Good(sent', u, c, raft'[m].term)
      PROVE  Has(raft'[m].log, u, c)
    BY DEF KeptPart
  <2>1. CASE Acc(sent, acked, L, u, m, c)
    <3>1. Good(sent, u, c, raft[m].term) /\ c \in Nat \ {0}
      BY <1>2, <1>16, <1>17
    <3>2. Has(raft[m].log, u, c)
      BY <2>1, <3>1 DEF LogInv, KeptPart
    <3> QED
      BY <1>1, <1>18, <3>1, <3>2
  <2> QED
    BY <1>17, <2>1
<1>20. SafePart(M, R)'
  <2> SUFFICES ASSUME NEW v \in Terms, NEW u \in Terms, Elected(sent', v), u < v,
                      NEW m \in R[v], NEW c \in Nat,
                      Acc(sent', acked', M, u, m, c), Good(sent', u, c, v - 1)
      PROVE  Has(sent'[v].log, u, c)
    BY DEF SafePart
  <2>1. m \in Nodes /\ v - 1 \in Int /\ v - 1 <= v - 1
    BY TermIsNat DEF Witnesses
  <2>2. Good(sent, u, c, v - 1)
    BY <1>16, <2>1
  <2>3. CASE v = t
    <3>1. u # t /\ m \in V
      BY <2>3, TermIsNat
    <3>2. Acc(sent, acked, L, u, m, c) /\ c \in Nat \ {0}
      BY <1>17, <2>1, <3>1
    <3>3. Has(raft[n].log, u, c)
      BY <2>2, <2>3, <3>1, <3>2, ElectSafe
    <3> QED
      BY <1>1, <1>18, <2>3, <3>2, <3>3
  <2>4. CASE v # t
    <3>1. Elected(sent, v) /\ v < t /\ m \in Q[v]
      BY <1>4, <1>14, <2>4
    <3>2. u # t
      BY <1>1, <3>1, TermIsNat
    <3>3. Acc(sent, acked, L, u, m, c)
      BY <1>17, <2>1, <3>2
    <3>4. Has(sent[v].log, u, c)
      BY <2>2, <3>1, <3>3 DEF LogInv, SafePart
    <3> QED
      BY <1>1, <2>4, <3>4
  <2> QED
    BY <2>3, <2>4
<1> QED
  BY <1>6, <1>10, <1>11, <1>12, <1>13, <1>15, <1>19, <1>20 DEF LogInv

-----------------------------------------------------------------------------
(***************************************************************************)
(* A chosen entry is stored by a majority in its own term.  The log l is   *)
(* settled up to k when an entry chosen no later than term u covers those  *)
(* positions; every commit index stands for that.                          *)
(***************************************************************************)
Holders(A, L, t, c) == {m \in Nodes : c <= A[t][m] \/ L[t] = m}

Chosen(S, A, L, t, c) ==
  IF t = 1 THEN c = 1
  ELSE /\ c \in 1..Len(S[t].log) /\ S[t].log[c].term = t
       /\ Majority(Holders(A, L, t, c))

Settled(S, A, L, l, k, u) ==
  \E t \in Terms, c \in Nat :
    /\ t <= u /\ k <= c /\ Chosen(S, A, L, t, c)
    /\ \A j \in 1..k : l[j] = Src(S, t)[j]

CommitPart(L) ==
  /\ \A n \in Nodes :
       Settled(sent, acked, L, raft[n].log, raft[n].committed, raft[n].term)
  /\ \A t \in Terms : Elected(sent, t) =>
       Settled(sent, acked, L, sent[t].log, sent[t].commit, t)
  /\ \A t \in Terms : sent[t].snap.index <= sent[t].commit

(***************************************************************************)
(* Every later leader has a chosen entry: the first one without it would   *)
(* have been elected by a majority that shares a node with the holders.    *)
(***************************************************************************)
LEMMA LeaderComplete ==
  ASSUME NEW L, NEW Q, Shapes, LogInv(L, Q), NEW t \in Terms, NEW c \in Nat,
         Chosen(sent, acked, L, t, c), NEW u \in Terms, t < u, Elected(sent, u)
  PROVE  Has(sent[u].log, t, c)
<1> DEFINE Lost(v) == v \in Terms /\ t < v /\ Elected(sent, v) /\ ~Has(sent[v].log, t, c)
           B == {v \in Terms : Lost(v)}
<1> SUFFICES ASSUME ~Has(sent[u].log, t, c) PROVE FALSE
  OBVIOUS
<1>1. PICK w \in B : \A v \in B : w <= v
  <2>1. B \in SUBSET Nat /\ u \in B
    BY TermIsNat
  <2> HIDE DEF B
  <2> QED
    BY <2>1, LeastNat
<1>2. /\ w \in Terms /\ t < w /\ Elected(sent, w) /\ ~Has(sent[w].log, t, c)
      /\ w \in Nat /\ t \in Nat
  BY <1>1, TermIsNat
<1>3. Good(sent, t, c, w - 1)
  <2> SUFFICES ASSUME NEW v \in Terms, t < v, v <= w - 1, Elected(sent, v)
      PROVE  Has(sent[v].log, t, c)
    BY DEF Good
  <2>1. v \in Nat /\ ~(w <= v)
    BY <1>2, TermIsNat
  <2>2. v \notin B
    BY <1>1, <2>1
  <2> QED
    BY <2>2
<1> HIDE DEF B, Lost
<1>4. CASE t = 1
  <2>1. c = 1 /\ sent[w].log[1] = Bootstrap /\ Bootstrap.term = 1
    BY <1>2, <1>4, ShapesSent, SrcFacts DEF Chosen, LogInv, TermLogs
  <2>2. Len(sent[w].log) \in Nat
    BY <1>2 DEF Shapes
  <2> QED
    BY <1>2, <1>4, <2>1, <2>2 DEF Has, Elected
<1>5. CASE t # 1
  <2>1. /\ c \in 1..Len(sent[t].log) /\ sent[t].log[c].term = t
        /\ Majority(Holders(acked, L, t, c)) /\ Holders(acked, L, t, c) \in SUBSET Nodes
    BY <1>5 DEF Chosen, Holders
  <2>2. Majority(Q[w]) /\ Q[w] \in SUBSET Nodes
    BY <1>2 DEF LogInv, ElectPart, Witnesses
  <2>3. PICK m \in Nodes : m \in Holders(acked, L, t, c) /\ m \in Q[w]
    BY <2>1, <2>2, QuorumsMeet
  <2>4. Acc(sent, acked, L, t, m, c)
    BY <2>1, <2>3 DEF Acc, Holders
  <2>5. Has(sent[w].log, t, c)
    BY <1>2, <1>3, <2>3, <2>4 DEF LogInv, SafePart
  <2> QED
    BY <1>2, <2>5
<1> QED
  BY <1>4, <1>5

LEMMA ChosenInSrc ==
  ASSUME NEW S, NEW A, NEW L, SentShape(S), NEW t \in Terms, NEW c \in Nat,
         Chosen(S, A, L, t, c)
  PROVE  c \in 1..Len(Src(S, t)) /\ Src(S, t)[c].term = t
<1>1. CASE t = 1
  BY <1>1, SrcFacts DEF Chosen
<1>2. CASE t # 1
  BY <1>2, SrcFacts DEF Chosen
<1> QED
  BY <1>1, <1>2

LEMMA ChosenCarries ==
  ASSUME NEW L, NEW Q, Shapes, LogInv(L, Q), NEW t \in Terms, NEW c \in Nat,
         Chosen(sent, acked, L, t, c), NEW u \in Terms, t <= u,
         u = t \/ Elected(sent, u)
  PROVE  \A j \in 1..c : Src(sent, t)[j] = Src(sent, u)[j]
<1>1. CASE u = t
  BY <1>1
<1>2. CASE u # t
  <2>1. t < u /\ u # 1
    BY <1>2, TermIsNat
  <2>2. Has(sent[u].log, t, c)
    BY <1>2, <2>1, LeaderComplete
  <2>3. Src(sent, u) = sent[u].log /\ Len(sent[u].log) \in Nat /\ Matches(sent, sent[u].log, u)
    BY <2>1 DEF Src, Shapes, LogInv, TermLogs
  <2>4. c \in 1..Len(sent[u].log) /\ sent[u].log[c].term = t
    <3>1. c \in 1..Len(Src(sent, t)) /\ Len(Src(sent, t)) \in Nat
      BY ShapesSent, SrcFacts, ChosenInSrc
    <3> QED
      BY <2>2, <2>3, <3>1 DEF Has
  <2> QED
    BY <2>3, <2>4 DEF Matches
<1> QED
  BY <1>1, <1>2

LEMMA ChosenElected ==
  ASSUME NEW S, NEW A, NEW L, SentShape(S), NEW t \in Terms, NEW c \in Nat,
         Chosen(S, A, L, t, c), t # 1
  PROVE  Elected(S, t)
  BY DEF Chosen, Elected, SentShape

\* two settled logs agree
LEMMA SettledAgree ==
  ASSUME NEW L, NEW Q, Shapes, LogInv(L, Q), NEW l, NEW k \in Nat, NEW u,
         NEW m, NEW i \in Nat, NEW v,
         Settled(sent, acked, L, l, k, u), Settled(sent, acked, L, m, i, v)
  PROVE  \A j \in 1..k : j <= i => l[j] = m[j]
<1>1. PICK t \in Terms, c \in Nat :
        /\ t <= u /\ k <= c /\ Chosen(sent, acked, L, t, c)
        /\ \A j \in 1..k : l[j] = Src(sent, t)[j]
  BY DEF Settled
<1>2. PICK w \in Terms, d \in Nat :
        /\ w <= v /\ i <= d /\ Chosen(sent, acked, L, w, d)
        /\ \A j \in 1..i : m[j] = Src(sent, w)[j]
  BY DEF Settled
<1> SUFFICES ASSUME NEW j \in 1..k, j <= i PROVE l[j] = m[j]
  OBVIOUS
<1>3. j \in 1..i /\ j \in 1..c /\ j \in 1..d
  BY <1>1, <1>2
<1>4. l[j] = Src(sent, t)[j] /\ m[j] = Src(sent, w)[j]
  BY <1>1, <1>2, <1>3
<1>5. t \in Nat /\ w \in Nat
  BY TermIsNat
<1>6. CASE t <= w
  <2>1. w = t \/ Elected(sent, w)
    BY <1>2, <1>5, <1>6, ShapesSent, ChosenElected, TermIsNat
  <2> QED
    BY <1>1, <1>3, <1>4, <1>6, <2>1, ChosenCarries
<1>7. CASE w <= t
  <2>1. w = t \/ Elected(sent, t)
    BY <1>1, <1>5, <1>7, ShapesSent, ChosenElected, TermIsNat
  <2> QED
    BY <1>2, <1>3, <1>4, <1>7, <2>1, ChosenCarries
<1> QED
  BY <1>5, <1>6, <1>7

\* what is settled by term t is in the log of a leader of t or later
LEMMA SettledInTerm ==
  ASSUME NEW L, NEW Q, Shapes, LogInv(L, Q), NEW l, NEW k \in Nat, NEW u \in Nat,
         NEW v \in Terms, u <= v, Elected(sent, v), Settled(sent, acked, L, l, k, u)
  PROVE  \A j \in 1..k : l[j] = sent[v].log[j]
<1>1. PICK t \in Terms, c \in Nat :
        /\ t <= u /\ k <= c /\ Chosen(sent, acked, L, t, c)
        /\ \A j \in 1..k : l[j] = Src(sent, t)[j]
  BY DEF Settled
<1>2. t <= v /\ v # 1
  <2>1. v > 1 /\ v \in Nat /\ t \in Nat
    BY TermIsNat DEF LogInv, TermLogs
  <2> QED
    BY <1>1, <2>1
<1>3. \A j \in 1..c : Src(sent, t)[j] = Src(sent, v)[j]
  BY <1>1, <1>2, ChosenCarries
<1>4. Src(sent, v) = sent[v].log /\ \A j \in 1..k : j \in 1..c
  BY <1>1, <1>2 DEF Src
<1> QED
  BY <1>1, <1>3, <1>4

-----------------------------------------------------------------------------
(***************************************************************************)
(* Chosen entries stay chosen.                                             *)
(***************************************************************************)
MoreAcked(S, A, B, L, M) ==
  \A t \in Terms :
    /\ \A m \in Nodes : A[t][m] \in Nat /\ B[t][m] \in Nat /\ A[t][m] <= B[t][m]
    /\ Elected(S, t) => M[t] = L[t]

LEMMA MajorityGrows ==
  ASSUME NEW A \in SUBSET Nodes, NEW B \in SUBSET Nodes, A \subseteq B, Majority(A)
  PROVE  Majority(B)
<1>1. IsFiniteSet(B) /\ IsFiniteSet(Nodes)
  BY GroupAssumption, FS_Subset
<1>2. Cardinality(A) <= Cardinality(B) /\ IsFiniteSet(A)
  BY <1>1, FS_Subset
<1>3. Cardinality(A) \in Nat /\ Cardinality(B) \in Nat /\ Cardinality(Nodes) \in Nat
  BY <1>1, <1>2, FS_CardinalityType
<1> QED
  BY <1>2, <1>3 DEF Majority

LEMMA ChosenGrows ==
  ASSUME NEW S, NEW T, NEW A, NEW B, NEW L, NEW M, SentShape(S), SentShape(T),
         Grown(S, T), MoreAcked(S, A, B, L, M), NEW t \in Terms, NEW c \in Nat,
         Chosen(S, A, L, t, c)
  PROVE  Chosen(T, B, M, t, c) /\ \A j \in 1..c : Src(T, t)[j] = Src(S, t)[j]
<1>1. CASE t = 1
  BY <1>1 DEF Chosen, Src
<1>2. CASE t # 1
  <2>1. c \in 1..Len(S[t].log) /\ S[t].log[c].term = t /\ Majority(Holders(A, L, t, c))
    BY <1>2 DEF Chosen
  <2>2. /\ Len(S[t].log) \in Nat /\ Len(T[t].log) \in Nat
        /\ Len(S[t].log) <= Len(T[t].log)
        /\ \A j \in 1..Len(S[t].log) : T[t].log[j] = S[t].log[j]
    BY DEF SentShape, Grown
  <2>3. c \in 1..Len(T[t].log) /\ T[t].log[c].term = t
    BY <2>1, <2>2
  <2>4. M[t] = L[t]
    BY <2>1, <2>2 DEF MoreAcked, Elected
  <2>5. /\ Holders(A, L, t, c) \subseteq Holders(B, M, t, c)
        /\ Holders(A, L, t, c) \in SUBSET Nodes /\ Holders(B, M, t, c) \in SUBSET Nodes
    <3>1. \A m \in Nodes : A[t][m] \in Nat /\ B[t][m] \in Nat /\ A[t][m] <= B[t][m]
      BY DEF MoreAcked
    <3> QED
      BY <2>4, <3>1 DEF Holders
  <2>6. Majority(Holders(B, M, t, c))
    BY <2>1, <2>5, MajorityGrows
  <2>7. \A j \in 1..c : j \in 1..Len(S[t].log)
    BY <2>1, <2>2
  <2> QED
    BY <1>2, <2>2, <2>3, <2>6, <2>7 DEF Chosen, Src
<1> QED
  BY <1>1, <1>2

AgreeTo(l, m, k) == \A j \in 1..k : m[j] = l[j]

LEMMA SettledGrows ==
  ASSUME NEW S, NEW T, NEW A, NEW B, NEW L, NEW M, SentShape(S), SentShape(T),
         Grown(S, T), MoreAcked(S, A, B, L, M),
         NEW l, NEW m, NEW k \in Nat, NEW u \in Nat, NEW v \in Nat, u <= v,
         AgreeTo(l, m, k), Settled(S, A, L, l, k, u)
  PROVE  Settled(T, B, M, m, k, v)
<1>1. PICK t \in Terms, c \in Nat :
        /\ t <= u /\ k <= c /\ Chosen(S, A, L, t, c)
        /\ \A j \in 1..k : l[j] = Src(S, t)[j]
  BY DEF Settled
<1>2. Chosen(T, B, M, t, c) /\ \A j \in 1..c : Src(T, t)[j] = Src(S, t)[j]
  BY <1>1, ChosenGrows
<1>3. t <= v /\ \A j \in 1..k : j \in 1..c
  BY <1>1, TermIsNat
<1>4. \A j \in 1..k : m[j] = Src(T, t)[j]
  BY <1>1, <1>2, <1>3 DEF AgreeTo
<1> QED
  BY <1>1, <1>2, <1>3, <1>4 DEF Settled

(***************************************************************************)
(* Stable: no node loses or changes an entry it takes for committed.       *)
(* CommitMoves: a commit index that moves stands for a settled prefix, and *)
(* a leader dispatches its own commit index and a snapshot below it.       *)
(***************************************************************************)
Stable ==
  \A n \in Nodes :
    /\ raft[n].committed <= raft'[n].committed /\ raft[n].term <= raft'[n].term
    /\ \A j \in 1..raft[n].committed : raft'[n].log[j] = raft[n].log[j]

CommitMoves(M) ==
  /\ \A n \in Nodes :
       \/ raft'[n].committed = raft[n].committed
       \/ Settled(sent', acked', M, raft'[n].log, raft'[n].committed, raft'[n].term)
  /\ \A t \in Terms :
       \/ sent'[t].commit = sent[t].commit /\ sent'[t].snap.index = sent[t].snap.index
          /\ (Elected(sent', t) => Elected(sent, t))
       \/ \E n \in Nodes : /\ raft'[n].role = "leader" /\ raft'[n].term = t
                           /\ sent'[t].commit = raft'[n].committed
                           /\ sent'[t].snap.index <= raft'[n].committed

LEMMA CommitKept ==
  ASSUME NEW L, NEW M, Shapes, Shapes', CommitPart(L), LeaderPart(M)',
         Grown(sent, sent'), MoreAcked(sent, acked, acked', L, M),
         Stable, CommitMoves(M)
  PROVE  CommitPart(M)'
<1>1. SentShape(sent) /\ SentShape(sent')
  BY ShapesSent DEF Shapes, SentShape
<1>2. ASSUME NEW n \in Nodes
      PROVE  Settled(sent', acked', M, raft'[n].log, raft'[n].committed, raft'[n].term)
  <2>1. CASE raft'[n].committed = raft[n].committed
    <3>1. /\ raft[n].committed \in Nat /\ raft[n].term \in Nat /\ raft'[n].term \in Nat
          /\ raft[n].term <= raft'[n].term
          /\ AgreeTo(raft[n].log, raft'[n].log, raft[n].committed)
      BY TermIsNat DEF Stable, Shapes, AgreeTo
    <3>2. Settled(sent, acked, L, raft[n].log, raft[n].committed, raft[n].term)
      BY DEF CommitPart
    <3>3. Settled(sent', acked', M, raft'[n].log, raft[n].committed, raft'[n].term)
      BY <1>1, <3>1, <3>2, SettledGrows
    <3> QED
      BY <2>1, <3>3
  <2> QED
    BY <2>1 DEF CommitMoves
<1>3. ASSUME NEW t \in Terms
      PROVE  /\ Elected(sent', t) => Settled(sent', acked', M, sent'[t].log, sent'[t].commit, t)
             /\ sent'[t].snap.index <= sent'[t].commit
  <2>1. CASE \E n \in Nodes : /\ raft'[n].role = "leader" /\ raft'[n].term = t
                              /\ sent'[t].commit = raft'[n].committed
                              /\ sent'[t].snap.index <= raft'[n].committed
    <3>1. PICK n \in Nodes : /\ raft'[n].role = "leader" /\ raft'[n].term = t
                             /\ sent'[t].commit = raft'[n].committed
                             /\ sent'[t].snap.index <= raft'[n].committed
      BY <2>1
    <3>2. sent'[t].log = raft'[n].log
      BY <3>1 DEF LeaderPart
    <3> QED
      BY <1>2, <3>1, <3>2
  <2>2. CASE sent'[t].commit = sent[t].commit /\ sent'[t].snap.index = sent[t].snap.index
             /\ (Elected(sent', t) => Elected(sent, t))
    <3>1. sent[t].snap.index <= sent[t].commit
      BY DEF CommitPart
    <3>2. ASSUME Elected(sent', t)
          PROVE  Settled(sent', acked', M, sent'[t].log, sent'[t].commit, t)
      <4>1. Settled(sent, acked, L, sent[t].log, sent[t].commit, t)
        BY <2>2, <3>2 DEF CommitPart
      <4>2. /\ sent[t].commit \in Nat /\ sent[t].commit <= Len(sent[t].log)
            /\ Len(sent[t].log) \in Nat /\ t \in Nat /\ t <= t
        BY TermIsNat DEF Shapes
      <4>3. AgreeTo(sent[t].log, sent'[t].log, sent[t].commit)
        BY <4>2 DEF Grown, AgreeTo
      <4>4. Settled(sent', acked', M, sent'[t].log, sent[t].commit, t)
        BY <1>1, <4>1, <4>2, <4>3, SettledGrows
      <4> QED
        BY <2>2, <4>4
    <3> QED
      BY <2>2, <3>1, <3>2
  <2> QED
    BY <2>1, <2>2 DEF CommitMoves
<1> QED
  BY <1>2, <1>3 DEF CommitPart

RepInv(L, Q) == LogInv(L, Q) /\ CommitPart(L)

CommitGrows == \A n \in Nodes : raft[n].committed <= raft'[n].committed
CommitsStay == \A n \in Nodes : raft'[n].committed = raft[n].committed

\* no term's log grows and nobody becomes a leader
KeepsLogs ==
  /\ \A t \in Terms : sent'[t].log = sent[t].log
  /\ \A m \in Nodes : raft'[m].role = "leader" =>
       /\ raft[m].role = "leader"
       /\ raft'[m].log = raft[m].log /\ raft'[m].term = raft[m].term

LEMMA CalmRep ==
  ASSUME NEW L, NEW Q, Shapes, Shapes', RepInv(L, Q), CalmStep, CommitGrows, CommitMoves(L)
  PROVE  RepInv(L, Q)' /\ Stable /\ KeepsLogs
<1>1. LogInv(L, Q)'
  BY CalmLogs DEF RepInv
<1>2. Grown(sent, sent')
  BY ShapesSent, GrownShape DEF CalmStep
<1>3. MoreAcked(sent, acked, acked', L, L)
  BY DEF MoreAcked, CalmStep, Shapes
<1>4. Stable
  BY DEF Stable, CommitGrows, CalmStep
<1>5. CommitPart(L)'
  BY <1>1, <1>2, <1>3, <1>4, CommitKept DEF RepInv, LogInv
<1>6. KeepsLogs
  BY DEF KeepsLogs, CalmStep
<1> QED
  BY <1>1, <1>4, <1>5, <1>6 DEF RepInv

LEMMA ProposeRep ==
  ASSUME NEW L, NEW Q, NEW n \in Nodes, Shapes, Shapes', RepInv(L, Q),
         ProposeStep(n), CommitGrows, CommitMoves(L)
  PROVE  RepInv(L, Q)' /\ Stable
<1>1. LogInv(L, Q)' /\ Grown(sent, sent')
  BY ProposeLogs DEF RepInv
<1>2. MoreAcked(sent, acked, acked', L, L)
  BY DEF MoreAcked, ProposeStep, Shapes
<1>3. Stable
  <2> SUFFICES ASSUME NEW m \in Nodes
      PROVE  /\ raft[m].committed <= raft'[m].committed /\ raft[m].term <= raft'[m].term
             /\ \A j \in 1..raft[m].committed : raft'[m].log[j] = raft[m].log[j]
    BY DEF Stable
  <2>1. /\ raft[m].committed <= raft'[m].committed /\ raft[m].term = raft'[m].term
        /\ raft[m].term \in Nat
    BY TermIsNat DEF CommitGrows, ProposeStep, Shapes
  <2>2. CASE m = n
    <3>1. /\ raft[n].committed \in Nat /\ Len(raft[n].log) \in Nat
          /\ raft[n].committed <= Len(raft[n].log)
          /\ \A j \in 1..Len(raft[n].log) : raft'[n].log[j] = raft[n].log[j]
      BY DEF Shapes, ProposeStep, OneMore
    <3> QED
      BY <2>1, <2>2, <3>1
  <2>3. CASE m # n
    BY <2>1, <2>3 DEF ProposeStep
  <2> QED
    BY <2>2, <2>3
<1>4. CommitPart(L)'
  BY <1>1, <1>2, <1>3, CommitKept DEF RepInv, LogInv
<1> QED
  BY <1>1, <1>3, <1>4 DEF RepInv

LEMMA ElectRep ==
  ASSUME NEW L, NEW Q, NEW n \in Nodes, NEW V, NEW t, Shapes, Shapes', RepInv(L, Q),
         ElectStep(n, V, t), CommitGrows,
         \A M : M[t] = n => CommitMoves(M)
  PROVE  \E M, R : RepInv(M, R)' /\ Stable
<1> DEFINE M == [L EXCEPT ![t] = n]
           R == [Q EXCEPT ![t] = V]
<1>1. t \in Terms /\ V \in SUBSET Nodes /\ L \in [Terms -> Nodes] /\ Q \in [Terms -> SUBSET Nodes]
  BY DEF ElectStep, RepInv, LogInv, Witnesses
<1>2. /\ Witnesses(M, R) /\ M[t] = n /\ R[t] = V
      /\ \A u \in Terms : u # t => M[u] = L[u] /\ R[u] = Q[u]
  BY <1>1 DEF Witnesses
<1> HIDE DEF M, R
<1>3. LogInv(M, R)' /\ Grown(sent, sent')
  BY <1>2, ElectLogs DEF RepInv
<1>4. MoreAcked(sent, acked, acked', L, M)
  <2> SUFFICES ASSUME NEW u \in Terms
      PROVE  /\ \A m \in Nodes : acked[u][m] \in Nat /\ acked'[u][m] \in Nat
                                 /\ acked[u][m] <= acked'[u][m]
             /\ Elected(sent, u) => M[u] = L[u]
    BY DEF MoreAcked
  <2>1. Elected(sent, u) => u # t
    BY <1>1, ElectFresh, TermIsNat DEF RepInv
  <2> QED
    BY <1>2, <2>1 DEF ElectStep, Shapes
<1>5. Stable
  <2> SUFFICES ASSUME NEW m \in Nodes
      PROVE  /\ raft[m].committed <= raft'[m].committed /\ raft[m].term <= raft'[m].term
             /\ \A j \in 1..raft[m].committed : raft'[m].log[j] = raft[m].log[j]
    BY DEF Stable
  <2>1. raft[m].term <= raft'[m].term
    <3>1. raft[m].term \in Nat /\ t \in Nat
      BY <1>1, TermIsNat DEF Shapes
    <3>2. CASE m \in V
      BY <3>1, <3>2 DEF ElectStep
    <3>3. CASE m \notin V
      BY <3>1, <3>3 DEF ElectStep
    <3> QED
      BY <3>2, <3>3
  <2>2. CASE m = n
    <3>1. /\ raft[n].committed \in Nat /\ Len(raft[n].log) \in Nat
          /\ raft[n].committed <= Len(raft[n].log)
          /\ \A j \in 1..Len(raft[n].log) : raft'[n].log[j] = raft[n].log[j]
      BY DEF Shapes, ElectStep, OneMore
    <3> QED
      BY <2>1, <2>2, <3>1 DEF CommitGrows
  <2>3. CASE m # n
    BY <2>1, <2>3 DEF ElectStep, CommitGrows
  <2> QED
    BY <2>2, <2>3
<1>6. CommitMoves(M)
  BY <1>2
<1>7. CommitPart(M)'
  BY <1>3, <1>4, <1>5, <1>6, CommitKept DEF RepInv, LogInv
<1>8. RepInv(M, R)'
  BY <1>3, <1>7 DEF RepInv
<1> QED
  BY <1>5, <1>8

LEMMA SettledLess ==
  ASSUME NEW S, NEW A, NEW L, NEW l, NEW k \in Nat, NEW i \in Nat, i <= k, NEW u,
         Settled(S, A, L, l, k, u)
  PROVE  Settled(S, A, L, l, i, u)
<1>1. PICK t \in Terms, c \in Nat :
        /\ t <= u /\ k <= c /\ Chosen(S, A, L, t, c)
        /\ \A j \in 1..k : l[j] = Src(S, t)[j]
  BY DEF Settled
<1>2. i <= c /\ \A j \in 1..i : j \in 1..k
  BY <1>1
<1> QED
  BY <1>1, <1>2 DEF Settled

LEMMA AcceptRep ==
  ASSUME NEW L, NEW Q, NEW n \in Nodes, NEW t, NEW k, Shapes, Shapes', RepInv(L, Q),
         AcceptStep(n, t, k), CommitGrows, sent' = sent,
         raft[n].committed <= k,
         \/ raft'[n].committed = raft[n].committed
         \/ raft'[n].committed <= k /\ raft'[n].committed <= sent[t].commit,
         \A m \in Nodes : m # n => raft'[m].committed = raft[m].committed
  PROVE  RepInv(L, Q)' /\ Stable /\ KeepsLogs
<1>1. LogInv(L, Q)'
  BY AcceptLogs DEF RepInv
<1>2. /\ t \in Terms /\ t \in Nat /\ k \in Nat /\ k <= Len(sent[t].log)
      /\ Len(sent[t].log) \in Nat /\ Elected(sent, t)
      /\ raft[n].term <= t /\ raft'[n].term = t /\ raft[n].term \in Nat
      /\ raft[n].committed \in Nat /\ raft'[n].committed \in Nat /\ sent[t].commit \in Nat
  BY TermIsNat DEF AcceptStep, Shapes, Elected
<1>3. SentShape(sent) /\ SentShape(sent') /\ Grown(sent, sent')
  BY ShapesSent, GrownShape
<1>4. MoreAcked(sent, acked, acked', L, L)
  <2> SUFFICES ASSUME NEW u \in Terms, NEW m \in Nodes
      PROVE  acked[u][m] \in Nat /\ acked'[u][m] \in Nat /\ acked[u][m] <= acked'[u][m]
    BY DEF MoreAcked
  <2>1. acked[u][m] \in Nat /\ acked'[u][m] \in Nat
    BY DEF Shapes
  <2>2. acked'[u][m] = Max2(acked[u][m], k) \/ acked'[u][m] = acked[u][m]
    BY DEF AcceptStep
  <2>3. Max2(acked[u][m], k) >= acked[u][m]
    BY <1>2, <2>1 DEF Max2
  <2> QED
    BY <2>1, <2>2, <2>3
<1>5. UpTo(sent[t].log, raft'[n].log, k)
  BY AcceptUpTo DEF RepInv, LogInv
<1>6. \A j \in 1..raft[n].committed : raft'[n].log[j] = raft[n].log[j]
  <2>1. Settled(sent, acked, L, raft[n].log, raft[n].committed, raft[n].term)
    BY DEF RepInv, CommitPart
  <2>2. \A j \in 1..raft[n].committed : raft[n].log[j] = sent[t].log[j]
    BY <1>2, <2>1, SettledInTerm DEF RepInv
  <2>3. \A j \in 1..raft[n].committed : j \in 1..k
    BY <1>2
  <2> QED
    BY <1>5, <2>2, <2>3 DEF UpTo
<1>7. Stable
  <2> SUFFICES ASSUME NEW m \in Nodes
      PROVE  /\ raft[m].committed <= raft'[m].committed /\ raft[m].term <= raft'[m].term
             /\ \A j \in 1..raft[m].committed : raft'[m].log[j] = raft[m].log[j]
    BY DEF Stable
  <2>1. CASE m = n
    BY <1>2, <1>6, <2>1 DEF CommitGrows
  <2>2. CASE m # n
    <3>1. raft[m].term \in Nat
      BY TermIsNat DEF Shapes
    <3> QED
      BY <2>2, <3>1 DEF CommitGrows, AcceptStep
  <2> QED
    BY <2>1, <2>2
<1>8. CommitMoves(L)
  <2>1. ASSUME raft'[n].committed <= k, raft'[n].committed <= sent[t].commit
        PROVE  Settled(sent', acked', L, raft'[n].log, raft'[n].committed, raft'[n].term)
    <3>1. Settled(sent, acked, L, sent[t].log, sent[t].commit, t)
      BY <1>2 DEF RepInv, CommitPart
    <3>2. Settled(sent, acked, L, sent[t].log, raft'[n].committed, t)
      BY <1>2, <2>1, <3>1, SettledLess
    <3>3. AgreeTo(sent[t].log, raft'[n].log, raft'[n].committed)
      <4>1. \A j \in 1..raft'[n].committed : j \in 1..k
        BY <1>2, <2>1
      <4> QED
        BY <1>5, <4>1 DEF UpTo, AgreeTo
    <3>4. t <= t
      BY <1>2
    <3>5. Settled(sent', acked', L, raft'[n].log, raft'[n].committed, t)
      BY <1>2, <1>3, <1>4, <3>2, <3>3, <3>4, SettledGrows
    <3> QED
      BY <1>2, <3>5
  <2>2. \A u \in Terms : /\ sent'[u].commit = sent[u].commit
                         /\ sent'[u].snap.index = sent[u].snap.index
                         /\ Elected(sent', u) => Elected(sent, u)
    OBVIOUS
  <2> QED
    BY <2>1, <2>2 DEF CommitMoves
<1>9. CommitPart(L)'
  BY <1>1, <1>3, <1>4, <1>7, <1>8, CommitKept DEF RepInv, LogInv
<1>10. KeepsLogs
  BY DEF KeepsLogs, AcceptStep
<1> QED
  BY <1>1, <1>7, <1>9, <1>10 DEF RepInv

-----------------------------------------------------------------------------
(***************************************************************************)
(* The actions, kind by kind.  DriveView says what drive_ready does to the *)
(* consensus state of the group.                                           *)
(***************************************************************************)
DriveView(n, r, ack) ==
  /\ SameTurn(r, raft'[n])
  /\ \A m \in Nodes : m # n => raft'[m] = raft[m]
  /\ \A t \in Terms :
       sent'[t] = IF r.role = "leader" /\ t = r.term
                  THEN Dispatched(r, disk[n].snap) ELSE sent[t]
  /\ \A t \in Terms, m \in Nodes :
       acked'[t][m] = IF t = r.term /\ m = n THEN Max2(acked[t][m], ack) ELSE acked[t][m]

LEMMA DriveReadyView ==
  ASSUME CoreInv, NEW n \in Nodes, NEW r, GoodRaft(r), NEW ack, DriveReady(n, r, ack)
  PROVE  DriveView(n, r, ack)
<1>1. GoodRaft(Taken(r)) /\ SameTurn(r, Taken(r))
  BY TakenGood
<1>2. cursor[n] \in Nat \ {0} /\ Proceed(n, Taken(r), cursor[n])
  BY DEF CoreInv, DriveReady
<1>3. SameTurn(Taken(r), raft'[n]) /\ TurnStep(n, Taken(r))
  BY <1>1, <1>2, ProceedGood
<1>4. SameTurn(r, raft'[n]) /\ \A m \in Nodes : m # n => raft'[m] = raft[m]
  BY <1>1, <1>3 DEF SameTurn, TurnStep
<1>5. r.term \in Terms
  BY DEF GoodRaft, RaftStates
<1>6. \A t \in Terms :
        sent'[t] = IF r.role = "leader" /\ t = r.term
                   THEN Dispatched(r, disk[n].snap) ELSE sent[t]
  <2>1. CASE r.role = "leader"
    BY <1>5, <2>1 DEF DriveReady, CoreInv
  <2>2. CASE r.role # "leader"
    BY <2>2 DEF DriveReady
  <2> QED
    BY <2>1, <2>2
<1>7. \A t \in Terms, m \in Nodes :
        acked'[t][m] = IF t = r.term /\ m = n THEN Max2(acked[t][m], ack) ELSE acked[t][m]
  BY <1>5 DEF DriveReady, CoreInv
<1> QED
  BY <1>4, <1>6, <1>7 DEF DriveView

\* a turn of node n that leaves its log alone
CalmTurn(n, L) ==
  /\ raft'[n].log = raft[n].log /\ raft[n].term <= raft'[n].term
  /\ raft'[n].role = "leader" => raft[n].role = "leader" /\ raft'[n].term = raft[n].term
  /\ raft[n].committed <= raft'[n].committed
  /\ \/ raft'[n].committed = raft[n].committed
     \/ Settled(sent, acked, L, raft[n].log, raft'[n].committed, raft'[n].term)
  /\ \A m \in Nodes : m # n => raft'[m] = raft[m]
  /\ \A t \in Terms :
       \/ sent'[t] = sent[t]
       \/ /\ raft'[n].role = "leader" /\ t = raft'[n].term
          /\ sent'[t].log = raft'[n].log /\ sent'[t].commit = raft'[n].committed
          /\ sent'[t].snap.index <= raft'[n].committed
  /\ \A t \in Terms, m \in Nodes : acked'[t][m] = acked[t][m]

LEMMA CalmTurnRep ==
  ASSUME NEW L, NEW Q, NEW n \in Nodes, Shapes, Shapes', RepInv(L, Q), CalmTurn(n, L)
  PROVE  RepInv(L, Q)' /\ Stable /\ KeepsLogs
<1>1. \A t \in Terms : sent'[t].log = sent[t].log
  <2> SUFFICES ASSUME NEW t \in Terms, raft'[n].role = "leader", t = raft'[n].term,
                      sent'[t].log = raft'[n].log
      PROVE  sent'[t].log = sent[t].log
    BY DEF CalmTurn
  <2>1. raft[n].role = "leader" /\ t = raft[n].term /\ raft'[n].log = raft[n].log
    BY DEF CalmTurn
  <2> QED
    BY <2>1 DEF RepInv, LogInv, LeaderPart
<1>2. \A m \in Nodes : raft[m].term \in Nat /\ raft[m].committed \in Nat
  BY TermIsNat DEF Shapes
<1>3. CalmStep
  BY <1>1, <1>2 DEF CalmStep, CalmTurn
<1>4. CommitGrows
  BY <1>2 DEF CommitGrows, CalmTurn
<1>5. CommitMoves(L)
  <2>1. ASSUME Settled(sent, acked, L, raft[n].log, raft'[n].committed, raft'[n].term)
        PROVE  Settled(sent', acked', L, raft'[n].log, raft'[n].committed, raft'[n].term)
    <3>1. /\ raft'[n].committed \in Nat /\ raft'[n].term \in Nat
          /\ raft'[n].term <= raft'[n].term
      BY TermIsNat DEF Shapes
    <3>2. AgreeTo(raft[n].log, raft'[n].log, raft'[n].committed)
      BY DEF AgreeTo, CalmTurn
    <3>3. SentShape(sent) /\ SentShape(sent') /\ Grown(sent, sent')
      BY <1>1, ShapesSent, GrownShape
    <3>4. MoreAcked(sent, acked, acked', L, L)
      BY <1>3 DEF MoreAcked, CalmStep, Shapes
    <3> QED
      BY <2>1, <3>1, <3>2, <3>3, <3>4, SettledGrows
  <2>2. \A m \in Nodes :
          \/ raft'[m].committed = raft[m].committed
          \/ Settled(sent', acked', L, raft'[m].log, raft'[m].committed, raft'[m].term)
    BY <2>1 DEF CalmTurn
  <2>3. ASSUME NEW t \in Terms, sent'[t] = sent[t]
        PROVE  /\ sent'[t].commit = sent[t].commit /\ sent'[t].snap.index = sent[t].snap.index
               /\ (Elected(sent', t) => Elected(sent, t))
    BY <2>3 DEF Elected
  <2> QED
    BY <2>2, <2>3 DEF CommitMoves, CalmTurn
<1> QED
  BY <1>3, <1>4, <1>5, CalmRep

LEMMA CalmDrive ==
  ASSUME NEW L, NEW Q, NEW n \in Nodes, CoreInv, Shapes, Shapes', RepInv(L, Q),
         NEW r, GoodRaft(r), r.log = raft[n].log, raft[n].term <= r.term,
         r.role = "leader" => raft[n].role = "leader" /\ r.term = raft[n].term,
         raft[n].committed <= r.committed,
         \/ r.committed = raft[n].committed
         \/ Settled(sent, acked, L, raft[n].log, r.committed, r.term),
         DriveReady(n, r, 0)
  PROVE  RepInv(L, Q)' /\ Stable /\ KeepsLogs
<1>1. DriveView(n, r, 0)
  BY DriveReadyView
<1>2. /\ raft'[n].log = r.log /\ raft'[n].term = r.term /\ raft'[n].role = r.role
      /\ raft'[n].committed = r.committed /\ r.term \in Terms /\ r.committed \in Nat
  BY <1>1 DEF DriveView, SameTurn, GoodRaft, RaftStates
<1>3. disk[n].snap.index <= r.committed
  <2>1. /\ disk[n].snap.index \in Nat /\ raft[n].committed \in Nat
        /\ disk[n].snap.index <= raft[n].committed
    BY DEF CoreInv, GoodDisk, GoodSnap, Shapes
  <2> QED
    BY <1>2, <2>1
<1>4. \A t \in Terms :
        \/ sent'[t] = sent[t]
        \/ /\ raft'[n].role = "leader" /\ t = raft'[n].term
           /\ sent'[t].log = raft'[n].log /\ sent'[t].commit = raft'[n].committed
           /\ sent'[t].snap.index <= raft'[n].committed
  BY <1>1, <1>2, <1>3 DEF DriveView, Dispatched
<1>5. \A t \in Terms, m \in Nodes : acked'[t][m] = acked[t][m]
  <2> SUFFICES ASSUME NEW t \in Terms, NEW m \in Nodes PROVE acked'[t][m] = acked[t][m]
    OBVIOUS
  <2>1. acked[t][m] \in Nat
    BY DEF Shapes
  <2>2. Max2(acked[t][m], 0) = acked[t][m]
    BY <2>1 DEF Max2
  <2> QED
    BY <1>1, <2>2 DEF DriveView
<1>6. CalmTurn(n, L)
  BY <1>1, <1>2, <1>4, <1>5 DEF CalmTurn, DriveView
<1> QED
  BY <1>6, CalmTurnRep

LEMMA UnchangedRep ==
  ASSUME NEW L, NEW Q, NEW n \in Nodes, Shapes, Shapes', RepInv(L, Q), UNCHANGED <<raft, netVars>>
  PROVE  RepInv(L, Q)' /\ Stable /\ KeepsLogs
<1>1. raft[n].term \in Nat /\ raft[n].committed \in Nat
  BY TermIsNat DEF Shapes
<1>2. CalmTurn(n, L)
  BY <1>1 DEF CalmTurn, netVars
<1> QED
  BY <1>2, CalmTurnRep

LEMMA TickRep ==
  ASSUME NEW L, NEW Q, NEW n \in Nodes, Inv, Shapes, Shapes', RepInv(L, Q), Tick(n)
  PROVE  RepInv(L, Q)' /\ Stable /\ KeepsLogs
<1>1. /\ CoreInv /\ GoodRaft(raft[n]) /\ raft[n].committed <= raft[n].committed
      /\ raft[n].term <= raft[n].term
  BY TermIsNat DEF Inv, CoreInv, Shapes
<1>2. DriveReady(n, raft[n], 0)
  BY DEF Tick
<1> QED
  BY <1>1, <1>2, CalmDrive

LEMMA StepHigherTermRep ==
  ASSUME NEW L, NEW Q, NEW n \in Nodes, NEW m \in Nodes, Inv, Shapes, Shapes',
         RepInv(L, Q), StepHigherTerm(n, m)
  PROVE  RepInv(L, Q)' /\ Stable /\ KeepsLogs
<1> DEFINE r == Follow(raft[n], disk[m].term)
<1>1. CoreInv /\ GoodRaft(raft[n]) /\ disk[m].term \in Terms /\ DriveReady(n, r, 0)
  BY DEF Inv, CoreInv, DiskStates, StepHigherTerm
<1>2. raft[n].committed <= raft[n].committed /\ raft[n].term <= disk[m].term
  <2>1. raft[n].term \in Nat /\ disk[m].term \in Nat /\ disk[m].term > raft[n].term
    BY <1>1, TermIsNat DEF Shapes, StepHigherTerm
  <2>2. raft[n].committed \in Nat
    BY DEF Shapes
  <2> QED
    BY <2>1, <2>2
<1>3. /\ GoodRaft(r) /\ r.log = raft[n].log /\ r.term = disk[m].term
      /\ r.role = "follower" /\ r.committed = raft[n].committed
  BY <1>1, FollowGood DEF Follow
<1> HIDE DEF r
<1> QED
  BY <1>1, <1>2, <1>3, CalmDrive

LEMMA StepAppendResponseRep ==
  ASSUME NEW L, NEW Q, NEW n \in Nodes, NEW c \in 1..Len(raft[n].log), Inv, Shapes, Shapes',
         RepInv(L, Q), StepAppendResponse(n, c)
  PROVE  RepInv(L, Q)' /\ Stable /\ KeepsLogs
<1> DEFINE r == raft[n]
           u == r.term
           q == [r EXCEPT !.committed = c]
           W == {m \in Nodes : m = n \/ acked[u][m] >= c}
<1>1. /\ CoreInv /\ GoodRaft(r) /\ Len(r.log) \in Nat /\ u \in Terms /\ u \in Nat
      /\ r.committed \in Nat /\ c \in Nat
  BY TermIsNat DEF Inv, CoreInv, Shapes
<1>2. /\ r.role = "leader" /\ c > r.committed /\ r.log[c].term = u /\ Majority(W)
      /\ DriveReady(n, q, 0)
  BY DEF StepAppendResponse, IsLeader
<1>3. sent[u].log = r.log /\ L[u] = n
  BY <1>2 DEF RepInv, LogInv, LeaderPart
<1>4. u # 1
  <2>1. Elected(sent, u)
    BY <1>1, <1>3 DEF Elected
  <2>2. u > 1
    BY <1>1, <2>1 DEF RepInv, LogInv, TermLogs
  <2> QED
    BY <2>2
<1>5. Chosen(sent, acked, L, u, c)
  <2>1. W \in SUBSET Nodes /\ Holders(acked, L, u, c) \in SUBSET Nodes
    BY DEF Holders
  <2>2. W \subseteq Holders(acked, L, u, c)
    <3>1. \A m \in Nodes : acked[u][m] \in Nat
      BY <1>1 DEF Shapes
    <3> QED
      BY <1>1, <1>3, <3>1 DEF Holders
  <2> HIDE DEF W
  <2>3. Majority(Holders(acked, L, u, c))
    BY <1>2, <2>1, <2>2, MajorityGrows
  <2> QED
    BY <1>2, <1>3, <1>4, <2>3 DEF Chosen
<1>6. Settled(sent, acked, L, r.log, c, u)
  <2>1. Src(sent, u) = r.log /\ u <= u /\ c <= c
    BY <1>1, <1>3, <1>4 DEF Src
  <2> QED
    BY <1>1, <1>5, <2>1 DEF Settled
<1>7. /\ GoodRaft(q) /\ q.committed = c /\ q.log = r.log /\ q.role = r.role /\ q.term = u
      /\ r.committed <= c
  <2>1. r.committed <= c /\ c <= Len(r.log)
    BY <1>1, <1>2
  <2> QED
    BY <1>1, <2>1, CommittedGood
<1>8. u <= u
  BY <1>1
<1> HIDE DEF q
<1> QED
  BY <1>1, <1>2, <1>6, <1>7, <1>8, CalmDrive

\* a step that goes on with a turn or ends it, or restarts the node
LEMMA SameTurnRep ==
  ASSUME NEW L, NEW Q, NEW n \in Nodes, Shapes, Shapes', RepInv(L, Q),
         raft'[n].log = raft[n].log, raft'[n].term = raft[n].term,
         raft'[n].committed = raft[n].committed,
         raft'[n].role = "leader" => raft[n].role = "leader",
         \A m \in Nodes : m # n => raft'[m] = raft[m],
         acked' = acked,
         \/ sent' = sent
         \/ /\ raft'[n].role = "leader"
            /\ \E snap : /\ snap.index <= raft[n].committed
                         /\ sent' = [sent EXCEPT ![raft[n].term] = Dispatched(raft[n], snap)]
  PROVE  RepInv(L, Q)' /\ Stable /\ KeepsLogs
<1>1. raft[n].term \in Nat /\ raft[n].committed \in Nat
  BY TermIsNat DEF Shapes
<1>2. \A t \in Terms :
        \/ sent'[t] = sent[t]
        \/ /\ raft'[n].role = "leader" /\ t = raft'[n].term
           /\ sent'[t].log = raft'[n].log /\ sent'[t].commit = raft'[n].committed
           /\ sent'[t].snap.index <= raft'[n].committed
  <2>1. CASE sent' = sent
    BY <2>1
  <2>2. ASSUME NEW snap, snap.index <= raft[n].committed, raft'[n].role = "leader",
               sent' = [sent EXCEPT ![raft[n].term] = Dispatched(raft[n], snap)]
        PROVE  \A t \in Terms :
                 \/ sent'[t] = sent[t]
                 \/ /\ raft'[n].role = "leader" /\ t = raft'[n].term
                    /\ sent'[t].log = raft'[n].log /\ sent'[t].commit = raft'[n].committed
                    /\ sent'[t].snap.index <= raft'[n].committed
    <3> TAKE t \in Terms
    <3>1. CASE t = raft[n].term
      <4>1. sent'[t] = Dispatched(raft[n], snap) \/ sent'[t] = sent[t]
        BY <2>2, <3>1
      <4> QED
        BY <2>2, <3>1, <4>1 DEF Dispatched
    <3>2. CASE t # raft[n].term
      BY <2>2, <3>2
    <3> QED
      BY <3>1, <3>2
  <2> QED
    BY <2>1, <2>2
<1>3. CalmTurn(n, L)
  BY <1>1, <1>2 DEF CalmTurn
<1> QED
  BY <1>3, CalmTurnRep

LEMMA AdvanceRep ==
  ASSUME NEW L, NEW Q, NEW n \in Nodes, Inv, Shapes, Shapes', RepInv(L, Q), Advance(n)
  PROVE  RepInv(L, Q)' /\ Stable /\ KeepsLogs
<1>1. /\ raft' = [raft EXCEPT ![n] = Ended(raft[n])] /\ sent' = sent /\ acked' = acked
      /\ GoodRaft(raft[n]) /\ raft \in [Nodes -> RaftStates]
  BY DEF Advance, netVars, Inv, CoreInv
<1>2. raft'[n] = Ended(raft[n]) /\ \A m \in Nodes : m # n => raft'[m] = raft[m]
  BY <1>1
<1>3. SameTurn(raft[n], raft'[n])
  BY <1>1, <1>2, EndedGood
<1> QED
  BY <1>1, <1>2, <1>3, SameTurnRep DEF SameTurn

LEMMA RestartRep ==
  ASSUME NEW L, NEW Q, NEW n \in Nodes, Inv, Shapes, Shapes', RepInv(L, Q), Restart(n)
  PROVE  RepInv(L, Q)' /\ Stable /\ KeepsLogs
<1>1. /\ raft' = [raft EXCEPT ![n] = Reopened(disk[n])] /\ sent' = sent /\ acked' = acked
      /\ GoodDisk(disk[n], raft[n]) /\ raft \in [Nodes -> RaftStates]
  BY DEF Restart, netVars, Inv, CoreInv
<1>2. raft'[n] = Reopened(disk[n]) /\ \A m \in Nodes : m # n => raft'[m] = raft[m]
  BY <1>1
<1>3. /\ raft'[n].log = raft[n].log /\ raft'[n].term = raft[n].term
      /\ raft'[n].committed = raft[n].committed /\ raft'[n].role = "follower"
  BY <1>1, <1>2 DEF Reopened, GoodDisk
<1> QED
  BY <1>1, <1>2, <1>3, SameTurnRep

LEMMA ApplyAppendEntryRep ==
  ASSUME NEW L, NEW Q, NEW n \in Nodes, Inv, Shapes, Shapes', RepInv(L, Q),
         ApplyAppendEntry(n)
  PROVE  RepInv(L, Q)' /\ Stable /\ KeepsLogs
<1> DEFINE todo == ToApply(raft[n], cursor[n])
           i == CHOOSE j \in todo : \A k \in todo : j <= k
           c == raft[n].log[i].cmd
           table == [streams[n] EXCEPT ![c.stream] = Applied(@, i, c)]
           snap == TakeSnapshot(SnapshotIndex(raft[n]), table)
<1>1. /\ snap.index = raft[n].applied
      /\ \/ sent' = sent
         \/ /\ IsLeader(n)
            /\ sent' = [sent EXCEPT ![raft[n].term] = Dispatched(raft[n], snap)]
  <2>1. \/ sent' = sent
        \/ /\ IsLeader(n)
           /\ sent' = [sent EXCEPT ![raft[n].term] = Dispatched(raft[n], snap)]
    BY DEF ApplyAppendEntry
  <2>2. snap.index = raft[n].applied
    BY DEF TakeSnapshot, SnapshotIndex
  <2> QED
    BY <2>1, <2>2
<1> HIDE DEF snap, table, c
<1>2. Proceed(n, raft[n], i + 1) /\ acked' = acked /\ todo # {}
  BY DEF ApplyAppendEntry
<1>3. CoreInv /\ GoodRaft(raft[n]) /\ cursor[n] \in Nat \ {0}
  BY DEF Inv, CoreInv
<1>4. i + 1 \in Nat \ {0}
  <2>1. todo \in SUBSET Nat
    BY <1>3 DEF ToApply
  <2> HIDE DEF todo
  <2>2. \E j \in todo : \A k \in todo : j <= k
    BY <1>2, <2>1, LeastNat
  <2>3. i \in todo
    BY <2>2
  <2> HIDE DEF i
  <2> QED
    BY <2>1, <2>3
<1> HIDE DEF i, todo
<1>5. SameTurn(raft[n], raft'[n]) /\ \A m \in Nodes : m # n => raft'[m] = raft[m]
  <2>1. SameTurn(raft[n], raft'[n]) /\ TurnStep(n, raft[n])
    BY <1>2, <1>3, <1>4, ProceedGood
  <2> QED
    BY <2>1 DEF TurnStep
<1>6. snap.index <= raft[n].committed
  BY <1>1, <1>3 DEF GoodRaft, RaftStates
<1> QED
  BY <1>1, <1>2, <1>5, <1>6, SameTurnRep DEF SameTurn, IsLeader

LEMMA WriteProposeRep ==
  ASSUME NEW L, NEW Q, NEW n \in Nodes, NEW w \in Writes, NEW s \in Streams,
         NEW epoch \in Epochs, Inv, Shapes, Shapes', RepInv(L, Q),
         WritePropose(n, w, s, epoch)
  PROVE  /\ RepInv(L, Q)' /\ Stable
         /\ raft'[n].log = Append(raft[n].log,
              [term |-> raft[n].term,
               cmd |-> [rid |-> requestSeq[n] + 1, w |-> w, stream |-> s,
                        epoch |-> epoch, lsn |-> streams[n][s].next]])
         /\ ProposeStep(n) /\ CommitsStay
<1> DEFINE r == raft[n]
           cmd == [rid |-> requestSeq[n] + 1, w |-> w, stream |-> s,
                   epoch |-> epoch, lsn |-> streams[n][s].next]
           e == [term |-> r.term, cmd |-> cmd]
           q == [r EXCEPT !.log = Append(@, e)]
<1>1. /\ CoreInv /\ GoodRaft(r) /\ r.role = "leader" /\ DriveReady(n, q, 0)
      /\ r.term \in Terms /\ r.log \in Seq(Entries) /\ Len(r.log) \in Nat
      /\ r.committed \in Nat
  BY DEF Inv, CoreInv, WritePropose, IsLeader, Shapes
<1>2. e \in Entries /\ e.term = r.term
  <2>1. requestSeq[n] + 1 \in Nat /\ streams[n][s].next \in Nat
    BY DEF Inv, ClientInv, TableInv, SoundStreams, StreamStates
  <2>2. cmd \in Commands
    BY <2>1 DEF Commands
  <2> QED
    BY <1>1, <2>2 DEF Entries
<1> HIDE DEF cmd
<1>3. /\ GoodRaft(q) /\ q.committed = r.committed /\ q.role = r.role /\ q.term = r.term
  <2> HIDE DEF e
  <2> QED
    BY <1>1, <1>2, ProposedGood
<1>4. q.log = Append(r.log, e)
  BY <1>1 DEF GoodRaft, RaftStates
<1>5. OneMore(r.log, q.log, r.term)
  <2> HIDE DEF e
  <2> QED
    BY <1>1, <1>2, <1>4 DEF OneMore
<1> HIDE DEF q
<1>6. DriveView(n, q, 0)
  BY <1>1, <1>3, DriveReadyView
<1>7. /\ raft'[n].log = q.log /\ raft'[n].role = "leader" /\ raft'[n].term = r.term
      /\ raft'[n].committed = r.committed
      /\ \A m \in Nodes : m # n => raft'[m] = raft[m]
      /\ \A t \in Terms :
           sent'[t] = IF t = r.term THEN Dispatched(q, disk[n].snap) ELSE sent[t]
  BY <1>1, <1>3, <1>6 DEF DriveView, SameTurn
<1>8. \A t \in Terms, m \in Nodes : acked'[t][m] = acked[t][m]
  <2> SUFFICES ASSUME NEW t \in Terms, NEW m \in Nodes PROVE acked'[t][m] = acked[t][m]
    OBVIOUS
  <2>1. acked[t][m] \in Nat
    BY DEF Shapes
  <2>2. Max2(acked[t][m], 0) = acked[t][m]
    BY <2>1 DEF Max2
  <2> QED
    BY <1>6, <2>2 DEF DriveView
<1>9. ProposeStep(n)
  BY <1>1, <1>5, <1>7, <1>8 DEF ProposeStep, Dispatched
<1>10. CommitGrows
  BY <1>7 DEF CommitGrows, Shapes
<1>11. disk[n].snap.index <= r.committed
  BY DEF Inv, CoreInv, GoodDisk, GoodSnap
<1>12. CommitMoves(L)
  <2>1. \A m \in Nodes : raft'[m].committed = raft[m].committed
    BY <1>7
  <2>2. ASSUME NEW t \in Terms
        PROVE  \/ sent'[t].commit = sent[t].commit /\ sent'[t].snap.index = sent[t].snap.index
                  /\ (Elected(sent', t) => Elected(sent, t))
               \/ \E m \in Nodes : /\ raft'[m].role = "leader" /\ raft'[m].term = t
                                   /\ sent'[t].commit = raft'[m].committed
                                   /\ sent'[t].snap.index <= raft'[m].committed
    <3>1. CASE t = r.term
      <4>1. sent'[t].commit = q.committed /\ sent'[t].snap = disk[n].snap
        BY <1>7, <3>1 DEF Dispatched
      <4> QED
        BY <1>3, <1>7, <1>11, <3>1, <4>1
    <3>2. CASE t # r.term
      BY <1>7, <3>2 DEF Elected
    <3> QED
      BY <3>1, <3>2
  <2> QED
    BY <2>1, <2>2 DEF CommitMoves
<1>13. RepInv(L, Q)' /\ Stable
  BY <1>9, <1>10, <1>12, ProposeRep
<1>14. CommitsStay
  BY <1>7 DEF CommitsStay
<1> QED
  BY <1>4, <1>7, <1>9, <1>13, <1>14 DEF e, cmd

LEMMA StepAppendRep ==
  ASSUME NEW L, NEW Q, NEW n \in Nodes, NEW t \in Terms, NEW k \in 1..Len(sent[t].log),
         NEW c \in 1..sent[t].commit, Inv, Shapes, Shapes', RepInv(L, Q),
         StepAppend(n, t, k, c)
  PROVE  RepInv(L, Q)' /\ Stable /\ KeepsLogs
<1> DEFINE r == Follow(raft[n], t)
           l == sent[t].log
           a == Appended(r, l, k)
           top == Max2(a.committed, c)
           q == [a EXCEPT !.committed = top]
<1>1. /\ CoreInv /\ GoodRaft(r) /\ r.committed = raft[n].committed /\ r.role = "follower"
      /\ r.term = t /\ r.log = raft[n].log
  BY FollowGood DEF Follow, Inv, CoreInv
<1>2. /\ l \in Seq(Entries) /\ Len(l) \in Nat /\ c \in Nat /\ k \in Nat /\ k <= Len(l)
      /\ sent[t].commit \in Nat /\ r.committed \in Nat /\ raft[n].committed \in Nat
      /\ raft[n].term \in Nat /\ t \in Nat
  BY <1>1, TermIsNat DEF Shapes
<1>3. raft[n].committed <= k /\ c <= k /\ c <= sent[t].commit /\ raft[n].term <= t
  BY <1>1, <1>2 DEF StepAppend, Min2, Hears
<1>4. DriveReady(n, q, k)
  BY DEF StepAppend
<1>5. /\ \/ Agrees(raft[n].log, l, k) /\ a.log = raft[n].log
         \/ ~Agrees(raft[n].log, l, k) /\ a.log = SubSeq(l, 1, k)
  BY <1>1 DEF Appended
<1> HIDE DEF r, l
<1>6. /\ GoodRaft(a) /\ a.committed = r.committed /\ k <= Len(a.log)
      /\ a.role = r.role /\ a.term = r.term
  BY <1>1, <1>2, <1>3, AppendedGood
<1> HIDE DEF a
<1>7. /\ top \in Nat /\ a.committed <= top /\ top <= Len(a.log)
      /\ top = raft[n].committed \/ top = c
  <2>1. a.committed \in Nat /\ Len(a.log) \in Nat
    BY <1>6, LenProperties DEF GoodRaft, RaftStates
  <2> QED
    BY <1>1, <1>2, <1>3, <1>6, <2>1 DEF Max2
<1> HIDE DEF top
<1>8. GoodRaft(q) /\ q.committed = top /\ q.log = a.log /\ q.role = a.role /\ q.term = a.term
  BY <1>6, <1>7, CommittedGood
<1> HIDE DEF q
<1>9. DriveView(n, q, k)
  BY <1>1, <1>4, <1>8, DriveReadyView
<1>10. /\ raft'[n].log = a.log /\ raft'[n].role = "follower" /\ raft'[n].term = t
       /\ raft'[n].committed = top
       /\ \A m \in Nodes : m # n => raft'[m] = raft[m]
       /\ \A u \in Terms, m \in Nodes :
            acked'[u][m] = IF u = t /\ m = n THEN Max2(acked[u][m], k) ELSE acked[u][m]
  BY <1>1, <1>6, <1>8, <1>9 DEF DriveView, SameTurn
<1>11. sent' = sent
  BY <1>1, <1>4, <1>6, <1>8 DEF DriveReady
<1>12. \/ Agrees(raft[n].log, l, k) /\ raft'[n].log = raft[n].log
       \/ /\ ~Agrees(raft[n].log, l, k)
          /\ Len(raft'[n].log) = k /\ UpTo(l, raft'[n].log, k)
  <2>1. Len(SubSeq(l, 1, k)) = k /\ \A j \in 1..k : SubSeq(l, 1, k)[j] = l[j]
    BY <1>2, SubSeqProperties, LogPrefix
  <2> QED
    BY <1>2, <1>5, <1>10, <2>1 DEF UpTo
<1>13. AcceptStep(n, t, k)
  <2>1. /\ \A m \in Nodes : m # n =>
             /\ raft'[m].log = raft[m].log /\ raft'[m].term = raft[m].term
             /\ raft'[m].role = raft[m].role
        /\ \A u \in Terms : sent'[u].log = sent[u].log
        /\ raft'[n].role # "leader"
    BY <1>10, <1>11
  <2>2. k \in 1..Len(sent[t].log) /\ l = sent[t].log
    BY DEF l
  <2> QED
    BY <1>3, <1>10, <1>12, <2>1, <2>2, ZenonT(30) DEF AcceptStep
<1>14. CommitGrows
  BY <1>1, <1>6, <1>7, <1>10 DEF CommitGrows, Shapes
<1>15. \/ raft'[n].committed = raft[n].committed
       \/ raft'[n].committed <= k /\ raft'[n].committed <= sent[t].commit
  BY <1>3, <1>7, <1>10
<1> QED
  BY <1>3, <1>10, <1>11, <1>13, <1>14, <1>15, AcceptRep

\* what the two snapshot steps have in common
LEMMA SnapshotRange ==
  ASSUME NEW L, NEW n \in Nodes, NEW t \in Terms, Inv, Shapes, CommitPart(L), Hears(n, t),
         sent[t].snap.index > raft[n].committed
  PROVE  LET i == sent[t].snap.index IN
         /\ i \in Nat /\ i \in 1..Len(sent[t].log) /\ i <= sent[t].commit
         /\ raft[n].committed <= i /\ raft[n].term <= t
         /\ raft[n].committed \in Nat
<1>1. /\ sent[t].snap.index \in Nat /\ raft[n].committed \in Nat /\ sent[t].commit \in Nat
      /\ Len(sent[t].log) \in Nat /\ sent[t].commit <= Len(sent[t].log)
      /\ raft[n].term \in Nat /\ t \in Nat
  BY TermIsNat DEF Shapes
<1>2. sent[t].snap.index <= sent[t].commit
  BY DEF CommitPart
<1>3. raft[n].term <= t
  BY <1>1 DEF Hears
<1> QED
  BY <1>1, <1>2, <1>3

LEMMA StepSnapshotKnownRep ==
  ASSUME NEW L, NEW Q, NEW n \in Nodes, NEW t \in Terms, Inv, Shapes, Shapes',
         RepInv(L, Q), StepSnapshotKnown(n, t)
  PROVE  RepInv(L, Q)' /\ Stable /\ KeepsLogs
<1> DEFINE r == Follow(raft[n], t)
           i == sent[t].snap.index
           q == [r EXCEPT !.committed = i]
<1>1. /\ CoreInv /\ GoodRaft(r) /\ r.committed = raft[n].committed /\ r.role = "follower"
      /\ r.term = t /\ r.log = raft[n].log
  BY FollowGood DEF Follow, Inv, CoreInv
<1>2. /\ Hears(n, t) /\ i > raft[n].committed /\ Agrees(raft[n].log, sent[t].log, i)
      /\ DriveReady(n, q, i)
  BY <1>1 DEF StepSnapshotKnown
<1>3. /\ i \in Nat /\ i \in 1..Len(sent[t].log) /\ i <= sent[t].commit
      /\ raft[n].committed <= i /\ raft[n].term <= t /\ raft[n].committed \in Nat
  BY <1>2, SnapshotRange DEF RepInv
<1>4. i <= Len(r.log) /\ i <= i
  BY <1>1, <1>2, <1>3 DEF Agrees
<1> HIDE DEF r, i
<1>5. GoodRaft(q) /\ q.committed = i /\ q.log = r.log /\ q.role = r.role /\ q.term = r.term
  BY <1>1, <1>3, <1>4, CommittedGood
<1> HIDE DEF q
<1>6. DriveView(n, q, i)
  BY <1>1, <1>2, <1>5, DriveReadyView
<1>7. /\ raft'[n].log = raft[n].log /\ raft'[n].role = "follower" /\ raft'[n].term = t
      /\ raft'[n].committed = i
      /\ \A m \in Nodes : m # n => raft'[m] = raft[m]
      /\ \A u \in Terms, m \in Nodes :
           acked'[u][m] = IF u = t /\ m = n THEN Max2(acked[u][m], i) ELSE acked[u][m]
  BY <1>1, <1>5, <1>6 DEF DriveView, SameTurn
<1>8. sent' = sent
  BY <1>1, <1>2, <1>5 DEF DriveReady
<1>9. AcceptStep(n, t, i)
  BY <1>2, <1>3, <1>7, <1>8 DEF AcceptStep
<1>10. CommitGrows
  <2>1. \A m \in Nodes : raft[m].committed \in Nat
    BY DEF Shapes
  <2>2. \A m \in Nodes : m # n => raft[m].committed <= raft'[m].committed
    BY <1>7, <2>1
  <2> QED
    BY <1>3, <1>7, <2>2 DEF CommitGrows
<1> QED
  BY <1>3, <1>4, <1>7, <1>8, <1>9, <1>10, AcceptRep

LEMMA StepSnapshotInstallRep ==
  ASSUME NEW L, NEW Q, NEW n \in Nodes, NEW t \in Terms, Inv, Shapes, Shapes',
         RepInv(L, Q), StepSnapshotInstall(n, t)
  PROVE  RepInv(L, Q)' /\ Stable /\ KeepsLogs
<1> DEFINE r == Follow(raft[n], t)
           i == sent[t].snap.index
           l == sent[t].log
           q == Restored(r, l, i)
<1>1. /\ CoreInv /\ GoodRaft(r) /\ r.committed = raft[n].committed /\ r.role = "follower"
      /\ r.term = t /\ r.log = raft[n].log
  BY FollowGood DEF Follow, Inv, CoreInv
<1>2. /\ Hears(n, t) /\ i > raft[n].committed /\ ~Agrees(raft[n].log, l, i)
      /\ Proceed(n, q, i + 1) /\ sent' = sent
      /\ acked' = [acked EXCEPT ![t][n] = Max2(@, i)]
  BY <1>1 DEF StepSnapshotInstall
<1>3. /\ i \in Nat /\ i \in 1..Len(l) /\ i <= sent[t].commit
      /\ raft[n].committed <= i /\ raft[n].term <= t /\ raft[n].committed \in Nat
      /\ l \in Seq(Entries) /\ Len(l) \in Nat
  BY <1>2, SnapshotRange DEF RepInv, Shapes
<1>4. i + 1 \in Nat \ {0} /\ i \in 0..Len(l) /\ i <= i
  BY <1>3
<1>5. q.log = SubSeq(l, 1, i)
  BY DEF Restored
<1> HIDE DEF r
<1>6. GoodRaft(q) /\ q.committed = i /\ q.role = "follower" /\ q.term = t
  <2> HIDE DEF i, l
  <2> QED
    BY <1>1, <1>3, <1>4, RestoredGood
<1>7. Len(q.log) = i /\ UpTo(l, q.log, i)
  <2> HIDE DEF i, l, q
  <2>1. Len(SubSeq(l, 1, i)) = i /\ \A j \in 1..i : SubSeq(l, 1, i)[j] = l[j]
    BY <1>3, <1>4, SubSeqProperties, LogPrefix
  <2> QED
    BY <1>4, <1>5, <2>1 DEF UpTo
<1>8. \A u \in Terms, m \in Nodes :
        acked'[u][m] = IF u = t /\ m = n THEN Max2(acked[u][m], i) ELSE acked[u][m]
  BY <1>1, <1>2 DEF CoreInv
<1> HIDE DEF i, q
<1>9. /\ SameTurn(q, raft'[n]) /\ TurnStep(n, q)
  BY <1>1, <1>2, <1>4, <1>6, ProceedGood
<1>10. /\ raft'[n].log = q.log /\ raft'[n].role = "follower" /\ raft'[n].term = t
       /\ raft'[n].committed = i
       /\ \A m \in Nodes : m # n => raft'[m] = raft[m]
  BY <1>6, <1>9 DEF TurnStep, SameTurn
<1>11. AcceptStep(n, t, i)
  BY <1>2, <1>3, <1>7, <1>8, <1>10 DEF AcceptStep
<1>12. CommitGrows
  <2>1. \A m \in Nodes : raft[m].committed \in Nat
    BY DEF Shapes
  <2>2. \A m \in Nodes : m # n => raft[m].committed <= raft'[m].committed
    BY <1>10, <2>1
  <2> QED
    BY <1>3, <1>10, <2>2 DEF CommitGrows
<1> QED
  BY <1>2, <1>3, <1>4, <1>10, <1>11, <1>12, AcceptRep

LEMMA BecomeLeaderRep ==
  ASSUME NEW L, NEW Q, NEW n \in Nodes, NEW V \in Electorates, NEW t \in Terms, Inv,
         Shapes, Shapes', RepInv(L, Q), BecomeLeader(n, V, t)
  PROVE  /\ \E M, R : RepInv(M, R)' /\ Stable
         /\ raft'[n].log = Append(raft[n].log, [term |-> t, cmd |-> NoCmd])
         /\ ElectStep(n, V, t)
<1> DEFINE Voted(v) == IF v = n THEN Lead(raft[v], t) ELSE Follow(raft[v], t)
<1>1. /\ n \in V /\ V \in SUBSET Nodes /\ Majority(V)
      /\ \A v \in V : raft[v].term < t /\ UpToDate(raft[n].log, raft[v].log)
      /\ raft' = [v \in Nodes |-> IF v \in V THEN Taken(Voted(v)) ELSE raft[v]]
      /\ sent' = [sent EXCEPT ![t] = Dispatched(Voted(n), disk[n].snap)]
      /\ acked' = acked
  BY DEF BecomeLeader, Electorates
<1>2. ASSUME NEW v \in Nodes
      PROVE  /\ GoodRaft(Voted(v)) /\ Voted(v).committed = raft[v].committed
             /\ Voted(v).term = t
             /\ v # n => Voted(v).log = raft[v].log /\ Voted(v).role = "follower"
  BY LeadGood, FollowGood DEF Inv, CoreInv, Lead, Follow
<1>3. /\ Voted(n).role = "leader"
      /\ Voted(n).log = Append(raft[n].log, [term |-> t, cmd |-> NoCmd])
  BY DEF Lead
<1> HIDE DEF Voted
<1>4. ASSUME NEW v \in V
      PROVE  SameTurn(Voted(v), raft'[v])
  <2>1. raft'[v] = Taken(Voted(v)) /\ v \in Nodes
    BY <1>1
  <2> QED
    BY <1>2, <2>1, TakenGood
<1>5. /\ \A v \in V : raft'[v].term = t /\ raft'[v].committed = raft[v].committed
      /\ \A v \in V : v # n => raft'[v].log = raft[v].log /\ raft'[v].role = "follower"
      /\ \A v \in Nodes : v \notin V => raft'[v] = raft[v]
      /\ raft'[n].role = "leader" /\ raft'[n].log = Voted(n).log
      /\ raft'[n].committed = Voted(n).committed
  BY <1>1, <1>2, <1>3, <1>4 DEF SameTurn
<1>6. OneMore(raft[n].log, raft'[n].log, t)
  <2> DEFINE e == [term |-> t, cmd |-> NoCmd]
  <2>1. e \in Entries /\ e.term = t
    BY DEF Entries
  <2>2. raft'[n].log = Append(raft[n].log, e)
    BY <1>3, <1>5
  <2>3. raft[n].log \in Seq(Entries) /\ Len(raft[n].log) \in Nat
    BY DEF Shapes
  <2> HIDE DEF e
  <2> QED
    BY <2>1, <2>2, <2>3 DEF OneMore
<1>7. \A u \in Terms :
        sent'[u] = IF u = t THEN Dispatched(Voted(n), disk[n].snap) ELSE sent[u]
  BY <1>1 DEF Inv, CoreInv
<1>8. ElectStep(n, V, t)
  BY <1>1, <1>5, <1>6, <1>7 DEF ElectStep, Dispatched
<1>9. \A m \in Nodes : raft'[m].committed = raft[m].committed
  BY <1>5
<1>10. CommitGrows
  BY <1>9 DEF CommitGrows, Shapes
<1>11. disk[n].snap.index <= raft[n].committed
  BY DEF Inv, CoreInv, GoodDisk, GoodSnap
<1>12. ASSUME NEW M PROVE CommitMoves(M)
  <2>1. ASSUME NEW u \in Terms
        PROVE  \/ sent'[u].commit = sent[u].commit /\ sent'[u].snap.index = sent[u].snap.index
                  /\ (Elected(sent', u) => Elected(sent, u))
               \/ \E m \in Nodes : /\ raft'[m].role = "leader" /\ raft'[m].term = u
                                   /\ sent'[u].commit = raft'[m].committed
                                   /\ sent'[u].snap.index <= raft'[m].committed
    <3>1. CASE u = t
      <4>1. sent'[u].commit = Voted(n).committed /\ sent'[u].snap = disk[n].snap
        BY <1>7, <3>1 DEF Dispatched
      <4> QED
        BY <1>1, <1>5, <1>9, <1>11, <3>1, <4>1
    <3>2. CASE u # t
      BY <1>7, <3>2 DEF Elected
    <3> QED
      BY <3>1, <3>2
  <2> QED
    BY <1>9, <2>1 DEF CommitMoves
<1>13. \E M, R : RepInv(M, R)' /\ Stable
  BY <1>8, <1>10, <1>12, ElectRep
<1> QED
  BY <1>3, <1>5, <1>8, <1>13

-----------------------------------------------------------------------------
(***************************************************************************)
(* Replicated holds of every reachable state: some assignment of leaders   *)
(* and voters to terms witnesses the invariant.                            *)
(***************************************************************************)
Replicated == \E L, Q : RepInv(L, Q)

LEMMA InitRep == Init => Replicated
<1> SUFFICES ASSUME Init PROVE Replicated
  OBVIOUS
<1>1. 1 \in Terms /\ Nodes # {}
  <2>1. 1 \in Terms
    BY GroupAssumption DEF Terms
  <2>2. Nodes # {}
    BY GroupAssumption, FS_EmptySet
  <2> QED
    BY <2>1, <2>2
<1>2. PICK a : a \in Nodes
  BY <1>1
<1> DEFINE L == [t \in Terms |-> a]
           Q == [t \in Terms |-> {}]
           b == <<Bootstrap>>
<1>3. Witnesses(L, Q)
  BY <1>2 DEF Witnesses
<1> HIDE DEF L, Q
<1>4. Len(b) = 1 /\ b[1] = Bootstrap /\ Bootstrap.term = 1
  BY DEF Bootstrap
<1>5. \A S : Src(S, 1) = b
  BY DEF Src
<1> HIDE DEF b
<1>6. ASSUME NEW n \in Nodes
      PROVE  /\ raft[n].role = "follower" /\ raft[n].term = 1 /\ raft[n].log = b
             /\ raft[n].committed = 1
  BY DEF Init, NewRaft, b
<1>7. ASSUME NEW t \in Terms
      PROVE  /\ Len(sent[t].log) = 0 /\ sent[t].commit = 0 /\ sent[t].snap.index = 0
             /\ ~Elected(sent, t) /\ \A m \in Nodes : acked[t][m] = 0
  BY DEF Init, NoSnapshot, Elected
<1>8. LeaderPart(L)
  BY <1>6 DEF LeaderPart
<1>9. NodeLogs
  <2>1. Matches(sent, b, 1)
    BY <1>4, <1>5 DEF Matches
  <2> QED
    BY <1>4, <1>6, <2>1 DEF NodeLogs
<1>10. TermLogs(sent)
  BY <1>7 DEF TermLogs, Matches
<1>11. AckPart
  BY <1>7 DEF AckPart
<1>12. ElectPart(L, Q) /\ SafePart(L, Q)
  BY <1>7 DEF ElectPart, SafePart
<1>13. KeptPart(L)
  BY <1>7 DEF KeptPart, Acc
<1>14. CommitPart(L)
  <2>1. Settled(sent, acked, L, b, 1, 1)
    BY <1>1, <1>5 DEF Settled, Chosen
  <2> QED
    BY <1>6, <1>7, <2>1 DEF CommitPart
<1> QED
  BY <1>3, <1>8, <1>9, <1>10, <1>11, <1>12, <1>13, <1>14 DEF RepInv, LogInv, Replicated

\* Every step keeps the invariant and what was committed.
LEMMA NextRep ==
  ASSUME Inv, Inv', Replicated, [Next]_vars
  PROVE  Replicated' /\ Stable
<1>1. Shapes /\ Shapes'
  BY CoreShapes, PTL DEF Inv
<1>2. PICK L, Q : RepInv(L, Q)
  BY DEF Replicated
<1>3. SUFFICES (\E M, R : RepInv(M, R)') /\ Stable
  BY DEF Replicated
<1>4. CASE Next
  <2>1. PICK n \in Nodes :
          \/ Request(n) \/ Receive(n) \/ Engine(n) \/ Restart(n)
          \/ \E V \in Electorates, t \in Terms : BecomeLeader(n, V, t)
    BY <1>4 DEF Next
  <2>2. ASSUME UNCHANGED <<raft, netVars>> PROVE RepInv(L, Q)' /\ Stable
    BY <1>1, <1>2, <2>2, UnchangedRep
  <2>3. CASE Request(n)
    <3>1. ASSUME NEW w \in Writes, WriteNotLeader(n, w) PROVE UNCHANGED <<raft, netVars>>
      BY <3>1 DEF WriteNotLeader
    <3>2. ASSUME NEW w \in Writes, NEW s \in Streams, NEW e \in Epochs,
                 WriteFenced(n, w, s, e)
          PROVE  UNCHANGED <<raft, netVars>>
      BY <3>2 DEF WriteFenced
    <3>3. ASSUME NEW s \in Streams, NEW o \in ConsumerOffsets, Consume(n, s, o)
          PROVE  UNCHANGED <<raft, netVars>>
      BY <3>3 DEF Consume
    <3>4. ASSUME NEW w \in Writes, NEW s \in Streams, NEW e \in Epochs,
                 WritePropose(n, w, s, e)
          PROVE  RepInv(L, Q)' /\ Stable
      BY <1>1, <1>2, <3>4, WriteProposeRep
    <3> QED
      BY <2>2, <2>3, <3>1, <3>2, <3>3, <3>4 DEF Request
  <2>4. CASE Receive(n)
    <3>1. ASSUME NEW m \in Nodes, StepHigherTerm(n, m) PROVE RepInv(L, Q)' /\ Stable
      BY <1>1, <1>2, <3>1, StepHigherTermRep
    <3>2. ASSUME NEW t \in Terms, NEW k \in 1..Len(sent[t].log),
                 NEW c \in 1..sent[t].commit, StepAppend(n, t, k, c)
          PROVE  RepInv(L, Q)' /\ Stable
      BY <1>1, <1>2, <3>2, StepAppendRep
    <3>3. ASSUME NEW t \in Terms, StepSnapshotKnown(n, t) PROVE RepInv(L, Q)' /\ Stable
      BY <1>1, <1>2, <3>3, StepSnapshotKnownRep
    <3>4. ASSUME NEW t \in Terms, StepSnapshotInstall(n, t) PROVE RepInv(L, Q)' /\ Stable
      BY <1>1, <1>2, <3>4, StepSnapshotInstallRep
    <3>5. ASSUME NEW c \in 1..Len(raft[n].log), StepAppendResponse(n, c)
          PROVE  RepInv(L, Q)' /\ Stable
      BY <1>1, <1>2, <3>5, StepAppendResponseRep
    <3> QED
      BY <2>4, <3>1, <3>2, <3>3, <3>4, <3>5 DEF Receive
  <2>5. CASE Engine(n)
    <3>1. CASE ReplayRecord(n) \/ OpenDone(n) \/ RunGc(n)
      BY <2>2, <3>1 DEF ReplayRecord, OpenDone, RunGc
    <3>2. CASE Tick(n) \/ ApplyAppendEntry(n) \/ Advance(n)
      BY <1>1, <1>2, <3>2, TickRep, ApplyAppendEntryRep, AdvanceRep
    <3> QED
      BY <2>5, <3>1, <3>2 DEF Engine
  <2>6. CASE Restart(n)
    BY <1>1, <1>2, <2>6, RestartRep
  <2>7. CASE \E V \in Electorates, t \in Terms : BecomeLeader(n, V, t)
    BY <1>1, <1>2, <2>7, BecomeLeaderRep
  <2> QED
    BY <2>1, <2>3, <2>4, <2>5, <2>6, <2>7
<1>5. CASE UNCHANGED vars
  <2>1. PICK n : n \in Nodes
    <3>1. Nodes # {}
      BY GroupAssumption, FS_EmptySet
    <3> QED
      BY <3>1
  <2> QED
    BY <1>1, <1>2, <1>5, <2>1, UnchangedRep DEF vars, netVars
<1> QED
  BY <1>4, <1>5

\* The replication invariant holds of the group.
THEOREM ReplicationHolds == Spec => [](Inv /\ Replicated)
<1>1. Init => Inv /\ Replicated
  BY InitInv, InitRep
<1>2. Inv /\ Replicated /\ [Next]_vars => (Inv /\ Replicated)'
  BY NextInv, NextRep
<1> QED
  BY <1>1, <1>2, PTL DEF Spec

\* The committed prefixes of two nodes' logs agree.
CommittedAgree ==
  \A n, m \in Nodes : \A j \in 1..raft[n].committed :
    j <= raft[m].committed => raft[n].log[j] = raft[m].log[j]

LEMMA ReplicatedAgree == Inv /\ Replicated => CommittedAgree
<1> SUFFICES ASSUME Inv, Replicated, NEW n \in Nodes, NEW m \in Nodes
    PROVE  \A j \in 1..raft[n].committed :
             j <= raft[m].committed => raft[n].log[j] = raft[m].log[j]
  BY DEF CommittedAgree
<1>1. PICK L, Q : RepInv(L, Q)
  BY DEF Replicated
<1>2. Shapes
  BY CoreShapes DEF Inv
<1>3. /\ Settled(sent, acked, L, raft[n].log, raft[n].committed, raft[n].term)
      /\ Settled(sent, acked, L, raft[m].log, raft[m].committed, raft[m].term)
      /\ raft[n].committed \in Nat /\ raft[m].committed \in Nat /\ LogInv(L, Q)
  BY <1>1, <1>2 DEF RepInv, CommitPart, Shapes
<1> QED
  BY <1>2, <1>3, SettledAgree

\* Any two nodes hold the same entries up to the lower of their commit indexes,
\* whatever was lost, repeated or reordered and whoever led.
THEOREM CommittedLogsAgree == Spec => []CommittedAgree
  BY ReplicationHolds, ReplicatedAgree, PTL

\* A node never loses, changes or takes back an entry it has committed, and its
\* term never goes back: not by an append of a later leader, a snapshot it
\* installs, an election or a crash.
THEOREM CommittedNeverChanges == Spec => [][Stable]_vars
<1>1. Inv /\ Inv' /\ Replicated /\ [Next]_vars => Stable
  BY NextRep
<1> QED
  BY <1>1, ReplicationHolds, InvHolds, PTL DEF Spec
=============================================================================
