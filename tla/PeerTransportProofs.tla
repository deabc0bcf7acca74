------------------------ MODULE PeerTransportProofs ------------------------
(***************************************************************************)
(* Theorems about PeerTransport, for any nodes and groups, any capacities, *)
(* batches and bursts, and any number of messages, connections and stops.  *)
(***************************************************************************)
EXTENDS PeerTransport, SequenceTheorems, TLAPS

-----------------------------------------------------------------------------
(***************************************************************************)
(* Types.  What is read from the head of a batch, a flow or toSend is      *)
(* there: an engine at "dispatch" has something to dispatch, a sender that *)
(* is not idle has a batch and, at "write", a connection, and a task never *)
(* counts more whole frames than its connection has brought.               *)
(***************************************************************************)
Dispatching == \A s \in Shards : engine[s] = "dispatch" <=> toSend[s] # <<>>

Sending ==
  \A l \in Links : /\ sender[l].pc = "idle" <=> sender[l].batch = <<>>
                   /\ sender[l].pc = "write" \/ sender[l].linked => conns[l] # <<>>

Reading ==
  \A l \in Links : \A k \in 1..Len(conns[l]) : conns[l][k].read <= Len(conns[l][k].flow)

TypeInv == TypeOK /\ Dispatching /\ Sending /\ Reading

LEMMA ShardFacts ==
  \A s \in Shards : /\ s = <<s[1], s[2]>> /\ s[1] \in Nodes /\ s[2] \in Groups[s[1]]
                    /\ Limit(s) \in Nat /\ Burst[s[1]][s[2]] \in Nat
  BY TransportAssumption DEF Shards, Limit

LEMMA LinkFacts ==
  \A l \in Links : l = <<l[1], l[2]>> /\ l[1] \in Nodes /\ l[2] \in Nodes /\ l[1] # l[2]
  BY DEF Links

LEMMA TypeInit == Init => TypeInv
<1> SUFFICES ASSUME Init PROVE TypeInv
  OBVIOUS
<1>1. \A S : \A n \in Nat : <<>> \in {q \in Seq(S) : Len(q) <= n}
  OBVIOUS
<1>2. TypeOK
  BY <1>1, TransportAssumption DEF Init, TypeOK
<1> QED
  BY <1>2 DEF Init, TypeInv, Dispatching, Sending, Reading

(***************************************************************************)
(* Queues, when something is taken or put.                                 *)
(***************************************************************************)
LEMMA TailFacts ==
  ASSUME NEW S, NEW q \in Seq(S), q # <<>>
  PROVE  /\ Head(q) \in S /\ Tail(q) \in Seq(S) /\ Len(Tail(q)) = Len(q) - 1
         /\ Len(q) \in Nat \ {0} /\ Head(q) = q[1]
         /\ \A i \in 1..(Len(q) - 1) : Tail(q)[i] = q[i + 1]
         /\ Tail(q) = <<>> <=> Len(q) = 1
<1>1. Len(q) \in Nat \ {0}
  BY EmptySeq
<1>2. /\ Tail(q) \in Seq(S) /\ Len(Tail(q)) = Len(q) - 1
      /\ \A i \in 1..(Len(q) - 1) : Tail(q)[i] = q[i + 1]
  BY <1>1, HeadTailProperties
<1>3. Head(q) = q[1] /\ Head(q) \in S
  BY <1>1
<1>4. Tail(q) = <<>> <=> Len(q) = 1
  BY <1>1, <1>2, EmptySeq
<1> QED
  BY <1>1, <1>2, <1>3, <1>4

LEMMA AppendFacts ==
  ASSUME NEW S, NEW q \in Seq(S), NEW x \in S
  PROVE  /\ Append(q, x) \in Seq(S) /\ Len(Append(q, x)) = Len(q) + 1
         /\ Append(q, x) # <<>> /\ Append(q, x)[Len(q) + 1] = x
         /\ \A i \in 1..Len(q) : Append(q, x)[i] = q[i]
  OBVIOUS

LEMMA SubSeqFacts ==
  ASSUME NEW S, NEW q \in Seq(S), NEW k \in 0..Len(q)
  PROVE  /\ SubSeq(q, 1, k) \in Seq(S) /\ Len(SubSeq(q, 1, k)) = k
         /\ \A i \in 1..k : SubSeq(q, 1, k)[i] = q[i]
         /\ SubSeq(q, k + 1, Len(q)) \in Seq(S)
         /\ Len(SubSeq(q, k + 1, Len(q))) = Len(q) - k
         /\ \A i \in 1..(Len(q) - k) : SubSeq(q, k + 1, Len(q))[i] = q[k + i]
  OBVIOUS

(***************************************************************************)
(* A connection, and what the actions make of it.                          *)
(***************************************************************************)
LEMMA ConnFields ==
  ASSUME NEW c \in Conns
  PROVE  /\ c.flow \in Seq(Messages) /\ c.read \in Nat /\ c.up \in BOOLEAN
         /\ c.signal \in SUBSET Shards
  BY DEF Conns

LEMMA MakeConn ==
  ASSUME NEW f \in Seq(Messages), NEW r \in Nat, NEW u \in BOOLEAN, NEW g \in SUBSET Shards,
         r <= Len(f)
  PROVE  /\ Conn(f, r, u, g) \in Conns
         /\ Conn(f, r, u, g).read <= Len(Conn(f, r, u, g).flow)
<1>1. Conn(f, r, u, g).read = r /\ Conn(f, r, u, g).flow = f
  BY DEF Conn
<1>2. Conn(f, r, u, g) \in Conns
  BY DEF Conns, Conn
<1> QED
  BY <1>1, <1>2

LEMMA ConnParts ==
  ASSUME NEW f, NEW r, NEW u, NEW g
  PROVE  /\ Conn(f, r, u, g).flow = f /\ Conn(f, r, u, g).read = r
         /\ Conn(f, r, u, g).up = u /\ Conn(f, r, u, g).signal = g
  BY DEF Conn

-----------------------------------------------------------------------------
(***************************************************************************)
(* One lemma for each group of actions that touch the same variables.      *)
(***************************************************************************)
LEMMA EngineTypes ==
  ASSUME TypeInv, NEW s \in Shards, Loop(s) \/ Stop(s)
  PROVE  TypeInv'
<1>1. CASE Wake(s) \/ Stop(s)
  BY <1>1 DEF TypeInv, TypeOK, Dispatching, Sending, Reading, Wake, Stop
<1>2. CASE Step(s)
  <2>1. inbound[s] \in Seq(Messages) /\ inbound[s] # <<>> /\ Len(inbound[s]) <= RaftCapacity
    BY <1>2 DEF Step, TypeInv, TypeOK
  <2>2. /\ Tail(inbound[s]) \in {q \in Seq(Messages) : Len(q) <= RaftCapacity}
        /\ Append(stepped[s], Head(inbound[s])) \in Seq(Messages)
    <3>1. /\ Tail(inbound[s]) \in Seq(Messages) /\ Head(inbound[s]) \in Messages
          /\ Len(Tail(inbound[s])) = Len(inbound[s]) - 1
      BY <2>1, TailFacts
    <3>2. stepped[s] \in Seq(Messages)
      BY DEF TypeInv, TypeOK
    <3> QED
      BY <2>1, <3>1, <3>2, TransportAssumption
  <2>3. TypeOK'
    BY <1>2, <2>2 DEF Step, TypeInv, TypeOK, engineVars
  <2> QED
    BY <1>2, <2>3 DEF Step, TypeInv, Dispatching, Sending, Reading, engineVars
<1>3. CASE Dispatch(s)
  <2>1. toSend[s] \in Seq(Messages) /\ toSend[s] # <<>>
    BY <1>3 DEF Dispatch, TypeInv, TypeOK, Dispatching
  <2>2. /\ Tail(toSend[s]) \in Seq(Messages) /\ Head(toSend[s]) \in Messages
        /\ Tail(toSend[s]) = <<>> <=> Len(toSend[s]) = 1
    BY <2>1, TailFacts
  <2>3. Append(outbound[s], Head(toSend[s])) \in {q \in Seq(Messages) : Len(q) <= RaftCapacity}
    <3>1. outbound[s] \in Seq(Messages) /\ Len(outbound[s]) < RaftCapacity
      BY <1>3 DEF Dispatch, TypeInv, TypeOK
    <3> QED
      BY <2>2, <3>1, TransportAssumption
  <2>4. TypeOK'
    BY <1>3, <2>2, <2>3 DEF Dispatch, TypeInv, TypeOK
  <2>5. Dispatching'
    BY <1>3, <2>2 DEF Dispatch, TypeInv, TypeOK, Dispatching
  <2> QED
    BY <1>3, <2>4, <2>5 DEF Dispatch, TypeInv, Sending, Reading
<1>4. ASSUME NEW targets \in Targets(s), Ready(s, targets)
      PROVE  TypeInv'
  <2>1. /\ targets \in Seq(Nodes) /\ Len(targets) \in Nat
        /\ \A i \in 1..Len(targets) : targets[i] \in Nodes
        /\ targets = <<>> <=> Len(targets) = 0
    <3>1. CASE targets = <<>>
      BY <3>1
    <3>2. CASE targets # <<>>
      <4>1. PICK b \in Nat : targets \in [1..b -> Nodes \ {s[1]}]
        BY <1>4, <3>2, ShardFacts DEF Targets
      <4>2. targets \in Seq(Nodes) /\ Len(targets) = b
        BY <4>1
      <4> QED
        BY <3>2, <4>2, EmptySeq
    <3> QED
      BY <3>1, <3>2
  <2> DEFINE new == [i \in 1..Len(targets) |->
                       [from |-> s, to |-> targets[i], id |-> made[s] + i]]
  <2>2. made[s] \in Nat
    BY DEF TypeInv, TypeOK
  <2>3. new \in Seq(Messages) /\ Len(new) = Len(targets) /\ (new = <<>> <=> targets = <<>>)
    BY <2>1, <2>2 DEF Messages
  <2>4. /\ made' = [made EXCEPT ![s] = @ + Len(targets)]
        /\ toSend' = [toSend EXCEPT ![s] = new]
        /\ engine' = [engine EXCEPT ![s] = IF targets = <<>> THEN "wait" ELSE "dispatch"]
        /\ UNCHANGED <<inbound, outbound, eventfd, hand, queue, sender, conns, stepped>>
    BY <1>4 DEF Ready
  <2> HIDE DEF new
  <2>5. TypeOK'
    BY <2>1, <2>2, <2>3, <2>4 DEF TypeInv, TypeOK
  <2>6. Dispatching'
    BY <2>3, <2>4 DEF TypeInv, TypeOK, Dispatching
  <2> QED
    BY <2>4, <2>5, <2>6 DEF TypeInv, Sending, Reading
<1> QED
  BY <1>1, <1>2, <1>3, <1>4 DEF Loop

LEMMA RunLoopTypes ==
  ASSUME TypeInv, NEW n \in Nodes, RunLoop(n)
  PROVE  TypeInv'
<1>1. CASE PlaceHeld(n)
  <2> DEFINE m == hand[n][1]
             l == LinkOf(m)
  <2>1. m \in Messages
    <3>1. hand[n] \in Seq(Messages) /\ hand[n] # <<>>
      BY <1>1 DEF PlaceHeld, TypeInv, TypeOK
    <3> QED
      BY <3>1, TailFacts
  <2>2. l \in Links => Append(queue[l], m) \in {q \in Seq(Messages) : Len(q) <= PeerCapacity}
    <3>1. l \in Links => queue[l] \in Seq(Messages) /\ Len(queue[l]) < PeerCapacity
      BY <1>1 DEF PlaceHeld, HasRoom, TypeInv, TypeOK
    <3> QED
      BY <2>1, <3>1, TransportAssumption
  <2>3. <<>> \in {q \in Seq(Messages) : Len(q) <= 1}
    OBVIOUS
  <2>4. /\ queue' = [queue EXCEPT ![l] = Append(@, m)]
        /\ hand' = [hand EXCEPT ![n] = <<>>]
        /\ UNCHANGED <<engine, toSend, made, inbound, outbound, eventfd, sender, conns, stepped>>
    BY <1>1 DEF PlaceHeld, engineVars
  <2> HIDE DEF m, l
  <2>5. TypeOK'
    BY <2>2, <2>3, <2>4 DEF TypeInv, TypeOK
  <2> QED
    BY <2>4, <2>5 DEF TypeInv, Dispatching, Sending, Reading
<1>2. ASSUME NEW s \in Shards, TakeOutbound(s)
      PROVE  TypeInv'
  <2> DEFINE m == Head(outbound[s])
             l == LinkOf(m)
  <2>1. outbound[s] \in Seq(Messages) /\ outbound[s] # <<>> /\ Len(outbound[s]) <= RaftCapacity
    BY <1>2 DEF TakeOutbound, TypeInv, TypeOK
  <2>2. /\ m \in Messages /\ Tail(outbound[s]) \in Seq(Messages)
        /\ Len(Tail(outbound[s])) = Len(outbound[s]) - 1
    BY <2>1, TailFacts
  <2>3. Tail(outbound[s]) \in {q \in Seq(Messages) : Len(q) <= RaftCapacity}
    BY <2>1, <2>2, TransportAssumption
  <2>4. /\ outbound' = [outbound EXCEPT ![s] = Tail(@)]
        /\ IF HasRoom(m) THEN queue' = [queue EXCEPT ![l] = Append(@, m)] /\ hand' = hand
           ELSE hand' = [hand EXCEPT ![s[1]] = <<m>>] /\ queue' = queue
        /\ UNCHANGED <<engine, toSend, made, inbound, eventfd, sender, conns, stepped>>
    BY <1>2 DEF TakeOutbound, engineVars
  <2>5. l \in Links /\ HasRoom(m) =>
          Append(queue[l], m) \in {q \in Seq(Messages) : Len(q) <= PeerCapacity}
    <3>1. l \in Links /\ HasRoom(m) => queue[l] \in Seq(Messages) /\ Len(queue[l]) < PeerCapacity
      BY DEF HasRoom, TypeInv, TypeOK
    <3> QED
      BY <2>2, <3>1, TransportAssumption
  <2>6. <<m>> \in {q \in Seq(Messages) : Len(q) <= 1}
    BY <2>2
  <2> HIDE DEF m, l
  <2>7. /\ hand' \in [Nodes -> {q \in Seq(Messages) : Len(q) <= 1}]
        /\ queue' \in [Links -> {q \in Seq(Messages) : Len(q) <= PeerCapacity}]
        /\ outbound' \in [Shards -> {q \in Seq(Messages) : Len(q) <= RaftCapacity}]
    BY <2>3, <2>4, <2>5, <2>6 DEF TypeInv, TypeOK
  <2>8. TypeOK'
    BY <2>4, <2>7 DEF TypeInv, TypeOK
  <2> QED
    BY <2>4, <2>8 DEF TypeInv, Dispatching, Sending, Reading
<1> QED
  BY <1>1, <1>2 DEF RunLoop

LEMMA SenderTypes ==
  ASSUME TypeInv, NEW l \in Links, Sender(l)
  PROVE  TypeInv'
<1> DEFINE Batches == {q \in Seq(Messages) : Len(q) <= BatchMax}
           Senders == [pc : {"idle", "connect", "write"}, linked : BOOLEAN, batch : Batches]
<1>1. /\ sender[l] \in Senders /\ sender[l].batch \in Seq(Messages)
      /\ queue[l] \in Seq(Messages) /\ Len(queue[l]) <= PeerCapacity
      /\ conns[l] \in Seq(Conns) /\ Len(conns[l]) \in Nat
  BY DEF TypeInv, TypeOK
<1>2. <<>> \in Batches /\ \A b \in BOOLEAN : Idle(b) \in Senders /\ Idle(b).batch = <<>>
                          /\ Idle(b).pc = "idle"
  <2>1. <<>> \in Batches
    BY TransportAssumption
  <2> QED
    BY <2>1 DEF Idle
<1>3. \A b \in BOOLEAN : NewConn(b) \in Conns /\ NewConn(b).read = 0 /\ NewConn(b).flow = <<>>
  <2>1. <<>> \in Seq(Messages) /\ {} \in SUBSET Shards /\ 0 \in Nat /\ 0 <= Len(<<>>)
    OBVIOUS
  <2>2. \A b \in BOOLEAN : NewConn(b) \in Conns
    BY <2>1, MakeConn DEF NewConn
  <2>3. \A b \in BOOLEAN : NewConn(b).read = 0 /\ NewConn(b).flow = <<>>
    BY ConnParts DEF NewConn
  <2> QED
    BY <2>2, <2>3
<1>4. CASE TakeBatch(l)
  <2> DEFINE k == Min2(BatchMax, Len(queue[l]))
  <2>1. queue[l] # <<>> /\ sender[l].pc = "idle"
    BY <1>4 DEF TakeBatch
  <2>2. k \in 1..Len(queue[l]) /\ k <= BatchMax
    BY <1>1, <2>1, TransportAssumption, EmptySeq DEF Min2
  <2>3. /\ SubSeq(queue[l], 1, k) \in Batches /\ SubSeq(queue[l], 1, k) # <<>>
        /\ SubSeq(queue[l], k + 1, Len(queue[l])) \in {q \in Seq(Messages) : Len(q) <= PeerCapacity}
    <3> HIDE DEF k
    <3>1. k \in 0..Len(queue[l])
      BY <2>2
    <3>2. /\ SubSeq(queue[l], 1, k) \in Seq(Messages) /\ Len(SubSeq(queue[l], 1, k)) = k
          /\ SubSeq(queue[l], k + 1, Len(queue[l])) \in Seq(Messages)
          /\ Len(SubSeq(queue[l], k + 1, Len(queue[l]))) = Len(queue[l]) - k
      BY <1>1, <3>1, SubSeqFacts
    <3>3. SubSeq(queue[l], 1, k) # <<>>
      BY <2>2, <3>2
    <3>4. Len(queue[l]) - k <= PeerCapacity
      BY <1>1, <2>2, TransportAssumption
    <3> QED
      BY <2>2, <3>2, <3>3, <3>4
  <2>4. /\ queue' = [queue EXCEPT ![l] = SubSeq(queue[l], k + 1, Len(queue[l]))]
        /\ sender' = [sender EXCEPT ![l] =
             [pc |-> IF sender[l].linked THEN "write" ELSE "connect",
              batch |-> SubSeq(queue[l], 1, k), linked |-> sender[l].linked]]
        /\ UNCHANGED <<engine, toSend, made, inbound, outbound, eventfd, hand, conns, stepped>>
    BY <1>4 DEF TakeBatch, engineVars, TypeInv, TypeOK
  <2> HIDE DEF k
  <2>5. sender' \in [Links -> Senders]
    BY <1>1, <2>3, <2>4 DEF TypeInv, TypeOK
  <2>6. queue' \in [Links -> {q \in Seq(Messages) : Len(q) <= PeerCapacity}]
    BY <2>3, <2>4 DEF TypeInv, TypeOK
  <2>7. TypeOK'
    BY <2>4, <2>5, <2>6 DEF TypeInv, TypeOK
  <2>8. Sending'
    BY <2>3, <2>4 DEF TypeInv, TypeOK, Sending
  <2> QED
    BY <2>4, <2>7, <2>8 DEF TypeInv, Dispatching, Reading
<1>5. ASSUME NEW c \in {NewConn(TRUE), NewConn(FALSE)},
             NEW r \in Senders,
             conns' = [conns EXCEPT ![l] = Append(@, c)],
             sender' = [sender EXCEPT ![l] = r],
             r.pc = "idle" <=> r.batch = <<>>,
             UNCHANGED <<engineVars, inbound, outbound, eventfd, hand, queue, stepped>>
      PROVE  TypeInv'
  <2>1. /\ Append(conns[l], c) \in Seq(Conns) /\ Append(conns[l], c) # <<>>
        /\ Len(Append(conns[l], c)) = Len(conns[l]) + 1
        /\ Append(conns[l], c)[Len(conns[l]) + 1] = c
        /\ \A k \in 1..Len(conns[l]) : Append(conns[l], c)[k] = conns[l][k]
    <3>1. c \in Conns
      BY <1>3
    <3> QED
      BY <1>1, <3>1, AppendFacts
  <2>2. TypeOK'
    BY <1>5, <2>1 DEF TypeInv, TypeOK, engineVars
  <2>3. Sending'
    BY <1>5, <2>1 DEF TypeInv, TypeOK, Sending
  <2>4. Reading'
    <3> SUFFICES ASSUME NEW m \in Links, NEW k \in 1..Len(conns'[m])
                 PROVE  conns'[m][k].read <= Len(conns'[m][k].flow)
      BY DEF Reading
    <3>1. CASE m # l
      BY <1>5, <3>1 DEF TypeInv, TypeOK, Reading
    <3>2. CASE m = l
      <4>1. conns'[m] = Append(conns[l], c)
        BY <1>5, <3>2 DEF TypeInv, TypeOK
      <4>2. CASE k = Len(conns[l]) + 1
        <5>1. c.read = 0 /\ c.flow = <<>>
          BY <1>3
        <5> QED
          BY <2>1, <4>1, <4>2, <5>1
      <4>3. CASE k # Len(conns[l]) + 1
        <5>1. k \in 1..Len(conns[l])
          BY <1>1, <2>1, <4>1, <4>3
        <5> QED
          BY <2>1, <4>1, <5>1 DEF TypeInv, Reading
      <4> QED
        BY <4>2, <4>3
    <3> QED
      BY <3>1, <3>2
  <2> QED
    BY <1>5, <2>2, <2>3, <2>4 DEF TypeInv, Dispatching, engineVars
<1>6. CASE Connect(l)
  <2> DEFINE r == [pc |-> "write", batch |-> sender[l].batch, linked |-> TRUE]
  <2>1. r \in Senders /\ (r.pc = "idle" <=> r.batch = <<>>)
    BY <1>1, <1>6 DEF Connect, TypeInv, Sending
  <2>2. conns' = [conns EXCEPT ![l] = Append(@, NewConn(TRUE))]
        /\ sender' = [sender EXCEPT ![l] = r]
        /\ UNCHANGED <<engineVars, inbound, outbound, eventfd, hand, queue, stepped>>
    BY <1>6 DEF Connect, TypeInv, TypeOK
  <2> HIDE DEF r
  <2> QED
    BY <1>5, <2>1, <2>2
<1>7. CASE ConnectFails(l)
  <2>1. conns' = [conns EXCEPT ![l] = Append(@, NewConn(FALSE))]
        /\ sender' = [sender EXCEPT ![l] = Idle(FALSE)]
        /\ UNCHANGED <<engineVars, inbound, outbound, eventfd, hand, queue, stepped>>
    BY <1>7 DEF ConnectFails
  <2>2. Idle(FALSE) \in Senders /\ Idle(FALSE).batch = <<>> /\ Idle(FALSE).pc = "idle"
    BY <1>2
  <2> QED
    BY <1>5, <2>1, <2>2
<1>8. CASE WriteFrame(l)
  <2> DEFINE b == sender[l].batch
             k == Len(conns[l])
             c == Conn(Append(conns[l][k].flow, Head(b)), conns[l][k].read, conns[l][k].up,
                       conns[l][k].signal)
             r == IF Len(b) = 1 THEN Idle(TRUE)
                  ELSE [pc |-> "write", batch |-> Tail(b), linked |-> TRUE]
  <2>1. sender[l].pc = "write" /\ b \in Seq(Messages) /\ b # <<>> /\ conns[l] # <<>>
        /\ Len(b) <= BatchMax
    BY <1>1, <1>8 DEF WriteFrame, TypeInv, Sending
  <2>2. /\ Head(b) \in Messages /\ Tail(b) \in Seq(Messages) /\ Len(Tail(b)) = Len(b) - 1
        /\ Tail(b) = <<>> <=> Len(b) = 1
        /\ Len(b) \in Nat
    BY <2>1, TailFacts
  <2>3. k \in 1..Len(conns[l]) /\ conns[l][k] \in Conns
    BY <1>1, <2>1, EmptySeq
  <2>4. c \in Conns /\ c.read <= Len(c.flow)
    <3>1. /\ conns[l][k].flow \in Seq(Messages) /\ conns[l][k].read \in Nat
          /\ conns[l][k].read <= Len(conns[l][k].flow)
      BY <2>3 DEF TypeInv, Reading, Conns
    <3>2. /\ Append(conns[l][k].flow, Head(b)) \in Seq(Messages)
          /\ Len(Append(conns[l][k].flow, Head(b))) = Len(conns[l][k].flow) + 1
      BY <2>2, <3>1, AppendFacts
    <3>3. Len(conns[l][k].flow) \in Nat /\ conns[l][k].read <= Len(conns[l][k].flow) + 1
      BY <3>1
    <3>4. conns[l][k].up \in BOOLEAN /\ conns[l][k].signal \in SUBSET Shards
      BY <2>3, ConnFields
    <3> QED
      BY <3>1, <3>2, <3>3, <3>4, MakeConn
  <2>5. r \in Senders /\ (r.pc = "idle" <=> r.batch = <<>>)
    <3>1. Len(b) # 1 => Tail(b) \in Batches /\ Tail(b) # <<>>
      BY <2>1, <2>2, TransportAssumption
    <3> QED
      BY <1>2, <3>1
  <2>6. /\ conns' = [conns EXCEPT ![l] = [conns[l] EXCEPT ![k] = c]]
        /\ sender' = [sender EXCEPT ![l] = r]
        /\ UNCHANGED <<engine, toSend, made, inbound, outbound, eventfd, hand, queue, stepped>>
    BY <1>8 DEF WriteFrame, engineVars
  <2> HIDE DEF c, r, b, k
  <2>7. /\ [conns[l] EXCEPT ![k] = c] \in Seq(Conns)
        /\ Len([conns[l] EXCEPT ![k] = c]) = Len(conns[l])
    BY <1>1, <2>3, <2>4, ExceptSeq
  <2>8. TypeOK'
    BY <2>5, <2>6, <2>7 DEF TypeInv, TypeOK
  <2>9. Sending'
    BY <2>1, <2>5, <2>6, <2>7, EmptySeq DEF TypeInv, TypeOK, Sending
  <2>10. Reading'
    BY <1>1, <2>3, <2>4, <2>6, <2>7 DEF TypeInv, TypeOK, Reading
  <2> QED
    BY <2>6, <2>8, <2>9, <2>10 DEF TypeInv, Dispatching
<1>9. ASSUME NEW b \in BOOLEAN, sender' = [sender EXCEPT ![l] = Idle(b)],
             b => conns[l] # <<>>,
             UNCHANGED <<engineVars, inbound, outbound, eventfd, hand, queue, conns, stepped>>
      PROVE  TypeInv'
  <2>1. Idle(b).linked = b
    BY DEF Idle
  <2>2. TypeOK'
    BY <1>2, <1>9 DEF TypeInv, TypeOK, engineVars
  <2>3. Sending'
    BY <1>2, <1>9, <2>1 DEF TypeInv, TypeOK, Sending
  <2> QED
    BY <1>9, <2>2, <2>3 DEF TypeInv, Dispatching, Reading, engineVars
<1>10. CASE WriteFails(l)
  BY <1>9, <1>10 DEF WriteFails
<1>11. CASE WriteUnnoticed(l)
  <2>1. conns[l] # <<>>
    BY <1>11 DEF WriteUnnoticed, TypeInv, Sending
  <2> QED
    BY <1>9, <1>11, <2>1 DEF WriteUnnoticed
<1> QED
  BY <1>4, <1>6, <1>7, <1>8, <1>10, <1>11 DEF Sender

LEMMA ConnTypes ==
  ASSUME TypeInv, NEW l \in Links, NEW k \in 1..Len(conns[l]), NEW c \in Conns,
         c.read <= Len(c.flow),
         conns' = [conns EXCEPT ![l][k] = c],
         UNCHANGED <<engineVars, outbound, hand, queue, sender, stepped>>,
         inbound' \in [Shards -> {q \in Seq(Messages) : Len(q) <= RaftCapacity}],
         eventfd' \in [Shards -> BOOLEAN]
  PROVE  TypeInv'
<1>1. conns[l] \in Seq(Conns)
  BY DEF TypeInv, TypeOK
<1>2. /\ [conns[l] EXCEPT ![k] = c] \in Seq(Conns)
      /\ Len([conns[l] EXCEPT ![k] = c]) = Len(conns[l])
      /\ \A j \in 1..Len(conns[l]) : [conns[l] EXCEPT ![k] = c][j] = IF j = k THEN c ELSE conns[l][j]
  BY <1>1, ExceptSeq
<1>3. conns' = [conns EXCEPT ![l] = [conns[l] EXCEPT ![k] = c]]
  OBVIOUS
<1>4. TypeOK'
  BY <1>2, <1>3 DEF TypeInv, TypeOK, engineVars
<1>5. \A m \in Links : Len(conns'[m]) = Len(conns[m]) /\ conns'[m] \in Seq(Conns)
  BY <1>2, <1>3, <1>4 DEF TypeInv, TypeOK
<1>6. Sending'
  BY <1>5, EmptySeq DEF TypeInv, TypeOK, Sending
<1>7. Reading'
  BY <1>2, <1>3 DEF TypeInv, TypeOK, Reading
<1> QED
  BY <1>4, <1>6, <1>7 DEF TypeInv, Dispatching, engineVars

LEMMA InboundTypes ==
  ASSUME TypeInv, NEW l \in Links,
         (\E k \in 1..MaxConns[l] : Inbound(l, k)) \/ (\E k \in 0..SocketFrames : Break(l, k))
  PROVE  TypeInv'
<1>1. /\ conns[l] \in Seq(Conns) /\ Len(conns[l]) \in Nat
      /\ inbound \in [Shards -> {q \in Seq(Messages) : Len(q) <= RaftCapacity}]
      /\ eventfd \in [Shards -> BOOLEAN]
  BY DEF TypeInv, TypeOK
<1>2. ASSUME NEW k \in 1..Len(conns[l])
      PROVE  /\ conns[l][k].flow \in Seq(Messages) /\ conns[l][k].read \in Nat
             /\ conns[l][k].read <= Len(conns[l][k].flow)
             /\ conns[l][k].up \in BOOLEAN /\ conns[l][k].signal \in SUBSET Shards
  <2>1. conns[l][k] \in Conns
    BY <1>1
  <2> QED
    BY <2>1, ConnFields DEF TypeInv, Reading
<1>3. ASSUME NEW k \in 1..MaxConns[l], Inbound(l, k)
      PROVE  TypeInv'
  <2> DEFINE c == conns[l][k]
  <2>0. /\ k \in 1..Len(conns[l]) /\ c.flow \in Seq(Messages) /\ c.read \in Nat
        /\ c.read <= Len(c.flow) /\ c.up \in BOOLEAN /\ c.signal \in SUBSET Shards
    <3>1. MaxConns[l] \in Nat
      BY TransportAssumption DEF Links
    <3>2. k \in 1..Len(conns[l])
      BY <1>1, <1>3, <3>1 DEF Inbound
    <3> QED
      BY <1>2, <3>2
  <2>1. ASSUME NEW frames \in 1..SocketFrames, ReadFrames(l, k, frames)
        PROVE  TypeInv'
    <3> DEFINE d == Conn(c.flow, frames, c.up, c.signal)
    <3>1. frames \in Nat /\ frames <= Len(c.flow)
      BY <2>0, <2>1 DEF ReadFrames
    <3>2. d \in Conns /\ d.read <= Len(d.flow)
      BY <2>0, <3>1, MakeConn
    <3>3. /\ conns' = [conns EXCEPT ![l][k] = d]
          /\ UNCHANGED <<engineVars, inbound, outbound, eventfd, hand, queue, sender, stepped>>
      BY <2>1 DEF ReadFrames
    <3> HIDE DEF d
    <3> QED
      BY <1>1, <2>0, <3>2, <3>3, ConnTypes
  <2>2. ASSUME c.read > 0
        PROVE  /\ Head(c.flow) \in Messages /\ Tail(c.flow) \in Seq(Messages)
               /\ c.read - 1 \in Nat /\ c.read - 1 <= Len(Tail(c.flow))
    <3>1. c.flow # <<>>
      BY <2>0, <2>2
    <3>2. /\ Head(c.flow) \in Messages /\ Tail(c.flow) \in Seq(Messages)
          /\ Len(Tail(c.flow)) = Len(c.flow) - 1 /\ Len(c.flow) \in Nat
      BY <2>0, <3>1, TailFacts
    <3> QED
      BY <2>0, <2>2, <3>2
  <2>3. CASE Deliver(l, k)
    <3> DEFINE s == Target(l, k)
               d == Conn(Tail(c.flow), c.read - 1, c.up, {s})
    <3>1. c.read > 0 /\ s \in Shards /\ Len(inbound[s]) < RaftCapacity
      BY <2>3 DEF Deliver
    <3>2. d \in Conns /\ d.read <= Len(d.flow)
      <4>1. {s} \in SUBSET Shards
        BY <3>1
      <4> QED
        BY <2>0, <2>2, <3>1, <4>1, MakeConn
    <3>3. /\ conns' = [conns EXCEPT ![l][k] = d]
          /\ inbound' = [inbound EXCEPT ![s] = Append(@, Head(c.flow))]
          /\ UNCHANGED <<engineVars, outbound, eventfd, hand, queue, sender, stepped>>
      BY <2>3 DEF Deliver
    <3>4. Append(inbound[s], Head(c.flow)) \in {q \in Seq(Messages) : Len(q) <= RaftCapacity}
      <4>1. inbound[s] \in Seq(Messages)
        BY <1>1, <3>1
      <4> QED
        BY <2>2, <3>1, <4>1, TransportAssumption
    <3> HIDE DEF d, s
    <3>5. inbound' \in [Shards -> {q \in Seq(Messages) : Len(q) <= RaftCapacity}]
      BY <1>1, <3>3, <3>4
    <3> QED
      BY <1>1, <2>0, <3>2, <3>3, <3>5, ConnTypes
  <2>4. CASE Notify(l, k)
    <3> DEFINE d == Conn(c.flow, c.read, c.up, {})
    <3>1. d \in Conns /\ d.read <= Len(d.flow)
      <4>1. {} \in SUBSET Shards
        OBVIOUS
      <4> QED
        BY <2>0, <4>1, MakeConn
    <3>2. /\ conns' = [conns EXCEPT ![l][k] = d]
          /\ eventfd' = [s \in Shards |-> eventfd[s] \/ s \in c.signal]
          /\ UNCHANGED <<engineVars, inbound, outbound, hand, queue, sender, stepped>>
      BY <2>4 DEF Notify
    <3>3. eventfd' \in [Shards -> BOOLEAN]
      BY <1>1, <3>2
    <3> HIDE DEF d
    <3> QED
      BY <1>1, <2>0, <3>1, <3>2, <3>3, ConnTypes
  <2>5. CASE DropUnknown(l, k)
    <3> DEFINE d == Conn(Tail(c.flow), c.read - 1, c.up, c.signal)
    <3>1. c.read > 0
      BY <2>5 DEF DropUnknown
    <3>2. d \in Conns /\ d.read <= Len(d.flow)
      BY <2>0, <2>2, <3>1, MakeConn
    <3>3. /\ conns' = [conns EXCEPT ![l][k] = d]
          /\ UNCHANGED <<engineVars, inbound, outbound, eventfd, hand, queue, sender, stepped>>
      BY <2>5 DEF DropUnknown
    <3> HIDE DEF d
    <3> QED
      BY <1>1, <2>0, <3>2, <3>3, ConnTypes
  <2> QED
    BY <1>3, <2>1, <2>3, <2>4, <2>5 DEF Inbound
<1>4. ASSUME NEW j \in 0..SocketFrames, Break(l, j)
      PROVE  TypeInv'
  <2> DEFINE k == Len(conns[l])
             c == conns[l][k]
             d == Conn(SubSeq(c.flow, 1, j), c.read, FALSE, c.signal)
  <2>1. k \in 1..Len(conns[l])
    <3>1. conns[l] # <<>>
      BY <1>4 DEF Break
    <3> QED
      BY <1>1, <3>1, EmptySeq
  <2>2. j \in c.read..Len(c.flow)
    BY <1>4 DEF Break, Current
  <2>3. /\ c.flow \in Seq(Messages) /\ c.read \in Nat /\ c.read <= Len(c.flow)
        /\ c.signal \in SUBSET Shards
    BY <1>2, <2>1
  <2>4. SubSeq(c.flow, 1, j) \in Seq(Messages) /\ Len(SubSeq(c.flow, 1, j)) = j
    BY <2>2, <2>3, SubSeqFacts
  <2>5. d \in Conns /\ d.read <= Len(d.flow)
    <3>1. c.read <= Len(SubSeq(c.flow, 1, j)) /\ FALSE \in BOOLEAN
      BY <2>2, <2>3, <2>4
    <3> QED
      BY <2>3, <2>4, <3>1, MakeConn
  <2>6. /\ conns' = [conns EXCEPT ![l][k] = d]
        /\ UNCHANGED <<engineVars, inbound, outbound, eventfd, hand, queue, sender, stepped>>
    BY <1>4 DEF Break
  <2> HIDE DEF d, c, k
  <2> QED
    BY <1>1, <2>1, <2>5, <2>6, ConnTypes
<1> QED
  BY <1>3, <1>4

LEMMA TypeStep == TypeInv /\ [Next]_vars => TypeInv'
<1> SUFFICES ASSUME TypeInv, [Next]_vars PROVE TypeInv'
  OBVIOUS
<1>1. CASE Next
  BY <1>1, EngineTypes, RunLoopTypes, SenderTypes, InboundTypes DEF Next
<1>2. CASE UNCHANGED vars
  BY <1>2 DEF vars, engineVars, TypeInv, TypeOK, Dispatching, Sending, Reading
<1> QED
  BY <1>1, <1>2

\* Every state of the transport is well typed, and every queue, batch and channel
\* keeps to its bound: nothing between two nodes grows without limit.
THEOREM TransportTypeCorrect == Spec => []TypeOK
<1>1. Spec => []TypeInv
  BY TypeInit, TypeStep, PTL DEF Spec
<1> QED
  BY <1>1, PTL DEF TypeInv

-----------------------------------------------------------------------------
(***************************************************************************)
(* Wake-ups.  NoLostRaftWakeup is inductive over well-typed states: a      *)
(* message enters a channel together with a signal, a signal is withdrawn  *)
(* only by making the eventfd readable, the eventfd is drained only by a   *)
(* loop that goes on to process, and that loop leaves only an empty        *)
(* channel behind.                                                         *)
(***************************************************************************)
Signalled(s) == \E l \in Links : \E k \in 1..Len(conns[l]) : s \in conns[l][k].signal

Awaited(s) == eventfd[s] \/ engine[s] \in {"process", "dead"} \/ Signalled(s)

\* what happens on one connection withdraws no signal of another
LEMMA ConnSignals ==
  ASSUME TypeInv, NEW l \in Links, NEW k \in 1..Len(conns[l]), NEW c,
         conns' = [conns EXCEPT ![l][k] = c],
         NEW s \in Shards, Signalled(s)
  PROVE  Signalled(s)' \/ (s \in conns[l][k].signal /\ s \notin c.signal)
<1>1. PICK m \in Links : \E j \in 1..Len(conns[m]) : s \in conns[m][j].signal
  BY DEF Signalled
<1>0. PICK j \in 1..Len(conns[m]) : s \in conns[m][j].signal
  BY <1>1
<1>2. conns \in [Links -> Seq(Conns)]
  BY DEF TypeInv, TypeOK
<1>3. Len(conns'[m]) = Len(conns[m])
  BY <1>2
<1>4. CASE m = l /\ j = k
  BY <1>0, <1>2, <1>3, <1>4 DEF Signalled
<1>5. CASE ~(m = l /\ j = k)
  <2>1. conns'[m][j] = conns[m][j]
    BY <1>2, <1>5
  <2> QED
    BY <1>0, <1>3, <2>1 DEF Signalled
<1> QED
  BY <1>4, <1>5

LEMMA ConnSignalsNew ==
  ASSUME TypeInv, NEW l \in Links, NEW k \in 1..Len(conns[l]), NEW c,
         conns' = [conns EXCEPT ![l][k] = c], NEW s \in c.signal
  PROVE  Signalled(s)'
<1>1. conns \in [Links -> Seq(Conns)]
  BY DEF TypeInv, TypeOK
<1>2. Len(conns'[l]) = Len(conns[l]) /\ conns'[l][k] = c
  BY <1>1
<1> QED
  BY <1>2 DEF Signalled

LEMMA AppendSignals ==
  ASSUME TypeInv, NEW l \in Links, NEW c \in Conns, conns' = [conns EXCEPT ![l] = Append(@, c)],
         NEW s \in Shards, Signalled(s)
  PROVE  Signalled(s)'
<1>1. PICK m \in Links : \E j \in 1..Len(conns[m]) : s \in conns[m][j].signal
  BY DEF Signalled
<1>0. PICK j \in 1..Len(conns[m]) : s \in conns[m][j].signal
  BY <1>1
<1>2. conns \in [Links -> Seq(Conns)]
  BY DEF TypeInv, TypeOK
<1>3. j \in 1..Len(conns'[m]) /\ conns'[m][j] = conns[m][j]
  BY <1>2
<1> QED
  BY <1>0, <1>3 DEF Signalled

LEMMA WakeupStep == TypeInv /\ NoLostRaftWakeup /\ [Next]_vars => NoLostRaftWakeup'
<1> SUFFICES ASSUME TypeInv, NoLostRaftWakeup, [Next]_vars,
                    NEW s \in Shards, inbound'[s] # <<>>
             PROVE  Awaited(s)'
  BY DEF NoLostRaftWakeup, Awaited, Signalled
<1>0. inbound[s] # <<>> => Awaited(s)
  BY DEF NoLostRaftWakeup, Awaited, Signalled
<1>1. ASSUME NEW r \in Shards, Loop(r) \/ Stop(r)
      PROVE  Awaited(s)'
  <2> USE <1>0 DEF Awaited, Signalled
  <2>1. engine \in [Shards -> {"wait", "process", "dispatch", "dead"}] /\ DOMAIN eventfd = Shards
        /\ DOMAIN inbound = Shards
    BY DEF TypeInv, TypeOK
  <2>2. CASE Wake(r)
    BY <2>1, <2>2 DEF Wake
  <2>3. CASE Step(r)
    <3>1. CASE s = r
      BY <2>3, <3>1 DEF Step, engineVars
    <3>2. CASE s # r
      BY <2>1, <2>3, <3>2 DEF Step, engineVars
    <3> QED
      BY <3>1, <3>2
  <2>4. CASE Dispatch(r)
    BY <2>1, <2>4 DEF Dispatch
  <2>5. ASSUME NEW targets \in Targets(r), Ready(r, targets)
        PROVE  Awaited(s)'
    BY <2>1, <2>5 DEF Ready
  <2>6. CASE Stop(r)
    BY <2>1, <2>6 DEF Stop
  <2> QED
    BY <1>1, <2>2, <2>3, <2>4, <2>5, <2>6 DEF Loop
<1>2. ASSUME NEW n \in Nodes, RunLoop(n)
      PROVE  Awaited(s)'
  BY <1>0, <1>2 DEF RunLoop, PlaceHeld, TakeOutbound, Awaited, Signalled, engineVars
<1>3. ASSUME NEW l \in Links, Sender(l)
      PROVE  Awaited(s)'
  <2>0. Awaited(s) /\ UNCHANGED <<engine, inbound, eventfd>>
    BY <1>0, <1>3 DEF Sender, TakeBatch, Connect, ConnectFails, WriteFrame, WriteFails,
                      WriteUnnoticed, engineVars
  <2>1. SUFFICES ASSUME Signalled(s) PROVE Signalled(s)'
    BY <2>0 DEF Awaited
  <2>2. CASE TakeBatch(l) \/ WriteFails(l) \/ WriteUnnoticed(l)
    BY <2>1, <2>2 DEF TakeBatch, WriteFails, WriteUnnoticed, Signalled
  <2>3. CASE Connect(l) \/ ConnectFails(l)
    <3>1. NewConn(TRUE) \in Conns /\ NewConn(FALSE) \in Conns
      <4>1. <<>> \in Seq(Messages) /\ {} \in SUBSET Shards /\ 0 \in Nat /\ 0 <= Len(<<>>)
        OBVIOUS
      <4> QED
        BY <4>1, MakeConn DEF NewConn
    <3> QED
      BY <2>1, <2>3, <3>1, AppendSignals DEF Connect, ConnectFails
  <2>4. CASE WriteFrame(l)
    <3> DEFINE k == Len(conns[l])
               c == Conn(Append(conns[l][k].flow, Head(sender[l].batch)), conns[l][k].read,
                         conns[l][k].up, conns[l][k].signal)
    <3>1. conns' = [conns EXCEPT ![l][k] = c]
      BY <2>4 DEF WriteFrame
    <3>2. k \in 1..Len(conns[l])
      BY <2>4, EmptySeq DEF WriteFrame, TypeInv, TypeOK, Sending
    <3>3. c.signal = conns[l][k].signal
      BY ConnParts
    <3> HIDE DEF c, k
    <3> QED
      BY <2>1, <3>1, <3>2, <3>3, ConnSignals
  <2> QED
    BY <1>3, <2>2, <2>3, <2>4 DEF Sender
<1>4. ASSUME NEW l \in Links, NEW k \in 1..MaxConns[l], Inbound(l, k)
      PROVE  Awaited(s)'
  <2> DEFINE c == conns[l][k]
  <2>0. k \in 1..Len(conns[l])
    <3>1. MaxConns[l] \in Nat /\ Len(conns[l]) \in Nat
      BY TransportAssumption DEF Links, TypeInv, TypeOK
    <3> QED
      BY <1>4, <3>1 DEF Inbound
  <2>1. ASSUME NEW d, conns' = [conns EXCEPT ![l][k] = d], d.signal = c.signal,
               UNCHANGED <<engine, inbound, eventfd>>
        PROVE  Awaited(s)'
    BY <1>0, <2>0, <2>1, ConnSignals DEF Awaited
  <2>2. ASSUME NEW frames \in 1..SocketFrames, ReadFrames(l, k, frames)
        PROVE  Awaited(s)'
    <3> DEFINE d == Conn(c.flow, frames, c.up, c.signal)
    <3>1. conns' = [conns EXCEPT ![l][k] = d] /\ UNCHANGED <<engine, inbound, eventfd>>
      BY <2>2 DEF ReadFrames, engineVars
    <3>2. d.signal = c.signal
      BY ConnParts
    <3> HIDE DEF d
    <3> QED
      BY <2>1, <3>1, <3>2
  <2>3. CASE DropUnknown(l, k)
    <3> DEFINE d == Conn(Tail(c.flow), c.read - 1, c.up, c.signal)
    <3>1. conns' = [conns EXCEPT ![l][k] = d] /\ UNCHANGED <<engine, inbound, eventfd>>
      BY <2>3 DEF DropUnknown, engineVars
    <3>2. d.signal = c.signal
      BY ConnParts
    <3> HIDE DEF d
    <3> QED
      BY <2>1, <3>1, <3>2
  <2>4. CASE Deliver(l, k)
    <3> DEFINE t == Target(l, k)
               d == Conn(Tail(c.flow), c.read - 1, c.up, {t})
    <3>1. /\ conns' = [conns EXCEPT ![l][k] = d] /\ UNCHANGED <<engine, eventfd>>
          /\ inbound' = [inbound EXCEPT ![t] = Append(@, Head(c.flow))]
      BY <2>4 DEF Deliver, engineVars
    <3>2. d.signal = {t}
      BY ConnParts
    <3>3. c.signal = {}
      BY <2>0, <2>4 DEF Deliver, Runs, Signalling
    <3> HIDE DEF d, t
    <3>4. CASE s = t
      BY <2>0, <3>1, <3>2, <3>4, ConnSignalsNew DEF Awaited
    <3>5. CASE s # t
      <4>1. inbound[s] # <<>>
        BY <3>1, <3>5 DEF TypeInv, TypeOK
      <4>2. Signalled(s) => Signalled(s)'
        BY <2>0, <3>1, <3>3, ConnSignals
      <4> QED
        BY <1>0, <3>1, <4>1, <4>2 DEF Awaited
    <3> QED
      BY <3>4, <3>5
  <2>5. CASE Notify(l, k)
    <3> DEFINE d == Conn(c.flow, c.read, c.up, {})
    <3>1. /\ conns' = [conns EXCEPT ![l][k] = d] /\ UNCHANGED <<engine, inbound>>
          /\ eventfd' = [r \in Shards |-> eventfd[r] \/ r \in c.signal]
      BY <2>5 DEF Notify, engineVars
    <3> HIDE DEF d
    <3>2. Signalled(s) => Signalled(s)' \/ s \in c.signal
      BY <2>0, <3>1, ConnSignals
    <3>3. (eventfd[s] \/ s \in c.signal) => eventfd'[s]
      BY <3>1
    <3> QED
      BY <1>0, <3>1, <3>2, <3>3 DEF Awaited
  <2> QED
    BY <1>4, <2>2, <2>3, <2>4, <2>5 DEF Inbound
<1>5. ASSUME NEW l \in Links, NEW j \in 0..SocketFrames, Break(l, j)
      PROVE  Awaited(s)'
  <2> DEFINE k == Len(conns[l])
             c == conns[l][k]
             d == Conn(SubSeq(c.flow, 1, j), c.read, FALSE, c.signal)
  <2>1. conns' = [conns EXCEPT ![l][k] = d] /\ UNCHANGED <<engine, inbound, eventfd>>
    BY <1>5 DEF Break, engineVars
  <2>2. k \in 1..Len(conns[l])
    <3>1. conns[l] # <<>> /\ conns[l] \in Seq(Conns)
      BY <1>5 DEF Break, TypeInv, TypeOK
    <3> QED
      BY <3>1, EmptySeq
  <2>3. d.signal = c.signal
    BY DEF Conn
  <2> HIDE DEF d, k
  <2>4. Signalled(s) => Signalled(s)'
    BY <2>1, <2>2, <2>3, ConnSignals
  <2> QED
    BY <1>0, <2>1, <2>4 DEF Awaited
<1>6. CASE UNCHANGED vars
  BY <1>0, <1>6 DEF vars, engineVars, Awaited, Signalled
<1> QED
  BY <1>1, <1>2, <1>3, <1>4, <1>5, <1>6 DEF Next

\* No signal to an event loop is lost, for any number of nodes, groups and
\* connections: a raft message in a channel always has a wake-up to come.
THEOREM RaftWakeupNeverLost == Spec => []NoLostRaftWakeup
<1>1. Init => NoLostRaftWakeup
  BY DEF Init, NoLostRaftWakeup
<1>2. Spec => []TypeInv
  BY TypeInit, TypeStep, PTL DEF Spec
<1> QED
  BY <1>1, <1>2, WakeupStep, PTL DEF Spec

-----------------------------------------------------------------------------
(***************************************************************************)
(* Order.  The messages of a shard to a node pass, in this order, what the *)
(* shard has yet to hand over (Outgoing), the hand of the run loop, what   *)
(* the sender has (Pipeline), the connections (Flow) and what the other    *)
(* shard has received (Received).  Only on a connection can something be   *)
(* lost and only between two connections overtaken.                        *)
(***************************************************************************)
Outgoing == [s \in Shards |-> outbound[s] \o toSend[s]]
Pipeline == [l \in Links |-> sender[l].batch \o queue[l]]
Flow == [l \in Links |-> [k \in 1..Len(conns[l]) |-> conns[l][k].flow]]
Received == [s \in Shards |-> stepped[s] \o inbound[s]]

SameWay(x, y) == x.from = y.from /\ x.to = y.to

Before(p, q) ==
  \A i \in 1..Len(p), j \in 1..Len(q) : SameWay(p[i], q[j]) => p[i].id < q[j].id

Ascending(q) ==
  \A i, j \in 1..Len(q) : i < j /\ SameWay(q[i], q[j]) => q[i].id < q[j].id

Apart(p, q) == \A i \in 1..Len(p), j \in 1..Len(q) : p[i] # q[j]

Distinct(q) == \A i, j \in 1..Len(q) : q[i] = q[j] => i = j

(***************************************************************************)
(* Where messages of whom can be.                                          *)
(***************************************************************************)
Numbered(q, m) == \A i \in 1..Len(q) : q[i].id <= m[q[i].from]
OfShard(q, s) == \A i \in 1..Len(q) : q[i].from = s /\ q[i].to # s[1]
OfNode(q, n) == \A i \in 1..Len(q) : q[i].from[1] = n /\ q[i].to # n
OnLink(q, l) == \A i \in 1..Len(q) : LinkOf(q[i]) = l
For(q, s) == \A i \in 1..Len(q) : q[i].to = s[1] /\ q[i].from[2] = s[2] /\ q[i].to # q[i].from[1]

Origin(O, H, P, F, R) ==
  /\ \A s \in Shards : OfShard(O[s], s)
  /\ \A n \in Nodes : OfNode(H[n], n)
  /\ \A l \in Links : OnLink(P[l], l)
  /\ \A l \in Links : \A k \in 1..Len(F[l]) : OnLink(F[l][k], l)
  /\ \A s \in Shards : For(R[s], s)

Numbers(O, H, P, F, R, m) ==
  /\ \A s \in Shards : Numbered(O[s], m) /\ Numbered(R[s], m)
  /\ \A n \in Nodes : Numbered(H[n], m)
  /\ \A l \in Links : Numbered(P[l], m) /\ \A k \in 1..Len(F[l]) : Numbered(F[l][k], m)

Order(O, H, P, F, R) ==
  /\ \A s \in Shards : Ascending(O[s])
  /\ \A l \in Links : Ascending(P[l]) /\ \A k \in 1..Len(F[l]) : Ascending(F[l][k])
  /\ \A n \in Nodes, s \in Shards : Before(H[n], O[s])
  /\ \A l \in Links, s \in Shards : Before(P[l], O[s])
  /\ \A l \in Links, n \in Nodes : Before(P[l], H[n])
  /\ \A l \in Links : \A k \in 1..Len(F[l]) :
       /\ \A s \in Shards : Before(F[l][k], O[s])
       /\ \A n \in Nodes : Before(F[l][k], H[n])
       /\ Before(F[l][k], P[l])
       /\ \A j \in 1..(k - 1) : Before(F[l][j], F[l][k])
  /\ \A t \in Shards :
       /\ \A s \in Shards : Before(R[t], O[s])
       /\ \A n \in Nodes : Before(R[t], H[n])
       /\ \A l \in Links : Before(R[t], P[l])

Once(F, R) ==
  \A t \in Shards : /\ Distinct(R[t])
                    /\ \A l \in Links : \A k \in 1..Len(F[l]) : Apart(R[t], F[l][k])

AscendingOn(q, l) ==
  \A i, j \in 1..Len(q) :
    i < j /\ LinkOf(q[i]) = l /\ SameWay(q[i], q[j]) => q[i].id < q[j].id

FirstConnection(F, R) ==
  \A l \in Links, t \in Shards :
    /\ F[l] = <<>> => \A i \in 1..Len(R[t]) : LinkOf(R[t][i]) # l
    /\ Len(F[l]) = 1 => AscendingOn(R[t], l) /\ Before(R[t], F[l][1])

Typed(O, H, P, F, R) ==
  /\ \A s \in Shards : O[s] \in Seq(Messages) /\ R[s] \in Seq(Messages)
  /\ \A n \in Nodes : H[n] \in Seq(Messages)
  /\ \A l \in Links : /\ P[l] \in Seq(Messages) /\ F[l] \in Seq(Seq(Messages))
                      /\ \A k \in 1..Len(F[l]) : F[l][k] \in Seq(Messages)

Line(O, H, P, F, R, m) ==
  /\ Origin(O, H, P, F, R) /\ Numbers(O, H, P, F, R, m) /\ Order(O, H, P, F, R)
  /\ Once(F, R) /\ FirstConnection(F, R)

OrderInv == Line(Outgoing, hand, Pipeline, Flow, Received, made)

-----------------------------------------------------------------------------
(***************************************************************************)
(* A part of a queue keeps the order of the queue: its head, its tail, a   *)
(* prefix and a suffix are parts.                                          *)
(***************************************************************************)
Part(p, q, d) == Len(p) + d <= Len(q) /\ \A i \in 1..Len(p) : p[i] = q[i + d]

LEMMA PartOrder ==
  ASSUME NEW p \in Seq(Messages), NEW q \in Seq(Messages), NEW d \in Nat, Part(p, q, d)
  PROVE  /\ Ascending(q) => Ascending(p)
         /\ \A r \in Seq(Messages) : Before(q, r) => Before(p, r)
         /\ \A r \in Seq(Messages) : Before(r, q) => Before(r, p)
         /\ \A r \in Seq(Messages) : Apart(r, q) => Apart(r, p)
<1>1. \A i \in 1..Len(p) : i + d \in 1..Len(q) /\ p[i] = q[i + d]
  BY DEF Part
<1>2. Ascending(q) => Ascending(p)
  BY <1>1 DEF Ascending
<1>3. \A r \in Seq(Messages) : Before(q, r) => Before(p, r)
  BY <1>1 DEF Before
<1>4. \A r \in Seq(Messages) : Before(r, q) => Before(r, p)
  BY <1>1 DEF Before
<1>5. \A r \in Seq(Messages) : Apart(r, q) => Apart(r, p)
  BY <1>1 DEF Apart
<1> QED
  BY <1>2, <1>3, <1>4, <1>5

LEMMA PartOrigin ==
  ASSUME NEW p \in Seq(Messages), NEW q \in Seq(Messages), NEW d \in Nat, Part(p, q, d)
  PROVE  /\ \A s \in Shards : OfShard(q, s) => OfShard(p, s)
         /\ \A n \in Nodes : OfNode(q, n) => OfNode(p, n)
         /\ \A l \in Links : OnLink(q, l) => OnLink(p, l)
         /\ \A m : Numbered(q, m) => Numbered(p, m)
<1>1. \A i \in 1..Len(p) : i + d \in 1..Len(q) /\ p[i] = q[i + d]
  BY DEF Part
<1> QED
  BY <1>1 DEF OfShard, OfNode, OnLink, Numbered

LEMMA HeadTailParts ==
  ASSUME NEW q \in Seq(Messages), q # <<>>
  PROVE  /\ <<Head(q)>> \in Seq(Messages) /\ Tail(q) \in Seq(Messages) /\ Head(q) \in Messages
         /\ Part(<<Head(q)>>, q, 0) /\ Part(Tail(q), q, 1)
         /\ Ascending(q) => Before(<<Head(q)>>, Tail(q))
<1>1. /\ Head(q) \in Messages /\ Tail(q) \in Seq(Messages) /\ Len(Tail(q)) = Len(q) - 1
      /\ Len(q) \in Nat \ {0} /\ Head(q) = q[1]
      /\ \A i \in 1..(Len(q) - 1) : Tail(q)[i] = q[i + 1]
  BY TailFacts
<1>2. <<Head(q)>> \in Seq(Messages) /\ Len(<<Head(q)>>) = 1 /\ <<Head(q)>>[1] = q[1]
  BY <1>1
<1>3. Part(<<Head(q)>>, q, 0)
  BY <1>1, <1>2 DEF Part
<1>4. Part(Tail(q), q, 1)
  BY <1>1 DEF Part
<1>5. Ascending(q) => Before(<<Head(q)>>, Tail(q))
  BY <1>1, <1>2 DEF Ascending, Before
<1> QED
  BY <1>1, <1>2, <1>3, <1>4, <1>5

LEMMA AppendOrder ==
  ASSUME NEW q \in Seq(Messages), NEW x \in Messages
  PROVE  /\ Append(q, x) \in Seq(Messages)
         /\ Ascending(q) /\ Before(q, <<x>>) => Ascending(Append(q, x))
         /\ \A r \in Seq(Messages) : Before(q, r) /\ Before(<<x>>, r) => Before(Append(q, x), r)
         /\ \A r \in Seq(Messages) : Before(r, q) /\ Before(r, <<x>>) => Before(r, Append(q, x))
         /\ \A r \in Seq(Messages) : Apart(q, r) /\ Apart(<<x>>, r) => Apart(Append(q, x), r)
         /\ \A r \in Seq(Messages) : Apart(r, q) /\ Apart(r, <<x>>) => Apart(r, Append(q, x))
         /\ Distinct(q) /\ Apart(q, <<x>>) => Distinct(Append(q, x))
<1>1. /\ Append(q, x) \in Seq(Messages) /\ Len(Append(q, x)) = Len(q) + 1
      /\ Append(q, x)[Len(q) + 1] = x
      /\ \A i \in 1..Len(q) : Append(q, x)[i] = q[i]
  BY AppendFacts
<1>2. Len(<<x>>) = 1 /\ <<x>>[1] = x /\ Len(q) \in Nat
  OBVIOUS
<1>3. \A i \in 1..Len(Append(q, x)) : i \in 1..Len(q) \/ i = Len(q) + 1
  BY <1>1, <1>2
<1>4. Ascending(q) /\ Before(q, <<x>>) => Ascending(Append(q, x))
  BY <1>1, <1>2, <1>3 DEF Ascending, Before
<1>5. \A r \in Seq(Messages) : Before(q, r) /\ Before(<<x>>, r) => Before(Append(q, x), r)
  BY <1>1, <1>2, <1>3 DEF Before
<1>6. \A r \in Seq(Messages) : Before(r, q) /\ Before(r, <<x>>) => Before(r, Append(q, x))
  BY <1>1, <1>2, <1>3 DEF Before
<1>7. \A r \in Seq(Messages) : Apart(q, r) /\ Apart(<<x>>, r) => Apart(Append(q, x), r)
  BY <1>1, <1>2, <1>3 DEF Apart
<1>8. \A r \in Seq(Messages) : Apart(r, q) /\ Apart(r, <<x>>) => Apart(r, Append(q, x))
  BY <1>1, <1>2, <1>3 DEF Apart
<1>9. Distinct(q) /\ Apart(q, <<x>>) => Distinct(Append(q, x))
  BY <1>1, <1>2, <1>3 DEF Apart, Distinct
<1> QED
  BY <1>1, <1>4, <1>5, <1>6, <1>7, <1>8, <1>9

LEMMA AppendBefore ==
  ASSUME NEW q \in Seq(Messages), NEW x \in Messages, NEW r \in Seq(Messages),
         Before(q, r), Before(<<x>>, r)
  PROVE  Before(Append(q, x), r)
  BY AppendOrder

LEMMA AppendAfter ==
  ASSUME NEW q \in Seq(Messages), NEW x \in Messages, NEW r \in Seq(Messages),
         Before(r, q), Before(r, <<x>>)
  PROVE  Before(r, Append(q, x))
  BY AppendOrder

LEMMA AppendOrigin ==
  ASSUME NEW q \in Seq(Messages), NEW x \in Messages
  PROVE  /\ \A l \in Links : OnLink(q, l) /\ OnLink(<<x>>, l) => OnLink(Append(q, x), l)
         /\ \A s \in Shards : For(q, s) /\ For(<<x>>, s) => For(Append(q, x), s)
         /\ \A m : Numbered(q, m) /\ Numbered(<<x>>, m) => Numbered(Append(q, x), m)
<1>1. /\ Len(Append(q, x)) = Len(q) + 1 /\ Append(q, x)[Len(q) + 1] = x
      /\ \A i \in 1..Len(q) : Append(q, x)[i] = q[i]
  BY AppendFacts
<1>2. Len(<<x>>) = 1 /\ <<x>>[1] = x /\ Len(q) \in Nat
  OBVIOUS
<1>3. \A i \in 1..Len(Append(q, x)) : i \in 1..Len(q) \/ i = Len(q) + 1
  BY <1>1, <1>2
<1> QED
  BY <1>1, <1>2, <1>3 DEF OnLink, For, Numbered

(***************************************************************************)
(* Messages of different shards, nodes or links are on different ways.     *)
(***************************************************************************)
LEMMA OriginApart ==
  ASSUME NEW p \in Seq(Messages), NEW q \in Seq(Messages)
  PROVE  /\ \A s, r \in Shards : OfShard(p, s) /\ OfShard(q, r) /\ s # r => Before(p, q)
         /\ \A s \in Shards, n \in Nodes :
              OfShard(p, s) /\ OfNode(q, n) /\ s[1] # n => Before(p, q) /\ Before(q, p)
         /\ \A l \in Links, n \in Nodes : OnLink(p, l) /\ OfNode(q, n) /\ l[1] # n => Before(p, q)
         /\ \A n, o \in Nodes : OfNode(p, n) /\ OfNode(q, o) /\ n # o => Before(p, q)
         /\ \A l, k \in Links : OnLink(p, l) /\ OnLink(q, k) /\ l # k => Before(p, q) /\ Apart(p, q)
<1>1. \A s, r \in Shards : OfShard(p, s) /\ OfShard(q, r) /\ s # r => Before(p, q)
  BY DEF OfShard, Before, SameWay
<1>2. \A s \in Shards, n \in Nodes :
        OfShard(p, s) /\ OfNode(q, n) /\ s[1] # n => Before(p, q) /\ Before(q, p)
  BY DEF OfShard, OfNode, Before, SameWay
<1>3. \A l \in Links, n \in Nodes : OnLink(p, l) /\ OfNode(q, n) /\ l[1] # n => Before(p, q)
  BY DEF OnLink, OfNode, Before, SameWay, LinkOf
<1>4. \A n, o \in Nodes : OfNode(p, n) /\ OfNode(q, o) /\ n # o => Before(p, q)
  BY DEF OfNode, Before, SameWay
<1>5. \A l, k \in Links : OnLink(p, l) /\ OnLink(q, k) /\ l # k => Before(p, q)
  BY DEF OnLink, Before, SameWay, LinkOf
<1>6. \A l, k \in Links : OnLink(p, l) /\ OnLink(q, k) /\ l # k => Apart(p, q)
  BY DEF OnLink, Apart
<1> QED
  BY <1>1, <1>2, <1>3, <1>4, <1>5, <1>6

LEMMA EmptyOrder ==
  \A q : Before(q, <<>>) /\ Before(<<>>, q) /\ Ascending(<<>>) /\ Apart(q, <<>>)
  BY DEF Before, Ascending, Apart

LEMMA BeforeApart ==
  ASSUME NEW p \in Seq(Messages), NEW q \in Seq(Messages), Before(p, q)
  PROVE  Apart(p, q) /\ Apart(q, p)
<1>1. \A i \in 1..Len(p), j \in 1..Len(q) : p[i] \in Messages /\ q[j] \in Messages
  OBVIOUS
<1>2. \A x \in Messages : ~(x.id < x.id)
  BY DEF Messages
<1> QED
  BY <1>1, <1>2 DEF Before, Apart, SameWay

-----------------------------------------------------------------------------
(***************************************************************************)
(* What a step can do to the line of queues, whatever it is made of.  A    *)
(* message that moves on is taken from the head of one queue, which keeps  *)
(* a part of every queue, and then put at the end of another.              *)
(***************************************************************************)
Kept(p, q) == \E d \in Nat : Part(p, q, d)

LEMMA KeptOrder ==
  \A p, q \in Seq(Messages) : Kept(p, q) =>
    /\ Ascending(q) => Ascending(p)
    /\ \A r \in Seq(Messages) : Before(q, r) => Before(p, r)
    /\ \A r \in Seq(Messages) : Before(r, q) => Before(r, p)
    /\ \A r \in Seq(Messages) : Apart(r, q) => Apart(r, p)
  BY PartOrder DEF Kept

LEMMA KeptOrigin ==
  \A p, q \in Seq(Messages) : Kept(p, q) =>
    /\ \A s \in Shards : OfShard(q, s) => OfShard(p, s)
    /\ \A n \in Nodes : OfNode(q, n) => OfNode(p, n)
    /\ \A l \in Links : OnLink(q, l) => OnLink(p, l)
    /\ \A m : Numbered(q, m) => Numbered(p, m)
  BY PartOrigin DEF Kept

LEMMA KeptBoth ==
  ASSUME NEW p \in Seq(Messages), NEW q \in Seq(Messages), NEW p2 \in Seq(Messages),
         NEW q2 \in Seq(Messages), Kept(p2, p), Kept(q2, q), Before(p, q)
  PROVE  Before(p2, q2)
  BY KeptOrder

LEMMA KeptAfter ==
  ASSUME NEW p \in Seq(Messages), NEW q \in Seq(Messages), NEW r \in Seq(Messages), Kept(p, q),
         Before(r, q)
  PROVE  Before(r, p)
  BY KeptOrder

LEMMA KeptSelf == \A q \in Seq(Messages) : Kept(q, q)
<1>1. \A q \in Seq(Messages) : Part(q, q, 0)
  BY DEF Part
<1> QED
  BY <1>1 DEF Kept

Shorter(O2, H2, P2, F2, O, H, P, F) ==
  /\ \A s \in Shards : Kept(O2[s], O[s])
  /\ \A n \in Nodes : Kept(H2[n], H[n])
  /\ \A l \in Links : /\ Kept(P2[l], P[l]) /\ Len(F2[l]) = Len(F[l])
                      /\ \A k \in 1..Len(F[l]) : Kept(F2[l][k], F[l][k])

LEMMA Shorten ==
  ASSUME NEW O, NEW H, NEW P, NEW F, NEW R, NEW m, NEW O2, NEW H2, NEW P2, NEW F2,
         Typed(O, H, P, F, R), Typed(O2, H2, P2, F2, R), Line(O, H, P, F, R, m),
         Shorter(O2, H2, P2, F2, O, H, P, F)
  PROVE  Line(O2, H2, P2, F2, R, m)
<1>1. /\ \A s \in Shards : /\ Kept(O2[s], O[s]) /\ O2[s] \in Seq(Messages)
                           /\ O[s] \in Seq(Messages) /\ R[s] \in Seq(Messages)
      /\ \A n \in Nodes : Kept(H2[n], H[n]) /\ H2[n] \in Seq(Messages) /\ H[n] \in Seq(Messages)
      /\ \A l \in Links : /\ Kept(P2[l], P[l]) /\ P2[l] \in Seq(Messages) /\ P[l] \in Seq(Messages)
                          /\ Len(F2[l]) = Len(F[l]) /\ Len(F[l]) \in Nat
                          /\ \A k \in 1..Len(F[l]) : /\ Kept(F2[l][k], F[l][k])
                                                     /\ F2[l][k] \in Seq(Messages)
                                                     /\ F[l][k] \in Seq(Messages)
  BY DEF Typed, Shorter
<1>2. Origin(O2, H2, P2, F2, R)
  BY <1>1, KeptOrigin DEF Line, Origin
<1>3. Numbers(O2, H2, P2, F2, R, m)
  BY <1>1, KeptOrigin DEF Line, Numbers
<1>4. Order(O2, H2, P2, F2, R)
  <2>1. \A s \in Shards : Ascending(O2[s])
    BY <1>1, KeptOrder DEF Line, Order
  <2>2. \A l \in Links : Ascending(P2[l]) /\ \A k \in 1..Len(F2[l]) : Ascending(F2[l][k])
    BY <1>1, KeptOrder DEF Line, Order
  <2>3. \A n \in Nodes, s \in Shards : Before(H2[n], O2[s])
    BY <1>1, KeptBoth DEF Line, Order
  <2>4. \A l \in Links, s \in Shards : Before(P2[l], O2[s])
    BY <1>1, KeptBoth DEF Line, Order
  <2>5. \A l \in Links, n \in Nodes : Before(P2[l], H2[n])
    BY <1>1, KeptBoth DEF Line, Order
  <2>6. ASSUME NEW l \in Links, NEW k \in 1..Len(F2[l])
        PROVE  /\ \A s \in Shards : Before(F2[l][k], O2[s])
               /\ \A n \in Nodes : Before(F2[l][k], H2[n])
               /\ Before(F2[l][k], P2[l])
               /\ \A j \in 1..(k - 1) : Before(F2[l][j], F2[l][k])
    <3>1. \A s \in Shards : Before(F2[l][k], O2[s])
      BY <1>1, <2>6, KeptBoth DEF Line, Order
    <3>2. \A n \in Nodes : Before(F2[l][k], H2[n])
      BY <1>1, <2>6, KeptBoth DEF Line, Order
    <3>3. Before(F2[l][k], P2[l])
      BY <1>1, <2>6, KeptBoth DEF Line, Order
    <3>4. ASSUME NEW j \in 1..(k - 1) PROVE Before(F2[l][j], F2[l][k])
      <4>1. j \in 1..Len(F[l]) /\ k \in 1..Len(F[l])
        BY <1>1, <2>6, <3>4
      <4>2. Before(F[l][j], F[l][k])
        BY <4>1, <3>4 DEF Line, Order
      <4> QED
        BY <1>1, <4>1, <4>2, KeptBoth
    <3> QED
      BY <3>1, <3>2, <3>3, <3>4
  <2>7. ASSUME NEW t \in Shards
        PROVE  /\ \A s \in Shards : Before(R[t], O2[s])
               /\ \A n \in Nodes : Before(R[t], H2[n])
               /\ \A l \in Links : Before(R[t], P2[l])
    BY <1>1, KeptOrder DEF Line, Order
  <2> QED
    BY <2>1, <2>2, <2>3, <2>4, <2>5, <2>6, <2>7 DEF Order
<1>5. Once(F2, R)
  BY <1>1, KeptOrder DEF Line, Once
<1>6. FirstConnection(F2, R)
  <2>1. \A l \in Links : F2[l] = <<>> <=> F[l] = <<>>
    BY <1>1, EmptySeq DEF Typed
  <2>2. ASSUME NEW l \in Links, NEW t \in Shards, Len(F2[l]) = 1
        PROVE  AscendingOn(R[t], l) /\ Before(R[t], F2[l][1])
    BY <1>1, <2>2, KeptOrder DEF Line, FirstConnection
  <2> QED
    BY <2>1, <2>2 DEF Line, FirstConnection
<1> QED
  BY <1>2, <1>3, <1>4, <1>5, <1>6 DEF Line

LEMMA PutInHand ==
  ASSUME NEW O, NEW H, NEW P, NEW F, NEW R, NEW m, NEW H2, NEW n \in Nodes, NEW x \in Messages,
         Typed(O, H, P, F, R), Line(O, H, P, F, R, m),
         H2[n] = <<x>>, \A o \in Nodes : o # n => H2[o] = H[o],
         OfNode(<<x>>, n), Numbered(<<x>>, m),
         \A s \in Shards : Before(<<x>>, O[s]),
         \A l \in Links : /\ Before(P[l], <<x>>)
                          /\ \A k \in 1..Len(F[l]) : Before(F[l][k], <<x>>),
         \A t \in Shards : Before(R[t], <<x>>)
  PROVE  Line(O, H2, P, F, R, m)
<1>1. Origin(O, H2, P, F, R) /\ Numbers(O, H2, P, F, R, m)
  BY DEF Line, Origin, Numbers
<1>2. Order(O, H2, P, F, R)
  BY DEF Line, Order
<1> QED
  BY <1>1, <1>2 DEF Line

LEMMA PutInPipeline ==
  ASSUME NEW O, NEW H, NEW P, NEW F, NEW R, NEW m, NEW P2, NEW l \in Links, NEW x \in Messages,
         Typed(O, H, P, F, R), Line(O, H, P, F, R, m),
         P2[l] = Append(P[l], x), \A j \in Links : j # l => P2[j] = P[j],
         OnLink(<<x>>, l), Numbered(<<x>>, m),
         \A s \in Shards : Before(<<x>>, O[s]),
         \A n \in Nodes : Before(<<x>>, H[n]),
         Before(P[l], <<x>>),
         \A k \in 1..Len(F[l]) : Before(F[l][k], <<x>>),
         \A t \in Shards : Before(R[t], <<x>>)
  PROVE  Line(O, H, P2, F, R, m)
<1>1. /\ P[l] \in Seq(Messages)
      /\ \A s \in Shards : O[s] \in Seq(Messages) /\ R[s] \in Seq(Messages)
      /\ \A n \in Nodes : H[n] \in Seq(Messages)
      /\ \A k \in 1..Len(F[l]) : F[l][k] \in Seq(Messages)
  BY DEF Typed
<1>2. Origin(O, H, P2, F, R) /\ Numbers(O, H, P2, F, R, m)
  <2>1. OnLink(P2[l], l) /\ Numbered(P2[l], m)
    BY <1>1, AppendOrigin DEF Line, Origin, Numbers
  <2> QED
    BY <2>1 DEF Line, Origin, Numbers
<1>3. Order(O, H, P2, F, R)
  <2>0. /\ Ascending(P[l])
        /\ \A s \in Shards : Before(P[l], O[s]) /\ Before(R[s], P[l])
        /\ \A n \in Nodes : Before(P[l], H[n])
        /\ \A k \in 1..Len(F[l]) : Before(F[l][k], P[l])
    BY DEF Line, Order
  <2>1. Ascending(P2[l])
    BY <1>1, <2>0, AppendOrder
  <2>2. \A s \in Shards : Before(P2[l], O[s])
    BY <1>1, <2>0, AppendBefore
  <2>3. \A s \in Shards : Before(R[s], P2[l])
    BY <1>1, <2>0, AppendAfter
  <2>4. \A n \in Nodes : Before(P2[l], H[n])
    BY <1>1, <2>0, AppendBefore
  <2>5. \A k \in 1..Len(F[l]) : Before(F[l][k], P2[l])
    BY <1>1, <2>0, AppendAfter
  <2> QED
    BY <2>1, <2>2, <2>3, <2>4, <2>5 DEF Line, Order
<1> QED
  BY <1>2, <1>3 DEF Line

\* F2 is F with x at the end of the last connection of link l
LEMMA PutOnConnection ==
  ASSUME NEW O, NEW H, NEW P, NEW F, NEW R, NEW m, NEW F2, NEW l \in Links, NEW x \in Messages,
         NEW c \in Nat \ {0},
         Typed(O, H, P, F, R), Line(O, H, P, F, R, m),
         Len(F[l]) = c, Len(F2[l]) = c, F2[l][c] = Append(F[l][c], x), F2[l] # <<>>,
         \A k \in 1..(c - 1) : F2[l][k] = F[l][k],
         \A j \in Links : j # l => F2[j] = F[j],
         OnLink(<<x>>, l), Numbered(<<x>>, m),
         \A s \in Shards : Before(<<x>>, O[s]),
         \A n \in Nodes : Before(<<x>>, H[n]),
         Before(<<x>>, P[l]),
         \A k \in 1..c : Before(F[l][k], <<x>>),
         \A t \in Shards : Before(R[t], <<x>>)
  PROVE  Line(O, H, P, F2, R, m)
<1>1. /\ P[l] \in Seq(Messages) /\ c \in 1..Len(F[l]) /\ F[l][c] \in Seq(Messages)
      /\ \A s \in Shards : O[s] \in Seq(Messages) /\ R[s] \in Seq(Messages)
      /\ \A n \in Nodes : H[n] \in Seq(Messages)
      /\ \A k \in 1..c : F[l][k] \in Seq(Messages) /\ k \in 1..Len(F[l])
  BY DEF Typed
<1>2. \A k \in 1..Len(F2[l]) : k = c \/ k \in 1..(c - 1)
  OBVIOUS
<1>3. Origin(O, H, P, F2, R) /\ Numbers(O, H, P, F2, R, m)
  <2>1. OnLink(F2[l][c], l) /\ Numbered(F2[l][c], m)
    BY <1>1, AppendOrigin DEF Line, Origin, Numbers
  <2>2. \A k \in 1..Len(F2[l]) : OnLink(F2[l][k], l) /\ Numbered(F2[l][k], m)
    BY <1>1, <1>2, <2>1 DEF Line, Origin, Numbers
  <2> QED
    BY <2>2 DEF Line, Origin, Numbers
<1>4. Order(O, H, P, F2, R)
  <2>1. /\ Ascending(F2[l][c]) /\ \A s \in Shards : Before(F2[l][c], O[s])
        /\ \A n \in Nodes : Before(F2[l][c], H[n])
        /\ Before(F2[l][c], P[l])
    <3>1. /\ Ascending(F[l][c]) /\ Before(F[l][c], <<x>>)
          /\ \A s \in Shards : Before(F[l][c], O[s])
          /\ \A n \in Nodes : Before(F[l][c], H[n])
          /\ Before(F[l][c], P[l])
      BY <1>1 DEF Line, Order
    <3> QED
      BY <1>1, <3>1, AppendOrder
  <2>2. \A j \in 1..(c - 1) : Before(F2[l][j], F2[l][c])
    <3>1. \A j \in 1..(c - 1) : /\ F2[l][j] = F[l][j] /\ F[l][j] \in Seq(Messages)
                                /\ Before(F[l][j], F[l][c]) /\ Before(F[l][j], <<x>>)
      BY <1>1 DEF Line, Order
    <3> QED
      BY <1>1, <3>1, AppendOrder
  <2>3. ASSUME NEW k \in 1..Len(F2[l])
        PROVE  /\ Ascending(F2[l][k])
               /\ \A s \in Shards : Before(F2[l][k], O[s])
               /\ \A n \in Nodes : Before(F2[l][k], H[n])
               /\ Before(F2[l][k], P[l])
               /\ \A j \in 1..(k - 1) : Before(F2[l][j], F2[l][k])
    <3>1. CASE k = c
      BY <2>1, <2>2, <3>1
    <3>2. CASE k \in 1..(c - 1)
      <4>1. /\ k \in 1..Len(F[l]) /\ F2[l][k] = F[l][k]
            /\ \A j \in 1..(k - 1) : F2[l][j] = F[l][j]
        BY <3>2
      <4> QED
        BY <4>1 DEF Line, Order
    <3> QED
      BY <1>2, <3>1, <3>2
  <2> QED
    BY <2>3 DEF Line, Order
<1>5. Once(F2, R)
  <2>1. \A t \in Shards : Apart(R[t], F2[l][c])
    <3>0. <<x>> \in Seq(Messages)
      OBVIOUS
    <3>1. \A t \in Shards : Apart(R[t], <<x>>)
      BY <1>1, <3>0, BeforeApart
    <3>2. \A t \in Shards : Apart(R[t], F[l][c])
      BY <1>1 DEF Line, Once
    <3> QED
      BY <1>1, <3>1, <3>2, AppendOrder
  <2> QED
    BY <1>1, <1>2, <2>1 DEF Line, Once
<1>6. FirstConnection(F2, R)
  <2>1. ASSUME NEW t \in Shards, c = 1
        PROVE  Before(R[t], F2[l][c]) /\ AscendingOn(R[t], l)
    BY <1>1, <2>1, AppendOrder DEF Line, FirstConnection
  <2> QED
    BY <2>1 DEF Line, FirstConnection
<1> QED
  BY <1>3, <1>4, <1>5, <1>6 DEF Line

\* R2 is R with x received by t, from a connection of link l
LEMMA PutReceived ==
  ASSUME NEW O, NEW H, NEW P, NEW F, NEW R, NEW m, NEW R2, NEW l \in Links, NEW t \in Shards,
         NEW x \in Messages,
         Typed(O, H, P, F, R), Line(O, H, P, F, R, m),
         R2[t] = Append(R[t], x), \A s \in Shards : s # t => R2[s] = R[s],
         OnLink(<<x>>, l), For(<<x>>, t), Numbered(<<x>>, m), F[l] # <<>>,
         \A s \in Shards : Before(<<x>>, O[s]),
         \A n \in Nodes : Before(<<x>>, H[n]),
         \A j \in Links : Before(<<x>>, P[j]),
         \A j \in Links : \A k \in 1..Len(F[j]) : Apart(<<x>>, F[j][k]),
         Apart(R[t], <<x>>),
         Len(F[l]) = 1 => Before(R[t], <<x>>) /\ Before(<<x>>, F[l][1])
  PROVE  Line(O, H, P, F, R2, m)
<1>1. /\ \A s \in Shards : O[s] \in Seq(Messages) /\ R[s] \in Seq(Messages)
      /\ \A n \in Nodes : H[n] \in Seq(Messages)
      /\ \A j \in Links : P[j] \in Seq(Messages)
      /\ \A j \in Links : Len(F[j]) \in Nat /\ \A k \in 1..Len(F[j]) : F[j][k] \in Seq(Messages)
  BY DEF Typed
<1>2. Origin(O, H, P, F, R2) /\ Numbers(O, H, P, F, R2, m)
  <2>1. For(R2[t], t) /\ Numbered(R2[t], m)
    BY <1>1, AppendOrigin DEF Line, Origin, Numbers
  <2> QED
    BY <2>1 DEF Line, Origin, Numbers
<1>3. Order(O, H, P, F, R2)
  <2>1. /\ \A s \in Shards : Before(R2[t], O[s])
        /\ \A n \in Nodes : Before(R2[t], H[n])
        /\ \A j \in Links : Before(R2[t], P[j])
    BY <1>1, AppendOrder DEF Line, Order
  <2> QED
    BY <2>1 DEF Line, Order
<1>4. Once(F, R2)
  <2>1. Distinct(R2[t]) /\ \A j \in Links : \A k \in 1..Len(F[j]) : Apart(R2[t], F[j][k])
    BY <1>1, AppendOrder DEF Line, Once
  <2> QED
    BY <2>1 DEF Line, Once
<1>5. FirstConnection(F, R2)
  <2> SUFFICES ASSUME NEW j \in Links
               PROVE  /\ F[j] = <<>> => \A i \in 1..Len(R2[t]) : LinkOf(R2[t][i]) # j
                      /\ Len(F[j]) = 1 => AscendingOn(R2[t], j) /\ Before(R2[t], F[j][1])
    BY DEF Line, FirstConnection
  <2>1. /\ Len(R2[t]) = Len(R[t]) + 1 /\ R2[t][Len(R[t]) + 1] = x /\ Len(R[t]) \in Nat
        /\ \A i \in 1..Len(R[t]) : R2[t][i] = R[t][i]
    BY <1>1, AppendFacts
  <2>2. \A i \in 1..Len(R2[t]) : i \in 1..Len(R[t]) \/ i = Len(R[t]) + 1
    BY <2>1
  <2>3. LinkOf(x) = l
    BY DEF OnLink
  <2>4. CASE j = l
    <3>1. SUFFICES ASSUME Len(F[l]) = 1
                   PROVE  AscendingOn(R2[t], l) /\ Before(R2[t], F[l][1])
      BY <2>4
    <3>2. AscendingOn(R[t], l) /\ Before(R[t], F[l][1]) /\ F[l][1] \in Seq(Messages)
      BY <1>1, <3>1 DEF Line, FirstConnection
    <3>3. Before(R2[t], F[l][1])
      BY <1>1, <3>1, <3>2, AppendBefore
    <3>4. \A i \in 1..Len(R[t]) : SameWay(R[t][i], x) => R[t][i].id < x.id
      BY <3>1 DEF Before
    <3>5. AscendingOn(R2[t], l)
      BY <2>1, <2>2, <3>2, <3>4 DEF AscendingOn
    <3> QED
      BY <3>3, <3>5
  <2>5. CASE j # l
    <3>1. F[j] = <<>> => \A i \in 1..Len(R2[t]) : LinkOf(R2[t][i]) # j
      BY <2>1, <2>2, <2>3, <2>5 DEF Line, FirstConnection
    <3>2. ASSUME Len(F[j]) = 1 PROVE AscendingOn(R2[t], j) /\ Before(R2[t], F[j][1])
      <4>1. AscendingOn(R[t], j) /\ Before(R[t], F[j][1]) /\ F[j][1] \in Seq(Messages)
        BY <1>1, <3>2 DEF Line, FirstConnection
      <4>2. OnLink(F[j][1], j)
        BY <3>2 DEF Line, Origin
      <4>3. Before(<<x>>, F[j][1])
        <5>1. <<x>> \in Seq(Messages)
          OBVIOUS
        <5> QED
          BY <2>5, <4>1, <4>2, <5>1, OriginApart
      <4>4. Before(R2[t], F[j][1])
        BY <1>1, <4>1, <4>3, AppendBefore
      <4>5. \A i \in 1..Len(R[t]) : LinkOf(R[t][i]) = j => ~SameWay(R[t][i], x)
        BY <2>3, <2>5 DEF SameWay, LinkOf
      <4>6. AscendingOn(R2[t], j)
        BY <2>1, <2>2, <2>3, <2>5, <4>1, <4>5 DEF AscendingOn
      <4> QED
        BY <4>4, <4>6
    <3> QED
      BY <3>1, <3>2
  <2> QED
    BY <2>4, <2>5
<1> QED
  BY <1>2, <1>3, <1>4, <1>5 DEF Line

\* F2 is F with a new connection on link l
LEMMA OpenConnection ==
  ASSUME NEW O, NEW H, NEW P, NEW F, NEW R, NEW m, NEW F2, NEW l \in Links, NEW c \in Nat,
         Typed(O, H, P, F, R), Line(O, H, P, F, R, m),
         Len(F[l]) = c, Len(F2[l]) = c + 1, F2[l][c + 1] = <<>>, F2[l] # <<>>,
         c = 0 => F[l] = <<>>,
         \A k \in 1..c : F2[l][k] = F[l][k],
         \A j \in Links : j # l => F2[j] = F[j]
  PROVE  Line(O, H, P, F2, R, m)
<1>1. \A k \in 1..Len(F2[l]) : k = c + 1 \/ k \in 1..c
  OBVIOUS
<1>3. OnLink(<<>>, l) /\ Numbered(<<>>, m)
  BY DEF OnLink, Numbered
<1>4. Origin(O, H, P, F2, R) /\ Numbers(O, H, P, F2, R, m)
  BY <1>1, <1>3 DEF Line, Origin, Numbers
<1>5. Order(O, H, P, F2, R)
  <2>1. ASSUME NEW k \in 1..Len(F2[l])
        PROVE  /\ Ascending(F2[l][k])
               /\ \A s \in Shards : Before(F2[l][k], O[s])
               /\ \A n \in Nodes : Before(F2[l][k], H[n])
               /\ Before(F2[l][k], P[l])
               /\ \A j \in 1..(k - 1) : Before(F2[l][j], F2[l][k])
    <3>1. CASE k = c + 1
      BY <3>1, EmptyOrder
    <3>2. CASE k \in 1..c
      <4>1. /\ k \in 1..Len(F[l]) /\ F2[l][k] = F[l][k]
            /\ \A j \in 1..(k - 1) : F2[l][j] = F[l][j]
        BY <3>2
      <4> QED
        BY <4>1 DEF Line, Order
    <3> QED
      BY <1>1, <3>1, <3>2
  <2> QED
    BY <2>1 DEF Line, Order
<1>6. Once(F2, R)
  BY <1>1, EmptyOrder DEF Line, Once
<1>7. FirstConnection(F2, R)
  <2>1. ASSUME NEW t \in Shards, c + 1 = 1
        PROVE  AscendingOn(R[t], l) /\ Before(R[t], F2[l][1])
    <3>1. c = 0
      BY <2>1
    <3>2. \A i \in 1..Len(R[t]) : LinkOf(R[t][i]) # l
      BY <3>1 DEF Line, FirstConnection
    <3>3. F2[l][1] = <<>>
      BY <3>1
    <3> QED
      BY <3>2, <3>3, EmptyOrder DEF AscendingOn
  <2> QED
    BY <2>1 DEF Line, FirstConnection
<1> QED
  BY <1>4, <1>5, <1>6, <1>7 DEF Line

LEMMA ConcatOrder ==
  ASSUME NEW p \in Seq(Messages), NEW q \in Seq(Messages)
  PROVE  /\ Ascending(p) /\ Ascending(q) /\ Before(p, q) => Ascending(p \o q)
         /\ \A r \in Seq(Messages) : Before(r, p) /\ Before(r, q) => Before(r, p \o q)
         /\ \A s \in Shards : OfShard(p, s) /\ OfShard(q, s) => OfShard(p \o q, s)
         /\ \A m : Numbered(p, m) /\ Numbered(q, m) => Numbered(p \o q, m)
<1> DEFINE c == p \o q
<1>1. /\ Len(p) \in Nat /\ Len(q) \in Nat /\ Len(c) = Len(p) + Len(q)
      /\ \A i \in 1..Len(p) : c[i] = p[i]
      /\ \A i \in 1..Len(q) : c[Len(p) + i] = q[i]
  OBVIOUS
<1>2. \A i \in 1..Len(c) : i \in 1..Len(p) \/ \E j \in 1..Len(q) : i = Len(p) + j
  <2>1. \A i \in 1..Len(c) : i \in 1..Len(p) \/ (i - Len(p) \in 1..Len(q) /\ i = Len(p) + (i - Len(p)))
    BY <1>1
  <2> QED
    BY <2>1
<1> HIDE DEF c
<1>3. Ascending(p) /\ Ascending(q) /\ Before(p, q) => Ascending(c)
  <2> SUFFICES ASSUME Ascending(p), Ascending(q), Before(p, q),
                      NEW i \in 1..Len(c), NEW k \in 1..Len(c), i < k, SameWay(c[i], c[k])
               PROVE  c[i].id < c[k].id
    BY DEF Ascending
  <2>1. CASE k \in 1..Len(p)
    BY <1>1, <2>1 DEF Ascending
  <2>2. ASSUME NEW j \in 1..Len(q), k = Len(p) + j PROVE c[i].id < c[k].id
    <3>1. c[k] = q[j]
      BY <1>1, <2>2
    <3>2. CASE i \in 1..Len(p)
      BY <1>1, <3>1, <3>2 DEF Before
    <3>3. ASSUME NEW h \in 1..Len(q), i = Len(p) + h PROVE c[i].id < c[k].id
      <4>1. c[i] = q[h] /\ h < j
        BY <1>1, <2>2, <3>3
      <4> QED
        BY <3>1, <4>1 DEF Ascending
    <3> QED
      BY <1>2, <3>2, <3>3
  <2> QED
    BY <1>2, <2>1, <2>2
<1>4. \A r \in Seq(Messages) : Before(r, p) /\ Before(r, q) => Before(r, c)
  BY <1>1, <1>2 DEF Before
<1>5. ASSUME NEW s \in Shards, OfShard(p, s), OfShard(q, s) PROVE OfShard(c, s)
  <2> SUFFICES ASSUME NEW i \in 1..Len(c) PROVE c[i].from = s /\ c[i].to # s[1]
    BY DEF OfShard
  <2>1. CASE i \in 1..Len(p)
    BY <1>1, <1>5, <2>1 DEF OfShard
  <2>2. ASSUME NEW j \in 1..Len(q), i = Len(p) + j PROVE c[i].from = s /\ c[i].to # s[1]
    BY <1>1, <1>5, <2>2 DEF OfShard
  <2> QED
    BY <1>2, <2>1, <2>2
<1>6. \A m : Numbered(p, m) /\ Numbered(q, m) => Numbered(c, m)
  BY <1>1, <1>2 DEF Numbered
<1> QED
  BY <1>3, <1>4, <1>5, <1>6 DEF c

\* shard s makes messages, with numbers above those it has used
LEMMA MakeMessages ==
  ASSUME NEW O, NEW H, NEW P, NEW F, NEW R, NEW m, NEW O2, NEW m2, NEW s \in Shards,
         NEW new \in Seq(Messages),
         Typed(O, H, P, F, R), Line(O, H, P, F, R, m),
         O2[s] = O[s] \o new, \A r \in Shards : r # s => O2[r] = O[r],
         \A r \in Shards : m[r] \in Nat /\ m2[r] \in Nat /\ m[r] <= m2[r],
         OfShard(new, s), Ascending(new),
         \A i \in 1..Len(new) : m[s] < new[i].id /\ new[i].id <= m2[s]
  PROVE  Line(O2, H, P, F, R, m2)
<1>1. /\ \A r \in Shards : O[r] \in Seq(Messages) /\ R[r] \in Seq(Messages)
      /\ \A n \in Nodes : H[n] \in Seq(Messages)
      /\ \A j \in Links : P[j] \in Seq(Messages)
      /\ \A j \in Links : \A k \in 1..Len(F[j]) : F[j][k] \in Seq(Messages)
  BY DEF Typed
<1>2. ASSUME NEW q \in Seq(Messages), NEW i \in 1..Len(q)
      PROVE  q[i].from \in Shards /\ q[i].id \in Nat
  <2>1. q[i] \in Messages
    OBVIOUS
  <2> QED
    BY <2>1 DEF Messages
<1>3. \A q \in Seq(Messages) : Numbered(q, m) => Numbered(q, m2) /\ Before(q, new)
  <2> SUFFICES ASSUME NEW q \in Seq(Messages), Numbered(q, m)
               PROVE  Numbered(q, m2) /\ Before(q, new)
    OBVIOUS
  <2>1. Numbered(q, m2)
    BY <1>2 DEF Numbered
  <2>2. ASSUME NEW i \in 1..Len(q), NEW j \in 1..Len(new), SameWay(q[i], new[j])
        PROVE  q[i].id < new[j].id
    <3>1. q[i].from = s /\ q[i].id <= m[s]
      BY <2>2 DEF SameWay, OfShard, Numbered
    <3>2. m[s] < new[j].id /\ q[i].id \in Nat /\ new[j].id \in Nat /\ m[s] \in Nat
      BY <1>2
    <3> QED
      BY <3>1, <3>2
  <2> QED
    BY <2>1, <2>2 DEF Before
<1>4. Origin(O2, H, P, F, R)
  <2>1. OfShard(O2[s], s)
    BY <1>1, ConcatOrder DEF Line, Origin
  <2> QED
    BY <2>1 DEF Line, Origin
<1>5. Numbers(O2, H, P, F, R, m2)
  <2>1. Numbered(new, m2)
    BY DEF OfShard, Numbered
  <2>2. Numbered(O[s], m2)
    BY <1>1, <1>3 DEF Line, Numbers
  <2>3. Numbered(O2[s], m2)
    BY <1>1, <2>1, <2>2, ConcatOrder
  <2> QED
    BY <1>1, <1>3, <2>3 DEF Line, Numbers
<1>6. Order(O2, H, P, F, R)
  <2>1. /\ \A n \in Nodes : Before(H[n], new)
        /\ \A l \in Links : Before(P[l], new)
        /\ \A l \in Links : \A k \in 1..Len(F[l]) : Before(F[l][k], new)
        /\ \A t \in Shards : Before(R[t], new)
        /\ Before(O[s], new)
    BY <1>1, <1>3 DEF Line, Numbers
  <2>2. Ascending(O2[s])
    BY <1>1, <2>1, ConcatOrder DEF Line, Order
  <2>3. ASSUME NEW q \in Seq(Messages), Before(q, O[s]), Before(q, new) PROVE Before(q, O2[s])
    BY <1>1, <2>3, ConcatOrder
  <2>4. /\ \A n \in Nodes : Before(H[n], O2[s])
        /\ \A l \in Links : Before(P[l], O2[s])
        /\ \A l \in Links : \A k \in 1..Len(F[l]) : Before(F[l][k], O2[s])
        /\ \A t \in Shards : Before(R[t], O2[s])
    BY <1>1, <2>1, <2>3 DEF Line, Order
  <2> QED
    BY <2>2, <2>4 DEF Line, Order
<1> QED
  BY <1>4, <1>5, <1>6 DEF Line

-----------------------------------------------------------------------------
(***************************************************************************)
(* The steps, seen as changes of the line.                                 *)
(***************************************************************************)
LEMMA Concats ==
  ASSUME NEW p \in Seq(Messages), NEW q \in Seq(Messages)
  PROVE  /\ p \o q \in Seq(Messages)
         /\ q # <<>> => Append(p, Head(q)) \o Tail(q) = p \o q
         /\ p # <<>> => p \o q # <<>> /\ Head(p \o q) = Head(p) /\ Tail(p \o q) = Tail(p) \o q
         /\ \A x \in Messages : p \o Append(q, x) = Append(p \o q, x)
         /\ <<>> \o q = q /\ p \o <<>> = p
<1>1. p \o q \in Seq(Messages) /\ <<>> \o q = q /\ p \o <<>> = p
  OBVIOUS
<1>2. ASSUME q # <<>> PROVE Append(p, Head(q)) \o Tail(q) = p \o q
  <2>1. /\ Head(q) \in Messages /\ Tail(q) \in Seq(Messages) /\ Len(Tail(q)) = Len(q) - 1
        /\ Len(q) \in Nat \ {0} /\ Head(q) = q[1]
        /\ \A i \in 1..(Len(q) - 1) : Tail(q)[i] = q[i + 1]
    BY <1>2, TailFacts
  <2> QED
    BY <2>1
<1>3. ASSUME p # <<>>
      PROVE  p \o q # <<>> /\ Head(p \o q) = Head(p) /\ Tail(p \o q) = Tail(p) \o q
  <2>1. /\ Head(p) \in Messages /\ Tail(p) \in Seq(Messages) /\ Len(Tail(p)) = Len(p) - 1
        /\ Len(p) \in Nat \ {0} /\ Head(p) = p[1]
        /\ \A i \in 1..(Len(p) - 1) : Tail(p)[i] = p[i + 1]
    BY <1>3, TailFacts
  <2>2. Len(p \o q) = Len(p) + Len(q) /\ Len(q) \in Nat
    OBVIOUS
  <2>3. p \o q # <<>> /\ Head(p \o q) = Head(p)
    BY <2>1, <2>2
  <2> QED
    BY <2>1, <2>2, <2>3
<1>4. \A x \in Messages : p \o Append(q, x) = Append(p \o q, x)
  OBVIOUS
<1> QED
  BY <1>1, <1>2, <1>3, <1>4

LEMMA ConcatAppend ==
  \A p, q \in Seq(Messages) : \A x \in Messages : p \o Append(q, x) = Append(p \o q, x)
  OBVIOUS

LEMMA SplitQueue ==
  ASSUME NEW q \in Seq(Messages), NEW k \in 0..Len(q)
  PROVE  SubSeq(q, 1, k) \o SubSeq(q, k + 1, Len(q)) = q
<1> DEFINE a == SubSeq(q, 1, k)
           b == SubSeq(q, k + 1, Len(q))
<1>1. /\ a \in Seq(Messages) /\ Len(a) = k /\ \A i \in 1..k : a[i] = q[i]
      /\ b \in Seq(Messages) /\ Len(b) = Len(q) - k /\ \A i \in 1..(Len(q) - k) : b[i] = q[k + i]
  BY SubSeqFacts
<1> HIDE DEF a, b
<1>2. a \o b \in Seq(Messages) /\ Len(a \o b) = Len(q)
  <2>1. k \in Nat /\ Len(q) \in Nat /\ k + (Len(q) - k) = Len(q)
    OBVIOUS
  <2>2. a \o b \in Seq(Messages) /\ Len(a \o b) = Len(a) + Len(b)
    BY <1>1, ConcatProperties
  <2> QED
    BY <1>1, <2>1, <2>2
<1>3. ASSUME NEW i \in 1..Len(q) PROVE (a \o b)[i] = q[i]
  <2>1. k \in Nat /\ Len(q) \in Nat /\ i \in Nat
    OBVIOUS
  <2>2. CASE i <= k
    BY <1>1, <2>1, <2>2
  <2>3. CASE i > k
    <3>1. i - k \in 1..(Len(q) - k) /\ k + (i - k) = i
      BY <2>1, <2>3
    <3>2. (a \o b)[i] = b[i - k]
      BY <1>1, <2>1, <2>3
    <3>3. b[i - k] = q[k + (i - k)]
      BY <1>1, <3>1
    <3> QED
      BY <3>1, <3>2, <3>3
  <2>4. i <= k \/ i > k
    BY <2>1
  <2> QED
    BY <2>2, <2>3, <2>4, Zenon
<1> QED
  BY <1>2, <1>3, SeqEqual DEF a, b

LEMMA ViewTyped == TypeInv => Typed(Outgoing, hand, Pipeline, Flow, Received)
<1> SUFFICES ASSUME TypeInv PROVE Typed(Outgoing, hand, Pipeline, Flow, Received)
  OBVIOUS
<1>1. \A s \in Shards : Outgoing[s] \in Seq(Messages) /\ Received[s] \in Seq(Messages)
  <2>1. \A s \in Shards : /\ outbound[s] \in Seq(Messages) /\ toSend[s] \in Seq(Messages)
                          /\ stepped[s] \in Seq(Messages) /\ inbound[s] \in Seq(Messages)
    BY DEF TypeInv, TypeOK
  <2> QED
    BY <2>1 DEF Outgoing, Received
<1>2. \A n \in Nodes : hand[n] \in Seq(Messages)
  BY DEF TypeInv, TypeOK
<1>3. \A l \in Links : Pipeline[l] \in Seq(Messages)
  <2>1. \A l \in Links : sender[l].batch \in Seq(Messages) /\ queue[l] \in Seq(Messages)
    BY DEF TypeInv, TypeOK
  <2> QED
    BY <2>1 DEF Pipeline
<1>4. \A l \in Links : /\ Flow[l] \in Seq(Seq(Messages))
                       /\ \A k \in 1..Len(Flow[l]) : Flow[l][k] \in Seq(Messages)
  <2>1. \A l \in Links : Len(conns[l]) \in Nat /\ \A k \in 1..Len(conns[l]) : conns[l][k] \in Conns
    BY DEF TypeInv, TypeOK
  <2>2. \A l \in Links : \A k \in 1..Len(conns[l]) : conns[l][k].flow \in Seq(Messages)
    BY <2>1, ConnFields
  <2> QED
    BY <2>1, <2>2 DEF Flow
<1> QED
  BY <1>1, <1>2, <1>3, <1>4 DEF Typed

FlowView ==
  \A l \in Links :
    /\ Len(Flow[l]) = Len(conns[l]) /\ Len(conns[l]) \in Nat
    /\ Flow[l] = <<>> <=> conns[l] = <<>>
    /\ conns[l] = <<>> <=> Len(conns[l]) = 0
    /\ \A k \in 1..Len(conns[l]) : Flow[l][k] = conns[l][k].flow

LEMMA FlowFacts == TypeInv => FlowView
<1> SUFFICES ASSUME TypeInv, NEW l \in Links
             PROVE  /\ Len(Flow[l]) = Len(conns[l]) /\ Len(conns[l]) \in Nat
                    /\ Flow[l] = <<>> <=> conns[l] = <<>>
                    /\ conns[l] = <<>> <=> Len(conns[l]) = 0
                    /\ \A k \in 1..Len(conns[l]) : Flow[l][k] = conns[l][k].flow
  BY DEF FlowView
<1>1. conns[l] \in Seq(Conns) /\ Len(conns[l]) \in Nat
  BY DEF TypeInv, TypeOK
<1>2. Flow[l] = [k \in 1..Len(conns[l]) |-> conns[l][k].flow]
  BY DEF Flow
<1>3. Len(Flow[l]) = Len(conns[l])
  BY <1>1, <1>2
<1> QED
  BY <1>1, <1>2, <1>3, EmptySeq

LEMMA HeadKept ==
  ASSUME NEW q \in Seq(Messages), q # <<>>
  PROVE  /\ Head(q) \in Messages /\ <<Head(q)>> \in Seq(Messages) /\ Tail(q) \in Seq(Messages)
         /\ Kept(<<Head(q)>>, q) /\ Kept(Tail(q), q)
         /\ Ascending(q) => Before(<<Head(q)>>, Tail(q))
<1>1. Part(<<Head(q)>>, q, 0) /\ Part(Tail(q), q, 1)
  BY HeadTailParts
<1> QED
  BY <1>1, HeadTailParts DEF Kept

LEMMA TakeOutboundOrder ==
  ASSUME TypeInv, TypeInv', OrderInv, NEW s \in Shards, TakeOutbound(s)
  PROVE  OrderInv'
<1> DEFINE x == Head(outbound[s])
           l == LinkOf(x)
           n == s[1]
<1>1. /\ outbound' = [outbound EXCEPT ![s] = Tail(@)]
      /\ UNCHANGED <<engine, toSend, made, inbound, eventfd, sender, conns, stepped>>
      /\ hand[n] = <<>> /\ outbound[s] # <<>> /\ n \in Nodes
      /\ IF HasRoom(x) THEN queue' = [queue EXCEPT ![l] = Append(@, x)] /\ hand' = hand
         ELSE hand' = [hand EXCEPT ![n] = <<x>>] /\ queue' = queue
  BY ShardFacts DEF TakeOutbound, engineVars
<1>2. /\ Typed(Outgoing, hand, Pipeline, Flow, Received)
      /\ Typed(Outgoing, hand, Pipeline, Flow, Received)'
  BY ViewTyped, PTL
<1>3. Line(Outgoing, hand, Pipeline, Flow, Received, made)
  BY DEF OrderInv
<1>4. /\ Outgoing[s] # <<>> /\ Head(Outgoing[s]) = x /\ Outgoing'[s] = Tail(Outgoing[s])
      /\ \A r \in Shards : r # s => Outgoing'[r] = Outgoing[r]
  <2>1. /\ outbound[s] \in Seq(Messages) /\ toSend[s] \in Seq(Messages)
        /\ outbound'[s] = Tail(outbound[s]) /\ \A r \in Shards : r # s => outbound'[r] = outbound[r]
    BY <1>1 DEF TypeInv, TypeOK
  <2>2. /\ outbound[s] \o toSend[s] # <<>> /\ Head(outbound[s] \o toSend[s]) = x
        /\ Tail(outbound[s] \o toSend[s]) = Tail(outbound[s]) \o toSend[s]
    BY <1>1, <2>1, Concats
  <2>3. \A r \in Shards : /\ Outgoing[r] = outbound[r] \o toSend[r]
                          /\ Outgoing'[r] = outbound'[r] \o toSend'[r]
    BY DEF Outgoing
  <2>4. toSend' = toSend
    BY <1>1
  <2>5. \A r \in Shards : r # s => Outgoing'[r] = Outgoing[r]
    BY <2>1, <2>3, <2>4
  <2>6. Outgoing'[s] = Tail(outbound[s]) \o toSend[s] /\ Outgoing[s] = outbound[s] \o toSend[s]
    BY <2>1, <2>3, <2>4
  <2> QED
    BY <2>2, <2>5, <2>6
<1>5. Flow' = Flow /\ Received' = Received /\ made' = made
  BY <1>1 DEF Flow, Received
<1>6. Outgoing[s] \in Seq(Messages) /\ Outgoing'[s] \in Seq(Messages)
  BY <1>2 DEF Typed
<1>7. /\ x \in Messages /\ <<x>> \in Seq(Messages) /\ Kept(<<x>>, Outgoing[s])
      /\ Kept(Outgoing'[s], Outgoing[s]) /\ Before(<<x>>, Outgoing'[s])
  <2>1. Ascending(Outgoing[s])
    BY <1>3 DEF Line, Order
  <2> QED
    BY <1>4, <1>6, <2>1, HeadKept
<1> HIDE DEF x, l
<1>8. Typed(Outgoing', hand, Pipeline, Flow, Received)
  BY <1>2, <1>5 DEF Typed
<1>9. Line(Outgoing', hand, Pipeline, Flow, Received, made)
  <2>1. Shorter(Outgoing', hand, Pipeline, Flow, Outgoing, hand, Pipeline, Flow)
    BY <1>2, <1>4, <1>7, KeptSelf DEF Shorter, Typed
  <2> QED
    BY <1>2, <1>3, <1>8, <2>1, Shorten
<1>10. OfShard(<<x>>, s) /\ Numbered(<<x>>, made)
  <2>1. OfShard(Outgoing[s], s) /\ Numbered(Outgoing[s], made)
    BY <1>3 DEF Line, Origin, Numbers
  <2> QED
    BY <1>6, <1>7, <2>1, KeptOrigin
<1>11. l \in Links /\ OnLink(<<x>>, l) /\ OfNode(<<x>>, n) /\ l[1] = n
  <2>1. x.from = s /\ x.to # s[1] /\ x.to \in Nodes
    BY <1>7, <1>10 DEF OfShard, Messages
  <2> QED
    BY <1>1, <2>1 DEF l, LinkOf, Links, OnLink, OfNode
<1>12. \A r \in Shards : Before(<<x>>, Outgoing'[r]) /\ Before(Received[r], <<x>>)
  <2>1. \A r \in Shards : /\ r # s => OfShard(Outgoing'[r], r)
                          /\ Outgoing'[r] \in Seq(Messages) /\ Received[r] \in Seq(Messages)
    BY <1>2, <1>9, <1>8 DEF Typed, Line, Origin
  <2>2. \A r \in Shards : Before(<<x>>, Outgoing'[r])
    BY <1>7, <1>10, <2>1, OriginApart
  <2>3. \A r \in Shards : Before(Received[r], Outgoing[s])
    BY <1>3 DEF Line, Order
  <2>4. ASSUME NEW r \in Shards PROVE Before(Received[r], <<x>>)
    <3>1. Received[r] \in Seq(Messages) /\ Before(Received[r], Outgoing[s])
      BY <2>1, <2>3
    <3> QED
      BY <1>6, <1>7, <3>1, KeptAfter
  <2> QED
    BY <2>2, <2>4
<1>13. \A j \in Links : /\ Before(Pipeline[j], <<x>>)
                        /\ \A k \in 1..Len(Flow[j]) : Before(Flow[j][k], <<x>>)
  BY <1>2, <1>3, <1>6, <1>7, KeptOrder DEF Typed, Line, Order
<1>14. CASE HasRoom(x)
  <2>1. Pipeline'[l] = Append(Pipeline[l], x) /\ \A j \in Links : j # l => Pipeline'[j] = Pipeline[j]
    <3>1. queue'[l] = Append(queue[l], x) /\ \A j \in Links : j # l => queue'[j] = queue[j]
      BY <1>1, <1>11, <1>14 DEF TypeInv, TypeOK
    <3>2. sender[l].batch \in Seq(Messages) /\ queue[l] \in Seq(Messages)
      BY <1>11 DEF TypeInv, TypeOK
    <3>3. sender[l].batch \o Append(queue[l], x) = Append(sender[l].batch \o queue[l], x)
      BY <1>7, <3>2, ConcatAppend
    <3> QED
      BY <1>1, <1>11, <3>1, <3>3 DEF Pipeline
  <2>2. \A o \in Nodes : Before(<<x>>, hand[o])
    <3>1. \A o \in Nodes : OfNode(hand[o], o) /\ hand[o] \in Seq(Messages)
      BY <1>2, <1>3 DEF Line, Origin, Typed
    <3> QED
      BY <1>1, <1>7, <1>11, <3>1, OriginApart, EmptyOrder
  <2>3. Line(Outgoing', hand, Pipeline', Flow, Received, made)
    BY <1>7, <1>8, <1>9, <1>10, <1>11, <1>12, <1>13, <2>1, <2>2, PutInPipeline
  <2> QED
    BY <1>1, <1>5, <1>14, <2>3 DEF OrderInv
<1>15. CASE ~HasRoom(x)
  <2>1. hand'[n] = <<x>> /\ \A o \in Nodes : o # n => hand'[o] = hand[o]
    BY <1>1, <1>15 DEF TypeInv, TypeOK
  <2>2. Pipeline' = Pipeline
    BY <1>1, <1>15 DEF Pipeline
  <2>3. Line(Outgoing', hand', Pipeline, Flow, Received, made)
    BY <1>1, <1>7, <1>8, <1>9, <1>10, <1>11, <1>12, <1>13, <2>1, PutInHand
  <2> QED
    BY <1>5, <2>2, <2>3 DEF OrderInv
<1> QED
  BY <1>14, <1>15

LEMMA PlaceHeldOrder ==
  ASSUME TypeInv, TypeInv', OrderInv, NEW n \in Nodes, PlaceHeld(n)
  PROVE  OrderInv'
<1> DEFINE x == hand[n][1]
           l == LinkOf(x)
<1>1. /\ queue' = [queue EXCEPT ![l] = Append(@, x)] /\ hand[n] # <<>>
      /\ hand' = [hand EXCEPT ![n] = <<>>]
      /\ UNCHANGED <<engine, toSend, made, inbound, outbound, eventfd, sender, conns, stepped>>
  BY DEF PlaceHeld, engineVars
<1>2. /\ Typed(Outgoing, hand, Pipeline, Flow, Received)
      /\ Typed(Outgoing, hand, Pipeline, Flow, Received)'
  BY ViewTyped, PTL
<1>3. Line(Outgoing, hand, Pipeline, Flow, Received, made)
  BY DEF OrderInv
<1>4. Outgoing' = Outgoing /\ Flow' = Flow /\ Received' = Received /\ made' = made
  BY <1>1 DEF Outgoing, Flow, Received
<1>5. hand'[n] = <<>> /\ \A o \in Nodes : o # n => hand'[o] = hand[o]
  BY <1>1 DEF TypeInv, TypeOK
<1>6. /\ hand[n] \in Seq(Messages) /\ x = Head(hand[n]) /\ x \in Messages
      /\ <<x>> \in Seq(Messages) /\ Kept(<<x>>, hand[n]) /\ Kept(<<>>, hand[n])
  <2>1. hand[n] \in Seq(Messages) /\ Len(hand[n]) = 1
    <3>1. hand[n] \in Seq(Messages) /\ Len(hand[n]) <= 1
      BY DEF TypeInv, TypeOK
    <3> QED
      BY <1>1, <3>1, TailFacts
  <2>2. x = Head(hand[n]) /\ Tail(hand[n]) = <<>>
    BY <1>1, <2>1, TailFacts
  <2> QED
    BY <1>1, <2>1, <2>2, HeadKept
<1> HIDE DEF x, l
<1>7. Typed(Outgoing, hand', Pipeline, Flow, Received)
  BY <1>2 DEF Typed
<1>8. Line(Outgoing, hand', Pipeline, Flow, Received, made)
  <2>1. Shorter(Outgoing, hand', Pipeline, Flow, Outgoing, hand, Pipeline, Flow)
    BY <1>2, <1>5, <1>6, KeptSelf DEF Shorter, Typed
  <2> QED
    BY <1>2, <1>3, <1>7, <2>1, Shorten
<1>9. OfNode(<<x>>, n) /\ Numbered(<<x>>, made)
  <2>1. OfNode(hand[n], n) /\ Numbered(hand[n], made)
    BY <1>3 DEF Line, Origin, Numbers
  <2> QED
    BY <1>6, <2>1, KeptOrigin
<1>10. l \in Links /\ OnLink(<<x>>, l)
  <2>1. x.from[1] = n /\ x.to # n /\ x.to \in Nodes
    BY <1>6, <1>9 DEF OfNode, Messages
  <2> QED
    BY <2>1 DEF l, LinkOf, Links, OnLink
<1>11. \A s \in Shards : Before(<<x>>, Outgoing[s]) /\ Before(Received[s], <<x>>)
  BY <1>2, <1>3, <1>6, KeptOrder DEF Typed, Line, Order
<1>12. /\ Before(Pipeline[l], <<x>>)
       /\ \A k \in 1..Len(Flow[l]) : Before(Flow[l][k], <<x>>)
  BY <1>2, <1>3, <1>6, <1>10, KeptOrder DEF Typed, Line, Order
<1>13. \A o \in Nodes : Before(<<x>>, hand'[o])
  <2>1. \A o \in Nodes : OfNode(hand'[o], o) /\ hand'[o] \in Seq(Messages)
    BY <1>7, <1>8 DEF Line, Origin, Typed
  <2> QED
    BY <1>5, <1>6, <1>9, <2>1, OriginApart, EmptyOrder
<1>14. Pipeline'[l] = Append(Pipeline[l], x) /\ \A j \in Links : j # l => Pipeline'[j] = Pipeline[j]
  <2>1. queue'[l] = Append(queue[l], x) /\ \A j \in Links : j # l => queue'[j] = queue[j]
    BY <1>1, <1>10 DEF TypeInv, TypeOK
  <2>2. sender[l].batch \in Seq(Messages) /\ queue[l] \in Seq(Messages)
    BY <1>10 DEF TypeInv, TypeOK
  <2>3. sender[l].batch \o Append(queue[l], x) = Append(sender[l].batch \o queue[l], x)
    BY <1>6, <2>2, ConcatAppend
  <2>4. \A j \in Links : /\ Pipeline[j] = sender[j].batch \o queue[j]
                         /\ Pipeline'[j] = sender[j].batch \o queue'[j]
    BY <1>1 DEF Pipeline
  <2> QED
    BY <1>10, <2>1, <2>3, <2>4
<1>15. Line(Outgoing, hand', Pipeline', Flow, Received, made)
  BY <1>6, <1>7, <1>8, <1>9, <1>10, <1>11, <1>12, <1>13, <1>14, PutInPipeline
<1> QED
  BY <1>4, <1>15 DEF OrderInv

LEMMA LoopOrder ==
  ASSUME TypeInv, TypeInv', OrderInv, NEW s \in Shards, Loop(s) \/ Stop(s)
  PROVE  OrderInv'
<1>1. Line(Outgoing, hand, Pipeline, Flow, Received, made)
  BY DEF OrderInv
<1>2. hand' = hand /\ Pipeline' = Pipeline /\ Flow' = Flow
  BY DEF Loop, Wake, Step, Dispatch, Ready, Stop, engineVars, Pipeline, Flow
<1>3. CASE Wake(s) \/ Stop(s)
  <2>1. Outgoing' = Outgoing /\ Received' = Received /\ made' = made
    BY <1>3 DEF Wake, Stop, Outgoing, Received
  <2> QED
    BY <1>1, <1>2, <2>1 DEF OrderInv
<1>4. CASE Step(s)
  <2>1. /\ stepped[s] \in Seq(Messages) /\ inbound[s] \in Seq(Messages) /\ inbound[s] # <<>>
        /\ stepped'[s] = Append(stepped[s], Head(inbound[s])) /\ inbound'[s] = Tail(inbound[s])
        /\ \A r \in Shards : r # s => stepped'[r] = stepped[r] /\ inbound'[r] = inbound[r]
        /\ UNCHANGED <<outbound, toSend, made>>
    BY <1>4 DEF Step, engineVars, TypeInv, TypeOK
  <2>2. Append(stepped[s], Head(inbound[s])) \o Tail(inbound[s]) = stepped[s] \o inbound[s]
    BY <2>1, Concats
  <2>3. Received' = Received
    BY <2>1, <2>2 DEF Received
  <2>4. Outgoing' = Outgoing /\ made' = made
    BY <2>1 DEF Outgoing
  <2> QED
    BY <1>1, <1>2, <2>3, <2>4 DEF OrderInv
<1>5. CASE Dispatch(s)
  <2>1. /\ outbound[s] \in Seq(Messages) /\ toSend[s] \in Seq(Messages) /\ toSend[s] # <<>>
        /\ outbound'[s] = Append(outbound[s], Head(toSend[s])) /\ toSend'[s] = Tail(toSend[s])
        /\ \A r \in Shards : r # s => outbound'[r] = outbound[r] /\ toSend'[r] = toSend[r]
        /\ UNCHANGED <<inbound, stepped, made>>
    BY <1>5 DEF Dispatch, TypeInv, TypeOK, Dispatching
  <2>2. Append(outbound[s], Head(toSend[s])) \o Tail(toSend[s]) = outbound[s] \o toSend[s]
    BY <2>1, Concats
  <2>3. Outgoing' = Outgoing
    BY <2>1, <2>2 DEF Outgoing
  <2>4. Received' = Received /\ made' = made
    BY <2>1 DEF Received
  <2> QED
    BY <1>1, <1>2, <2>3, <2>4 DEF OrderInv
<1>6. ASSUME NEW targets \in Targets(s), Ready(s, targets)
      PROVE  OrderInv'
  <2> DEFINE c == Len(targets)
             new == [i \in 1..c |-> [from |-> s, to |-> targets[i], id |-> made[s] + i]]
  <2>1. c \in Nat /\ \A i \in 1..c : targets[i] \in Nodes \ {s[1]}
    <3>1. CASE targets = <<>>
      BY <3>1
    <3>2. CASE targets # <<>>
      <4>1. PICK b \in Nat : targets \in [1..b -> Nodes \ {s[1]}]
        BY <1>6, <3>2, ShardFacts DEF Targets
      <4> QED
        BY <4>1
    <3> QED
      BY <3>1, <3>2
  <2>2. /\ made' = [made EXCEPT ![s] = @ + c]
        /\ toSend' = [toSend EXCEPT ![s] = new]
        /\ engine[s] # "dispatch" /\ UNCHANGED <<inbound, outbound, stepped>>
    BY <1>6 DEF Ready
  <2>3. /\ made \in [Shards -> Nat] /\ toSend[s] = <<>> /\ outbound[s] \in Seq(Messages)
        /\ toSend'[s] = new /\ \A r \in Shards : r # s => toSend'[r] = toSend[r]
    BY <2>2 DEF TypeInv, TypeOK, Dispatching
  <2>4. /\ new \in Seq(Messages) /\ Len(new) = c
        /\ \A i \in 1..c : new[i].from = s /\ new[i].to # s[1] /\ new[i].id = made[s] + i
    BY <2>1, <2>3 DEF Messages
  <2> HIDE DEF new
  <2>5. OfShard(new, s) /\ Ascending(new)
    BY <2>3, <2>4 DEF OfShard, Ascending
  <2>6. /\ \A r \in Shards : made[r] \in Nat /\ made'[r] \in Nat /\ made[r] <= made'[r]
        /\ made'[s] = made[s] + c
    BY <2>1, <2>2, <2>3
  <2>7. \A i \in 1..Len(new) : made[s] < new[i].id /\ new[i].id <= made'[s]
    BY <2>1, <2>3, <2>4, <2>6
  <2>8. Outgoing'[s] = Outgoing[s] \o new /\ \A r \in Shards : r # s => Outgoing'[r] = Outgoing[r]
    <3>1. \A r \in Shards : /\ Outgoing[r] = outbound[r] \o toSend[r]
                            /\ Outgoing'[r] = outbound[r] \o toSend'[r]
      BY <2>2 DEF Outgoing
    <3>2. outbound[s] \o <<>> = outbound[s]
      BY <2>3, Concats
    <3> QED
      BY <2>3, <3>1, <3>2
  <2>9. Typed(Outgoing, hand, Pipeline, Flow, Received)
    BY ViewTyped
  <2>10. Line(Outgoing', hand, Pipeline, Flow, Received, made')
    BY <1>1, <2>4, <2>5, <2>6, <2>7, <2>8, <2>9, MakeMessages
  <2>11. Received' = Received
    BY <2>2 DEF Received
  <2> QED
    BY <1>2, <2>10, <2>11 DEF OrderInv
<1> QED
  BY <1>3, <1>4, <1>5, <1>6 DEF Loop

\* batch and queue of link l, when only they change: what they hold together
\* stays as it is, or loses its beginning
LEMMA PipelineShorter ==
  ASSUME TypeInv, TypeInv', NEW l \in Links,
         \A j \in Links : j # l => sender'[j] = sender[j] /\ queue'[j] = queue[j],
         Kept(Pipeline'[l], Pipeline[l]),
         Line(Outgoing, hand, Pipeline, Flow, Received, made)
  PROVE  Line(Outgoing, hand, Pipeline', Flow, Received, made)
<1>1. /\ Typed(Outgoing, hand, Pipeline, Flow, Received)
      /\ Typed(Outgoing, hand, Pipeline, Flow, Received)'
  BY ViewTyped, PTL
<1>2. \A j \in Links : j # l => Pipeline'[j] = Pipeline[j]
  BY DEF Pipeline
<1>3. Typed(Outgoing, hand, Pipeline', Flow, Received)
  BY <1>1 DEF Typed
<1>4. Shorter(Outgoing, hand, Pipeline', Flow, Outgoing, hand, Pipeline, Flow)
  BY <1>1, <1>2, KeptSelf DEF Shorter, Typed
<1> QED
  BY <1>1, <1>3, <1>4, Shorten

LEMMA SenderOrder ==
  ASSUME TypeInv, TypeInv', OrderInv, NEW l \in Links, Sender(l)
  PROVE  OrderInv'
<1>1. Line(Outgoing, hand, Pipeline, Flow, Received, made)
  BY DEF OrderInv
<1>2. Outgoing' = Outgoing /\ hand' = hand /\ Received' = Received /\ made' = made
  BY DEF Sender, TakeBatch, Connect, ConnectFails, WriteFrame, WriteFails, WriteUnnoticed,
         engineVars, Outgoing, Received
<1>3. /\ sender[l].batch \in Seq(Messages) /\ queue[l] \in Seq(Messages)
      /\ Pipeline[l] = sender[l].batch \o queue[l] /\ Pipeline'[l] = sender'[l].batch \o queue'[l]
      /\ Pipeline[l] \in Seq(Messages)
  <2>1. sender[l].batch \in Seq(Messages) /\ queue[l] \in Seq(Messages)
    BY DEF TypeInv, TypeOK
  <2>2. Pipeline[l] = sender[l].batch \o queue[l] /\ Pipeline'[l] = sender'[l].batch \o queue'[l]
    BY DEF Pipeline
  <2>3. Pipeline[l] \in Seq(Messages)
    BY <2>1, <2>2, Concats
  <2> QED
    BY <2>1, <2>2, <2>3
<1>4. /\ Typed(Outgoing, hand, Pipeline, Flow, Received)
      /\ Typed(Outgoing, hand, Pipeline, Flow, Received)'
  BY ViewTyped, PTL
<1>5. CASE TakeBatch(l)
  <2> DEFINE k == Min2(BatchMax, Len(queue[l]))
  <2>1. k \in 0..Len(queue[l])
    <3>1. Len(queue[l]) \in Nat
      BY <1>3
    <3> QED
      BY <3>1, TransportAssumption DEF Min2
  <2>2. /\ sender[l].pc = "idle"
        /\ queue' = [queue EXCEPT ![l] = SubSeq(@, k + 1, Len(@))]
        /\ sender' = [sender EXCEPT ![l] =
             [pc |-> IF @.linked THEN "write" ELSE "connect",
              batch |-> SubSeq(queue[l], 1, k), linked |-> @.linked]]
        /\ conns' = conns
    BY <1>5 DEF TakeBatch
  <2> HIDE DEF k
  <2>3. /\ queue'[l] = SubSeq(queue[l], k + 1, Len(queue[l]))
        /\ sender'[l].batch = SubSeq(queue[l], 1, k)
        /\ sender[l].batch = <<>>
        /\ \A j \in Links : j # l => sender'[j] = sender[j] /\ queue'[j] = queue[j]
    BY <2>2 DEF TypeInv, TypeOK, Sending
  <2>4. SubSeq(queue[l], 1, k) \o SubSeq(queue[l], k + 1, Len(queue[l])) = queue[l]
    BY <1>3, <2>1, SplitQueue
  <2>5. Pipeline'[l] = Pipeline[l]
    <3>1. Pipeline'[l] = queue[l]
      BY <1>3, <2>3, <2>4
    <3>2. <<>> \o queue[l] = queue[l]
      BY <1>3, Concats
    <3> QED
      BY <1>3, <2>3, <3>1, <3>2
  <2>6. Kept(Pipeline'[l], Pipeline[l])
    BY <1>3, <2>5, KeptSelf
  <2>7. Line(Outgoing, hand, Pipeline', Flow, Received, made)
    BY <1>1, <2>3, <2>6, PipelineShorter
  <2>8. Flow' = Flow
    BY <2>2 DEF Flow
  <2> QED
    BY <1>2, <2>7, <2>8 DEF OrderInv
<1>6. \* what is left of the pipeline when the batch is lost
      Kept(queue[l], Pipeline[l])
  <2> DEFINE p == sender[l].batch
             q == queue[l]
  <2>1. p \in Seq(Messages) /\ q \in Seq(Messages)
    BY <1>3
  <2> HIDE DEF p, q
  <2>2. /\ Len(p) \in Nat /\ Len(q) \in Nat /\ Len(p \o q) = Len(p) + Len(q)
        /\ \A i \in 1..Len(q) : (p \o q)[i + Len(p)] = q[i]
    BY <2>1
  <2>3. Part(q, p \o q, Len(p))
    BY <2>2 DEF Part
  <2> QED
    BY <1>3, <2>2, <2>3 DEF Kept, p, q
<1>7. ASSUME NEW b \in BOOLEAN, sender' = [sender EXCEPT ![l] = Idle(b)], queue' = queue
      PROVE  Line(Outgoing, hand, Pipeline', Flow, Received, made)
  <2>1. /\ sender'[l].batch = <<>> /\ queue'[l] = queue[l]
        /\ \A j \in Links : j # l => sender'[j] = sender[j] /\ queue'[j] = queue[j]
    BY <1>7 DEF TypeInv, TypeOK, Idle
  <2>2. Pipeline'[l] = queue[l]
    BY <1>3, <2>1, Concats
  <2> QED
    BY <1>1, <1>6, <2>1, <2>2, PipelineShorter
<1>8. CASE WriteFails(l) \/ WriteUnnoticed(l)
  <2>1. Line(Outgoing, hand, Pipeline', Flow, Received, made)
    BY <1>7, <1>8 DEF WriteFails, WriteUnnoticed
  <2>2. Flow' = Flow
    BY <1>8 DEF WriteFails, WriteUnnoticed, Flow
  <2> QED
    BY <1>2, <2>1, <2>2 DEF OrderInv

<1>9. /\ conns[l] \in Seq(Conns) /\ Len(conns[l]) \in Nat /\ Len(Flow[l]) = Len(conns[l])
      /\ Flow[l] = <<>> <=> Len(conns[l]) = 0
      /\ \A k \in 1..Len(conns[l]) : Flow[l][k] = conns[l][k].flow
      /\ Len(Flow'[l]) = Len(conns'[l])
      /\ Flow'[l] = <<>> <=> Len(conns'[l]) = 0
      /\ \A k \in 1..Len(conns'[l]) : Flow'[l][k] = conns'[l][k].flow
  <2>1. /\ Len(Flow'[l]) = Len(conns'[l])
        /\ Flow'[l] = <<>> <=> Len(conns'[l]) = 0
        /\ \A k \in 1..Len(conns'[l]) : Flow'[l][k] = conns'[l][k].flow
    <3>1. FlowView'
      BY FlowFacts, PTL
    <3> QED
      BY <3>1 DEF FlowView
  <2> QED
    BY <2>1, FlowFacts DEF FlowView, TypeInv, TypeOK
<1>10. ASSUME NEW c, c.flow = <<>>, conns' = [conns EXCEPT ![l] = Append(@, c)],
              Line(Outgoing, hand, Pipeline', Flow, Received, made)
       PROVE  Line(Outgoing, hand, Pipeline', Flow', Received, made)
  <2>1. conns'[l] = Append(conns[l], c) /\ \A j \in Links : j # l => conns'[j] = conns[j]
    BY <1>10 DEF TypeInv, TypeOK
  <2>2. /\ Len(conns'[l]) = Len(conns[l]) + 1 /\ conns'[l][Len(conns[l]) + 1] = c
        /\ \A k \in 1..Len(conns[l]) : conns'[l][k] = conns[l][k]
    BY <1>9, <2>1
  <2>3. /\ Len(Flow'[l]) = Len(conns[l]) + 1 /\ Flow'[l][Len(conns[l]) + 1] = <<>>
        /\ Flow'[l] # <<>> /\ \A k \in 1..Len(conns[l]) : Flow'[l][k] = Flow[l][k]
    BY <1>9, <1>10, <2>2
  <2>4. \A j \in Links : j # l => Flow'[j] = Flow[j]
    BY <2>1 DEF Flow
  <2>5. Typed(Outgoing, hand, Pipeline', Flow, Received)
    BY <1>2, <1>4 DEF Typed
  <2> QED
    <3>1. Len(conns[l]) = 0 => Flow[l] = <<>>
      BY <1>9
    <3>2. Len(Flow[l]) = Len(conns[l]) /\ Len(conns[l]) \in Nat
      BY <1>9
    <3> QED
      BY <1>10, <2>3, <2>4, <2>5, <3>1, <3>2, OpenConnection
<1>11. NewConn(TRUE).flow = <<>> /\ NewConn(FALSE).flow = <<>>
  BY DEF NewConn, Conn
<1>12. CASE ConnectFails(l)
  <2>1. Line(Outgoing, hand, Pipeline', Flow, Received, made)
    BY <1>7, <1>12 DEF ConnectFails
  <2>2. Line(Outgoing, hand, Pipeline', Flow', Received, made)
    BY <1>10, <1>11, <1>12, <2>1 DEF ConnectFails
  <2> QED
    BY <1>2, <2>2 DEF OrderInv
<1>13. CASE Connect(l)
  <2>1. /\ sender'[l].batch = sender[l].batch /\ queue' = queue
        /\ \A j \in Links : j # l => sender'[j] = sender[j]
    BY <1>13 DEF Connect, TypeInv, TypeOK
  <2>2. Pipeline' = Pipeline
    <3>1. \A j \in Links : sender'[j].batch = sender[j].batch
      BY <2>1
    <3> QED
      BY <2>1, <3>1 DEF Pipeline
  <2>3. Line(Outgoing, hand, Pipeline', Flow', Received, made)
    BY <1>1, <1>10, <1>11, <1>13, <2>2 DEF Connect
  <2> QED
    BY <1>2, <2>3 DEF OrderInv
<1>14. CASE WriteFrame(l)
  <2> DEFINE c == Len(conns[l])
             x == Head(sender[l].batch)
             d == Conn(Append(conns[l][c].flow, x), conns[l][c].read, conns[l][c].up,
                       conns[l][c].signal)
  <2>1. /\ sender[l].pc = "write" /\ queue' = queue
        /\ conns' = [conns EXCEPT ![l][c] = d]
        /\ sender' = [sender EXCEPT ![l] =
             IF Len(sender[l].batch) = 1 THEN Idle(TRUE)
             ELSE [pc |-> "write", batch |-> Tail(sender[l].batch), linked |-> TRUE]]
    BY <1>14 DEF WriteFrame, Current
  <2>2. sender[l].batch # <<>> /\ c \in Nat \ {0}
    BY <1>9, <2>1, EmptySeq DEF TypeInv, Sending
  <2>3. /\ sender'[l].batch = Tail(sender[l].batch) /\ queue'[l] = queue[l]
        /\ \A j \in Links : j # l => sender'[j] = sender[j] /\ queue'[j] = queue[j]
    <3>1. Len(sender[l].batch) = 1 => Tail(sender[l].batch) = <<>>
      BY <1>3, <2>2, TailFacts
    <3> QED
      BY <2>1, <3>1 DEF Idle, TypeInv, TypeOK
  <2>4. d.flow = Append(conns[l][c].flow, x)
    BY DEF Conn
  <2> HIDE DEF c, d, x
  <2>5. /\ Pipeline[l] # <<>> /\ Head(Pipeline[l]) = x /\ Pipeline'[l] = Tail(Pipeline[l])
        /\ x \in Messages
    <3>1. /\ sender[l].batch \o queue[l] # <<>>
          /\ Head(sender[l].batch \o queue[l]) = Head(sender[l].batch)
          /\ Tail(sender[l].batch \o queue[l]) = Tail(sender[l].batch) \o queue[l]
      BY <1>3, <2>2, Concats
    <3>2. Head(sender[l].batch) \in Messages
      BY <1>3, <2>2, TailFacts
    <3> QED
      BY <1>3, <2>3, <3>1, <3>2 DEF x
  <2>6. /\ <<x>> \in Seq(Messages) /\ Kept(<<x>>, Pipeline[l])
        /\ Kept(Pipeline'[l], Pipeline[l]) /\ Before(<<x>>, Pipeline'[l])
    <3>1. Ascending(Pipeline[l])
      BY <1>1 DEF Line, Order
    <3> QED
      BY <1>3, <2>5, <3>1, HeadKept
  <2>7. Line(Outgoing, hand, Pipeline', Flow, Received, made)
    BY <1>1, <2>3, <2>6, PipelineShorter
  <2>8. Typed(Outgoing, hand, Pipeline', Flow, Received)
    BY <1>2, <1>4 DEF Typed
  <2>9. /\ Len(conns'[l]) = c /\ conns'[l][c] = d
        /\ \A k \in 1..(c - 1) : conns'[l][k] = conns[l][k]
        /\ \A j \in Links : j # l => conns'[j] = conns[j]
    BY <1>9, <2>1, <2>2 DEF c, TypeInv, TypeOK
  <2>10. /\ Len(Flow[l]) = c /\ Len(Flow'[l]) = c /\ Flow'[l] # <<>>
         /\ Flow'[l][c] = Append(Flow[l][c], x)
         /\ \A k \in 1..(c - 1) : Flow'[l][k] = Flow[l][k]
    <3>1. /\ Len(Flow[l]) = c /\ Len(Flow'[l]) = c /\ c \in 1..c
          /\ \A k \in 1..(c - 1) : k \in 1..c
      BY <1>9, <2>2, <2>9 DEF c
    <3>2. Flow'[l][c] = d.flow /\ Flow[l][c] = conns[l][c].flow
      BY <1>9, <2>9, <3>1
    <3>3. \A k \in 1..(c - 1) : Flow'[l][k] = Flow[l][k]
      BY <1>9, <2>9, <3>1
    <3> QED
      BY <1>9, <2>2, <2>4, <2>9, <3>1, <3>2, <3>3
  <2>11. \A j \in Links : j # l => Flow'[j] = Flow[j]
    BY <2>9 DEF Flow
  <2>12. OnLink(<<x>>, l) /\ Numbered(<<x>>, made)
    <3>1. OnLink(Pipeline[l], l) /\ Numbered(Pipeline[l], made)
      BY <1>1 DEF Line, Origin, Numbers
    <3> QED
      BY <1>3, <2>6, <3>1, KeptOrigin
  <2>13. /\ \A s \in Shards : Before(<<x>>, Outgoing[s]) /\ Before(Received[s], <<x>>)
         /\ \A n \in Nodes : Before(<<x>>, hand[n])
    BY <1>1, <1>3, <1>4, <2>6, KeptOrder DEF Typed, Line, Order
  <2>14. ASSUME NEW k \in 1..c PROVE Before(Flow[l][k], <<x>>)
    <3>1. Before(Flow[l][k], Pipeline[l]) /\ Flow[l][k] \in Seq(Messages)
      BY <1>1, <1>4, <2>10 DEF Typed, Line, Order
    <3> QED
      BY <1>3, <2>6, <3>1, KeptAfter
  <2>15. Line(Outgoing, hand, Pipeline', Flow', Received, made)
    BY <2>2, <2>5, <2>6, <2>7, <2>8, <2>10, <2>11, <2>12, <2>13, <2>14, PutOnConnection
  <2> QED
    BY <1>2, <2>15 DEF OrderInv
<1> QED
  BY <1>5, <1>8, <1>12, <1>13, <1>14 DEF Sender

\* conns, when one connection of link l is replaced by one that has less to bring
LEMMA FlowShorter ==
  ASSUME TypeInv, TypeInv', NEW l \in Links, NEW k \in 1..Len(conns[l]), NEW d,
         conns' = [conns EXCEPT ![l][k] = d], Kept(d.flow, conns[l][k].flow)
  PROVE  /\ Flow[l][k] = conns[l][k].flow /\ Flow'[l][k] = d.flow
         /\ Len(Flow'[l]) = Len(Flow[l])
         /\ \A j \in 1..Len(Flow[l]) : j # k => Flow'[l][j] = Flow[l][j]
         /\ \A j \in Links : j # l => Flow'[j] = Flow[j]
         /\ Shorter(Outgoing, hand, Pipeline, Flow', Outgoing, hand, Pipeline, Flow)
<1>1. FlowView /\ FlowView'
  BY FlowFacts, PTL
<1>2. Typed(Outgoing, hand, Pipeline, Flow, Received)
  BY ViewTyped
<1>3. conns[l] \in Seq(Conns)
  BY DEF TypeInv, TypeOK
<1>4. /\ Len(conns'[l]) = Len(conns[l]) /\ conns'[l][k] = d
      /\ \A j \in 1..Len(conns[l]) : j # k => conns'[l][j] = conns[l][j]
      /\ \A j \in Links : j # l => conns'[j] = conns[j]
  BY <1>3 DEF TypeInv, TypeOK
<1>5. /\ Flow[l][k] = conns[l][k].flow /\ Flow'[l][k] = d.flow
      /\ Len(Flow'[l]) = Len(Flow[l]) /\ Len(Flow[l]) = Len(conns[l])
      /\ \A j \in 1..Len(Flow[l]) : j # k => Flow'[l][j] = Flow[l][j]
  BY <1>1, <1>4 DEF FlowView
<1>6. \A j \in Links : j # l => Flow'[j] = Flow[j]
  BY <1>4 DEF Flow
<1>7. Shorter(Outgoing, hand, Pipeline, Flow', Outgoing, hand, Pipeline, Flow)
  <2>1. /\ \A s \in Shards : Kept(Outgoing[s], Outgoing[s])
        /\ \A n \in Nodes : Kept(hand[n], hand[n])
        /\ \A j \in Links : Kept(Pipeline[j], Pipeline[j])
        /\ \A j \in Links : \A i \in 1..Len(Flow[j]) : Kept(Flow[j][i], Flow[j][i])
    BY <1>2, KeptSelf DEF Typed
  <2> QED
    BY <1>5, <1>6, <2>1 DEF Shorter
<1> QED
  BY <1>5, <1>6, <1>7

LEMMA BreakOrder ==
  ASSUME TypeInv, TypeInv', OrderInv, NEW l \in Links, NEW j \in Nat, Break(l, j)
  PROVE  OrderInv'
<1> DEFINE k == Len(conns[l])
           c == conns[l][k]
           d == Conn(SubSeq(c.flow, 1, j), c.read, FALSE, c.signal)
<1>1. /\ conns' = [conns EXCEPT ![l][k] = d] /\ j \in c.read..Len(c.flow) /\ conns[l] # <<>>
      /\ UNCHANGED <<toSend, made, inbound, outbound, hand, queue, sender, stepped>>
  BY DEF Break, Current, engineVars
<1>2. k \in 1..Len(conns[l]) /\ c \in Conns
  <2>1. conns[l] \in Seq(Conns)
    BY DEF TypeInv, TypeOK
  <2> QED
    BY <1>1, <2>1, EmptySeq
<1>3. c.flow \in Seq(Messages) /\ c.read \in Nat
  BY <1>2, ConnFields
<1>4. d.flow = SubSeq(c.flow, 1, j)
  BY DEF Conn
<1> HIDE DEF k, d
<1>5. Kept(d.flow, c.flow)
  <2>1. j \in 0..Len(c.flow)
    BY <1>1, <1>3
  <2>2. /\ Len(SubSeq(c.flow, 1, j)) = j
        /\ \A i \in 1..j : SubSeq(c.flow, 1, j)[i] = c.flow[i]
    BY <1>3, <2>1, SubSeqFacts
  <2>3. Part(SubSeq(c.flow, 1, j), c.flow, 0)
    BY <1>3, <2>1, <2>2 DEF Part
  <2> QED
    BY <1>4, <2>3 DEF Kept
<1>6. Shorter(Outgoing, hand, Pipeline, Flow', Outgoing, hand, Pipeline, Flow)
  BY <1>1, <1>2, <1>5, FlowShorter
<1>7. Outgoing' = Outgoing /\ hand' = hand /\ Pipeline' = Pipeline /\ Received' = Received /\ made' = made
  BY <1>1 DEF Outgoing, Pipeline, Received
<1>8. /\ Typed(Outgoing, hand, Pipeline, Flow, Received)
      /\ Typed(Outgoing, hand, Pipeline, Flow, Received)'
  BY ViewTyped, PTL
<1>9. Typed(Outgoing, hand, Pipeline, Flow', Received)
  BY <1>7, <1>8
<1>10. Line(Outgoing, hand, Pipeline, Flow', Received, made)
  BY <1>6, <1>8, <1>9, Shorten DEF OrderInv
<1> QED
  BY <1>7, <1>10 DEF OrderInv

LEMMA InboundOrder ==
  ASSUME TypeInv, TypeInv', OrderInv, NEW l \in Links, NEW k \in 1..Len(conns[l]), Inbound(l, k)
  PROVE  OrderInv'
<1> DEFINE c == conns[l][k]
<1>1. c \in Conns /\ c.flow \in Seq(Messages) /\ c.read \in Nat /\ c.read <= Len(c.flow)
  <2>1. conns[l] \in Seq(Conns) /\ c.read <= Len(c.flow)
    BY DEF TypeInv, TypeOK, Reading
  <2>2. c \in Conns
    BY <2>1
  <2> QED
    BY <2>1, <2>2, ConnFields
<1>2. Outgoing' = Outgoing /\ hand' = hand /\ Pipeline' = Pipeline /\ made' = made
  BY DEF Inbound, ReadFrames, Deliver, Notify, DropUnknown, engineVars, Outgoing, Pipeline
<1>3. Line(Outgoing, hand, Pipeline, Flow, Received, made)
  BY DEF OrderInv
<1>4. /\ Typed(Outgoing, hand, Pipeline, Flow, Received)
      /\ Typed(Outgoing, hand, Pipeline, Flow, Received)'
  BY ViewTyped, PTL
<1>5. Typed(Outgoing, hand, Pipeline, Flow', Received)
  BY <1>2, <1>4 DEF Typed
<1>6. ASSUME NEW d, conns' = [conns EXCEPT ![l][k] = d], Kept(d.flow, c.flow)
      PROVE  /\ Line(Outgoing, hand, Pipeline, Flow', Received, made)
             /\ Flow[l][k] = c.flow /\ Flow'[l][k] = d.flow
             /\ Len(Flow'[l]) = Len(Flow[l])
             /\ \A j \in 1..Len(Flow[l]) : j # k => Flow'[l][j] = Flow[l][j]
             /\ \A j \in Links : j # l => Flow'[j] = Flow[j]
  <2>1. /\ Shorter(Outgoing, hand, Pipeline, Flow', Outgoing, hand, Pipeline, Flow)
        /\ Flow[l][k] = c.flow /\ Flow'[l][k] = d.flow
        /\ Len(Flow'[l]) = Len(Flow[l])
        /\ \A j \in 1..Len(Flow[l]) : j # k => Flow'[l][j] = Flow[l][j]
        /\ \A j \in Links : j # l => Flow'[j] = Flow[j]
    <3>1. Kept(d.flow, conns[l][k].flow)
      BY <1>6
    <3> HIDE DEF c
    <3>2. Shorter(Outgoing, hand, Pipeline, Flow', Outgoing, hand, Pipeline, Flow)
      BY <1>6, <3>1, FlowShorter
    <3>4. Len(Flow'[l]) = Len(Flow[l])
      BY <1>6, <3>1, FlowShorter
    <3>5. Flow[l][k] = conns[l][k].flow
      BY FlowFacts DEF FlowView
    <3>6. Flow'[l][k] = d.flow
      <4>1. FlowView'
        BY FlowFacts, PTL
      <4>2. conns'[l][k] = d /\ Len(conns'[l]) = Len(conns[l])
        <5>1. conns[l] \in Seq(Conns)
          BY DEF TypeInv, TypeOK
        <5> QED
          BY <1>6, <5>1 DEF TypeInv, TypeOK
      <4> QED
        BY <4>1, <4>2 DEF FlowView
    <3>3. /\ \A j \in 1..Len(Flow[l]) : j # k => Flow'[l][j] = Flow[l][j]
          /\ \A j \in Links : j # l => Flow'[j] = Flow[j]
      BY <1>6, <3>1, FlowShorter
    <3> QED
      BY <3>2, <3>3, <3>4, <3>5, <3>6 DEF c
  <2>2. Line(Outgoing, hand, Pipeline, Flow', Received, made)
    BY <1>3, <1>4, <1>5, <2>1, Shorten
  <2> QED
    BY <2>1, <2>2
<1>7. Kept(c.flow, c.flow)
  BY <1>1, KeptSelf
<1>8. ASSUME c.read > 0
      PROVE  c.flow # <<>> /\ Kept(Tail(c.flow), c.flow)
  <2>1. c.flow # <<>>
    BY <1>1, <1>8
  <2> QED
    BY <1>1, <2>1, HeadKept
<1>9. CASE Notify(l, k) \/ \E frames \in 1..SocketFrames : ReadFrames(l, k, frames)
  <2>1. Received' = Received
    BY <1>9 DEF Notify, ReadFrames, Received
  <2>2. PICK g, r : conns' = [conns EXCEPT ![l][k] = Conn(c.flow, r, c.up, g)]
    BY <1>9 DEF Notify, ReadFrames
  <2>3. Conn(c.flow, r, c.up, g).flow = c.flow
    BY DEF Conn
  <2>4. Line(Outgoing, hand, Pipeline, Flow', Received, made)
    BY <1>6, <1>7, <2>2, <2>3
  <2> QED
    BY <1>2, <2>1, <2>4 DEF OrderInv
<1>10. CASE DropUnknown(l, k)
  <2> DEFINE d == Conn(Tail(c.flow), c.read - 1, c.up, c.signal)
  <2>1. Received' = Received /\ c.read > 0 /\ conns' = [conns EXCEPT ![l][k] = d]
    BY <1>10 DEF DropUnknown, Received
  <2>2. d.flow = Tail(c.flow)
    BY DEF Conn
  <2> HIDE DEF d
  <2>3. Line(Outgoing, hand, Pipeline, Flow', Received, made)
    BY <1>6, <1>8, <2>1, <2>2
  <2> QED
    BY <1>2, <2>1, <2>3 DEF OrderInv
<1>11. CASE Deliver(l, k)
  <2> DEFINE x == Head(c.flow)
             t == Target(l, k)
             d == Conn(Tail(c.flow), c.read - 1, c.up, {t})
  <2>1. /\ c.read > 0 /\ t \in Shards /\ conns' = [conns EXCEPT ![l][k] = d]
        /\ inbound' = [inbound EXCEPT ![t] = Append(@, x)] /\ stepped' = stepped
    BY <1>11 DEF Deliver
  <2>2. d.flow = Tail(c.flow)
    BY DEF Conn
  <2>3. t = <<l[2], x.from[2]>>
    BY DEF Target
  <2> HIDE DEF d, t
  <2>4. Line(Outgoing, hand, Pipeline, Flow', Received, made)
    BY <1>6, <1>8, <2>1, <2>2
  <2>5. /\ Flow[l][k] = c.flow /\ Flow'[l][k] = Tail(c.flow)
        /\ Len(Flow'[l]) = Len(Flow[l]) /\ Len(Flow[l]) = Len(conns[l])
        /\ \A j \in 1..Len(Flow[l]) : j # k => Flow'[l][j] = Flow[l][j]
        /\ \A j \in Links : j # l => Flow'[j] = Flow[j]
    <3>1. Kept(d.flow, c.flow)
      BY <1>8, <2>1, <2>2
    <3>2. /\ Flow[l][k] = c.flow /\ Flow'[l][k] = d.flow
          /\ Len(Flow'[l]) = Len(Flow[l])
          /\ \A j \in 1..Len(Flow[l]) : j # k => Flow'[l][j] = Flow[l][j]
          /\ \A j \in Links : j # l => Flow'[j] = Flow[j]
      BY <1>6, <2>1, <3>1
    <3>3. Len(Flow[l]) = Len(conns[l])
      BY FlowFacts DEF FlowView
    <3> QED
      BY <2>2, <3>2, <3>3
  <2>6. /\ x \in Messages /\ <<x>> \in Seq(Messages) /\ Kept(<<x>>, c.flow)
        /\ Before(<<x>>, Tail(c.flow)) /\ Tail(c.flow) \in Seq(Messages)
    <3>1. Ascending(c.flow)
      BY <1>3, <2>5 DEF Line, Order
    <3> QED
      BY <1>1, <1>8, <2>1, <3>1, HeadKept
  <2> HIDE DEF x
  <2>7. OnLink(<<x>>, l) /\ Numbered(<<x>>, made)
    <3>1. OnLink(c.flow, l) /\ Numbered(c.flow, made)
      BY <1>3, <2>5 DEF Line, Origin, Numbers
    <3> QED
      BY <1>1, <2>6, <3>1, KeptOrigin
  <2>8. For(<<x>>, t)
    <3>1. x.from[1] = l[1] /\ x.to = l[2] /\ l[1] # l[2]
      BY <2>7, LinkFacts DEF OnLink, LinkOf
    <3> QED
      BY <2>3, <3>1 DEF For
  <2>9. /\ \A s \in Shards : Before(<<x>>, Outgoing[s])
        /\ \A n \in Nodes : Before(<<x>>, hand[n])
        /\ Before(<<x>>, Pipeline[l])
    <3>1. /\ \A s \in Shards : Before(c.flow, Outgoing[s])
          /\ \A n \in Nodes : Before(c.flow, hand[n])
          /\ Before(c.flow, Pipeline[l])
      BY <1>3, <2>5 DEF Line, Order
    <3> QED
      BY <1>1, <1>4, <2>6, <3>1, KeptOrder DEF Typed
  <2>10. \A j \in Links : Before(<<x>>, Pipeline[j])
    <3>1. \A j \in Links : OnLink(Pipeline[j], j) /\ Pipeline[j] \in Seq(Messages)
      BY <1>3, <1>4 DEF Line, Origin, Typed
    <3> QED
      BY <2>6, <2>7, <2>9, <3>1, OriginApart
  <2>11. ASSUME NEW j \in Links, NEW i \in 1..Len(Flow'[j])
         PROVE  Apart(<<x>>, Flow'[j][i])
    <3>1. Flow'[j][i] \in Seq(Messages)
      BY <1>5 DEF Typed
    <3>2. CASE j # l
      <4>1. OnLink(Flow'[j][i], j)
        BY <2>4 DEF Line, Origin
      <4> QED
        BY <2>6, <2>7, <3>1, <3>2, <4>1, OriginApart
    <3>3. CASE j = l /\ i = k
      BY <2>5, <2>6, <3>1, <3>3, BeforeApart
    <3>4. CASE j = l /\ i # k
      <4>1. Flow'[j][i] = Flow[l][i] /\ i \in 1..Len(Flow[l]) /\ k \in 1..Len(Flow[l])
        BY <2>5, <3>4
      <4>2. i \in 1..(k - 1) \/ k \in 1..(i - 1)
        BY <3>4, <4>1, <2>5
      <4>3. Before(Flow[l][i], c.flow) \/ Before(c.flow, Flow[l][i])
        BY <1>3, <2>5, <4>1, <4>2 DEF Line, Order
      <4>4. Before(Flow[l][i], <<x>>) \/ Before(<<x>>, Flow[l][i])
        BY <1>1, <2>6, <3>1, <4>1, <4>3, KeptOrder
      <4> QED
        BY <2>6, <3>1, <4>1, <4>4, BeforeApart
    <3> QED
      BY <3>2, <3>3, <3>4
  <2>12. Apart(Received[t], <<x>>) /\ Received[t] \in Seq(Messages)
    <3>1. Apart(Received[t], c.flow) /\ Received[t] \in Seq(Messages)
      BY <1>3, <1>4, <2>1, <2>5 DEF Line, Once, Typed
    <3> QED
      BY <1>1, <2>6, <3>1, KeptOrder
  <2>13. Len(Flow'[l]) = 1 => Before(Received[t], <<x>>) /\ Before(<<x>>, Flow'[l][1])
    <3>1. SUFFICES ASSUME Len(Flow'[l]) = 1
                   PROVE  Before(Received[t], <<x>>) /\ Before(<<x>>, Flow'[l][1])
      OBVIOUS
    <3>2. k = 1 /\ Len(Flow[l]) = 1
      BY <2>5, <3>1
    <3>3. Before(Received[t], c.flow)
      BY <1>3, <2>1, <2>5, <3>2 DEF Line, FirstConnection
    <3>4. Before(Received[t], <<x>>)
      BY <1>1, <2>6, <2>12, <3>3, KeptAfter
    <3> QED
      BY <2>5, <2>6, <3>2, <3>4
  <2>14. Flow'[l] # <<>>
    BY <2>5
  <2>15. /\ Received'[t] = Append(Received[t], x)
         /\ \A s \in Shards : s # t => Received'[s] = Received[s]
    <3>1. /\ inbound'[t] = Append(inbound[t], x) /\ inbound[t] \in Seq(Messages)
          /\ stepped[t] \in Seq(Messages)
          /\ \A s \in Shards : s # t => inbound'[s] = inbound[s]
      BY <2>1 DEF TypeInv, TypeOK
    <3>2. stepped[t] \o Append(inbound[t], x) = Append(stepped[t] \o inbound[t], x)
      BY <2>6, <3>1, ConcatAppend
    <3>3. \A s \in Shards : /\ Received[s] = stepped[s] \o inbound[s]
                            /\ Received'[s] = stepped[s] \o inbound'[s]
      BY <2>1 DEF Received
    <3> QED
      BY <2>1, <3>1, <3>2, <3>3
  <2>16. Line(Outgoing, hand, Pipeline, Flow', Received', made)
    BY <1>5, <2>1, <2>4, <2>6, <2>7, <2>8, <2>9, <2>10, <2>11, <2>12, <2>13, <2>14, <2>15,
       PutReceived
  <2> QED
    BY <1>2, <2>16 DEF OrderInv
<1> QED
  BY <1>9, <1>10, <1>11 DEF Inbound

LEMMA OrderInit == Init => OrderInv
<1> SUFFICES ASSUME Init PROVE OrderInv
  OBVIOUS
<1>1. /\ \A s \in Shards : Outgoing[s] = <<>> /\ Received[s] = <<>>
      /\ \A n \in Nodes : hand[n] = <<>>
      /\ \A l \in Links : Pipeline[l] = <<>>
  <2>1. <<>> \o <<>> = <<>>
    OBVIOUS
  <2>2. /\ \A s \in Shards : /\ outbound[s] = <<>> /\ toSend[s] = <<>>
                             /\ stepped[s] = <<>> /\ inbound[s] = <<>>
        /\ \A l \in Links : sender[l].batch = <<>> /\ queue[l] = <<>>
    BY DEF Init
  <2> QED
    BY <2>1, <2>2 DEF Init, Outgoing, Received, Pipeline
<1>2. \A l \in Links : Flow[l] = <<>> /\ Len(Flow[l]) = 0
  <2>1. FlowView
    BY TypeInit, FlowFacts
  <2>2. \A l \in Links : conns[l] = <<>>
    BY DEF Init
  <2> QED
    BY <2>1, <2>2 DEF FlowView
<1>3. /\ \A s \in Shards : OfShard(<<>>, s) /\ For(<<>>, s)
      /\ \A n \in Nodes : OfNode(<<>>, n)
      /\ \A l \in Links : OnLink(<<>>, l)
      /\ Numbered(<<>>, made) /\ Distinct(<<>>)
  BY DEF OfShard, For, OfNode, OnLink, Numbered, Distinct
<1>4. Origin(Outgoing, hand, Pipeline, Flow, Received)
  BY <1>1, <1>2, <1>3 DEF Origin
<1>5. Numbers(Outgoing, hand, Pipeline, Flow, Received, made)
  BY <1>1, <1>2, <1>3 DEF Numbers
<1>6. Order(Outgoing, hand, Pipeline, Flow, Received)
  BY <1>1, <1>2, EmptyOrder DEF Order
<1>7. Once(Flow, Received) /\ FirstConnection(Flow, Received)
  BY <1>1, <1>2, <1>3 DEF Once, FirstConnection
<1> QED
  BY <1>4, <1>5, <1>6, <1>7 DEF OrderInv, Line

LEMMA OrderStep == TypeInv /\ TypeInv' /\ OrderInv /\ [Next]_vars => OrderInv'
<1> SUFFICES ASSUME TypeInv, TypeInv', OrderInv, [Next]_vars PROVE OrderInv'
  OBVIOUS
<1>1. ASSUME NEW s \in Shards, Loop(s) \/ Stop(s) PROVE OrderInv'
  BY <1>1, LoopOrder
<1>2. ASSUME NEW n \in Nodes, RunLoop(n) PROVE OrderInv'
  BY <1>2, PlaceHeldOrder, TakeOutboundOrder DEF RunLoop
<1>3. ASSUME NEW l \in Links, Sender(l) PROVE OrderInv'
  BY <1>3, SenderOrder
<1>4. ASSUME NEW l \in Links, NEW k \in 1..MaxConns[l], Inbound(l, k) PROVE OrderInv'
  <2>1. MaxConns[l] \in Nat /\ Len(conns[l]) \in Nat
    BY TransportAssumption DEF Links, TypeInv, TypeOK
  <2>2. k \in 1..Len(conns[l])
    BY <1>4, <2>1 DEF Inbound
  <2> QED
    BY <1>4, <2>2, InboundOrder
<1>5. ASSUME NEW l \in Links, NEW k \in 0..SocketFrames, Break(l, k) PROVE OrderInv'
  <2>1. k \in Nat
    BY TransportAssumption
  <2> QED
    BY <1>5, <2>1, BreakOrder
<1>6. CASE UNCHANGED vars
  <2>1. /\ Outgoing' = Outgoing /\ hand' = hand /\ Pipeline' = Pipeline /\ Flow' = Flow
        /\ Received' = Received /\ made' = made
    BY <1>6 DEF vars, engineVars, Outgoing, Pipeline, Flow, Received
  <2> QED
    BY <2>1 DEF OrderInv
<1> QED
  BY <1>1, <1>2, <1>3, <1>4, <1>5, <1>6 DEF Next

LEMMA SteppedPart ==
  ASSUME TypeInv, NEW s \in Shards
  PROVE  /\ stepped[s] \in Seq(Messages) /\ Len(stepped[s]) \in Nat /\ Len(Received[s]) \in Nat
         /\ \A i \in 1..Len(stepped[s]) : i \in 1..Len(Received[s]) /\ Received[s][i] = stepped[s][i]
<1>1. stepped[s] \in Seq(Messages) /\ inbound[s] \in Seq(Messages)
  BY DEF TypeInv, TypeOK
<1>2. Received[s] = stepped[s] \o inbound[s]
  BY DEF Received
<1>3. \A p, q \in Seq(Messages) : /\ Len(p) \in Nat /\ Len(p \o q) \in Nat
                                  /\ \A i \in 1..Len(p) : i \in 1..Len(p \o q) /\ (p \o q)[i] = p[i]
  OBVIOUS
<1> QED
  BY <1>1, <1>2, <1>3

LEMMA OrderGivesOnce == TypeInv /\ OrderInv => SteppedOnce
<1> SUFFICES ASSUME TypeInv, OrderInv, NEW s \in Shards, NEW i \in 1..Len(stepped[s])
             PROVE  /\ stepped[s][i].to = s[1] /\ stepped[s][i].from[2] = s[2]
                    /\ stepped[s][i].id <= made[stepped[s][i].from]
                    /\ \A j \in 1..Len(stepped[s]) : stepped[s][j] = stepped[s][i] => i = j
  BY DEF SteppedOnce
<1>1. For(Received[s], s) /\ Numbered(Received[s], made) /\ Distinct(Received[s])
  BY DEF OrderInv, Line, Origin, Numbers, Once
<1>2. \A j \in 1..Len(stepped[s]) : j \in 1..Len(Received[s]) /\ Received[s][j] = stepped[s][j]
  BY SteppedPart
<1>3. Received[s][i].to = s[1] /\ Received[s][i].from[2] = s[2]
      /\ Received[s][i].id <= made[Received[s][i].from]
  BY <1>1, <1>2 DEF For, Numbered
<1>4. \A j \in 1..Len(stepped[s]) : Received[s][j] = Received[s][i] => i = j
  BY <1>1, <1>2 DEF Distinct
<1> QED
  BY <1>2, <1>3, <1>4

LEMMA OrderGivesOrder == TypeInv /\ OrderInv => InOrder
<1> SUFFICES ASSUME TypeInv, OrderInv, NEW s \in Shards,
                    NEW i \in 1..Len(stepped[s]), NEW j \in 1..Len(stepped[s]),
                    i < j, stepped[s][i].from = stepped[s][j].from,
                    Len(conns[LinkOf(stepped[s][i])]) = 1
             PROVE  stepped[s][i].id < stepped[s][j].id
  BY DEF InOrder
<1> DEFINE x == stepped[s][i]
           y == stepped[s][j]
           l == LinkOf(x)
<1>1. \A k \in 1..Len(stepped[s]) : k \in 1..Len(Received[s]) /\ Received[s][k] = stepped[s][k]
  BY SteppedPart
<1>2. For(Received[s], s)
  BY DEF OrderInv, Line, Origin
<1>3. x.to = s[1] /\ y.to = s[1] /\ x.to # x.from[1]
  BY <1>1, <1>2 DEF For
<1>4. x \in Messages
  <2>1. stepped[s] \in Seq(Messages)
    BY SteppedPart
  <2> QED
    BY <2>1
<1>5. l \in Links
  <2>1. x.from \in Shards /\ x.to \in Nodes
    BY <1>4 DEF Messages
  <2>2. x.from[1] \in Nodes
    BY <2>1, ShardFacts
  <2> QED
    BY <1>3, <2>1, <2>2 DEF LinkOf, Links
<1>6. Len(Flow[l]) = 1
  BY <1>5, FlowFacts DEF FlowView
<1> HIDE DEF l
<1>7. AscendingOn(Received[s], l)
  BY <1>5, <1>6 DEF OrderInv, Line, FirstConnection
<1>8. SameWay(x, y) /\ LinkOf(x) = l
  BY <1>3 DEF SameWay, l
<1> QED
  BY <1>1, <1>7, <1>8 DEF AscendingOn

LEMMA OrderHolds == Spec => [](TypeInv /\ OrderInv)
  BY TypeInit, TypeStep, OrderInit, OrderStep, PTL DEF Spec

\* Over any number of broken and new connections, raft-rs is given no message
\* twice, and none that was not made for it: a batch that is lost is not sent
\* again, and what a broken connection still brings was not sent on another.
THEOREM StepsOnce == Spec => []SteppedOnce
  BY OrderHolds, OrderGivesOnce, PTL

\* While the first connection of a link lasts, the messages of a shard to a node
\* are stepped in the order in which it made them, whatever is held, batched or
\* waiting on the way.
THEOREM StepsInOrder == Spec => []InOrder
  BY OrderHolds, OrderGivesOrder, PTL
=============================================================================
