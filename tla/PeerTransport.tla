--------------------------- MODULE PeerTransport ---------------------------
(***************************************************************************)
(* The way of raft messages between nodes (net/peer.rs), with the raft     *)
(* side of the mailboxes (channel/mod.rs) and of the event loops           *)
(* (shard/engine.rs): a shard dispatches to its outbound channel; the run  *)
(* loop of the node's transport moves messages to a queue per peer; a      *)
(* sender per peer writes batches to a connection; a task per accepted     *)
(* connection parses frames into the inbound channel of their group and    *)
(* signals its eventfd.                                                    *)
(*                                                                         *)
(* Every queue is bounded, and whoever finds one full waits: backpressure  *)
(* reaches from the inbound channel of one shard back to the event loops   *)
(* of all shards of another node.  A message is lost where its connection  *)
(* is.  What messages say is ShardGroup's subject.                         *)
(***************************************************************************)
EXTENDS Naturals, Sequences, FiniteSets

CONSTANTS
  Nodes,
  Groups,       \* Groups[n]: the groups node n runs a shard of
  MaxMessages,  \* bound: MaxMessages[n][g] messages are made by shard g of n
  Burst,        \* bound: Burst[n][g] messages are made in one turn
  MaxConns,     \* bound: attempts to connect on a link; the last one lasts
  MaxStops,     \* bound: shards that stop
  RaftCapacity, \* channel_capacity * 4
  PeerCapacity, \* 4096
  BatchMax,     \* 128
  SocketFrames  \* the frames a connection holds on their way (external)

ASSUME TransportAssumption ==
  /\ MaxStops \in Nat /\ \A l \in Nodes \X Nodes : MaxConns[l] \in Nat \ {0}
  /\ RaftCapacity \in Nat \ {0} /\ PeerCapacity \in Nat \ {0}
  /\ BatchMax \in Nat \ {0} /\ SocketFrames \in Nat \ {0}
  /\ \A n \in Nodes : \A g \in Groups[n] : {MaxMessages[n][g], Burst[n][g]} \subseteq Nat

Shards == UNION {{n} \X Groups[n] : n \in Nodes}
Links == {l \in Nodes \X Nodes : l[1] # l[2]}
Limit(s) == MaxMessages[s[1]][s[2]]

\* a message of a shard to the shard of the same group on another node
Messages == [from : Shards, to : Nodes, id : Nat]

VARIABLES
  engine,   \* engine[s]: where the event loop of shard s stands
  toSend,   \* toSend[s]: what dispatch_raft_messages has still to send
  made,     \* made[s]: how many messages the shard has made
  inbound,  \* inbound[s]: the channel raft_tx, raft_rx
  outbound, \* outbound[s]: the channel raft_outbound_tx, raft_outbound_rx
  eventfd,  \* eventfd[s]: raft_eventfd is readable
  hand,     \* hand[n]: what the run loop has taken and found no room for
  queue,    \* queue[l]: the queue of the sender of link l
  sender,   \* sender[l]: where run_peer_sender stands, its batch and stream
  conns,    \* conns[l]: the connections made, each with the task that reads it
  stepped   \* stepped[s]: what raft-rs has been given, in order

engineVars == <<engine, toSend, made>>
vars == <<engineVars, inbound, outbound, eventfd, hand, queue, sender, conns, stepped>>

(***************************************************************************)
(* server::start: mailboxes, shards and the transport.  It keeps both ends *)
(* of every channel, so that none is ever disconnected.                    *)
(***************************************************************************)
Init ==
  /\ engine = [s \in Shards |-> "wait"]
  /\ toSend = [s \in Shards |-> <<>>]
  /\ made = [s \in Shards |-> 0]
  /\ inbound = [s \in Shards |-> <<>>]
  /\ outbound = [s \in Shards |-> <<>>]
  /\ eventfd = [s \in Shards |-> FALSE]
  /\ hand = [n \in Nodes |-> <<>>]
  /\ queue = [l \in Links |-> <<>>]
  /\ sender = [l \in Links |-> [pc |-> "idle", batch |-> <<>>, linked |-> FALSE]]
  /\ conns = [l \in Links |-> <<>>]
  /\ stepped = [s \in Shards |-> <<>>]

-----------------------------------------------------------------------------
(***************************************************************************)
(* The event loop of a shard: "wait" in select!, "process" in              *)
(* process_raft_messages, "dispatch" in drive_ready with messages to send, *)
(* "dead" when run has returned.                                           *)
(***************************************************************************)
WakeWithoutProcess(s) ==  \* mutant: the eventfd is drained, the queue is not read
  /\ engine[s] = "wait" /\ eventfd[s]
  /\ eventfd' = [eventfd EXCEPT ![s] = FALSE]
  /\ UNCHANGED <<engineVars, inbound, outbound, hand, queue, sender, conns, stepped>>

\* the raft branch: drain_eventfd, then process_raft_messages
Wake(s) ==
  /\ engine[s] = "wait" /\ eventfd[s]
  /\ eventfd' = [eventfd EXCEPT ![s] = FALSE]
  /\ engine' = [engine EXCEPT ![s] = "process"]
  /\ UNCHANGED <<toSend, made, inbound, outbound, hand, queue, sender, conns, stepped>>

Step(s) ==
  /\ engine[s] = "process" /\ inbound[s] # <<>>
  /\ inbound' = [inbound EXCEPT ![s] = Tail(@)]
  /\ stepped' = [stepped EXCEPT ![s] = Append(@, Head(inbound[s]))]
  /\ UNCHANGED <<engineVars, outbound, eventfd, hand, queue, sender, conns>>

(***************************************************************************)
(* drive_ready, at the end of a turn: raft-rs has messages for `targets'.  *)
(* The turn was one of the raft branch, whose queue is empty by now, or of *)
(* another branch, which does not look at the queue.                       *)
(***************************************************************************)
Ready(s, targets) ==
  /\ \/ engine[s] = "process" /\ inbound[s] = <<>>
     \/ engine[s] = "wait" /\ targets # <<>>
  /\ made[s] + Len(targets) <= Limit(s)
  /\ made' = [made EXCEPT ![s] = @ + Len(targets)]
  /\ toSend' = [toSend EXCEPT ![s] =
       [i \in 1..Len(targets) |-> [from |-> s, to |-> targets[i], id |-> made[s] + i]]]
  /\ engine' = [engine EXCEPT ![s] = IF targets = <<>> THEN "wait" ELSE "dispatch"]
  /\ UNCHANGED <<inbound, outbound, eventfd, hand, queue, sender, conns, stepped>>

DispatchUnbounded(s) ==  \* mutant: an unbounded channel
  /\ engine[s] = "dispatch"
  /\ outbound' = [outbound EXCEPT ![s] = Append(@, Head(toSend[s]))]
  /\ toSend' = [toSend EXCEPT ![s] = Tail(@)]
  /\ engine' = [engine EXCEPT ![s] = IF Len(toSend[s]) = 1 THEN "wait" ELSE @]
  /\ UNCHANGED <<made, inbound, eventfd, hand, queue, sender, conns, stepped>>

\* dispatch_raft_messages: retried until there is room; nothing else runs
Dispatch(s) ==
  /\ engine[s] = "dispatch" /\ Len(outbound[s]) < RaftCapacity
  /\ outbound' = [outbound EXCEPT ![s] = Append(@, Head(toSend[s]))]
  /\ toSend' = [toSend EXCEPT ![s] = Tail(@)]
  /\ engine' = [engine EXCEPT ![s] = IF Len(toSend[s]) = 1 THEN "wait" ELSE @]
  /\ UNCHANGED <<made, inbound, eventfd, hand, queue, sender, conns, stepped>>

\* open fails, or an error in a turn ends run; the process goes on without it
Stop(s) ==
  /\ engine[s] \in {"wait", "process"}
  /\ Cardinality({r \in Shards : engine[r] = "dead"}) < MaxStops
  /\ engine' = [engine EXCEPT ![s] = "dead"]
  /\ UNCHANGED <<toSend, made, inbound, outbound, eventfd, hand, queue, sender,
                 conns, stepped>>

-----------------------------------------------------------------------------
(***************************************************************************)
(* The transport of a node is one thread.  Its tasks change over at their  *)
(* awaits; there is none between try_send and notify_eventfd.  The run     *)
(* loop does not await either while it finds messages and room for them;   *)
(* the model lets other tasks run in between, which adds interleavings.    *)
(***************************************************************************)
Signalling(l, k) == conns[l][k].signal # {}

Runs(n) ==
  \A l \in Links : l[2] = n => \A k \in 1..Len(conns[l]) : ~Signalling(l, k)

(***************************************************************************)
(* PeerTransport::run: the outbound channels are polled in turn.  A        *)
(* message whose peer queue is full is held and tried again, and nothing   *)
(* else is taken until then.                                               *)
(***************************************************************************)
LinkOf(msg) == <<msg.from[1], msg.to>>

HasRoom(msg) == Len(queue[LinkOf(msg)]) < PeerCapacity

TakePastHeld(s) ==  \* mutant: goes on to the next message while one is held
  LET msg == Head(outbound[s]) IN
  /\ Runs(s[1]) /\ outbound[s] # <<>>
  /\ outbound' = [outbound EXCEPT ![s] = Tail(@)]
  /\ IF HasRoom(msg)
     THEN queue' = [queue EXCEPT ![LinkOf(msg)] = Append(@, msg)] /\ hand' = hand
     ELSE hand' = [hand EXCEPT ![s[1]] = <<msg>>] /\ queue' = queue
  /\ UNCHANGED <<engineVars, inbound, eventfd, sender, conns, stepped>>

TakeOutbound(s) ==
  LET msg == Head(outbound[s]) IN
  /\ Runs(s[1]) /\ hand[s[1]] = <<>> /\ outbound[s] # <<>>
  /\ outbound' = [outbound EXCEPT ![s] = Tail(@)]
  /\ IF HasRoom(msg)
     THEN queue' = [queue EXCEPT ![LinkOf(msg)] = Append(@, msg)] /\ hand' = hand
     ELSE hand' = [hand EXCEPT ![s[1]] = <<msg>>] /\ queue' = queue
  /\ UNCHANGED <<engineVars, inbound, eventfd, sender, conns, stepped>>

NeverPlaced(n) == FALSE  \* mutant: the send is not tried again

PlaceHeld(n) ==
  /\ Runs(n) /\ hand[n] # <<>> /\ HasRoom(hand[n][1])
  /\ queue' = [queue EXCEPT ![LinkOf(hand[n][1])] = Append(@, hand[n][1])]
  /\ hand' = [hand EXCEPT ![n] = <<>>]
  /\ UNCHANGED <<engineVars, inbound, outbound, eventfd, sender, conns, stepped>>

-----------------------------------------------------------------------------
(***************************************************************************)
(* run_peer_sender: "idle", "connect" or "write".  The batch in hand is    *)
(* gone when the connection cannot be made or fails.                       *)
(***************************************************************************)
Min2(a, b) == IF a <= b THEN a ELSE b

Idle(linked) == [pc |-> "idle", batch |-> <<>>, linked |-> linked]

TakeBatch(l) ==
  LET k == Min2(BatchMax, Len(queue[l])) IN
  /\ Runs(l[1]) /\ sender[l].pc = "idle" /\ queue[l] # <<>>
  /\ queue' = [queue EXCEPT ![l] = SubSeq(@, k + 1, Len(@))]
  /\ sender' = [sender EXCEPT ![l] =
       [pc |-> IF @.linked THEN "write" ELSE "connect",
        batch |-> SubSeq(queue[l], 1, k), linked |-> @.linked]]
  /\ UNCHANGED <<engineVars, inbound, outbound, eventfd, hand, conns, stepped>>

Conn(flow, read, up, signal) ==
  [flow |-> flow, read |-> read, up |-> up, signal |-> signal]

NewConn(up) == Conn(<<>>, 0, up, {})

Connect(l) ==
  /\ Runs(l[1]) /\ sender[l].pc = "connect" /\ Len(conns[l]) < MaxConns[l]
  /\ conns' = [conns EXCEPT ![l] = Append(@, NewConn(TRUE))]
  /\ sender' = [sender EXCEPT ![l] =
       [pc |-> "write", batch |-> @.batch, linked |-> TRUE]]
  /\ UNCHANGED <<engineVars, inbound, outbound, eventfd, hand, queue, stepped>>

\* a connection that was never made counts as one that was lost at once
ConnectFails(l) ==
  /\ Runs(l[1]) /\ sender[l].pc = "connect" /\ Len(conns[l]) + 1 < MaxConns[l]
  /\ conns' = [conns EXCEPT ![l] = Append(@, NewConn(FALSE))]
  /\ sender' = [sender EXCEPT ![l] = Idle(FALSE)]
  /\ UNCHANGED <<engineVars, inbound, outbound, eventfd, hand, queue, stepped>>

Current(l) == conns[l][Len(conns[l])]

\* write_all goes on as far as the connection takes it
WriteFrame(l) ==
  LET snd == sender[l] IN
  /\ Runs(l[1]) /\ snd.pc = "write" /\ Current(l).up
  /\ Len(Current(l).flow) - Current(l).read < SocketFrames
  /\ conns' = [conns EXCEPT ![l][Len(conns[l])] =
       Conn(Append(@.flow, Head(snd.batch)), @.read, @.up, @.signal)]
  /\ sender' = [sender EXCEPT ![l] =
       IF Len(snd.batch) = 1 THEN Idle(TRUE)
       ELSE [pc |-> "write", batch |-> Tail(snd.batch), linked |-> TRUE]]
  /\ UNCHANGED <<engineVars, inbound, outbound, eventfd, hand, queue, stepped>>

WriteFailsAndRepeats(l) ==  \* mutant: what the batch began with is sent again
  /\ Runs(l[1]) /\ sender[l].pc = "write" /\ ~Current(l).up
  /\ sender' = [sender EXCEPT ![l] =
       [pc |-> "connect", batch |-> Current(l).flow \o @.batch, linked |-> FALSE]]
  /\ UNCHANGED <<engineVars, inbound, outbound, eventfd, hand, queue, conns, stepped>>

\* the connection turns out to be broken: the next batch makes a new one
WriteFails(l) ==
  /\ Runs(l[1]) /\ sender[l].pc = "write" /\ ~Current(l).up
  /\ sender' = [sender EXCEPT ![l] = Idle(FALSE)]
  /\ UNCHANGED <<engineVars, inbound, outbound, eventfd, hand, queue, conns, stepped>>

\* the system takes the bytes before it knows that the connection is broken
WriteUnnoticed(l) ==
  /\ Runs(l[1]) /\ sender[l].pc = "write" /\ ~Current(l).up
  /\ sender' = [sender EXCEPT ![l] = Idle(TRUE)]
  /\ UNCHANGED <<engineVars, inbound, outbound, eventfd, hand, queue, conns, stepped>>

\* A connection breaks; what the other side has not read may be lost with it,
\* a frame cut in half included: it is never parsed.
Break(l, k) ==
  /\ conns[l] # <<>> /\ Len(conns[l]) < MaxConns[l] /\ Current(l).up
  /\ k \in Current(l).read..Len(Current(l).flow)
  /\ conns' = [conns EXCEPT ![l][Len(conns[l])] =
       Conn(SubSeq(@.flow, 1, k), @.read, FALSE, @.signal)]
  /\ UNCHANGED <<engineVars, inbound, outbound, eventfd, hand, queue, sender, stepped>>

-----------------------------------------------------------------------------
(***************************************************************************)
(* handle_inbound of connection k of link l, at the node l[2].  A read     *)
(* brings some whole frames to parse_buf; they are parsed before the next  *)
(* read.  A frame whose group is unknown here is dropped; one whose        *)
(* channel is full is tried again, and holds up all that follow.  The task *)
(* of a broken connection ends when it has read what is left.              *)
(***************************************************************************)
Target(l, k) == <<l[2], Head(conns[l][k].flow).from[2]>>

ReadFrames(l, k, frames) ==
  /\ Runs(l[2]) /\ conns[l][k].read = 0
  /\ frames \in 1..Len(conns[l][k].flow)
  /\ conns' = [conns EXCEPT ![l][k] = Conn(@.flow, frames, @.up, @.signal)]
  /\ UNCHANGED <<engineVars, inbound, outbound, eventfd, hand, queue, sender, stepped>>

Deliver(l, k) ==
  LET s == Target(l, k) IN
  /\ Runs(l[2]) /\ conns[l][k].read > 0
  /\ s \in Shards /\ Len(inbound[s]) < RaftCapacity
  /\ inbound' = [inbound EXCEPT ![s] = Append(@, Head(conns[l][k].flow))]
  /\ conns' = [conns EXCEPT ![l][k] =
       Conn(Tail(@.flow), @.read - 1, @.up, {s})]
  /\ UNCHANGED <<engineVars, outbound, eventfd, hand, queue, sender, stepped>>

Notify(l, k) ==
  /\ Signalling(l, k)
  /\ eventfd' = [s \in Shards |-> eventfd[s] \/ s \in conns[l][k].signal]
  /\ conns' = [conns EXCEPT ![l][k] = Conn(@.flow, @.read, @.up, {})]
  /\ UNCHANGED <<engineVars, inbound, outbound, hand, queue, sender, stepped>>

KeepUnknown(l, k) == FALSE  \* mutant: continue without parse_buf.drain

DropUnknown(l, k) ==
  /\ Runs(l[2]) /\ conns[l][k].read > 0
  /\ Target(l, k) \notin Shards
  /\ conns' = [conns EXCEPT ![l][k] = Conn(Tail(@.flow), @.read - 1, @.up, @.signal)]
  /\ UNCHANGED <<engineVars, inbound, outbound, eventfd, hand, queue, sender, stepped>>

-----------------------------------------------------------------------------
Targets(s) == {<<>>} \cup [1..Burst[s[1]][s[2]] -> Nodes \ {s[1]}]

Loop(s) ==
  \/ Wake(s) \/ Step(s) \/ Dispatch(s)
  \/ \E targets \in Targets(s) : Ready(s, targets)

RunLoop(n) == PlaceHeld(n) \/ \E s \in Shards : s[1] = n /\ TakeOutbound(s)

Sender(l) ==
  TakeBatch(l) \/ Connect(l) \/ ConnectFails(l) \/ WriteFrame(l) \/ WriteFails(l)
    \/ WriteUnnoticed(l)

Inbound(l, k) ==
  /\ k <= Len(conns[l])
  /\ \/ \E frames \in 1..SocketFrames : ReadFrames(l, k, frames)
     \/ Deliver(l, k) \/ Notify(l, k) \/ DropUnknown(l, k)

Next ==
  \/ \E s \in Shards : Loop(s) \/ Stop(s)
  \/ \E n \in Nodes : RunLoop(n)
  \/ \E l \in Links :
       \/ Sender(l)
       \/ \E k \in 1..MaxConns[l] : Inbound(l, k)
       \/ \E k \in 0..SocketFrames : Break(l, k)

Spec == Init /\ [][Next]_vars

\* Threads and tasks go on when they can.  That a shard makes messages, stops,
\* or that a connection breaks, is never assumed.
FairSpec ==
  /\ Spec
  /\ \A s \in Shards : WF_vars(Wake(s) \/ Step(s) \/ Dispatch(s) \/ Ready(s, <<>>))
  /\ \A n \in Nodes : WF_vars(RunLoop(n))
  /\ \A l \in Links : WF_vars(Sender(l)) /\ \A k \in 1..MaxConns[l] : WF_vars(Inbound(l, k))

-----------------------------------------------------------------------------
Conns ==
  [flow : Seq(Messages), read : Nat, up : BOOLEAN, signal : SUBSET Shards]

\* Types, and every queue keeps to its bound.
TypeOK ==
  /\ engine \in [Shards -> {"wait", "process", "dispatch", "dead"}]
  /\ toSend \in [Shards -> Seq(Messages)]
  /\ made \in [Shards -> Nat]
  /\ inbound \in [Shards -> {q \in Seq(Messages) : Len(q) <= RaftCapacity}]
  /\ outbound \in [Shards -> {q \in Seq(Messages) : Len(q) <= RaftCapacity}]
  /\ eventfd \in [Shards -> BOOLEAN]
  /\ hand \in [Nodes -> {q \in Seq(Messages) : Len(q) <= 1}]
  /\ queue \in [Links -> {q \in Seq(Messages) : Len(q) <= PeerCapacity}]
  /\ sender \in [Links -> [pc : {"idle", "connect", "write"}, linked : BOOLEAN,
                           batch : {q \in Seq(Messages) : Len(q) <= BatchMax}]]
  /\ conns \in [Links -> Seq(Conns)]
  /\ stepped \in [Shards -> Seq(Messages)]

\* A message in an inbound channel is going to be seen: the eventfd is readable,
\* a task is about to make it so, or the shard is reading the channel.  The timer
\* branch does not look at the channel, so a lost signal would strand it.
NoLostRaftWakeup ==
  \A s \in Shards : inbound[s] # <<>> =>
    \/ eventfd[s] \/ engine[s] \in {"process", "dead"}
    \/ \E l \in Links : \E k \in 1..Len(conns[l]) : s \in conns[l][k].signal

\* raft-rs is given a message at most once, over broken connections too, and
\* only by the shard of the group and node it was meant for.
SteppedOnce ==
  \A s \in Shards : \A i \in 1..Len(stepped[s]) :
    LET msg == stepped[s][i] IN
    /\ msg.to = s[1] /\ msg.from[2] = s[2] /\ msg.id <= made[msg.from]
    /\ \A j \in 1..Len(stepped[s]) : stepped[s][j] = msg => i = j

\* As long as the first connection from a node lasts, its messages are stepped in
\* the order in which they were dispatched.  A reconnect ends this: two tasks may
\* then be reading messages of one shard.
InOrder ==
  \A s \in Shards : \A i, j \in 1..Len(stepped[s]) :
    LET x == stepped[s][i]
        y == stepped[s][j]
    IN  i < j /\ x.from = y.from /\ Len(conns[LinkOf(x)]) = 1 => x.id < y.id

-----------------------------------------------------------------------------
(***************************************************************************)
(* Liveness, under FairSpec.                                               *)
(***************************************************************************)

\* a shard that does not read its full channel: it has stopped, or it waits
\* itself for room to send
Blocking(s) == Len(inbound[s]) = RaftCapacity /\ engine[s] \in {"dispatch", "dead"}

\* The event loop of a shard hangs in dispatch_raft_messages only behind a shard
\* of another node that does not read its full channel: a node never blocks
\* itself, and no lost message or broken connection blocks it.
StuckBehindAnother ==
  \A n \in Nodes :
    <>[](\E s \in Shards : s[1] = n /\ engine[s] = "dispatch")
    => <>[](\E s \in Shards : s[1] # n /\ Blocking(s))

\* nothing is on its way, and no shard that could read has anything to read
Settled ==
  /\ \A s \in Shards : toSend[s] = <<>> /\ outbound[s] = <<>>
  /\ \A s \in Shards : inbound[s] = <<>> \/ engine[s] = "dead"
  /\ \A n \in Nodes : hand[n] = <<>>
  /\ \A l \in Links : queue[l] = <<>> /\ sender[l].batch = <<>>
  /\ \A l \in Links : \A k \in 1..Len(conns[l]) : conns[l][k].flow = <<>>

\* Every message is stepped or lost in the end: nothing stays on its way for
\* ever unless some shard does not read its full channel.
TransportSettles == <>[](Settled \/ \E s \in Shards : Blocking(s))
=============================================================================
