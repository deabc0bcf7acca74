----------------------------- MODULE ClientPath -----------------------------
(***************************************************************************)
(* The way of a request through one node: the acceptor and its connection  *)
(* tasks (net/acceptor.rs), decoding and routing (protocol/codec.rs,       *)
(* shard/router.rs), the mailbox of a shard (channel/mod.rs) and the event *)
(* loop that empties it (shard/engine.rs).  What an engine decides is in   *)
(* ShardGroup; here it answers a request at once or keeps it and answers   *)
(* it in a later turn.                                                     *)
(*                                                                         *)
(* The acceptor is one thread whose tasks take turns at an await; a shard  *)
(* is a thread of its own.  The k-th request of connection c is <<c, k>>,  *)
(* and so is the answer to it: the wire format names neither, a client     *)
(* tells its answers apart by their order.  Bytes are counted in halves of *)
(* a frame, the header and the payload.                                    *)
(***************************************************************************)
EXTENDS Integers, Sequences, FiniteSets

CONSTANTS
  Conns,        \* connection ids, never given twice
  Shards,
  Capacity,     \* channel_capacity
  MaxRequests,  \* bound: requests of one connection
  Window,       \* requests a client has unanswered at a time
  Route,        \* ShardRouter::route_stream of a request's stream
  Malformed     \* requests whose header does not decode

Requests == Conns \X (1..MaxRequests)

ASSUME PathAssumption ==
  /\ Capacity \in Nat \ {0} /\ MaxRequests \in Nat /\ Window \in Nat \ {0}
  /\ Route \in [Requests -> Shards] /\ Malformed \subseteq Requests

VARIABLES
  \* clients
  alive,      \* the client holds its end of the connection open
  asked,      \* requests it has written
  got,        \* answers it has read, in order
  \* connection tasks of the acceptor
  task,       \* where handle_connection stands
  unread,     \* halves of frames in the socket
  parseBuf,   \* halves of frames in parse_buf
  seen,       \* frames taken from parse_buf
  respQueue,  \* the queue of the connection in the ResponseMap
  batch,      \* answers the flush has drained and not written
  panicked,   \* a task of the acceptor panicked: BorrowMutError
  \* mailboxes and engines
  requestCh,  \* request_tx, request_rx
  responseCh, \* response_tx, response_rx
  eventfd,    \* request_eventfd is readable
  engine,     \* where ShardEngine::run stands
  inHand,     \* requests an engine has taken and not answered
  dropped     \* answers a full response channel refused (history)

clientVars == <<alive, asked, got>>
taskVars == <<task, unread, parseBuf, seen, respQueue, batch>>
shardVars == <<requestCh, responseCh, eventfd, engine, inHand, dropped>>
vars == <<clientVars, taskVars, panicked, shardVars>>

Header == 1
Frame == 2

Init ==
  /\ alive = [c \in Conns |-> TRUE]
  /\ asked = [c \in Conns |-> 0]
  /\ got = [c \in Conns |-> <<>>]
  /\ task = [c \in Conns |-> "none"]
  /\ unread = [c \in Conns |-> 0]
  /\ parseBuf = [c \in Conns |-> 0]
  /\ seen = [c \in Conns |-> 0]
  /\ respQueue = [c \in Conns |-> <<>>]
  /\ batch = [c \in Conns |-> <<>>]
  /\ panicked = FALSE
  /\ requestCh = [s \in Shards |-> <<>>]
  /\ responseCh = [s \in Shards |-> <<>>]
  /\ eventfd = [s \in Shards |-> FALSE]
  /\ engine = [s \in Shards |-> "wait"]
  /\ inHand = [s \in Shards |-> {}]
  /\ dropped = {}

-----------------------------------------------------------------------------
(***************************************************************************)
(* Clients.                                                                *)
(***************************************************************************)
Ask(c) ==
  /\ alive[c] /\ task[c] \notin {"none", "gone"}
  /\ asked[c] < MaxRequests /\ asked[c] - Len(got[c]) < Window
  /\ asked' = [asked EXCEPT ![c] = @ + 1]
  /\ unread' = [unread EXCEPT ![c] = @ + Frame]
  /\ UNCHANGED <<alive, got, task, parseBuf, seen, respQueue, batch, panicked, shardVars>>

HangUp(c) ==
  /\ alive[c] /\ task[c] # "none"
  /\ alive' = [alive EXCEPT ![c] = FALSE]
  /\ UNCHANGED <<asked, got, taskVars, panicked, shardVars>>

-----------------------------------------------------------------------------
(***************************************************************************)
(* Connection tasks.  Between try_send and notify_eventfd there is no      *)
(* await: the shards go on, the other tasks of the acceptor do not.        *)
(***************************************************************************)
Runs(c, where) ==
  /\ task[c] = where
  /\ \A d \in Conns \ {c} : task[d] # "notify"

Goto(c, where) == task' = [task EXCEPT ![c] = where]

InMap(c) == task[c] \notin {"none", "gone"}

Receives(c, r) == got' = IF alive[c] THEN [got EXCEPT ![c] = Append(@, r)] ELSE got

\* accept: the connection enters the ResponseMap
Accept(c) ==
  /\ Runs(c, "none")
  /\ Goto(c, "top")
  /\ UNCHANGED <<clientVars, unread, parseBuf, seen, respQueue, batch, panicked, shardVars>>

\* handle_connection returns, the ResponseMap forgets the connection
Return(c) ==
  /\ Goto(c, "gone")
  /\ respQueue' = [respQueue EXCEPT ![c] = <<>>]
  /\ batch' = [batch EXCEPT ![c] = <<>>]
  /\ UNCHANGED <<clientVars, unread, parseBuf, seen, panicked, shardVars>>

\* mutant: the queue is read and not drained
FlushWithoutDrain(c) ==
  /\ Runs(c, "top")
  /\ batch' = [batch EXCEPT ![c] = respQueue[c]]
  /\ Goto(c, IF respQueue[c] = <<>> THEN "select" ELSE "flush")
  /\ UNCHANGED <<clientVars, unread, parseBuf, seen, respQueue, panicked, shardVars>>

Flush(c) ==
  /\ Runs(c, "top")
  /\ batch' = [batch EXCEPT ![c] = respQueue[c]]
  /\ respQueue' = [respQueue EXCEPT ![c] = <<>>]
  /\ Goto(c, IF respQueue[c] = <<>> THEN "select" ELSE "flush")
  /\ UNCHANGED <<clientVars, unread, parseBuf, seen, panicked, shardVars>>

\* one write_all of the flush
FlushWrite(c) ==
  /\ Runs(c, "flush")
  /\ Receives(c, Head(batch[c]))
  /\ batch' = [batch EXCEPT ![c] = Tail(@)]
  /\ Goto(c, IF Tail(batch[c]) = <<>> THEN "select" ELSE "flush")
  /\ UNCHANGED <<alive, asked, unread, parseBuf, seen, respQueue, panicked, shardVars>>

\* write_all fails
WriteFails(c) ==
  /\ Runs(c, "flush") \/ Runs(c, "refuse")
  /\ ~alive[c]
  /\ Return(c)

\* the read branch of select!, with any part of what the socket holds
ReadSome(c) ==
  /\ Runs(c, "select")
  /\ \E n \in 1..unread[c] :
       /\ unread' = [unread EXCEPT ![c] = @ - n]
       /\ parseBuf' = [parseBuf EXCEPT ![c] = @ + n]
  /\ Goto(c, "parse")
  /\ UNCHANGED <<clientVars, seen, respQueue, batch, panicked, shardVars>>

\* Ok(0) or a read error
ReadEnds(c) ==
  /\ Runs(c, "select") /\ ~alive[c]
  /\ Return(c)

\* the sleep branch of select!
ReadTimesOut(c) ==
  /\ Runs(c, "select")
  /\ Goto(c, "top")
  /\ UNCHANGED <<clientVars, unread, parseBuf, seen, respQueue, batch, panicked, shardVars>>

(***************************************************************************)
(* The parse loop.  decode_request refuses a bad header as soon as it is   *)
(* there and waits for the whole frame otherwise.                          *)
(***************************************************************************)
NextFrame(c) == <<c, seen[c] + 1>>

BadHeader(c) == parseBuf[c] >= Header /\ NextFrame(c) \in Malformed

WholeFrame(c) == parseBuf[c] >= Frame /\ NextFrame(c) \notin Malformed

ProtocolError(c) ==
  /\ Runs(c, "parse") /\ BadHeader(c)
  /\ Return(c)

\* mutant: what is left in parse_buf is thrown away
ParseAfresh(c) ==
  /\ Runs(c, "parse") /\ ~BadHeader(c) /\ ~WholeFrame(c)
  /\ parseBuf' = [parseBuf EXCEPT ![c] = 0]
  /\ Goto(c, "top")
  /\ UNCHANGED <<clientVars, unread, seen, respQueue, batch, panicked, shardVars>>

ParseMore(c) ==
  /\ Runs(c, "parse") /\ ~BadHeader(c) /\ ~WholeFrame(c)
  /\ Goto(c, "top")
  /\ UNCHANGED <<clientVars, unread, parseBuf, seen, respQueue, batch, panicked, shardVars>>

RoomForOneMore(ch) == Len(ch) <= Capacity  \* mutant: off by one

HasRoom(ch) == Len(ch) < Capacity

ParseFrame(c) ==
  LET r == NextFrame(c)
      s == Route[r]
  IN
  /\ Runs(c, "parse") /\ WholeFrame(c)
  /\ parseBuf' = [parseBuf EXCEPT ![c] = @ - Frame]
  /\ seen' = [seen EXCEPT ![c] = @ + 1]
  /\ \/ /\ HasRoom(requestCh[s])
        /\ requestCh' = [requestCh EXCEPT ![s] = Append(@, r)]
        /\ Goto(c, "notify")
     \/ /\ ~HasRoom(requestCh[s])
        /\ Goto(c, "refuse")
        /\ UNCHANGED requestCh
  /\ UNCHANGED <<clientVars, unread, respQueue, batch, panicked, responseCh, eventfd,
                 engine, inHand, dropped>>

Current(c) == <<c, seen[c]>>

\* mutant: the shard of the connection's first request is notified
NotifyFirst(c) ==
  /\ Runs(c, "notify")
  /\ eventfd' = [eventfd EXCEPT ![Route[<<c, 1>>]] = TRUE]
  /\ Goto(c, "parse")
  /\ UNCHANGED <<clientVars, unread, parseBuf, seen, respQueue, batch, panicked, requestCh,
                 responseCh, engine, inHand, dropped>>

\* notify_eventfd
Notify(c) ==
  /\ Runs(c, "notify")
  /\ eventfd' = [eventfd EXCEPT ![Route[Current(c)]] = TRUE]
  /\ Goto(c, "parse")
  /\ UNCHANGED <<clientVars, unread, parseBuf, seen, respQueue, batch, panicked, requestCh,
                 responseCh, engine, inHand, dropped>>

\* the mailbox is full: ErrShardUnavailable, straight to the socket
Refuse(c) ==
  /\ Runs(c, "refuse")
  /\ Receives(c, Current(c))
  /\ Goto(c, "parse")
  /\ UNCHANGED <<alive, asked, unread, parseBuf, seen, respQueue, batch, panicked, shardVars>>

-----------------------------------------------------------------------------
(***************************************************************************)
(* drain_responses_to_map, one answer at a time.  A pass has no await; that *)
(* tasks may run between two answers of it is as if the second had been     *)
(* sent a little later.  The flush of a connection keeps its queue borrowed *)
(* while a write is under way; a second borrow panics.                      *)
(***************************************************************************)
\* mutant: the borrow lasts to the end of the iteration
BorrowedAllAlong(c) == task[c] \in {"flush", "select"}

Borrowed(c) == task[c] = "flush"

DrainResponses(s) ==
  LET r == Head(responseCh[s])
      c == r[1]
  IN
  /\ \A d \in Conns : task[d] # "notify"
  /\ responseCh[s] # <<>>
  /\ responseCh' = [responseCh EXCEPT ![s] = Tail(@)]
  /\ respQueue' = IF InMap(c) THEN [respQueue EXCEPT ![c] = Append(@, r)] ELSE respQueue
  /\ panicked' = Borrowed(c)
  /\ UNCHANGED <<clientVars, task, unread, parseBuf, seen, batch, requestCh, eventfd,
                 engine, inHand, dropped>>

-----------------------------------------------------------------------------
(***************************************************************************)
(* ShardEngine::run.  wait_eventfd_readable reads the eventfd, the branch  *)
(* of select! reads it again, then the mailbox is emptied; timer and raft  *)
(* branch leave the mailbox alone.  The rest of the turn may answer what   *)
(* is in hand.                                                             *)
(***************************************************************************)
At(s, where) == engine[s] = where

Move(s, where) == engine' = [engine EXCEPT ![s] = where]

\* send_response: try_send, its result ignored
SendResponse(s, r) ==
  IF HasRoom(responseCh[s])
  THEN /\ responseCh' = [responseCh EXCEPT ![s] = Append(@, r)]
       /\ UNCHANGED dropped
  ELSE /\ dropped' = dropped \cup {r}
       /\ UNCHANGED responseCh

Wake(s) ==
  /\ At(s, "wait") /\ eventfd[s]
  /\ eventfd' = [eventfd EXCEPT ![s] = FALSE]
  /\ Move(s, "drain")
  /\ UNCHANGED <<clientVars, taskVars, panicked, requestCh, responseCh, inHand, dropped>>

DrainEventfd(s) ==
  /\ At(s, "drain")
  /\ eventfd' = [eventfd EXCEPT ![s] = FALSE]
  /\ Move(s, "process")
  /\ UNCHANGED <<clientVars, taskVars, panicked, requestCh, responseCh, inHand, dropped>>

\* try_recv and handle_client_request, which answers or keeps the request
HandleClientRequest(s) ==
  /\ At(s, "process") /\ requestCh[s] # <<>>
  /\ requestCh' = [requestCh EXCEPT ![s] = Tail(@)]
  /\ \/ SendResponse(s, Head(requestCh[s])) /\ UNCHANGED inHand
     \/ /\ inHand' = [inHand EXCEPT ![s] = @ \cup {Head(requestCh[s])}]
        /\ UNCHANGED <<responseCh, dropped>>
  /\ UNCHANGED <<clientVars, taskVars, panicked, eventfd, engine>>

Processed(s) ==
  /\ At(s, "process") /\ requestCh[s] = <<>>
  /\ Move(s, "turn")
  /\ UNCHANGED <<clientVars, taskVars, panicked, requestCh, responseCh, eventfd, inHand,
                 dropped>>

OtherBranch(s) ==
  /\ At(s, "wait")
  /\ Move(s, "turn")
  /\ UNCHANGED <<clientVars, taskVars, panicked, requestCh, responseCh, eventfd, inHand,
                 dropped>>

\* drive_ready or a lost leadership answers a pending write
AnswerPending(s) ==
  /\ At(s, "turn")
  /\ \E r \in inHand[s] :
       /\ inHand' = [inHand EXCEPT ![s] = @ \ {r}]
       /\ SendResponse(s, r)
  /\ UNCHANGED <<clientVars, taskVars, panicked, requestCh, eventfd, engine>>

TurnEnds(s) ==
  /\ At(s, "turn")
  /\ Move(s, "wait")
  /\ UNCHANGED <<clientVars, taskVars, panicked, requestCh, responseCh, eventfd, inHand,
                 dropped>>

-----------------------------------------------------------------------------
Client(c) == Ask(c) \/ HangUp(c)

Task(c) ==
  \/ Accept(c) \/ Flush(c) \/ FlushWrite(c) \/ WriteFails(c)
  \/ ReadSome(c) \/ ReadEnds(c) \/ ReadTimesOut(c)
  \/ ProtocolError(c) \/ ParseMore(c) \/ ParseFrame(c) \/ Notify(c) \/ Refuse(c)

Engine(s) ==
  \/ Wake(s) \/ DrainEventfd(s) \/ HandleClientRequest(s) \/ Processed(s)
  \/ OtherBranch(s) \/ AnswerPending(s) \/ TurnEnds(s)

Next ==
  /\ ~panicked
  /\ \/ \E c \in Conns : Client(c) \/ Task(c)
     \/ \E s \in Shards : Engine(s) \/ DrainResponses(s)

Spec == Init /\ [][Next]_vars

(***************************************************************************)
(* The runtimes poll every task that is ready.  select! polls its branches *)
(* in random order, so a branch that is ready again and again is taken in  *)
(* the end, and a pending write is answered (EveryWriteAnswered).          *)
(***************************************************************************)
FairSpec ==
  /\ Spec
  /\ \A c \in Conns : WF_vars(~panicked /\ Task(c)) /\ SF_vars(~panicked /\ ReadSome(c))
  /\ \A s \in Shards : /\ WF_vars(~panicked /\ Engine(s))
                       /\ WF_vars(~panicked /\ DrainResponses(s))
                       /\ SF_vars(~panicked /\ Wake(s))
                       /\ SF_vars(~panicked /\ AnswerPending(s))

-----------------------------------------------------------------------------
\* Types, and the bounds of the channels.
TypeOK ==
  /\ alive \in [Conns -> BOOLEAN]
  /\ asked \in [Conns -> 0..MaxRequests] /\ seen \in [Conns -> 0..MaxRequests]
  /\ got \in [Conns -> Seq(Requests)]
  /\ task \in [Conns -> {"none", "top", "flush", "select", "parse", "notify", "refuse", "gone"}]
  /\ unread \in [Conns -> Nat] /\ parseBuf \in [Conns -> Nat]
  /\ respQueue \in [Conns -> Seq(Requests)] /\ batch \in [Conns -> Seq(Requests)]
  /\ panicked \in BOOLEAN
  /\ requestCh \in [Shards -> Seq(Requests)] /\ responseCh \in [Shards -> Seq(Requests)]
  /\ \A s \in Shards : Len(requestCh[s]) <= Capacity /\ Len(responseCh[s]) <= Capacity
  /\ eventfd \in [Shards -> BOOLEAN]
  /\ engine \in [Shards -> {"wait", "drain", "process", "turn"}]
  /\ inHand \in [Shards -> SUBSET Requests] /\ dropped \subseteq Requests

\* No wake-up is lost: a request in the mailbox has its eventfd set, or its
\* engine about to empty the mailbox, or its task about to set the eventfd.
NoLostWakeup ==
  \A s \in Shards : requestCh[s] # <<>> =>
    \/ eventfd[s]
    \/ engine[s] \in {"drain", "process"}
    \/ \E c \in Conns : task[c] = "notify" /\ Route[Current(c)] = s

\* A client that waits for each answer takes every answer for the request it
\* belongs to: none is lost to another client, repeated or overtaken, also
\* when refusals go straight to the socket and other connections end.
AnswersInOrder ==
  \A c \in Conns : \A i \in 1..Len(got[c]) : got[c][i] = <<c, i>>

\* No answer arrives while the flush of its connection holds the queue, so
\* the acceptor does not panic (server.rs joins it with expect).
NeverPanics == ~panicked

\* No client waits for ever: it has the answers to all it asked, or its
\* connection ends, or a full response channel dropped an answer of its.
EveryRequestAnswered ==
  \A c \in Conns :
    []<>(\/ Len(got[c]) = asked[c]
         \/ ~alive[c] \/ task[c] = "gone"
         \/ \E r \in dropped : r[1] = c)
=============================================================================
