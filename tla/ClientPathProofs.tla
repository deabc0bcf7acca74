-------------------------- MODULE ClientPathProofs --------------------------
(***************************************************************************)
(* Theorems about ClientPath, for every number of connections and shards   *)
(* and every capacity.  The first ones hold for every window, those of the *)
(* last part for clients that wait for each answer.                        *)
(***************************************************************************)
EXTENDS ClientPath, SequenceTheorems, TLAPS

\* the parts of TypeOK: flags, connections, mailboxes
FlagTypes ==
  /\ alive \in [Conns -> BOOLEAN]
  /\ panicked \in BOOLEAN
  /\ eventfd \in [Shards -> BOOLEAN]

ConnTypes ==
  /\ asked \in [Conns -> 0..MaxRequests] /\ seen \in [Conns -> 0..MaxRequests]
  /\ got \in [Conns -> Seq(Requests)]
  /\ task \in [Conns -> {"none", "top", "flush", "select", "parse", "notify", "refuse", "gone"}]
  /\ unread \in [Conns -> Nat] /\ parseBuf \in [Conns -> Nat]
  /\ respQueue \in [Conns -> Seq(Requests)] /\ batch \in [Conns -> Seq(Requests)]

ShardTypes ==
  /\ requestCh \in [Shards -> Seq(Requests)] /\ responseCh \in [Shards -> Seq(Requests)]
  /\ \A s \in Shards : Len(requestCh[s]) <= Capacity /\ Len(responseCh[s]) <= Capacity
  /\ engine \in [Shards -> {"wait", "drain", "process", "turn"}]
  /\ inHand \in [Shards -> SUBSET Requests] /\ dropped \subseteq Requests

\* what was written is in the socket, in parse_buf or taken from it
Flow ==
  \A c \in Conns : unread[c] + parseBuf[c] + Frame * seen[c] = Frame * asked[c]

\* a flush under way has something to write
Flushing ==
  \A c \in Conns : task[c] = "flush" => batch[c] # <<>>

\* a request being handed over or refused has been taken from parse_buf
HandingOver ==
  \A c \in Conns : task[c] \in {"notify", "refuse"} => seen[c] # 0

ConnInv == ConnTypes /\ Flow /\ Flushing /\ HandingOver

Inv == FlagTypes /\ ConnInv /\ ShardTypes /\ NoLostWakeup

LEMMA TypesSplit ==
  TypeOK <=> FlagTypes /\ ConnTypes /\ ShardTypes
BY DEF TypeOK, FlagTypes, ConnTypes, ShardTypes

LEMMA InitInv ==
  Init => Inv
<1> SUFFICES ASSUME Init PROVE Inv
  OBVIOUS
<1>1. <<>> \in Seq(Requests) /\ Len(<<>>) = 0 /\ 0 \in 0..MaxRequests /\ Capacity \in Nat
  BY EmptySeq, PathAssumption
<1>2. FlagTypes
  BY Zenon DEF Init, FlagTypes
<1>3. ConnInv
  BY <1>1 DEF Init, ConnInv, ConnTypes, Flow, Flushing, HandingOver, Frame
<1>4. ShardTypes
  BY <1>1 DEF Init, ShardTypes
<1>5. NoLostWakeup
  BY DEF Init, NoLostWakeup
<1> QED
  BY <1>2, <1>3, <1>4, <1>5 DEF Inv

(***************************************************************************)
(* A frame that is whole, and an answer under way, belong to a request.    *)
(***************************************************************************)
LEMMA Named ==
  ASSUME Inv, NEW c \in Conns
  PROVE  /\ WholeFrame(c) => seen[c] + 1 \in 1..MaxRequests /\ NextFrame(c) \in Requests
         /\ task[c] \in {"notify", "refuse"} => Current(c) \in Requests
         /\ task[c] = "flush" => Head(batch[c]) \in Requests /\ Tail(batch[c]) \in Seq(Requests)
<1>1. /\ asked[c] \in 0..MaxRequests /\ seen[c] \in 0..MaxRequests /\ MaxRequests \in Nat
      /\ unread[c] \in Nat /\ parseBuf[c] \in Nat /\ batch[c] \in Seq(Requests)
      /\ unread[c] + parseBuf[c] + Frame * seen[c] = Frame * asked[c]
  BY PathAssumption DEF Inv, ConnInv, ConnTypes, Flow
<1>2. WholeFrame(c) => seen[c] + 1 \in 1..MaxRequests
  <2>1. WholeFrame(c) => parseBuf[c] >= 2
    BY DEF WholeFrame, Frame
  <2>2. unread[c] + parseBuf[c] + 2 * seen[c] = 2 * asked[c]
    BY <1>1 DEF Frame
  <2>3. parseBuf[c] >= 2 => seen[c] + 1 <= asked[c]
    BY <1>1, <2>2
  <2> QED
    BY <1>1, <2>1, <2>3
<1>3. WholeFrame(c) => NextFrame(c) \in Requests
  BY <1>2 DEF NextFrame, Requests
<1>4. task[c] \in {"notify", "refuse"} => Current(c) \in Requests
  BY <1>1 DEF Inv, ConnInv, HandingOver, Current, Requests
<1>5. task[c] = "flush" => Head(batch[c]) \in Requests /\ Tail(batch[c]) \in Seq(Requests)
  BY <1>1, HeadTailProperties DEF Inv, ConnInv, Flushing
<1> QED
  BY <1>2, <1>3, <1>4, <1>5

(***************************************************************************)
(* Flags stay flags, whatever the step.                                    *)
(***************************************************************************)
LEMMA FlagStep ==
  ASSUME Inv, [Next]_vars
  PROVE  FlagTypes'
<1>1. ASSUME NEW c \in Conns, Ask(c)
      PROVE  FlagTypes'
  BY <1>1, Zenon DEF Inv, FlagTypes, Ask, clientVars, taskVars, shardVars
<1>2. ASSUME NEW c \in Conns, HangUp(c)
      PROVE  FlagTypes'
  BY <1>2, Zenon DEF Inv, FlagTypes, HangUp, clientVars, taskVars, shardVars
<1>3. ASSUME NEW c \in Conns, Accept(c)
      PROVE  FlagTypes'
  BY <1>3, Zenon DEF Inv, FlagTypes, Accept, Runs, Goto, clientVars, taskVars,
         shardVars
<1>4. ASSUME NEW c \in Conns, Flush(c)
      PROVE  FlagTypes'
  BY <1>4, Zenon DEF Inv, FlagTypes, Flush, Runs, Goto, clientVars, taskVars,
         shardVars
<1>5. ASSUME NEW c \in Conns, FlushWrite(c)
      PROVE  FlagTypes'
  BY <1>5, Zenon DEF Inv, FlagTypes, FlushWrite, Runs, Goto, Receives, clientVars,
         taskVars, shardVars
<1>6. ASSUME NEW c \in Conns, WriteFails(c)
      PROVE  FlagTypes'
  BY <1>6, Zenon DEF Inv, FlagTypes, WriteFails, Runs, Goto, Return, clientVars,
         taskVars, shardVars
<1>7. ASSUME NEW c \in Conns, ReadSome(c)
      PROVE  FlagTypes'
  BY <1>7, Zenon DEF Inv, FlagTypes, ReadSome, Runs, Goto, clientVars, taskVars,
         shardVars
<1>8. ASSUME NEW c \in Conns, ReadEnds(c)
      PROVE  FlagTypes'
  BY <1>8, Zenon DEF Inv, FlagTypes, ReadEnds, Runs, Goto, Return, clientVars,
         taskVars, shardVars
<1>9. ASSUME NEW c \in Conns, ReadTimesOut(c)
      PROVE  FlagTypes'
  BY <1>9, Zenon DEF Inv, FlagTypes, ReadTimesOut, Runs, Goto, clientVars, taskVars,
         shardVars
<1>10. ASSUME NEW c \in Conns, ProtocolError(c)
       PROVE  FlagTypes'
  BY <1>10, Zenon DEF Inv, FlagTypes, ProtocolError, Runs, Goto, Return, clientVars,
         taskVars, shardVars
<1>11. ASSUME NEW c \in Conns, ParseMore(c)
       PROVE  FlagTypes'
  BY <1>11, Zenon DEF Inv, FlagTypes, ParseMore, Runs, Goto, clientVars, taskVars,
         shardVars
<1>12. ASSUME NEW c \in Conns, ParseFrame(c)
       PROVE  FlagTypes'
  BY <1>12, Zenon DEF Inv, FlagTypes, ParseFrame, Runs, Goto, WholeFrame, NextFrame,
         HasRoom, clientVars, taskVars, shardVars
<1>13. ASSUME NEW c \in Conns, Notify(c)
       PROVE  FlagTypes'
  BY <1>13, Zenon DEF Inv, FlagTypes, Notify, Runs, Goto, Current, clientVars,
         taskVars, shardVars
<1>14. ASSUME NEW c \in Conns, Refuse(c)
       PROVE  FlagTypes'
  BY <1>14, Zenon DEF Inv, FlagTypes, Refuse, Runs, Goto, Receives, Current,
         clientVars, taskVars, shardVars
<1>15. ASSUME NEW s \in Shards, Wake(s)
       PROVE  FlagTypes'
  BY <1>15, Zenon DEF Inv, FlagTypes, Wake, At, Move, clientVars, taskVars, shardVars
<1>16. ASSUME NEW s \in Shards, DrainEventfd(s)
       PROVE  FlagTypes'
  BY <1>16, Zenon DEF Inv, FlagTypes, DrainEventfd, At, Move, clientVars, taskVars,
         shardVars
<1>17. ASSUME NEW s \in Shards, HandleClientRequest(s)
       PROVE  FlagTypes'
  BY <1>17, Zenon DEF Inv, FlagTypes, HandleClientRequest, At, SendResponse, HasRoom,
         clientVars, taskVars, shardVars
<1>18. ASSUME NEW s \in Shards, Processed(s)
       PROVE  FlagTypes'
  BY <1>18, Zenon DEF Inv, FlagTypes, Processed, At, Move, clientVars, taskVars,
         shardVars
<1>19. ASSUME NEW s \in Shards, OtherBranch(s)
       PROVE  FlagTypes'
  BY <1>19, Zenon DEF Inv, FlagTypes, OtherBranch, At, Move, clientVars, taskVars,
         shardVars
<1>20. ASSUME NEW s \in Shards, AnswerPending(s)
       PROVE  FlagTypes'
  BY <1>20, Zenon DEF Inv, FlagTypes, AnswerPending, At, SendResponse, HasRoom,
         clientVars, taskVars, shardVars
<1>21. ASSUME NEW s \in Shards, TurnEnds(s)
       PROVE  FlagTypes'
  BY <1>21, Zenon DEF Inv, FlagTypes, TurnEnds, At, Move, clientVars, taskVars,
         shardVars
<1>22. ASSUME NEW s \in Shards, DrainResponses(s)
       PROVE  FlagTypes'
  BY <1>22, Zenon DEF Inv, FlagTypes, DrainResponses, InMap, Borrowed, clientVars,
         taskVars, shardVars
<1>23. ASSUME UNCHANGED vars
       PROVE  FlagTypes'
  BY <1>23, Zenon DEF Inv, FlagTypes, vars, clientVars, taskVars, shardVars
<1> QED
  BY <1>1, <1>2, <1>3, <1>4, <1>5, <1>6, <1>7, <1>8, <1>9, <1>10, <1>11, <1>12,
     <1>13, <1>14, <1>15, <1>16, <1>17, <1>18, <1>19, <1>20, <1>21, <1>22, <1>23
     DEF Next, Client, Task, Engine

(***************************************************************************)
(* No step loses or invents a byte of a request, and the task of a         *)
(* connection stands where its state says.                                 *)
(***************************************************************************)
LEMMA ConnStep ==
  ASSUME Inv, [Next]_vars
  PROVE  ConnInv'
<1>1. ASSUME NEW c \in Conns, Ask(c)
      PROVE  ConnInv'
  <2>1. ConnTypes'
    <3>1. asked[c] + 1 \in 0..MaxRequests /\ unread[c] + Frame \in Nat
      BY <1>1, PathAssumption DEF Inv, ConnInv, ConnTypes, Ask, Frame
    <3> QED
      BY <1>1, <3>1 DEF Inv, ConnInv, ConnTypes, Ask, clientVars, taskVars, shardVars
  <2>2. Flow'
    <3>1. /\ seen' = seen /\ parseBuf' = parseBuf
          /\ \A d \in Conns : /\ asked'[d] = IF d = c THEN asked[d] + 1 ELSE asked[d]
                             /\ unread'[d] = IF d = c THEN unread[d] + Frame ELSE unread[d]
      BY <1>1 DEF Inv, ConnInv, ConnTypes, Ask, clientVars
    <3>2. \A d \in Conns : /\ asked[d] \in Int /\ seen[d] \in Int
                          /\ unread[d] \in Int /\ parseBuf[d] \in Int
      BY PathAssumption DEF Inv, ConnInv, ConnTypes
    <3> SUFFICES ASSUME NEW d \in Conns
                 PROVE  unread'[d] + parseBuf'[d] + Frame * seen'[d] = Frame * asked'[d]
      BY DEF Flow
    <3>3. unread[d] + parseBuf[d] + Frame * seen[d] = Frame * asked[d]
      BY DEF Inv, ConnInv, Flow
    <3>4. CASE d = c
      BY <3>1, <3>2, <3>3, <3>4 DEF Frame
    <3>5. CASE d # c
      BY <3>1, <3>2, <3>3, <3>5 DEF Frame
    <3> QED
      BY <3>4, <3>5
  <2>3. Flushing'
    BY <1>1 DEF Inv, ConnInv, ConnTypes, Flushing, Ask, clientVars, taskVars,
         shardVars
  <2>4. HandingOver'
    BY <1>1, PathAssumption DEF Inv, ConnInv, ConnTypes, HandingOver, Ask, clientVars,
         taskVars, shardVars
  <2> QED
    BY <2>1, <2>2, <2>3, <2>4 DEF ConnInv
<1>2. ASSUME NEW c \in Conns, HangUp(c)
      PROVE  ConnInv'
  BY <1>2, Named, PathAssumption DEF Inv, ConnInv, ConnTypes, Flow, Flushing,
         HandingOver, Frame, HangUp, clientVars, taskVars, shardVars
<1>3. ASSUME NEW c \in Conns, Accept(c)
      PROVE  ConnInv'
  BY <1>3, Named, PathAssumption DEF Inv, ConnInv, ConnTypes, Flow, Flushing,
         HandingOver, Frame, Accept, Runs, Goto, clientVars, taskVars, shardVars
<1>4. ASSUME NEW c \in Conns, Flush(c)
      PROVE  ConnInv'
  <2>1. ConnTypes'
    BY <1>4, EmptySeq DEF Inv, ConnInv, ConnTypes, Flush, Runs, Goto, clientVars,
         taskVars, shardVars
  <2>2. Flow'
    BY <1>4, PathAssumption DEF Inv, ConnInv, ConnTypes, Flow, Frame, Flush, Runs,
         Goto, clientVars, taskVars, shardVars
  <2>3. Flushing'
    BY <1>4 DEF Inv, ConnInv, ConnTypes, Flushing, Flush, Runs, Goto, clientVars,
         taskVars, shardVars
  <2>4. HandingOver'
    BY <1>4, PathAssumption DEF Inv, ConnInv, ConnTypes, HandingOver, Flush, Runs,
         Goto, clientVars, taskVars, shardVars
  <2> QED
    BY <2>1, <2>2, <2>3, <2>4 DEF ConnInv
<1>5. ASSUME NEW c \in Conns, FlushWrite(c)
      PROVE  ConnInv'
  <2>1. ConnTypes'
    <3>1. Head(batch[c]) \in Requests /\ Tail(batch[c]) \in Seq(Requests)
      BY <1>5, Named DEF FlushWrite, Runs
    <3>2. got' \in [Conns -> Seq(Requests)]
      BY <1>5, <3>1, AppendProperties DEF FlushWrite, Receives, Inv, ConnInv, ConnTypes
    <3> QED
      BY <1>5, <3>1, <3>2 DEF Inv, ConnInv, ConnTypes, FlushWrite, Runs, Goto,
         clientVars, taskVars, shardVars
  <2>2. Flow'
    BY <1>5, PathAssumption DEF Inv, ConnInv, ConnTypes, Flow, Frame, FlushWrite,
         Runs, Goto, Receives, clientVars, taskVars, shardVars
  <2>3. Flushing'
    BY <1>5 DEF Inv, ConnInv, ConnTypes, Flushing, FlushWrite, Runs, Goto, Receives,
         clientVars, taskVars, shardVars
  <2>4. HandingOver'
    BY <1>5, PathAssumption DEF Inv, ConnInv, ConnTypes, HandingOver, FlushWrite,
         Runs, Goto, Receives, clientVars, taskVars, shardVars
  <2> QED
    BY <2>1, <2>2, <2>3, <2>4 DEF ConnInv
<1>6. ASSUME NEW c \in Conns, WriteFails(c)
      PROVE  ConnInv'
  <2>1. ConnTypes'
    BY <1>6, EmptySeq DEF Inv, ConnInv, ConnTypes, WriteFails, Runs, Goto, Return,
         clientVars, taskVars, shardVars
  <2>2. Flow'
    BY <1>6, PathAssumption DEF Inv, ConnInv, ConnTypes, Flow, Frame, WriteFails,
         Runs, Goto, Return, clientVars, taskVars, shardVars
  <2>3. Flushing'
    BY <1>6 DEF Inv, ConnInv, ConnTypes, Flushing, WriteFails, Runs, Goto, Return,
         clientVars, taskVars, shardVars
  <2>4. HandingOver'
    BY <1>6, PathAssumption DEF Inv, ConnInv, ConnTypes, HandingOver, WriteFails,
         Runs, Goto, Return, clientVars, taskVars, shardVars
  <2> QED
    BY <2>1, <2>2, <2>3, <2>4 DEF ConnInv
<1>7. ASSUME NEW c \in Conns, ReadSome(c)
      PROVE  ConnInv'
  <2>1. ConnTypes'
    BY <1>7, EmptySeq DEF Inv, ConnInv, ConnTypes, ReadSome, Runs, Goto, clientVars,
         taskVars, shardVars
  <2>2. Flow'
    <3>1. PICK k \in 1..unread[c] :
            /\ unread' = [unread EXCEPT ![c] = @ - k]
            /\ parseBuf' = [parseBuf EXCEPT ![c] = @ + k]
      BY <1>7 DEF ReadSome
    <3>2. /\ seen' = seen /\ asked' = asked
          /\ \A d \in Conns : /\ unread'[d] = IF d = c THEN unread[d] - k ELSE unread[d]
                             /\ parseBuf'[d] = IF d = c THEN parseBuf[d] + k ELSE parseBuf[d]
      BY <1>7, <3>1 DEF Inv, ConnInv, ConnTypes, ReadSome, clientVars
    <3>3. \A d \in Conns : /\ asked[d] \in Int /\ seen[d] \in Int
                          /\ unread[d] \in Int /\ parseBuf[d] \in Int
      BY PathAssumption DEF Inv, ConnInv, ConnTypes
    <3> SUFFICES ASSUME NEW d \in Conns
                 PROVE  unread'[d] + parseBuf'[d] + Frame * seen'[d] = Frame * asked'[d]
      BY DEF Flow
    <3>4. unread[d] + parseBuf[d] + Frame * seen[d] = Frame * asked[d]
      BY DEF Inv, ConnInv, Flow
    <3>5. CASE d = c
      BY <3>2, <3>3, <3>4, <3>5 DEF Frame
    <3>6. CASE d # c
      BY <3>2, <3>3, <3>4, <3>6 DEF Frame
    <3> QED
      BY <3>5, <3>6
  <2>3. Flushing'
    BY <1>7 DEF Inv, ConnInv, ConnTypes, Flushing, ReadSome, Runs, Goto, clientVars,
         taskVars, shardVars
  <2>4. HandingOver'
    BY <1>7, PathAssumption DEF Inv, ConnInv, ConnTypes, HandingOver, ReadSome, Runs,
         Goto, clientVars, taskVars, shardVars
  <2> QED
    BY <2>1, <2>2, <2>3, <2>4 DEF ConnInv
<1>8. ASSUME NEW c \in Conns, ReadEnds(c)
      PROVE  ConnInv'
  <2>1. ConnTypes'
    BY <1>8, EmptySeq DEF Inv, ConnInv, ConnTypes, ReadEnds, Runs, Goto, Return,
         clientVars, taskVars, shardVars
  <2>2. Flow'
    BY <1>8, PathAssumption DEF Inv, ConnInv, ConnTypes, Flow, Frame, ReadEnds, Runs,
         Goto, Return, clientVars, taskVars, shardVars
  <2>3. Flushing'
    BY <1>8 DEF Inv, ConnInv, ConnTypes, Flushing, ReadEnds, Runs, Goto, Return,
         clientVars, taskVars, shardVars
  <2>4. HandingOver'
    BY <1>8, PathAssumption DEF Inv, ConnInv, ConnTypes, HandingOver, ReadEnds, Runs,
         Goto, Return, clientVars, taskVars, shardVars
  <2> QED
    BY <2>1, <2>2, <2>3, <2>4 DEF ConnInv
<1>9. ASSUME NEW c \in Conns, ReadTimesOut(c)
      PROVE  ConnInv'
  BY <1>9, Named, PathAssumption DEF Inv, ConnInv, ConnTypes, Flow, Flushing,
         HandingOver, Frame, ReadTimesOut, Runs, Goto, clientVars, taskVars, shardVars
<1>10. ASSUME NEW c \in Conns, ProtocolError(c)
       PROVE  ConnInv'
  <2>1. ConnTypes'
    BY <1>10, EmptySeq DEF Inv, ConnInv, ConnTypes, ProtocolError, Runs, Goto, Return,
         clientVars, taskVars, shardVars
  <2>2. Flow'
    BY <1>10, PathAssumption DEF Inv, ConnInv, ConnTypes, Flow, Frame, ProtocolError,
         Runs, Goto, Return, clientVars, taskVars, shardVars
  <2>3. Flushing'
    BY <1>10 DEF Inv, ConnInv, ConnTypes, Flushing, ProtocolError, Runs, Goto, Return,
         clientVars, taskVars, shardVars
  <2>4. HandingOver'
    BY <1>10, PathAssumption DEF Inv, ConnInv, ConnTypes, HandingOver, ProtocolError,
         Runs, Goto, Return, clientVars, taskVars, shardVars
  <2> QED
    BY <2>1, <2>2, <2>3, <2>4 DEF ConnInv
<1>11. ASSUME NEW c \in Conns, ParseMore(c)
       PROVE  ConnInv'
  BY <1>11, Named, PathAssumption DEF Inv, ConnInv, ConnTypes, Flow, Flushing,
         HandingOver, Frame, ParseMore, Runs, Goto, clientVars, taskVars, shardVars
<1>12. ASSUME NEW c \in Conns, ParseFrame(c)
       PROVE  ConnInv'
  <2>1. ConnTypes'
    <3>1. seen[c] + 1 \in 0..MaxRequests /\ parseBuf[c] - Frame \in Nat
      BY <1>12, Named, PathAssumption DEF Inv, ConnInv, ConnTypes, ParseFrame, WholeFrame, Frame
    <3> QED
      BY <1>12, <3>1 DEF Inv, ConnInv, ConnTypes, ParseFrame, Runs, Goto, clientVars,
         taskVars, shardVars
  <2>2. Flow'
    BY <1>12, PathAssumption DEF Inv, ConnInv, ConnTypes, Flow, Frame, ParseFrame,
         Runs, Goto, WholeFrame, NextFrame, clientVars, taskVars, shardVars
  <2>3. Flushing'
    BY <1>12 DEF Inv, ConnInv, ConnTypes, Flushing, ParseFrame, Runs, Goto,
         WholeFrame, NextFrame, clientVars, taskVars, shardVars
  <2>4. HandingOver'
    BY <1>12, PathAssumption DEF Inv, ConnInv, ConnTypes, HandingOver, ParseFrame,
         Runs, Goto, WholeFrame, NextFrame, clientVars, taskVars, shardVars
  <2> QED
    BY <2>1, <2>2, <2>3, <2>4 DEF ConnInv
<1>13. ASSUME NEW c \in Conns, Notify(c)
       PROVE  ConnInv'
  BY <1>13, Named, PathAssumption DEF Inv, ConnInv, ConnTypes, Flow, Flushing,
         HandingOver, Frame, Notify, Runs, Goto, Current, clientVars, taskVars,
         shardVars
<1>14. ASSUME NEW c \in Conns, Refuse(c)
       PROVE  ConnInv'
  <2>1. ConnTypes'
    <3>1. Current(c) \in Requests
      BY <1>14, Named DEF Refuse, Runs
    <3>2. got' \in [Conns -> Seq(Requests)]
      BY <1>14, <3>1, AppendProperties DEF Refuse, Receives, Inv, ConnInv, ConnTypes
    <3> QED
      BY <1>14, <3>1, <3>2 DEF Inv, ConnInv, ConnTypes, Refuse, Runs, Goto,
         clientVars, taskVars, shardVars
  <2>2. Flow'
    BY <1>14, PathAssumption DEF Inv, ConnInv, ConnTypes, Flow, Frame, Refuse, Runs,
         Goto, Receives, clientVars, taskVars, shardVars
  <2>3. Flushing'
    BY <1>14 DEF Inv, ConnInv, ConnTypes, Flushing, Refuse, Runs, Goto, Receives,
         Current, clientVars, taskVars, shardVars
  <2>4. HandingOver'
    BY <1>14, PathAssumption DEF Inv, ConnInv, ConnTypes, HandingOver, Refuse, Runs,
         Goto, Receives, Current, clientVars, taskVars, shardVars
  <2> QED
    BY <2>1, <2>2, <2>3, <2>4 DEF ConnInv
<1>15. ASSUME NEW s \in Shards, Wake(s)
       PROVE  ConnInv'
  BY <1>15 DEF Inv, ConnInv, ConnTypes, ShardTypes, Flow, Flushing, HandingOver, Wake,
         At, Move, clientVars, taskVars, shardVars
<1>16. ASSUME NEW s \in Shards, DrainEventfd(s)
       PROVE  ConnInv'
  BY <1>16 DEF Inv, ConnInv, ConnTypes, ShardTypes, Flow, Flushing, HandingOver,
         DrainEventfd, At, Move, clientVars, taskVars, shardVars
<1>17. ASSUME NEW s \in Shards, HandleClientRequest(s)
       PROVE  ConnInv'
  BY <1>17 DEF Inv, ConnInv, ConnTypes, ShardTypes, Flow, Flushing, HandingOver,
         HandleClientRequest, At, SendResponse, HasRoom, clientVars, taskVars,
         shardVars
<1>18. ASSUME NEW s \in Shards, Processed(s)
       PROVE  ConnInv'
  BY <1>18 DEF Inv, ConnInv, ConnTypes, ShardTypes, Flow, Flushing, HandingOver,
         Processed, At, Move, clientVars, taskVars, shardVars
<1>19. ASSUME NEW s \in Shards, OtherBranch(s)
       PROVE  ConnInv'
  BY <1>19 DEF Inv, ConnInv, ConnTypes, ShardTypes, Flow, Flushing, HandingOver,
         OtherBranch, At, Move, clientVars, taskVars, shardVars
<1>20. ASSUME NEW s \in Shards, AnswerPending(s)
       PROVE  ConnInv'
  BY <1>20 DEF Inv, ConnInv, ConnTypes, ShardTypes, Flow, Flushing, HandingOver,
         AnswerPending, At, SendResponse, HasRoom, clientVars, taskVars, shardVars
<1>21. ASSUME NEW s \in Shards, TurnEnds(s)
       PROVE  ConnInv'
  BY <1>21 DEF Inv, ConnInv, ConnTypes, ShardTypes, Flow, Flushing, HandingOver,
         TurnEnds, At, Move, clientVars, taskVars, shardVars
<1>22. ASSUME NEW s \in Shards, DrainResponses(s)
       PROVE  ConnInv'
  <2>1. Head(responseCh[s]) \in Requests
    BY <1>22, HeadTailProperties DEF DrainResponses, Inv, ShardTypes
  <2>2. Head(responseCh[s])[1] \in Conns
    BY <2>1 DEF Requests
  <2>3. respQueue' \in [Conns -> Seq(Requests)]
    BY <1>22, <2>1, <2>2, AppendProperties DEF DrainResponses, Inv, ConnInv, ConnTypes
  <2> QED
    BY <1>22, <2>3 DEF Inv, ConnInv, ConnTypes, Flow, Flushing, HandingOver,
         DrainResponses, clientVars, taskVars, shardVars
<1>23. ASSUME UNCHANGED vars
       PROVE  ConnInv'
  BY <1>23 DEF Inv, ConnInv, ConnTypes, Flow, Flushing, HandingOver, vars, clientVars,
         taskVars, shardVars
<1> QED
  BY <1>1, <1>2, <1>3, <1>4, <1>5, <1>6, <1>7, <1>8, <1>9, <1>10, <1>11, <1>12,
     <1>13, <1>14, <1>15, <1>16, <1>17, <1>18, <1>19, <1>20, <1>21, <1>22, <1>23
     DEF Next, Client, Task, Engine

(***************************************************************************)
(* send_response keeps the response channel within its capacity.           *)
(***************************************************************************)
LEMMA SendTypes ==
  ASSUME ShardTypes, NEW s \in Shards, NEW r \in Requests, SendResponse(s, r)
  PROVE  /\ responseCh' \in [Shards -> Seq(Requests)] /\ dropped' \subseteq Requests
         /\ \A t \in Shards : Len(responseCh'[t]) <= Capacity
<1>1. CASE HasRoom(responseCh[s])
  <2>1. responseCh' = [responseCh EXCEPT ![s] = Append(@, r)] /\ dropped' = dropped
    BY <1>1 DEF SendResponse
  <2>2. Append(responseCh[s], r) \in Seq(Requests) /\ Len(Append(responseCh[s], r)) <= Capacity
    BY <1>1, AppendProperties, PathAssumption DEF HasRoom, ShardTypes
  <2> QED
    BY <2>1, <2>2 DEF ShardTypes
<1>2. CASE ~HasRoom(responseCh[s])
  BY <1>2 DEF SendResponse, ShardTypes
<1> QED
  BY <1>1, <1>2

(***************************************************************************)
(* Every try_send keeps its channel within the capacity.                   *)
(***************************************************************************)
LEMMA ShardStep ==
  ASSUME Inv, [Next]_vars
  PROVE  ShardTypes'
<1>1. ASSUME NEW c \in Conns, Ask(c)
      PROVE  ShardTypes'
  BY <1>1 DEF Inv, ShardTypes, Ask, clientVars, taskVars, shardVars
<1>2. ASSUME NEW c \in Conns, HangUp(c)
      PROVE  ShardTypes'
  BY <1>2 DEF Inv, ShardTypes, HangUp, clientVars, taskVars, shardVars
<1>3. ASSUME NEW c \in Conns, Accept(c)
      PROVE  ShardTypes'
  BY <1>3 DEF Inv, ShardTypes, Accept, Runs, Goto, clientVars, taskVars, shardVars
<1>4. ASSUME NEW c \in Conns, Flush(c)
      PROVE  ShardTypes'
  BY <1>4 DEF Inv, ShardTypes, Flush, Runs, Goto, clientVars, taskVars, shardVars
<1>5. ASSUME NEW c \in Conns, FlushWrite(c)
      PROVE  ShardTypes'
  BY <1>5 DEF Inv, ShardTypes, FlushWrite, Runs, Goto, Receives, clientVars, taskVars,
         shardVars
<1>6. ASSUME NEW c \in Conns, WriteFails(c)
      PROVE  ShardTypes'
  BY <1>6 DEF Inv, ShardTypes, WriteFails, Runs, Goto, Return, clientVars, taskVars,
         shardVars
<1>7. ASSUME NEW c \in Conns, ReadSome(c)
      PROVE  ShardTypes'
  BY <1>7 DEF Inv, ShardTypes, ReadSome, Runs, Goto, clientVars, taskVars, shardVars
<1>8. ASSUME NEW c \in Conns, ReadEnds(c)
      PROVE  ShardTypes'
  BY <1>8 DEF Inv, ShardTypes, ReadEnds, Runs, Goto, Return, clientVars, taskVars,
         shardVars
<1>9. ASSUME NEW c \in Conns, ReadTimesOut(c)
      PROVE  ShardTypes'
  BY <1>9 DEF Inv, ShardTypes, ReadTimesOut, Runs, Goto, clientVars, taskVars,
         shardVars
<1>10. ASSUME NEW c \in Conns, ProtocolError(c)
       PROVE  ShardTypes'
  BY <1>10 DEF Inv, ShardTypes, ProtocolError, Runs, Goto, Return, clientVars,
         taskVars, shardVars
<1>11. ASSUME NEW c \in Conns, ParseMore(c)
       PROVE  ShardTypes'
  BY <1>11 DEF Inv, ShardTypes, ParseMore, Runs, Goto, clientVars, taskVars, shardVars
<1>12. ASSUME NEW c \in Conns, ParseFrame(c)
       PROVE  ShardTypes'
  <2> DEFINE r == NextFrame(c)
  <2>1. r \in Requests /\ Route[r] \in Shards
    BY <1>12, Named, PathAssumption DEF ParseFrame
  <2> HIDE DEF r
  <2>2. CASE HasRoom(requestCh[Route[r]]) /\ requestCh' = [requestCh EXCEPT ![Route[r]] = Append(@, r)]
    <3>1. requestCh' \in [Shards -> Seq(Requests)]
      BY <2>1, <2>2 DEF Inv, ShardTypes
    <3>2. \A t \in Shards : Len(requestCh'[t]) <= Capacity
      BY <2>1, <2>2, PathAssumption DEF Inv, ShardTypes, HasRoom
    <3> QED
      BY <1>12, <3>1, <3>2 DEF Inv, ShardTypes, ParseFrame
  <2>3. CASE requestCh' = requestCh
    BY <1>12, <2>3 DEF Inv, ShardTypes, ParseFrame
  <2> QED
    BY <1>12, <2>2, <2>3 DEF ParseFrame, r
<1>13. ASSUME NEW c \in Conns, Notify(c)
       PROVE  ShardTypes'
  BY <1>13 DEF Inv, ShardTypes, Notify, Runs, Goto, Current, clientVars, taskVars,
         shardVars
<1>14. ASSUME NEW c \in Conns, Refuse(c)
       PROVE  ShardTypes'
  BY <1>14 DEF Inv, ShardTypes, Refuse, Runs, Goto, Receives, Current, clientVars,
         taskVars, shardVars
<1>15. ASSUME NEW s \in Shards, Wake(s)
       PROVE  ShardTypes'
  BY <1>15, HeadTailProperties, PathAssumption DEF Inv, ShardTypes, Wake, At, Move,
         clientVars, taskVars, shardVars
<1>16. ASSUME NEW s \in Shards, DrainEventfd(s)
       PROVE  ShardTypes'
  BY <1>16, HeadTailProperties, PathAssumption DEF Inv, ShardTypes, DrainEventfd, At,
         Move, clientVars, taskVars, shardVars
<1>17. ASSUME NEW s \in Shards, HandleClientRequest(s)
       PROVE  ShardTypes'
  <2>1. Head(requestCh[s]) \in Requests /\ Tail(requestCh[s]) \in Seq(Requests)
        /\ Len(Tail(requestCh[s])) <= Capacity
    BY <1>17, HeadTailProperties, PathAssumption DEF HandleClientRequest, Inv, ShardTypes
  <2>2. requestCh' \in [Shards -> Seq(Requests)] /\ \A t \in Shards : Len(requestCh'[t]) <= Capacity
    BY <1>17, <2>1 DEF HandleClientRequest, Inv, ShardTypes
  <2>3. CASE SendResponse(s, Head(requestCh[s])) /\ UNCHANGED inHand
    BY <1>17, <2>1, <2>2, <2>3, SendTypes DEF HandleClientRequest, Inv, ShardTypes
  <2>4. CASE /\ inHand' = [inHand EXCEPT ![s] = @ \cup {Head(requestCh[s])}]
             /\ UNCHANGED <<responseCh, dropped>>
    BY <1>17, <2>1, <2>2, <2>4 DEF HandleClientRequest, Inv, ShardTypes
  <2> QED
    BY <1>17, <2>3, <2>4 DEF HandleClientRequest
<1>18. ASSUME NEW s \in Shards, Processed(s)
       PROVE  ShardTypes'
  BY <1>18, HeadTailProperties, PathAssumption DEF Inv, ShardTypes, Processed, At,
         Move, clientVars, taskVars, shardVars
<1>19. ASSUME NEW s \in Shards, OtherBranch(s)
       PROVE  ShardTypes'
  BY <1>19, HeadTailProperties, PathAssumption DEF Inv, ShardTypes, OtherBranch, At,
         Move, clientVars, taskVars, shardVars
<1>20. ASSUME NEW s \in Shards, AnswerPending(s)
       PROVE  ShardTypes'
  <2>1. PICK r \in inHand[s] :
          inHand' = [inHand EXCEPT ![s] = @ \ {r}] /\ SendResponse(s, r)
    BY <1>20 DEF AnswerPending
  <2>2. r \in Requests
    BY <2>1 DEF Inv, ShardTypes
  <2> QED
    BY <1>20, <2>1, <2>2, SendTypes DEF AnswerPending, Inv, ShardTypes
<1>21. ASSUME NEW s \in Shards, TurnEnds(s)
       PROVE  ShardTypes'
  BY <1>21, HeadTailProperties, PathAssumption DEF Inv, ShardTypes, TurnEnds, At,
         Move, clientVars, taskVars, shardVars
<1>22. ASSUME NEW s \in Shards, DrainResponses(s)
       PROVE  ShardTypes'
  BY <1>22, HeadTailProperties, PathAssumption DEF Inv, ShardTypes, DrainResponses,
         InMap, Borrowed, clientVars, taskVars, shardVars
<1>23. ASSUME UNCHANGED vars
       PROVE  ShardTypes'
  BY <1>23 DEF Inv, ShardTypes, vars, clientVars, taskVars, shardVars
<1> QED
  BY <1>1, <1>2, <1>3, <1>4, <1>5, <1>6, <1>7, <1>8, <1>9, <1>10, <1>11, <1>12,
     <1>13, <1>14, <1>15, <1>16, <1>17, <1>18, <1>19, <1>20, <1>21, <1>22, <1>23
     DEF Next, Client, Task, Engine

(***************************************************************************)
(* No step leaves a request in a mailbox without a wake-up to come.        *)
(***************************************************************************)
LEMMA WakeStep ==
  ASSUME Inv, [Next]_vars
  PROVE  NoLostWakeup'
<1>1. ASSUME NEW c \in Conns, Ask(c)
      PROVE  NoLostWakeup'
  BY <1>1 DEF Inv, ConnInv, ConnTypes, ShardTypes, NoLostWakeup, Ask, Current,
         clientVars, taskVars, shardVars
<1>2. ASSUME NEW c \in Conns, HangUp(c)
      PROVE  NoLostWakeup'
  BY <1>2 DEF Inv, ConnInv, ConnTypes, ShardTypes, NoLostWakeup, HangUp, Current,
         clientVars, taskVars, shardVars
<1>3. ASSUME NEW c \in Conns, Accept(c)
      PROVE  NoLostWakeup'
  BY <1>3 DEF Inv, ConnInv, ConnTypes, ShardTypes, NoLostWakeup, Accept, Runs, Goto,
         Current, clientVars, taskVars, shardVars
<1>4. ASSUME NEW c \in Conns, Flush(c)
      PROVE  NoLostWakeup'
  BY <1>4 DEF Inv, ConnInv, ConnTypes, ShardTypes, NoLostWakeup, Flush, Runs, Goto,
         Current, clientVars, taskVars, shardVars
<1>5. ASSUME NEW c \in Conns, FlushWrite(c)
      PROVE  NoLostWakeup'
  BY <1>5 DEF Inv, ConnInv, ConnTypes, ShardTypes, NoLostWakeup, FlushWrite, Runs,
         Goto, Receives, Current, clientVars, taskVars, shardVars
<1>6. ASSUME NEW c \in Conns, WriteFails(c)
      PROVE  NoLostWakeup'
  BY <1>6 DEF Inv, ConnInv, ConnTypes, ShardTypes, NoLostWakeup, WriteFails, Runs,
         Goto, Return, Current, clientVars, taskVars, shardVars
<1>7. ASSUME NEW c \in Conns, ReadSome(c)
      PROVE  NoLostWakeup'
  BY <1>7 DEF Inv, ConnInv, ConnTypes, ShardTypes, NoLostWakeup, ReadSome, Runs, Goto,
         Current, clientVars, taskVars, shardVars
<1>8. ASSUME NEW c \in Conns, ReadEnds(c)
      PROVE  NoLostWakeup'
  BY <1>8 DEF Inv, ConnInv, ConnTypes, ShardTypes, NoLostWakeup, ReadEnds, Runs, Goto,
         Return, Current, clientVars, taskVars, shardVars
<1>9. ASSUME NEW c \in Conns, ReadTimesOut(c)
      PROVE  NoLostWakeup'
  BY <1>9 DEF Inv, ConnInv, ConnTypes, ShardTypes, NoLostWakeup, ReadTimesOut, Runs,
         Goto, Current, clientVars, taskVars, shardVars
<1>10. ASSUME NEW c \in Conns, ProtocolError(c)
       PROVE  NoLostWakeup'
  BY <1>10 DEF Inv, ConnInv, ConnTypes, ShardTypes, NoLostWakeup, ProtocolError, Runs,
         Goto, Return, Current, clientVars, taskVars, shardVars
<1>11. ASSUME NEW c \in Conns, ParseMore(c)
       PROVE  NoLostWakeup'
  BY <1>11 DEF Inv, ConnInv, ConnTypes, ShardTypes, NoLostWakeup, ParseMore, Runs,
         Goto, Current, clientVars, taskVars, shardVars
<1>12. ASSUME NEW c \in Conns, ParseFrame(c)
       PROVE  NoLostWakeup'
  <2> DEFINE q == NextFrame(c)
  <2>1. /\ seen' = [seen EXCEPT ![c] = @ + 1] /\ task[c] = "parse"
        /\ UNCHANGED <<eventfd, engine>>
        /\ \/ /\ requestCh' = [requestCh EXCEPT ![Route[q]] = Append(@, q)]
              /\ task' = [task EXCEPT ![c] = "notify"]
           \/ task' = [task EXCEPT ![c] = "refuse"] /\ requestCh' = requestCh
    BY <1>12 DEF ParseFrame, Runs, Goto
  <2>2. seen \in [Conns -> Nat] /\ DOMAIN task = Conns
    BY <1>12, PathAssumption DEF Inv, ConnInv, ConnTypes
  <2>3. Current(c)' = q
    BY <2>1, <2>2 DEF Current, NextFrame
  <2>4. \A d \in Conns : task[d] = "notify" => task'[d] = "notify" /\ Current(d)' = Current(d)
    BY <2>1, <2>2 DEF Current
  <2> HIDE DEF q
  <2> SUFFICES ASSUME NEW s \in Shards, requestCh'[s] # <<>>
               PROVE  \/ eventfd'[s] \/ engine'[s] \in {"drain", "process"}
                      \/ \E d \in Conns : task'[d] = "notify" /\ Route[Current(d)'] = s
    BY DEF NoLostWakeup
  <2>5. CASE requestCh[s] # <<>>
    BY <2>1, <2>4, <2>5 DEF Inv, NoLostWakeup
  <2>6. CASE requestCh[s] = <<>>
    <3>1. s = Route[q] /\ task' = [task EXCEPT ![c] = "notify"]
      BY <2>1, <2>6 DEF Inv, ShardTypes
    <3> QED
      BY <1>12, <2>2, <2>3, <3>1
  <2> QED
    BY <2>5, <2>6
<1>13. ASSUME NEW c \in Conns, Notify(c)
       PROVE  NoLostWakeup'
  <2> SUFFICES ASSUME NEW s \in Shards, requestCh'[s] # <<>>
               PROVE  \/ eventfd'[s]
                      \/ engine'[s] \in {"drain", "process"}
                      \/ \E d \in Conns : task'[d] = "notify" /\ Route[Current(d)'] = s
    BY DEF NoLostWakeup, Current
  <2>1. requestCh[s] # <<>> /\ engine' = engine
    BY <1>13 DEF Notify
  <2>2. CASE s = Route[Current(c)]
    BY <1>13, <2>2, Zenon DEF Inv, FlagTypes, Notify
  <2>3. CASE s # Route[Current(c)]
    <3>1. eventfd'[s] = eventfd[s]
      BY <1>13, <2>3 DEF Inv, FlagTypes, Notify
    <3>2. \A d \in Conns \ {c} : task[d] # "notify"
      BY <1>13 DEF Notify, Runs
    <3> QED
      BY <2>1, <2>3, <3>1, <3>2 DEF Inv, NoLostWakeup
  <2> QED
    BY <2>2, <2>3
<1>14. ASSUME NEW c \in Conns, Refuse(c)
       PROVE  NoLostWakeup'
  BY <1>14 DEF Inv, ConnInv, ConnTypes, ShardTypes, NoLostWakeup, Refuse, Runs, Goto,
         Receives, Current, clientVars, taskVars, shardVars
<1>15. ASSUME NEW s \in Shards, Wake(s)
       PROVE  NoLostWakeup'
  BY <1>15 DEF Inv, ConnInv, ConnTypes, ShardTypes, NoLostWakeup, Wake, At, Move,
         Current, clientVars, taskVars, shardVars
<1>16. ASSUME NEW s \in Shards, DrainEventfd(s)
       PROVE  NoLostWakeup'
  BY <1>16 DEF Inv, ConnInv, ConnTypes, ShardTypes, NoLostWakeup, DrainEventfd, At,
         Move, Current, clientVars, taskVars, shardVars
<1>17. ASSUME NEW s \in Shards, HandleClientRequest(s)
       PROVE  NoLostWakeup'
  BY <1>17 DEF Inv, ConnInv, ConnTypes, ShardTypes, NoLostWakeup, HandleClientRequest,
         At, SendResponse, HasRoom, Current, clientVars, taskVars, shardVars
<1>18. ASSUME NEW s \in Shards, Processed(s)
       PROVE  NoLostWakeup'
  BY <1>18 DEF Inv, ConnInv, ConnTypes, ShardTypes, NoLostWakeup, Processed, At, Move,
         Current, clientVars, taskVars, shardVars
<1>19. ASSUME NEW s \in Shards, OtherBranch(s)
       PROVE  NoLostWakeup'
  BY <1>19 DEF Inv, ConnInv, ConnTypes, ShardTypes, NoLostWakeup, OtherBranch, At,
         Move, Current, clientVars, taskVars, shardVars
<1>20. ASSUME NEW s \in Shards, AnswerPending(s)
       PROVE  NoLostWakeup'
  BY <1>20 DEF Inv, ConnInv, ConnTypes, ShardTypes, NoLostWakeup, AnswerPending, At,
         SendResponse, HasRoom, Current, clientVars, taskVars, shardVars
<1>21. ASSUME NEW s \in Shards, TurnEnds(s)
       PROVE  NoLostWakeup'
  BY <1>21 DEF Inv, ConnInv, ConnTypes, ShardTypes, NoLostWakeup, TurnEnds, At, Move,
         Current, clientVars, taskVars, shardVars
<1>22. ASSUME NEW s \in Shards, DrainResponses(s)
       PROVE  NoLostWakeup'
  BY <1>22 DEF Inv, ConnInv, ConnTypes, ShardTypes, NoLostWakeup, DrainResponses,
         InMap, Borrowed, Current, clientVars, taskVars, shardVars
<1>23. ASSUME UNCHANGED vars
       PROVE  NoLostWakeup'
  BY <1>23 DEF Inv, NoLostWakeup, Current, vars, clientVars, taskVars, shardVars
<1> QED
  BY <1>1, <1>2, <1>3, <1>4, <1>5, <1>6, <1>7, <1>8, <1>9, <1>10, <1>11, <1>12,
     <1>13, <1>14, <1>15, <1>16, <1>17, <1>18, <1>19, <1>20, <1>21, <1>22, <1>23
     DEF Next, Client, Task, Engine

-----------------------------------------------------------------------------
\* The invariant holds in every behaviour of the client path: types, bytes
\* conserved between socket, parse_buf and frames, no lost wake-up.
THEOREM PathInvHolds == Spec => []Inv
<1>1. Inv /\ [Next]_vars => Inv'
  BY FlagStep, ConnStep, ShardStep, WakeStep DEF Inv
<1> QED
  BY <1>1, InitInv, PTL DEF Spec

\* Type correctness of the client path: channels never exceed the capacity.
THEOREM PathTypeCorrect == Spec => []TypeOK
<1>1. Inv => TypeOK
  BY TypesSplit DEF Inv, ConnInv
<1> QED
  BY <1>1, PathInvHolds, PTL

\* No wake-up is lost, whatever the order of try_send, notify_eventfd, the two
\* reads of the eventfd and the loop that empties the mailbox.
THEOREM WakeupNeverLost == Spec => []NoLostWakeup
<1>1. Inv => NoLostWakeup
  BY DEF Inv
<1> QED
  BY <1>1, PathInvHolds, PTL

-----------------------------------------------------------------------------
(***************************************************************************)
(* Clients that wait for each answer (Window = 1).  A connection then has  *)
(* at most one request under way, and that is in one place only: with the  *)
(* shard it is routed to, in the response queue, in the batch of a flush,  *)
(* or being refused.                                                       *)
(***************************************************************************)
Elems(q) == {q[i] : i \in 1..Len(q)}

NoRepeat(q) == \A i, j \in 1..Len(q) : q[i] = q[j] => i = j

HasRequest(s, r) == r \in Elems(requestCh[s]) \/ r \in inHand[s] \/ r \in Elems(responseCh[s])

\* the last request of c has been parsed and not been answered
Waits(c) == seen[c] = asked[c] /\ asked[c] = Len(got[c]) + 1

\* the acceptor has no answer for c
NoneHere(c) == respQueue[c] = <<>> /\ batch[c] = <<>> /\ task[c] # "refuse"

\* a client is never more than one request ahead of its answers
Paced(c) == Len(got[c]) <= seen[c] /\ asked[c] <= Len(got[c]) + 1

OneAtShard(c) ==
  \A s \in Shards : \A k \in 1..MaxRequests :
    HasRequest(s, <<c, k>>) => k = seen[c] /\ Waits(c) /\ NoneHere(c)

OneQueued(c) ==
  respQueue[c] # <<>> =>
    respQueue[c] = <<Current(c)>> /\ Waits(c) /\ batch[c] = <<>> /\ task[c] # "refuse"

OneInBatch(c) ==
  batch[c] # <<>> => batch[c] = <<Current(c)>> /\ Waits(c) /\ task[c] # "refuse"

OneRefused(c) == task[c] = "refuse" => Waits(c)

Ordered(c) == \A i \in 1..Len(got[c]) : got[c][i] = <<c, i>>

OneAnswer(c) ==
  Paced(c) /\ OneAtShard(c) /\ OneQueued(c) /\ OneInBatch(c) /\ OneRefused(c) /\ Ordered(c)

\* a shard has a request in one place at most, and only what is routed to it
OnePlace(s) ==
  /\ NoRepeat(requestCh[s]) /\ NoRepeat(responseCh[s])
  /\ \A r \in Requests : HasRequest(s, r) => Route[r] = s
  /\ \A r \in inHand[s] : r \notin Elems(requestCh[s]) /\ r \notin Elems(responseCh[s])
  /\ \A r \in Elems(requestCh[s]) : r \notin Elems(responseCh[s])

OneInv ==
  /\ \A c \in Conns : OneAnswer(c)
  /\ \A s \in Shards : OnePlace(s)
  /\ NeverPanics

(***************************************************************************)
(* What append and a step of a reader do to the elements of a channel.     *)
(***************************************************************************)
LEMMA ElemsOfAppend ==
  ASSUME NEW S, NEW q \in Seq(S), NEW x \in S
  PROVE  /\ Elems(Append(q, x)) = Elems(q) \cup {x}
         /\ NoRepeat(q) /\ x \notin Elems(q) => NoRepeat(Append(q, x))
<1>1. /\ Len(q) \in Nat /\ Len(Append(q, x)) = Len(q) + 1
      /\ \A i \in 1..Len(q) : Append(q, x)[i] = q[i]
      /\ Append(q, x)[Len(q) + 1] = x
  BY AppendProperties, LenProperties
<1> DEFINE p == Append(q, x)
           n == Len(q)
<1>2. n \in Nat /\ Len(p) = n + 1 /\ p[n + 1] = x /\ \A i \in 1..n : p[i] = q[i]
  BY <1>1
<1> HIDE DEF p
<1>3. Elems(p) = Elems(q) \cup {x}
  BY <1>2 DEF Elems
<1>4. ASSUME NoRepeat(q), x \notin Elems(q)
      PROVE  NoRepeat(p)
  BY <1>2, <1>4 DEF NoRepeat, Elems
<1> QED
  BY <1>3, <1>4 DEF p

LEMMA ElemsOfTail ==
  ASSUME NEW S, NEW q \in Seq(S), q # <<>>
  PROVE  /\ Head(q) \in S /\ Head(q) \in Elems(q) /\ Tail(q) \in Seq(S)
         /\ Elems(Tail(q)) \subseteq Elems(q)
         /\ NoRepeat(q) => NoRepeat(Tail(q)) /\ Head(q) \notin Elems(Tail(q))
<1> DEFINE p == Tail(q)
           n == Len(q)
<1>1. /\ n \in Nat \ {0} /\ Head(q) = q[1] /\ Head(q) \in S /\ p \in Seq(S)
      /\ Len(p) = n - 1 /\ \A i \in 1..(n - 1) : p[i] = q[i + 1]
  BY HeadTailProperties, LenProperties, EmptySeq
<1> HIDE DEF p
<1>2. Head(q) \in Elems(q)
  BY <1>1 DEF Elems
<1>3. Elems(p) \subseteq Elems(q)
  BY <1>1 DEF Elems
<1>4. ASSUME NoRepeat(q)
      PROVE  NoRepeat(p) /\ Head(q) \notin Elems(p)
  BY <1>1, <1>4 DEF Elems, NoRepeat
<1> QED
  BY <1>1, <1>2, <1>3, <1>4 DEF p

(***************************************************************************)
(* Connections and shards that a step does not concern.                    *)
(***************************************************************************)
LEMMA SameAnswer ==
  ASSUME NEW c, OneAnswer(c),
         seen'[c] = seen[c], asked'[c] = asked[c], got'[c] = got[c],
         respQueue'[c] = respQueue[c], batch'[c] = batch[c],
         task'[c] = "refuse" => task[c] = "refuse",
         \A s \in Shards : \A k \in 1..MaxRequests :
           HasRequest(s, <<c, k>>)' => HasRequest(s, <<c, k>>)
  PROVE  OneAnswer(c)'
<1>1. Waits(c)' <=> Waits(c)
  BY DEF Waits
<1>2. NoneHere(c) => NoneHere(c)'
  BY DEF NoneHere
<1>3. Current(c)' = Current(c)
  BY DEF Current
<1>4. OneAtShard(c)'
  BY <1>1, <1>2, Zenon DEF OneAnswer, OneAtShard
<1>5. OneQueued(c)' /\ OneInBatch(c)' /\ OneRefused(c)'
  BY <1>1, <1>3 DEF OneAnswer, OneQueued, OneInBatch, OneRefused
<1>6. Paced(c)' /\ Ordered(c)'
  BY DEF OneAnswer, Paced, Ordered
<1> QED
  BY <1>4, <1>5, <1>6 DEF OneAnswer

LEMMA SamePlace ==
  ASSUME NEW s, OnePlace(s), requestCh'[s] = requestCh[s], responseCh'[s] = responseCh[s],
         inHand'[s] = inHand[s]
  PROVE  OnePlace(s)'
BY DEF OnePlace, HasRequest

LEMMA SameRequests ==
  ASSUME UNCHANGED <<requestCh, responseCh, inHand>>, NEW s, NEW r
  PROVE  HasRequest(s, r)' <=> HasRequest(s, r)
BY DEF HasRequest

LEMMA QuietOne ==
  ASSUME OneInv,
         UNCHANGED <<asked, got, seen, respQueue, batch, panicked, requestCh, responseCh, inHand>>,
         \A c \in Conns : task'[c] = "refuse" => task[c] = "refuse"
  PROVE  OneInv'
<1>1. \A s \in Shards : OnePlace(s)'
  BY SamePlace DEF OneInv
<1>2. ASSUME NEW c \in Conns
      PROVE  OneAnswer(c)'
  BY SameAnswer, SameRequests DEF OneInv
<1> QED
  BY <1>1, <1>2 DEF OneInv, NeverPanics

\* a task that ends takes what it had for its client along
LEMMA ReturnOne ==
  ASSUME Inv, OneInv, NEW c \in Conns, Return(c)
  PROVE  OneInv'
<1>1. /\ UNCHANGED <<asked, got, seen, panicked, requestCh, responseCh, inHand>>
      /\ respQueue'[c] = <<>> /\ batch'[c] = <<>> /\ task'[c] = "gone"
      /\ \A d \in Conns \ {c} : /\ respQueue'[d] = respQueue[d] /\ batch'[d] = batch[d]
                                /\ task'[d] = task[d]
  BY DEF Return, Goto, clientVars, shardVars, Inv, ConnInv, ConnTypes
<1>2. \A s \in Shards : OnePlace(s)'
  BY <1>1, SamePlace DEF OneInv
<1>3. ASSUME NEW d \in Conns \ {c}
      PROVE  OneAnswer(d)'
  BY <1>1, SameAnswer, SameRequests DEF OneInv
<1>4. OneAnswer(c)'
  <2>1. NoneHere(c)' /\ (Waits(c)' <=> Waits(c))
    BY <1>1 DEF NoneHere, Waits
  <2>2. OneAtShard(c)'
    BY <1>1, <2>1, SameRequests, Zenon DEF OneInv, OneAnswer, OneAtShard
  <2>3. OneQueued(c)' /\ OneInBatch(c)' /\ OneRefused(c)'
    BY <1>1 DEF OneQueued, OneInBatch, OneRefused
  <2>4. Paced(c)' /\ Ordered(c)'
    BY <1>1 DEF OneInv, OneAnswer, Paced, Ordered
  <2> QED
    BY <2>2, <2>3, <2>4 DEF OneAnswer
<1> QED
  BY <1>1, <1>2, <1>3, <1>4 DEF OneInv, NeverPanics

(***************************************************************************)
(* The numbers of a connection, and the step of its client.                *)
(***************************************************************************)
LEMMA Numbers ==
  ASSUME Inv, OneInv, NEW c \in Conns
  PROVE  /\ got[c] \in Seq(Requests) /\ Len(got[c]) \in Nat
         /\ seen[c] \in Nat /\ asked[c] \in 0..MaxRequests /\ asked[c] \in Nat
         /\ Len(got[c]) <= seen[c] /\ seen[c] <= asked[c] /\ asked[c] <= Len(got[c]) + 1
         /\ WholeFrame(c) => seen[c] + 1 = asked[c] /\ seen[c] = Len(got[c])
<1>1. /\ got[c] \in Seq(Requests) /\ asked[c] \in 0..MaxRequests /\ seen[c] \in 0..MaxRequests
      /\ MaxRequests \in Nat /\ unread[c] \in Nat /\ parseBuf[c] \in Nat
      /\ unread[c] + parseBuf[c] + 2 * seen[c] = 2 * asked[c]
  BY PathAssumption DEF Inv, ConnInv, ConnTypes, Flow, Frame
<1>2. Len(got[c]) \in Nat
  BY <1>1, LenProperties
<1>3. Len(got[c]) <= seen[c] /\ asked[c] <= Len(got[c]) + 1
  BY DEF OneInv, OneAnswer, Paced
<1>4. WholeFrame(c) => parseBuf[c] >= 2
  BY DEF WholeFrame, Frame
<1>5. /\ asked[c] \in Nat /\ seen[c] \in Nat /\ unread[c] \in Nat /\ parseBuf[c] \in Nat
      /\ unread[c] + parseBuf[c] + 2 * seen[c] = 2 * asked[c]
  BY <1>1
<1>6. seen[c] <= asked[c]
  BY <1>5
<1>7. parseBuf[c] >= 2 => seen[c] + 1 <= asked[c]
  BY <1>5
<1>8. WholeFrame(c) => seen[c] + 1 = asked[c] /\ seen[c] = Len(got[c])
  BY <1>2, <1>3, <1>4, <1>5, <1>7
<1> QED
  BY <1>1, <1>2, <1>3, <1>5, <1>6, <1>8

\* while c waits for nothing, none of its requests is anywhere
LEMMA NothingUnderWay ==
  ASSUME OneInv, NEW c \in Conns, ~Waits(c)
  PROVE  /\ NoneHere(c)
         /\ \A s \in Shards : \A k \in 1..MaxRequests : ~HasRequest(s, <<c, k>>)
BY DEF OneInv, OneAnswer, OneAtShard, OneQueued, OneInBatch, OneRefused, NoneHere

LEMMA AskOne ==
  ASSUME Window = 1, Inv, OneInv, NEW c \in Conns, Ask(c)
  PROVE  OneInv'
<1>1. /\ UNCHANGED <<alive, got, task, seen, respQueue, batch, panicked, requestCh, responseCh,
                     inHand>>
      /\ asked'[c] = asked[c] + 1 /\ \A d \in Conns \ {c} : asked'[d] = asked[d]
      /\ asked[c] - Len(got[c]) < 1
  BY DEF Ask, shardVars, Inv, ConnInv, ConnTypes
<1>2. \A s \in Shards : OnePlace(s)'
  BY <1>1, SamePlace DEF OneInv
<1>3. ASSUME NEW d \in Conns \ {c}
      PROVE  OneAnswer(d)'
  BY <1>1, SameAnswer, SameRequests DEF OneInv
<1>4. OneAnswer(c)'
  <2>1. asked[c] = Len(got[c]) /\ Paced(c)'
    BY <1>1, Numbers DEF Paced
  <2>2. ~Waits(c)
    BY <2>1, Numbers DEF Waits
  <2>3. /\ NoneHere(c)
        /\ \A s \in Shards : \A k \in 1..MaxRequests : ~HasRequest(s, <<c, k>>)
    BY <2>2, NothingUnderWay
  <2>4. OneAtShard(c)'
    BY <1>1, <2>3, SameRequests DEF OneAtShard
  <2>5. OneQueued(c)' /\ OneInBatch(c)' /\ OneRefused(c)'
    BY <1>1, <2>3 DEF OneQueued, OneInBatch, OneRefused, NoneHere
  <2>6. Ordered(c)'
    BY <1>1 DEF OneInv, OneAnswer, Ordered
  <2> QED
    BY <2>1, <2>4, <2>5, <2>6 DEF OneAnswer
<1> QED
  BY <1>1, <1>2, <1>3, <1>4 DEF OneInv, NeverPanics

(***************************************************************************)
(* The connection task.                                                    *)
(***************************************************************************)
LEMMA FlushOne ==
  ASSUME Inv, OneInv, NEW c \in Conns, Flush(c)
  PROVE  OneInv'
<1>1. /\ UNCHANGED <<asked, got, seen, panicked, requestCh, responseCh, inHand>>
      /\ respQueue'[c] = <<>> /\ batch'[c] = respQueue[c] /\ task'[c] # "refuse"
      /\ task[c] # "refuse"
      /\ \A d \in Conns \ {c} : /\ respQueue'[d] = respQueue[d] /\ batch'[d] = batch[d]
                                /\ task'[d] = task[d]
  BY DEF Flush, Runs, Goto, clientVars, shardVars, Inv, ConnInv, ConnTypes
<1>2. \A s \in Shards : OnePlace(s)'
  BY <1>1, SamePlace DEF OneInv
<1>3. ASSUME NEW d \in Conns \ {c}
      PROVE  OneAnswer(d)'
  BY <1>1, SameAnswer, SameRequests DEF OneInv
<1>4. OneAnswer(c)'
  <2>1. (Waits(c)' <=> Waits(c)) /\ Current(c)' = Current(c)
    BY <1>1 DEF Waits, Current
  <2>2. NoneHere(c) => NoneHere(c)'
    BY <1>1 DEF NoneHere
  <2>3. OneAtShard(c)'
    BY <1>1, <2>1, <2>2, SameRequests, Zenon DEF OneInv, OneAnswer, OneAtShard
  <2>4. OneQueued(c)' /\ OneInBatch(c)' /\ OneRefused(c)'
    BY <1>1, <2>1 DEF OneInv, OneAnswer, OneQueued, OneInBatch, OneRefused
  <2>5. Paced(c)' /\ Ordered(c)'
    BY <1>1 DEF OneInv, OneAnswer, Paced, Ordered
  <2> QED
    BY <2>3, <2>4, <2>5 DEF OneAnswer
<1> QED
  BY <1>1, <1>2, <1>3, <1>4 DEF OneInv, NeverPanics

\* the answer that c waits for is the next one
LEMMA NextAnswer ==
  ASSUME Inv, OneInv, NEW c \in Conns, Waits(c), got'[c] = Append(got[c], Current(c)),
         seen'[c] = seen[c], asked'[c] = asked[c]
  PROVE  Paced(c)' /\ Ordered(c)' /\ ~Waits(c)'
<1>1. /\ got[c] \in Seq(Requests) /\ Len(got[c]) \in Nat /\ seen[c] = Len(got[c]) + 1
      /\ seen[c] = asked[c] /\ Current(c) = <<c, Len(got[c]) + 1>>
  BY Numbers DEF Waits, Current
<1>2. \A i \in 1..Len(got[c]) : got[c][i] = <<c, i>>
  BY DEF OneInv, OneAnswer, Ordered
<1>3. Current(c) \in Requests
  BY <1>1, Numbers DEF Requests
<1>4. /\ Len(got'[c]) = Len(got[c]) + 1 /\ got'[c][Len(got[c]) + 1] = Current(c)
      /\ \A i \in 1..Len(got[c]) : got'[c][i] = got[c][i]
  BY <1>1, <1>3, AppendProperties
<1>5. Ordered(c)'
  BY <1>1, <1>2, <1>4 DEF Ordered
<1>6. Paced(c)' /\ ~Waits(c)'
  BY <1>1, <1>4 DEF Paced, Waits
<1> QED
  BY <1>5, <1>6

\* c gets its answer, or would get it if it were still there
LEMMA AnswerOne ==
  ASSUME Inv, OneInv, NEW c \in Conns, Waits(c), Receives(c, Current(c)),
         UNCHANGED <<seen, asked, panicked, requestCh, responseCh, inHand, respQueue>>,
         NoneHere(c)', \A s \in Shards : \A k \in 1..MaxRequests : ~HasRequest(s, <<c, k>>),
         \A d \in Conns \ {c} : batch'[d] = batch[d] /\ task'[d] = task[d]
  PROVE  OneInv'
<1>1. /\ got'[c] \in {got[c], Append(got[c], Current(c))}
      /\ \A d \in Conns \ {c} : got'[d] = got[d]
  BY DEF Receives, Inv, ConnInv, ConnTypes
<1>2. \A s \in Shards : OnePlace(s)'
  BY SamePlace DEF OneInv
<1>3. ASSUME NEW d \in Conns \ {c}
      PROVE  OneAnswer(d)'
  BY <1>1, SameAnswer, SameRequests DEF OneInv
<1>4. Paced(c)' /\ Ordered(c)'
  <2>1. CASE got'[c] = got[c]
    BY <2>1 DEF OneInv, OneAnswer, Paced, Ordered
  <2>2. CASE got'[c] = Append(got[c], Current(c))
    BY <2>2, NextAnswer
  <2> QED
    BY <1>1, <2>1, <2>2
<1>5. OneAtShard(c)'
  BY SameRequests DEF OneAtShard
<1>6. OneQueued(c)' /\ OneInBatch(c)' /\ OneRefused(c)'
  BY DEF OneQueued, OneInBatch, OneRefused, NoneHere
<1>7. OneAnswer(c)'
  BY <1>4, <1>5, <1>6 DEF OneAnswer
<1> QED
  BY <1>2, <1>3, <1>7 DEF OneInv, NeverPanics

LEMMA FlushWriteOne ==
  ASSUME Inv, OneInv, NEW c \in Conns, FlushWrite(c)
  PROVE  OneInv'
<1>1. task[c] = "flush" /\ batch[c] # <<>>
  BY DEF FlushWrite, Runs, Inv, ConnInv, Flushing
<1>2. batch[c] = <<Current(c)>> /\ Waits(c) /\ ~NoneHere(c) /\ respQueue[c] = <<>>
  BY <1>1 DEF OneInv, OneAnswer, OneInBatch, OneQueued, NoneHere
<1>3. \A s \in Shards : \A k \in 1..MaxRequests : ~HasRequest(s, <<c, k>>)
  BY <1>2 DEF OneInv, OneAnswer, OneAtShard
<1>4. Head(batch[c]) = Current(c) /\ Tail(batch[c]) = <<>>
  BY <1>2
<1>5. /\ UNCHANGED <<asked, seen, panicked, requestCh, responseCh, inHand, respQueue>>
      /\ batch'[c] = <<>> /\ task'[c] = "select"
      /\ \A d \in Conns \ {c} : batch'[d] = batch[d] /\ task'[d] = task[d]
      /\ Receives(c, Current(c))
  BY <1>4 DEF FlushWrite, Goto, clientVars, shardVars, Inv, ConnInv, ConnTypes
<1>6. NoneHere(c)'
  BY <1>2, <1>5 DEF NoneHere
<1> QED
  BY <1>2, <1>3, <1>5, <1>6, AnswerOne

LEMMA RefuseOne ==
  ASSUME Inv, OneInv, NEW c \in Conns, Refuse(c)
  PROVE  OneInv'
<1>1. task[c] = "refuse"
  BY DEF Refuse, Runs
<1>2. Waits(c) /\ ~NoneHere(c) /\ respQueue[c] = <<>> /\ batch[c] = <<>>
  BY <1>1 DEF OneInv, OneAnswer, OneRefused, OneQueued, OneInBatch, NoneHere
<1>3. \A s \in Shards : \A k \in 1..MaxRequests : ~HasRequest(s, <<c, k>>)
  BY <1>2 DEF OneInv, OneAnswer, OneAtShard
<1>4. /\ UNCHANGED <<asked, seen, panicked, requestCh, responseCh, inHand, respQueue, batch>>
      /\ task'[c] = "parse" /\ \A d \in Conns \ {c} : task'[d] = task[d]
      /\ Receives(c, Current(c))
  BY DEF Refuse, Goto, shardVars, Inv, ConnInv, ConnTypes
<1>5. NoneHere(c)'
  BY <1>2, <1>4 DEF NoneHere
<1> QED
  BY <1>2, <1>3, <1>4, <1>5, AnswerOne

LEMMA ParseFrameOne ==
  ASSUME Inv, OneInv, NEW c \in Conns, ParseFrame(c)
  PROVE  OneInv'
<1> DEFINE r == NextFrame(c)
           t == Route[r]
<1>1. WholeFrame(c) /\ seen[c] + 1 \in 1..MaxRequests /\ r \in Requests /\ t \in Shards
  BY Named, PathAssumption DEF ParseFrame
<1>2. /\ UNCHANGED <<asked, got, panicked, responseCh, inHand, respQueue, batch>>
      /\ seen'[c] = seen[c] + 1
      /\ \A d \in Conns \ {c} : seen'[d] = seen[d] /\ task'[d] = task[d]
      /\ task'[c] \in {"notify", "refuse"}
      /\ task'[c] = "notify" => requestCh' = [requestCh EXCEPT ![t] = Append(@, r)]
      /\ task'[c] = "refuse" => requestCh' = requestCh
  BY DEF ParseFrame, Runs, Goto, clientVars, Inv, ConnInv, ConnTypes
<1>3. seen[c] + 1 = asked[c] /\ seen[c] = Len(got[c]) /\ asked[c] \in Nat /\ seen[c] \in Nat
  BY <1>1, Numbers
<1>4. ~Waits(c) /\ Waits(c)' /\ Paced(c)' /\ Current(c)' = r
  BY <1>2, <1>3 DEF Waits, Paced, Current, NextFrame
<1>5. /\ NoneHere(c)
      /\ \A s \in Shards : \A k \in 1..MaxRequests : ~HasRequest(s, <<c, k>>)
  BY <1>4, NothingUnderWay
<1>6. r = <<c, seen[c] + 1>>
  BY DEF NextFrame
<1>7. \A s \in Shards : ~HasRequest(s, r)
  BY <1>1, <1>5, <1>6
<1> HIDE DEF r, t
<1>8. \A s \in Shards : requestCh[s] \in Seq(Requests)
  BY DEF Inv, ShardTypes
<1>9. \A s \in Shards : Elems(requestCh'[s]) \subseteq Elems(requestCh[s]) \cup
                          (IF task'[c] = "notify" /\ s = t THEN {r} ELSE {})
  <2>1. CASE task'[c] = "notify"
    <3>1. requestCh'[t] = Append(requestCh[t], r) /\ \A s \in Shards \ {t} : requestCh'[s] = requestCh[s]
      BY <1>1, <1>2, <2>1 DEF Inv, ShardTypes
    <3>2. Elems(requestCh'[t]) = Elems(requestCh[t]) \cup {r}
      BY <1>1, <1>8, <3>1, ElemsOfAppend
    <3> QED
      BY <2>1, <3>1, <3>2
  <2>2. CASE task'[c] = "refuse"
    BY <1>2, <2>2
  <2> QED
    BY <1>2, <2>1, <2>2
<1>10. \A s \in Shards : NoRepeat(requestCh'[s])
  <2>1. CASE task'[c] = "notify"
    <3>1. requestCh'[t] = Append(requestCh[t], r) /\ \A s \in Shards \ {t} : requestCh'[s] = requestCh[s]
      BY <1>1, <1>2, <2>1 DEF Inv, ShardTypes
    <3>2. NoRepeat(requestCh[t]) /\ r \notin Elems(requestCh[t])
      BY <1>1, <1>7 DEF OneInv, OnePlace, HasRequest
    <3>3. NoRepeat(requestCh'[t])
      BY <1>1, <1>8, <3>1, <3>2, ElemsOfAppend
    <3>4. \A s \in Shards \ {t} : NoRepeat(requestCh'[s])
      BY <3>1 DEF OneInv, OnePlace
    <3> QED
      BY <3>3, <3>4
  <2>2. CASE task'[c] = "refuse"
    BY <1>2, <2>2 DEF OneInv, OnePlace
  <2> QED
    BY <1>2, <2>1, <2>2
<1>11. \A s \in Shards : \A q : HasRequest(s, q)' =>
         HasRequest(s, q) \/ (task'[c] = "notify" /\ s = t /\ q = r)
  BY <1>2, <1>9 DEF HasRequest
<1>12. ASSUME NEW s \in Shards
       PROVE  OnePlace(s)'
  <2>1. ASSUME NEW q \in Requests, HasRequest(s, q)'
        PROVE  Route[q] = s
    BY <1>11, <2>1 DEF OneInv, OnePlace, t
  <2>2. \A q \in inHand'[s] : q \notin Elems(requestCh'[s]) /\ q \notin Elems(responseCh'[s])
    BY <1>2, <1>7, <1>9 DEF OneInv, OnePlace, HasRequest
  <2>3. \A q \in Elems(requestCh'[s]) : q \notin Elems(responseCh'[s])
    BY <1>2, <1>7, <1>9 DEF OneInv, OnePlace, HasRequest
  <2>4. NoRepeat(responseCh'[s])
    BY <1>2 DEF OneInv, OnePlace
  <2> QED
    BY <1>10, <2>1, <2>2, <2>3, <2>4 DEF OnePlace
<1>13. ASSUME NEW d \in Conns \ {c}
       PROVE  OneAnswer(d)'
  <2>1. \A s \in Shards : \A k \in 1..MaxRequests :
          HasRequest(s, <<d, k>>)' => HasRequest(s, <<d, k>>)
    BY <1>6, <1>11
  <2> QED
    BY <1>2, <2>1, SameAnswer DEF OneInv
<1>14. OneAnswer(c)'
  <2>1. ASSUME NEW s \in Shards, NEW k \in 1..MaxRequests, HasRequest(s, <<c, k>>)'
        PROVE  k = seen'[c] /\ Waits(c)' /\ NoneHere(c)'
    <3>1. task'[c] = "notify" /\ <<c, k>> = r
      BY <1>5, <1>11, <2>1
    <3> QED
      BY <1>2, <1>4, <1>5, <1>6, <3>1 DEF NoneHere
  <2>2. OneAtShard(c)'
    BY <2>1 DEF OneAtShard
  <2>3. OneQueued(c)' /\ OneInBatch(c)' /\ OneRefused(c)'
    BY <1>2, <1>4, <1>5 DEF OneQueued, OneInBatch, OneRefused, NoneHere
  <2>4. Ordered(c)'
    BY <1>2 DEF OneInv, OneAnswer, Ordered
  <2> QED
    BY <1>4, <2>2, <2>3, <2>4 DEF OneAnswer
<1> QED
  BY <1>2, <1>12, <1>13, <1>14 DEF OneInv, NeverPanics

(***************************************************************************)
(* The drainer and the engines.                                            *)
(***************************************************************************)
LEMMA DrainOne ==
  ASSUME Inv, OneInv, NEW s \in Shards, DrainResponses(s)
  PROVE  OneInv'
<1>1. responseCh[s] \in Seq(Requests) /\ responseCh[s] # <<>>
  BY DEF DrainResponses, Inv, ShardTypes
<1>2. Head(responseCh[s]) \in Requests
  BY <1>1, ElemsOfTail
<1>3. PICK c \in Conns, k \in 1..MaxRequests : Head(responseCh[s]) = <<c, k>>
  BY <1>2 DEF Requests
<1> DEFINE r == <<c, k>>
<1>4. /\ r \in Requests /\ r \in Elems(responseCh[s])
      /\ Elems(Tail(responseCh[s])) \subseteq Elems(responseCh[s])
      /\ NoRepeat(Tail(responseCh[s])) /\ r \notin Elems(Tail(responseCh[s]))
  BY <1>1, <1>2, <1>3, ElemsOfTail DEF OneInv, OnePlace
<1>5. /\ UNCHANGED <<asked, got, seen, task, batch, requestCh, inHand>>
      /\ responseCh'[s] = Tail(responseCh[s])
      /\ \A t \in Shards \ {s} : responseCh'[t] = responseCh[t]
      /\ \/ respQueue' = [respQueue EXCEPT ![c] = Append(@, r)]
         \/ respQueue' = respQueue
  <2>1. /\ UNCHANGED <<asked, got, seen, task, batch, requestCh, inHand>>
        /\ responseCh' = [responseCh EXCEPT ![s] = Tail(responseCh[s])]
    BY DEF DrainResponses, clientVars
  <2>2. Head(responseCh[s])[1] = c
    BY <1>3
  <2>3. \/ respQueue' = [respQueue EXCEPT ![Head(responseCh[s])[1]] = Append(@, Head(responseCh[s]))]
        \/ respQueue' = respQueue
    BY DEF DrainResponses
  <2>4. \/ respQueue' = [respQueue EXCEPT ![c] = Append(@, r)]
        \/ respQueue' = respQueue
    BY <1>3, <2>2, <2>3
  <2> QED
    BY <2>1, <2>4 DEF Inv, ShardTypes
<1>6. HasRequest(s, <<c, k>>)
  BY <1>4 DEF HasRequest
<1>7. k = seen[c] /\ Waits(c) /\ NoneHere(c)
  BY <1>6 DEF OneInv, OneAnswer, OneAtShard
<1>8. panicked' = FALSE
  <2>1. task[c] # "flush"
    BY <1>7 DEF NoneHere, Inv, ConnInv, Flushing
  <2>2. task[Head(responseCh[s])[1]] # "flush"
    BY <1>3, <2>1
  <2> QED
    BY <2>2, Zenon DEF DrainResponses, Borrowed
<1>9. r = Current(c) /\ Current(c)' = Current(c)
  BY <1>5, <1>7 DEF Current
<1>10. \A t \in Shards : \A q : HasRequest(t, q)' => HasRequest(t, q)
  BY <1>4, <1>5 DEF HasRequest
<1>11. \A t \in Shards : ~HasRequest(t, r)'
  <2>1. ~HasRequest(s, r)'
    BY <1>4, <1>5 DEF HasRequest, OneInv, OnePlace
  <2>2. Route[r] = s
    BY <1>4, <1>6 DEF OneInv, OnePlace
  <2>3. \A t \in Shards \ {s} : ~HasRequest(t, r)
    BY <1>4, <2>2 DEF OneInv, OnePlace
  <2> QED
    BY <1>10, <2>1, <2>3
<1>12. ASSUME NEW t \in Shards
       PROVE  OnePlace(t)'
  <2>1. Elems(responseCh'[t]) \subseteq Elems(responseCh[t]) /\ NoRepeat(responseCh'[t])
    BY <1>4, <1>5 DEF OneInv, OnePlace
  <2> QED
    BY <1>5, <1>10, <2>1 DEF OneInv, OnePlace
<1>13. \A d \in Conns \ {c} : respQueue'[d] = respQueue[d]
  BY <1>5 DEF Inv, ConnInv, ConnTypes
<1>14. ASSUME NEW d \in Conns \ {c}
       PROVE  OneAnswer(d)'
  BY <1>5, <1>10, <1>13, SameAnswer DEF OneInv
<1>15. OneAnswer(c)'
  <2>1. ASSUME NEW t \in Shards, NEW i \in 1..MaxRequests, HasRequest(t, <<c, i>>)'
        PROVE  FALSE
    <3>1. HasRequest(t, <<c, i>>)
      BY <1>10, <2>1
    <3>2. i = k
      BY <1>7, <3>1 DEF OneInv, OneAnswer, OneAtShard
    <3> QED
      BY <1>11, <2>1, <3>2
  <2>2. OneAtShard(c)'
    BY <2>1 DEF OneAtShard
  <2>3. respQueue'[c] \in {<<>>, <<Current(c)>>}
    <3>1. respQueue[c] = <<>>
      BY <1>7 DEF NoneHere
    <3>2. Append(<<>>, r) = <<r>>
      OBVIOUS
    <3> QED
      BY <1>5, <1>9, <3>1, <3>2 DEF Inv, ConnInv, ConnTypes
  <2>4. batch'[c] = <<>> /\ task'[c] # "refuse" /\ Waits(c)'
    BY <1>5, <1>7 DEF NoneHere, Waits
  <2>5. OneQueued(c)' /\ OneInBatch(c)' /\ OneRefused(c)'
    BY <1>9, <2>3, <2>4 DEF OneQueued, OneInBatch, OneRefused
  <2>6. Paced(c)' /\ Ordered(c)'
    BY <1>5 DEF OneInv, OneAnswer, Paced, Ordered
  <2> QED
    BY <2>2, <2>5, <2>6 DEF OneAnswer
<1> QED
  BY <1>8, <1>12, <1>14, <1>15 DEF OneInv, NeverPanics

\* a request that a shard moves or drops stays in one place at most
LEMMA MoveOne ==
  ASSUME OneInv, NEW s \in Shards,
         UNCHANGED <<asked, got, seen, task, respQueue, batch, panicked>>,
         \A t \in Shards \ {s} : /\ requestCh'[t] = requestCh[t] /\ responseCh'[t] = responseCh[t]
                                 /\ inHand'[t] = inHand[t],
         \A q : HasRequest(s, q)' => HasRequest(s, q),
         NoRepeat(requestCh'[s]), NoRepeat(responseCh'[s]),
         \A q \in inHand'[s] : q \notin Elems(requestCh'[s]) /\ q \notin Elems(responseCh'[s]),
         \A q \in Elems(requestCh'[s]) : q \notin Elems(responseCh'[s])
  PROVE  OneInv'
<1>1. \A t \in Shards : \A q : HasRequest(t, q)' => HasRequest(t, q)
  BY DEF HasRequest
<1>2. OnePlace(s)'
  BY <1>1 DEF OneInv, OnePlace
<1>3. \A t \in Shards \ {s} : OnePlace(t)'
  BY SamePlace DEF OneInv
<1>4. ASSUME NEW c \in Conns
      PROVE  OneAnswer(c)'
  BY <1>1, SameAnswer DEF OneInv
<1> QED
  BY <1>2, <1>3, <1>4 DEF OneInv, NeverPanics

\* an answer sent is in the channel, or nowhere
LEMMA SendOne ==
  ASSUME Inv, NEW s \in Shards, NEW r \in Requests, SendResponse(s, r),
         NoRepeat(responseCh[s]), r \notin Elems(responseCh[s])
  PROVE  /\ NoRepeat(responseCh'[s]) /\ Elems(responseCh'[s]) \subseteq Elems(responseCh[s]) \cup {r}
         /\ \A t \in Shards \ {s} : responseCh'[t] = responseCh[t]
<1>1. responseCh[s] \in Seq(Requests) /\ DOMAIN responseCh = Shards
  BY DEF Inv, ShardTypes
<1>2. CASE responseCh' = [responseCh EXCEPT ![s] = Append(@, r)]
  <2>1. responseCh'[s] = Append(responseCh[s], r) /\ \A t \in Shards \ {s} : responseCh'[t] = responseCh[t]
    BY <1>1, <1>2
  <2> QED
    BY <1>1, <2>1, ElemsOfAppend
<1>3. CASE responseCh' = responseCh
  BY <1>3
<1> QED
  BY <1>2, <1>3 DEF SendResponse

LEMMA HandleOne ==
  ASSUME Inv, OneInv, NEW s \in Shards, HandleClientRequest(s)
  PROVE  OneInv'
<1> DEFINE r == Head(requestCh[s])
<1>1. requestCh[s] \in Seq(Requests) /\ requestCh[s] # <<>>
  BY DEF HandleClientRequest, Inv, ShardTypes
<1>2. /\ r \in Requests /\ r \in Elems(requestCh[s])
      /\ Elems(Tail(requestCh[s])) \subseteq Elems(requestCh[s])
      /\ NoRepeat(Tail(requestCh[s])) /\ r \notin Elems(Tail(requestCh[s]))
  BY <1>1, ElemsOfTail DEF OneInv, OnePlace
<1>3. /\ UNCHANGED <<asked, got, seen, task, respQueue, batch, panicked>>
      /\ requestCh'[s] = Tail(requestCh[s])
      /\ \A t \in Shards \ {s} : requestCh'[t] = requestCh[t]
      /\ \/ SendResponse(s, r) /\ inHand' = inHand
         \/ inHand' = [inHand EXCEPT ![s] = @ \cup {r}] /\ responseCh' = responseCh
  BY DEF HandleClientRequest, clientVars, taskVars, Inv, ShardTypes
<1> HIDE DEF r
<1>4. /\ NoRepeat(responseCh[s]) /\ r \notin Elems(responseCh[s]) /\ r \notin inHand[s]
      /\ \A q \in inHand[s] : q \notin Elems(requestCh[s]) /\ q \notin Elems(responseCh[s])
      /\ \A q \in Elems(requestCh[s]) : q \notin Elems(responseCh[s])
  BY <1>2 DEF OneInv, OnePlace
<1>5. CASE SendResponse(s, r) /\ inHand' = inHand
  <2>1. /\ NoRepeat(responseCh'[s])
        /\ Elems(responseCh'[s]) \subseteq Elems(responseCh[s]) \cup {r}
        /\ \A t \in Shards \ {s} : responseCh'[t] = responseCh[t]
    BY <1>2, <1>4, <1>5, SendOne
  <2>2. \A q : HasRequest(s, q)' => HasRequest(s, q)
    BY <1>2, <1>3, <1>5, <2>1 DEF HasRequest
  <2>3. \A q \in inHand'[s] : q \notin Elems(requestCh'[s]) /\ q \notin Elems(responseCh'[s])
    BY <1>2, <1>3, <1>4, <1>5, <2>1
  <2>4. \A q \in Elems(requestCh'[s]) : q \notin Elems(responseCh'[s])
    BY <1>2, <1>3, <1>4, <2>1
  <2> QED
    BY <1>2, <1>3, <1>5, <2>1, <2>2, <2>3, <2>4, MoveOne
<1>6. CASE inHand' = [inHand EXCEPT ![s] = @ \cup {r}] /\ responseCh' = responseCh
  <2>1. inHand'[s] = inHand[s] \cup {r} /\ \A t \in Shards \ {s} : inHand'[t] = inHand[t]
    BY <1>6 DEF Inv, ShardTypes
  <2>2. \A q : HasRequest(s, q)' => HasRequest(s, q)
    BY <1>2, <1>3, <1>6, <2>1 DEF HasRequest
  <2>3. \A q \in inHand'[s] : q \notin Elems(requestCh'[s]) /\ q \notin Elems(responseCh'[s])
    BY <1>2, <1>3, <1>4, <1>6, <2>1
  <2>4. \A q \in Elems(requestCh'[s]) : q \notin Elems(responseCh'[s])
    BY <1>2, <1>3, <1>4, <1>6
  <2> QED
    BY <1>2, <1>3, <1>4, <1>6, <2>1, <2>2, <2>3, <2>4, MoveOne
<1> QED
  BY <1>3, <1>5, <1>6

LEMMA AnswerPendingOne ==
  ASSUME Inv, OneInv, NEW s \in Shards, AnswerPending(s)
  PROVE  OneInv'
<1>1. PICK r \in inHand[s] :
        inHand' = [inHand EXCEPT ![s] = @ \ {r}] /\ SendResponse(s, r)
  BY DEF AnswerPending
<1>2. /\ UNCHANGED <<asked, got, seen, task, respQueue, batch, panicked, requestCh>>
      /\ r \in Requests
      /\ inHand'[s] = inHand[s] \ {r} /\ \A t \in Shards \ {s} : inHand'[t] = inHand[t]
  BY <1>1 DEF AnswerPending, clientVars, taskVars, Inv, ShardTypes
<1>3. /\ NoRepeat(requestCh[s]) /\ NoRepeat(responseCh[s])
      /\ r \notin Elems(responseCh[s]) /\ r \notin Elems(requestCh[s])
      /\ \A q \in inHand[s] : q \notin Elems(requestCh[s]) /\ q \notin Elems(responseCh[s])
      /\ \A q \in Elems(requestCh[s]) : q \notin Elems(responseCh[s])
  BY <1>1 DEF OneInv, OnePlace
<1>4. /\ NoRepeat(responseCh'[s])
      /\ Elems(responseCh'[s]) \subseteq Elems(responseCh[s]) \cup {r}
      /\ \A t \in Shards \ {s} : responseCh'[t] = responseCh[t]
  BY <1>1, <1>2, <1>3, SendOne
<1>5. \A q : HasRequest(s, q)' => HasRequest(s, q)
  BY <1>1, <1>2, <1>4 DEF HasRequest
<1>6. \A q \in inHand'[s] : q \notin Elems(requestCh'[s]) /\ q \notin Elems(responseCh'[s])
  BY <1>2, <1>3, <1>4
<1>7. \A q \in Elems(requestCh'[s]) : q \notin Elems(responseCh'[s])
  BY <1>2, <1>3, <1>4
<1> QED
  BY <1>2, <1>3, <1>4, <1>5, <1>6, <1>7, MoveOne

-----------------------------------------------------------------------------
LEMMA InitOne ==
  Init => OneInv
<1> SUFFICES ASSUME Init PROVE OneInv
  OBVIOUS
<1>1. Elems(<<>>) = {} /\ NoRepeat(<<>>)
  BY DEF Elems, NoRepeat
<1>2. \A s \in Shards : OnePlace(s)
  BY <1>1 DEF Init, OnePlace, HasRequest
<1>3. ASSUME NEW c \in Conns
      PROVE  OneAnswer(c)
  <2>1. /\ Len(got[c]) = 0 /\ seen[c] = 0 /\ asked[c] = 0 /\ respQueue[c] = <<>>
        /\ batch[c] = <<>> /\ task[c] = "none"
    BY DEF Init
  <2>2. OneAtShard(c)
    BY <1>1 DEF Init, OneAtShard, HasRequest
  <2> QED
    BY <2>1, <2>2 DEF OneAnswer, Paced, OneQueued, OneInBatch, OneRefused, Ordered
<1> QED
  BY <1>2, <1>3 DEF Init, OneInv, NeverPanics

LEMMA OneStep ==
  ASSUME Window = 1, Inv, OneInv, [Next]_vars
  PROVE  OneInv'
<1> USE DEF taskVars, shardVars, clientVars
<1>1. ASSUME NEW c \in Conns, HangUp(c)
      PROVE  OneInv'
  BY <1>1, QuietOne DEF HangUp
<1>2. ASSUME NEW c \in Conns, Accept(c) \/ ReadTimesOut(c) \/ ParseMore(c) \/ Notify(c) \/ ReadSome(c)
      PROVE  OneInv'
  <2>1. UNCHANGED <<asked, got, seen, respQueue, batch, panicked, requestCh, responseCh, inHand>>
    BY <1>2 DEF Accept, ReadTimesOut, ParseMore, Notify, ReadSome
  <2>2. \E where \in {"top", "parse"} : task' = [task EXCEPT ![c] = where]
    BY <1>2 DEF Accept, ReadTimesOut, ParseMore, Notify, ReadSome, Goto
  <2>3. \A d \in Conns : task'[d] = "refuse" => task[d] = "refuse"
    BY <2>2 DEF Inv, ConnInv, ConnTypes
  <2> QED
    BY <2>1, <2>3, QuietOne
<1>3. ASSUME NEW c \in Conns, WriteFails(c) \/ ReadEnds(c) \/ ProtocolError(c)
      PROVE  OneInv'
  BY <1>3, ReturnOne DEF WriteFails, ReadEnds, ProtocolError
<1>4. ASSUME NEW s \in Shards,
             Wake(s) \/ DrainEventfd(s) \/ Processed(s) \/ OtherBranch(s) \/ TurnEnds(s)
      PROVE  OneInv'
  BY <1>4, QuietOne DEF Wake, DrainEventfd, Processed, OtherBranch, TurnEnds
<1>5. ASSUME UNCHANGED vars
      PROVE  OneInv'
  BY <1>5, QuietOne DEF vars
<1> QED
  BY <1>1, <1>2, <1>3, <1>4, <1>5, AskOne, FlushOne, FlushWriteOne, RefuseOne, ParseFrameOne,
     DrainOne, HandleOne, AnswerPendingOne
     DEF Next, Client, Task, Engine

\* If every client waits for each answer, a connection has one request under
\* way, in one place of the node.
THEOREM OneUnderWay ==
  ASSUME Window = 1
  PROVE  Spec => []OneInv
<1>1. Inv /\ OneInv /\ [Next]_vars => OneInv'
  BY OneStep
<1> QED
  BY <1>1, InitOne, PathInvHolds, PTL DEF Spec

\* A client that waits for each answer takes every answer for the request it
\* belongs to, whatever the shards, refusals and other connections do.
THEOREM AnswersKeepOrder ==
  ASSUME Window = 1
  PROVE  Spec => []AnswersInOrder
<1>1. OneInv => AnswersInOrder
  BY DEF OneInv, OneAnswer, Ordered, AnswersInOrder
<1> QED
  BY <1>1, OneUnderWay, PTL

\* The drainer never borrows a response queue that a flush holds, if every
\* client waits for each answer: the acceptor does not panic.
THEOREM AcceptorNeverPanics ==
  ASSUME Window = 1
  PROVE  Spec => []NeverPanics
<1>1. OneInv => NeverPanics
  BY DEF OneInv
<1> QED
  BY <1>1, OneUnderWay, PTL
=============================================================================
