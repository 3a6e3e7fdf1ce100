----------------------------- MODULE StreamProofs -----------------------------
(***************************************************************************)
(* Proofs about Stream, for every number of streams, every buffer size and  *)
(* any number of batches and failing calls.                                 *)
(***************************************************************************)
EXTENDS Stream, TLAPS

\* Leaves without a backend of their own are the SMT solver's.
USE SMTT(300)

LEMMA AppendTyped == ASSUME NEW T, NEW q \in Seq(T), NEW e \in T PROVE Append(q, e) \in Seq(T)
OBVIOUS

LEMMA HeadTailTyped ==
  ASSUME NEW T, NEW q \in Seq(T), q # <<>> PROVE Head(q) \in T /\ Tail(q) \in Seq(T)
OBVIOUS

Places == {"none", "subscribe", "watermark", "replay", "live", "unsubscribe", "close", "wait",
           "returned"}

\* TypeOK says nothing of the elements of the sequences.
PublisherType ==
  /\ stored \in Batches /\ pub \in {"idle", "publish", "send"} /\ targets \subseteq Streams
HandlerType ==
  /\ pc \in [Streams -> Places] /\ ctx \in [Streams -> BOOLEAN]
  /\ wm \in [Streams -> Batches] /\ pos \in [Streams -> Batches]
ChannelType ==
  /\ sub \in [Streams -> {"none", "open", "closed"}] /\ closed \in [Streams -> BOOLEAN]
  /\ chan \in [Streams -> Seq(Batches)] /\ queue \in [Streams -> Seq(Batches)]
  /\ errs \in [Streams -> 0..ErrCap]
WorkerType ==
  /\ sender \in [Streams -> Goroutine] /\ fwd \in [Streams -> Goroutine]
  /\ sent \in [Streams -> Seq(Batches)]
RestType == panicked \in BOOLEAN /\ faults \in 0..MaxFaults
Capacities == \A s \in Streams : Len(chan[s]) <= ChanCap /\ Len(queue[s]) <= QueueCap
Types == PublisherType /\ HandlerType /\ ChannelType /\ WorkerType /\ RestType

LEMMA FailTyped == ASSUME faults \in 0..MaxFaults, Fail PROVE faults' \in 0..MaxFaults
BY StreamAssumption DEF Fail

LEMMA InitTypes == Init => Types /\ Capacities
<1> SUFFICES ASSUME Init PROVE Types /\ Capacities
  BY ZenonT(300)
<1> USE StreamAssumption DEF Init
<1>1. PublisherType /\ HandlerType /\ RestType
  <2>1. 0 \in Batches /\ 0 \in 0..MaxFaults
    BY DEF Batches
  <2> QED
    BY ZenonT(300), <2>1 DEF PublisherType, HandlerType, RestType, Places
<1>2. ChannelType
  BY DEF ChannelType, ErrCap
<1>3. WorkerType
  BY DEF WorkerType, Goroutine
<1>4. Capacities
  BY DEF Capacities
<1> QED
  BY ZenonT(300), <1>1, <1>2, <1>3, <1>4 DEF Types

LEMMA TypesStep ==
  ASSUME Types, [Next]_vars
  PROVE  Types'
<1> USE StreamAssumption DEF Types
<1>a. ASSUME UNCHANGED publisher PROVE PublisherType'
  BY ZenonT(300), <1>a DEF PublisherType, publisher
<1>b. ASSUME UNCHANGED handler PROVE HandlerType'
  BY ZenonT(300), <1>b DEF HandlerType, handler
<1>c. ASSUME UNCHANGED channels PROVE ChannelType'
  BY ZenonT(300), <1>c DEF ChannelType, channels
<1>d. ASSUME UNCHANGED <<sender, fwd, sent>> PROVE WorkerType'
  BY ZenonT(300), <1>d DEF WorkerType
<1>e. ASSUME UNCHANGED <<panicked, faults>> PROVE RestType'
  BY ZenonT(300), <1>e DEF RestType
<1>1. CASE Store \/ Collect \/ Published
  <2>1. PublisherType'
    BY <1>1 DEF Store, Collect, Published, PublisherType, Batches
  <2> QED
    BY ZenonT(300), <1>1, <1>b, <1>c, <1>d, <1>e, <2>1 DEF Store, Collect, Published
<1>2. ASSUME NEW s \in Streams, PublishTo(s) PROVE Types'
  <2>1. PublisherType' /\ HandlerType' /\ WorkerType'
    BY ZenonT(300), <1>2, <1>b, <1>d DEF PublishTo, PublisherType
  <2>2. ChannelType'
    BY ZenonT(300), <1>2, AppendTyped DEF PublishTo, Set, ChannelType, PublisherType
  <2>3. RestType'
    BY ZenonT(300), <1>2 DEF PublishTo, RestType
  <2> QED
    BY ZenonT(300), <2>1, <2>2, <2>3
<1>3. ASSUME NEW s \in Streams, Open(s) PROVE Types'
  <2>1. HandlerType'
    BY ZenonT(300), <1>3 DEF Open, Set, HandlerType, Places
  <2>2. ChannelType'
    <3>1. <<0>> \in Seq(Batches)
      BY DEF Batches
    <3> QED
      BY ZenonT(300), <1>3, <3>1 DEF Open, Set, ChannelType
  <2>3. WorkerType'
    BY ZenonT(300), <1>3 DEF Open, Set, WorkerType, Goroutine
  <2> QED
    BY ZenonT(300), <1>3, <1>a, <1>e, <2>1, <2>2, <2>3 DEF Open
<1>4. ASSUME NEW s \in Streams,
             Subscribe(s) \/ Unsubscribe(s) \/ CloseQueue(s) \/ Return(s) \/ StreamEnds(s)
      PROVE  Types'
  <2>1. HandlerType'
    BY ZenonT(300), <1>4 DEF Subscribe, Unsubscribe, CloseQueue, Return, StreamEnds, Cancelled, Set, HandlerType,
                Places
  <2>2. ChannelType'
    BY ZenonT(300), <1>4 DEF Subscribe, Unsubscribe, CloseQueue, Return, StreamEnds, Set, ChannelType, channels
  <2> QED
    BY ZenonT(300), <1>4, <1>a, <1>d, <1>e, <2>1, <2>2 DEF Subscribe, Unsubscribe, CloseQueue, Return, StreamEnds
<1>5. ASSUME NEW s \in Streams, ReadWatermark(s) PROVE Types'
  <2>1. HandlerType'
    BY ZenonT(300), <1>5 DEF ReadWatermark, Set, HandlerType, PublisherType, Places
  <2> QED
    BY ZenonT(300), <1>5, <1>a, <1>c, <1>d, <1>e, <2>1 DEF ReadWatermark
<1>6. ASSUME NEW s \in Streams, Replay(s) PROVE Types'
  <2>1. pos[s] + 1 \in Batches
    BY <1>6 DEF Replay, HandlerType, Batches
  <2>2. HandlerType'
    BY ZenonT(300), <1>6, <2>1 DEF Replay, Set, HandlerType
  <2>3. ChannelType'
    BY ZenonT(300), <1>6, <2>1, AppendTyped DEF Replay, Set, ChannelType
  <2> QED
    BY ZenonT(300), <1>6, <1>a, <1>d, <1>e, <2>2, <2>3 DEF Replay
<1>7. ASSUME NEW s \in Streams, StartForward(s) PROVE Types'
  <2>1. HandlerType' /\ WorkerType'
    BY ZenonT(300), <1>7 DEF StartForward, Set, HandlerType, WorkerType, Goroutine, Places
  <2> QED
    BY ZenonT(300), <1>7, <1>a, <1>c, <1>e, <2>1 DEF StartForward
<1>8. ASSUME NEW s \in Streams, QueryFails(s) PROVE Types'
  <2>1. HandlerType'
    BY ZenonT(300), <1>8 DEF QueryFails, Cancelled, Set, HandlerType, Places
  <2>2. RestType'
    BY ZenonT(300), <1>8, FailTyped DEF QueryFails, RestType
  <2> QED
    BY ZenonT(300), <1>8, <1>a, <1>c, <1>d, <2>1, <2>2 DEF QueryFails
<1>9. ASSUME NEW s \in Streams, Leave(s) PROVE Types'
  <2>1. HandlerType'
    BY ZenonT(300), <1>9 DEF Leave, Cancelled, Set, HandlerType, Places
  <2>2. errs' \in [Streams -> 0..ErrCap]
    <3>1. errs[s] > 0 => errs[s] - 1 \in 0..ErrCap
      BY DEF ChannelType, ErrCap
    <3> QED
      BY ZenonT(300), <1>9, <3>1 DEF Leave, Set, ChannelType
  <2>3. ChannelType'
    BY ZenonT(300), <1>9, <2>2 DEF Leave, ChannelType
  <2> QED
    BY ZenonT(300), <1>9, <1>a, <1>d, <1>e, <2>1, <2>3 DEF Leave
<1>10. ASSUME NEW s \in Streams, Take(s) PROVE Types'
  <2>1. Head(queue[s]) \in Batches /\ Tail(queue[s]) \in Seq(Batches)
    BY ZenonT(300), <1>10, HeadTailTyped DEF Take, ChannelType
  <2>2. ChannelType' /\ WorkerType'
    BY ZenonT(300), <1>10, <2>1 DEF Take, Set, ChannelType, WorkerType, Goroutine, Batches
  <2> QED
    BY ZenonT(300), <1>10, <1>a, <1>b, <1>e, <2>2 DEF Take
<1>11. ASSUME NEW s \in Streams, SendMessage(s) PROVE Types'
  <2>1. sender[s] \in Batches
    BY SMTT(300), <1>11 DEF SendMessage, WorkerType, Goroutine, Batches, NotStarted, Receiving, Ended
  <2>2. WorkerType'
    BY ZenonT(300), <1>11, <2>1, AppendTyped DEF SendMessage, Set, WorkerType, Goroutine
  <2> QED
    BY ZenonT(300), <1>11, <1>a, <1>b, <1>c, <1>e, <2>2 DEF SendMessage
<1>12. ASSUME NEW s \in Streams, EndSender(s) PROVE Types'
  <2>0. errs[s] + 1 \in 0..ErrCap
    BY <1>12 DEF EndSender, ChannelType, ErrCap
  <2>1. ChannelType' /\ WorkerType'
    BY ZenonT(300), <1>12, <2>0 DEF EndSender, Set, ChannelType, WorkerType, Goroutine
  <2> QED
    BY ZenonT(300), <1>12, <1>a, <1>b, <1>e, <2>1 DEF EndSender
<1>13. ASSUME NEW s \in Streams, Receive(s) PROVE Types'
  <2>1. Head(chan[s]) \in Batches /\ Tail(chan[s]) \in Seq(Batches)
    BY ZenonT(300), <1>13, HeadTailTyped DEF Receive, ChannelType
  <2>2. ChannelType'
    BY ZenonT(300), <1>13, <2>1 DEF Receive, Set, ChannelType
  <2>3. WorkerType'
    BY ZenonT(300), <1>13, <2>1 DEF Receive, Set, WorkerType, Goroutine, Batches
  <2> QED
    BY ZenonT(300), <1>13, <1>a, <1>b, <1>e, <2>2, <2>3 DEF Receive
<1>14. ASSUME NEW s \in Streams, Forward(s) PROVE Types'
  <2>1. fwd[s] \in Batches
    <3>1. fwd[s] \in Goroutine /\ fwd[s] > 0
      BY ZenonT(300), <1>14 DEF Forward, WorkerType
    <3> QED
      BY <3>1 DEF Goroutine, Batches, NotStarted, Receiving, Ended
  <2>2. ChannelType'
    BY ZenonT(300), <1>14, <2>1, AppendTyped DEF Forward, Set, ChannelType
  <2>3. WorkerType' /\ RestType'
    BY ZenonT(300), <1>14 DEF Forward, Set, WorkerType, Goroutine, RestType, ChannelType
  <2> QED
    BY ZenonT(300), <1>14, <1>a, <1>b, <2>2, <2>3 DEF Forward
<1>15. ASSUME NEW s \in Streams, EndForward(s) PROVE Types'
  <2>0. errs[s] + 1 \in 0..ErrCap
    <3>1. errs[s] < ErrCap
      BY ZenonT(300), <1>15 DEF EndForward
    <3>2. errs[s] \in 0..ErrCap
      BY ZenonT(300) DEF ChannelType
    <3> QED
      BY <3>1, <3>2 DEF ErrCap
  <2>1. ChannelType'
    <3>1. errs' = [errs EXCEPT ![s] = errs[s] + 1] /\ UNCHANGED <<sub, chan, queue, closed>>
      BY ZenonT(300), <1>15 DEF EndForward, Set
    <3> QED
      BY ZenonT(300), <2>0, <3>1 DEF ChannelType
  <2>3. WorkerType'
    BY ZenonT(300), <1>15 DEF EndForward, Set, WorkerType, Goroutine
  <2>2. RestType'
    BY ZenonT(300), <1>15, FailTyped DEF EndForward, RestType
  <2> QED
    BY ZenonT(300), <1>15, <1>a, <1>b, <2>1, <2>2, <2>3 DEF EndForward
<1>16. CASE UNCHANGED vars
  BY ZenonT(300), <1>16, <1>a, <1>b, <1>c, <1>d, <1>e DEF vars
<1> QED
  BY ZenonT(300), <1>1, <1>2, <1>3, <1>4, <1>5, <1>6, <1>7, <1>8, <1>9, <1>10, <1>11, <1>12, <1>13, <1>14, <1>15,
     <1>16 DEF Next, Publish, Progress

LEMMA TailShorter == ASSUME NEW T, NEW q \in Seq(T), q # <<>> PROVE Len(Tail(q)) <= Len(q)
OBVIOUS

LEMMA AppendLonger == ASSUME NEW T, NEW q \in Seq(T), NEW e PROVE Len(Append(q, e)) = Len(q) + 1
OBVIOUS

\* No step puts more into a channel or a send queue than it has room for.
LEMMA CapacityStep ==
  ASSUME Types, Capacities, [Next]_vars
  PROVE  Capacities'
<1> USE StreamAssumption DEF Types, ChannelType
<1>a. ASSUME UNCHANGED <<chan, queue>> PROVE Capacities'
  BY ZenonT(300), <1>a DEF Capacities
<1>1. ASSUME NEW s \in Streams, PublishTo(s) PROVE Capacities'
  <2>1. /\ queue' = queue
        /\ chan' = chan \/ (chan' = [chan EXCEPT ![s] = Append(chan[s], stored)] /\ Len(chan[s]) < ChanCap)
    BY ZenonT(300), <1>1 DEF PublishTo, Set
  <2>2. Len(Append(chan[s], stored)) = Len(chan[s]) + 1 /\ Len(chan[s]) \in Nat
    BY AppendLonger
  <2>3. ASSUME chan' = [chan EXCEPT ![s] = Append(chan[s], stored)], Len(chan[s]) < ChanCap, queue' = queue
        PROVE  Capacities'
    BY <2>2, <2>3 DEF Capacities
  <2> QED
    BY ZenonT(300), <1>a, <2>1, <2>3
<1>2. ASSUME NEW s \in Streams, Open(s) PROVE Capacities'
  <2>1. chan' = chan /\ queue' = [queue EXCEPT ![s] = <<0>>] /\ Len(<<0>>) <= QueueCap
    BY <1>2 DEF Open, Set
  <2> QED
    BY ZenonT(300), <2>1 DEF Capacities
<1>3. ASSUME NEW s \in Streams, NEW v, chan' = chan, Len(queue[s]) < QueueCap,
             queue' = [queue EXCEPT ![s] = Append(queue[s], v)]
      PROVE  Capacities'
  <2>1. Len(Append(queue[s], v)) = Len(queue[s]) + 1 /\ Len(queue[s]) \in Nat
    BY AppendLonger
  <2> QED
    BY <1>3, <2>1 DEF Capacities
<1>4. ASSUME NEW s \in Streams, Replay(s) \/ Forward(s) PROVE Capacities'
  BY ZenonT(300), <1>4, <1>3, <1>a DEF Replay, Forward, Set
<1>5. ASSUME NEW s \in Streams, Take(s) PROVE Capacities'
  <2>1. chan' = chan /\ queue' = [queue EXCEPT ![s] = Tail(queue[s])]
    BY ZenonT(300), <1>5 DEF Take, Set
  <2>2. Len(Tail(queue[s])) <= Len(queue[s]) /\ Len(queue[s]) \in Nat /\ Len(Tail(queue[s])) \in Nat
    BY <1>5, TailShorter, HeadTailTyped DEF Take
  <2> QED
    BY <2>1, <2>2 DEF Capacities
<1>6. ASSUME NEW s \in Streams, Receive(s) PROVE Capacities'
  <2>1. queue' = queue /\ chan' = [chan EXCEPT ![s] = Tail(chan[s])]
    BY ZenonT(300), <1>6 DEF Receive, Set
  <2>2. Len(Tail(chan[s])) <= Len(chan[s]) /\ Len(chan[s]) \in Nat /\ Len(Tail(chan[s])) \in Nat
    BY <1>6, TailShorter, HeadTailTyped DEF Receive
  <2> QED
    BY <2>1, <2>2 DEF Capacities
<1>7. CASE Store \/ Collect \/ Published \/ UNCHANGED vars
  BY ZenonT(300), <1>7, <1>a DEF Store, Collect, Published, vars, channels
<1>8. ASSUME NEW s \in Streams,
             \/ Subscribe(s) \/ ReadWatermark(s) \/ StartForward(s) \/ QueryFails(s) \/ Leave(s)
             \/ Unsubscribe(s) \/ CloseQueue(s) \/ Return(s) \/ StreamEnds(s)
      PROVE  Capacities'
  BY ZenonT(300), <1>8, <1>a DEF Subscribe, ReadWatermark, StartForward, QueryFails, Leave, Unsubscribe,
                    CloseQueue, Return, StreamEnds, channels
<1>9. ASSUME NEW s \in Streams, SendMessage(s) \/ EndSender(s) \/ EndForward(s) PROVE Capacities'
  BY ZenonT(300), <1>9, <1>a DEF SendMessage, EndSender, EndForward, channels
<1> QED
  BY ZenonT(300), <1>1, <1>2, <1>4, <1>5, <1>6, <1>7, <1>8, <1>9 DEF Next, Publish, Progress

\* The goroutines of Consume and the publisher keep channels, queues and errCh within
\* their capacities and everything else in its domain.
THEOREM TypeCorrect == Spec => []TypeOK
<1>1. Types /\ Capacities => TypeOK
  BY ZenonT(300) DEF Types, PublisherType, HandlerType, ChannelType, WorkerType, RestType, Capacities, TypeOK, Places
<1>2. Types /\ Capacities /\ [Next]_vars => Types' /\ Capacities'
  BY ZenonT(300), TypesStep, CapacityStep
<1> QED
  BY <1>1, <1>2, InitTypes, PTL DEF Spec

-----------------------------------------------------------------------------
\* wg.Wait: when the handler has returned, so have its goroutines.
ReturnedIsIdle ==
  \A s \in Streams : pc[s] = "returned" => sender[s] = Ended /\ fwd[s] \in {NotStarted, Ended}

LEMMA IdleStep ==
  ASSUME Types, ReturnedIsIdle, [Next]_vars
  PROVE  ReturnedIsIdle'
<1> USE DEF Types, HandlerType, WorkerType
<1>1. CASE Publish \/ UNCHANGED vars
  BY ZenonT(300), <1>1 DEF Publish, Store, Collect, Published, PublishTo, vars, handler, ReturnedIsIdle
<1>2. ASSUME NEW s \in Streams, Open(s) \/ StartForward(s) PROVE ReturnedIsIdle'
  BY ZenonT(300), <1>2 DEF Open, StartForward, Set, ReturnedIsIdle
<1>3. ASSUME NEW s \in Streams,
             \/ Subscribe(s) \/ ReadWatermark(s) \/ Replay(s) \/ QueryFails(s) \/ Leave(s)
             \/ Unsubscribe(s) \/ CloseQueue(s) \/ Return(s) \/ StreamEnds(s)
      PROVE  ReturnedIsIdle'
  BY ZenonT(300), <1>3 DEF Subscribe, ReadWatermark, Replay, QueryFails, Leave, Unsubscribe, CloseQueue, Return,
              StreamEnds, Set, ReturnedIsIdle
<1>4. ASSUME NEW s \in Streams, Take(s) \/ SendMessage(s) \/ EndSender(s) PROVE ReturnedIsIdle'
  BY SMTT(300), <1>4 DEF Take, SendMessage, EndSender, Set, ReturnedIsIdle, handler, Receiving, Ended
<1>5. ASSUME NEW s \in Streams, Receive(s) \/ Forward(s) \/ EndForward(s) PROVE ReturnedIsIdle'
  <2>1. (fwd[s] = Receiving \/ fwd[s] > 0) /\ UNCHANGED <<pc, sender>>
    BY ZenonT(300), <1>5 DEF Receive, Forward, EndForward, handler
  <2>2. pc[s] # "returned"
    <3>1. fwd[s] \notin {NotStarted, Ended}
      BY <2>1 DEF NotStarted, Receiving, Ended
    <3> QED
      BY ZenonT(300), <3>1 DEF ReturnedIsIdle
  <2>3. \A t \in Streams \ {s} : fwd'[t] = fwd[t]
    BY ZenonT(300), <1>5 DEF Receive, Forward, EndForward, Set
  <2> QED
    BY ZenonT(300), <2>1, <2>2, <2>3 DEF ReturnedIsIdle
<1> QED
  BY ZenonT(300), <1>1, <1>2, <1>3, <1>4, <1>5 DEF Next, Progress

SentAfterReturn == \A s \in Streams : pc[s] = "returned" => sent'[s] = sent[s]

\* No message is given to a stream whose handler has returned, for any number of streams,
\* batches and failures (Consume's deferred function waits for sendLoop).
THEOREM NoLateSend == Spec => NothingSentAfterReturn
<1>1. Init => ReturnedIsIdle
  BY ZenonT(300) DEF Init, ReturnedIsIdle
<1>2. Types /\ ReturnedIsIdle /\ [Next]_vars => ReturnedIsIdle'
  BY ZenonT(300), IdleStep
<1>3. Types /\ ReturnedIsIdle /\ [Next]_vars => [SentAfterReturn]_vars
  <2> SUFFICES ASSUME Types, ReturnedIsIdle, Next PROVE SentAfterReturn
    BY ZenonT(300)
  <2>1. ASSUME NEW s \in Streams, SendMessage(s) PROVE SentAfterReturn
    BY <2>1 DEF SendMessage, Set, SentAfterReturn, ReturnedIsIdle, Ended, Types, WorkerType
  <2>2. ASSUME UNCHANGED sent PROVE SentAfterReturn
    BY ZenonT(300), <2>2 DEF SentAfterReturn
  <2>3. CASE Publish
    BY ZenonT(300), <2>2, <2>3 DEF Publish, Store, Collect, Published, PublishTo
  <2>4. ASSUME NEW s \in Streams,
               \/ Open(s) \/ Subscribe(s) \/ ReadWatermark(s) \/ Replay(s) \/ StartForward(s)
               \/ QueryFails(s) \/ Leave(s) \/ Unsubscribe(s) \/ CloseQueue(s) \/ Return(s)
               \/ StreamEnds(s)
        PROVE  SentAfterReturn
    BY ZenonT(300), <2>2, <2>4 DEF Open, Subscribe, ReadWatermark, Replay, StartForward, QueryFails, Leave,
                      Unsubscribe, CloseQueue, Return, StreamEnds
  <2>5. ASSUME NEW s \in Streams, Take(s) \/ EndSender(s) \/ Receive(s) \/ Forward(s) \/ EndForward(s)
        PROVE  SentAfterReturn
    BY ZenonT(300), <2>2, <2>5 DEF Take, EndSender, Receive, Forward, EndForward
  <2> QED
    BY ZenonT(300), <2>1, <2>3, <2>4, <2>5 DEF Next, Progress
<1>4. Types /\ [Next]_vars => Types'
  BY ZenonT(300), TypesStep
<1> QED
  BY <1>1, <1>2, <1>3, <1>4, InitTypes, PTL DEF Spec, NothingSentAfterReturn, SentAfterReturn

-----------------------------------------------------------------------------
(* SentInOrder is not inductive.  What was sent, the message in sendLoop's    *)
(* hand and the send queue form one increasing line that begins with the      *)
(* handshake (Line).  Until forwarding starts the line ends at the last       *)
(* replayed batch; from then on it is below the batch in forwardLiveBatches'  *)
(* hand, below what the channel holds beyond the watermark, and below a batch *)
(* that publishLive still has to deliver.                                     *)

Increasing(q) == \A i, j \in 1..Len(q) : i < j => q[i] < q[j]
Under(q, v) == \A i \in 1..Len(q) : q[i] < v

\* st was sent, h is in hand (or negative), q is queued.
Bound(st, h, q, v) == Under(st, v) /\ h < v /\ Under(q, v)
Sorted(st, h, q) ==
  /\ Increasing(st) /\ Increasing(q)
  /\ \A j \in 1..Len(q) : Under(st, q[j]) /\ h < q[j]
  /\ h >= 0 => Under(st, h)
HandshakeFirst(st, h, q) ==
  /\ st # <<>> => st[1] = 0
  /\ st = <<>> /\ h >= 0 => h = 0
  /\ st = <<>> /\ h = Receiving => q # <<>> /\ q[1] = 0
Line(st, h, q) == Sorted(st, h, q) /\ HandshakeFirst(st, h, q)

LEMMA UnderAppend ==
  ASSUME NEW q \in Seq(Nat), NEW e \in Nat, NEW v \in Int, Under(q, v), e < v
  PROVE  Under(Append(q, e), v)
BY DEF Under

LEMMA UnderTail ==
  ASSUME NEW q \in Seq(Nat), q # <<>>, NEW v \in Int, Under(q, v)
  PROVE  Under(Tail(q), v) /\ Head(q) < v
BY DEF Under

LEMMA UnderMono ==
  ASSUME NEW q \in Seq(Nat), NEW v \in Int, NEW w \in Int, Under(q, v), v <= w
  PROVE  Under(q, w)
<1> SUFFICES ASSUME NEW i \in 1..Len(q) PROVE q[i] < w
  BY ZenonT(300) DEF Under
<1>1. q[i] \in Nat /\ q[i] < v
  BY DEF Under
<1> QED
  BY <1>1

LEMMA IncreasingAppend ==
  ASSUME NEW q \in Seq(Nat), NEW e \in Nat, Increasing(q), Under(q, e)
  PROVE  Increasing(Append(q, e))
BY SMTT(300) DEF Increasing, Under

LEMMA IncreasingTail ==
  ASSUME NEW q \in Seq(Nat), q # <<>>, Increasing(q)
  PROVE  Increasing(Tail(q)) /\ \A i \in 1..Len(Tail(q)) : Head(q) < Tail(q)[i]
BY SMTT(300) DEF Increasing

LEMMA AppendIndex ==
  ASSUME NEW q \in Seq(Nat), NEW e \in Nat, NEW i \in 1..Len(Append(q, e))
  PROVE  (i \in 1..Len(q) /\ Append(q, e)[i] = q[i]) \/ Append(q, e)[i] = e
OBVIOUS

LEMMA TailIndex ==
  ASSUME NEW q \in Seq(Nat), q # <<>>, NEW i \in 1..Len(Tail(q))
  PROVE  i + 1 \in 1..Len(q) /\ Tail(q)[i] = q[i + 1]
OBVIOUS

LEMMA AppendFirst ==
  ASSUME NEW q \in Seq(Nat), NEW e \in Nat
  PROVE  Append(q, e) # <<>> /\ Append(q, e)[1] = IF q = <<>> THEN e ELSE q[1]
<1>1. Len(Append(q, e)) = Len(q) + 1 /\ Len(q) \in Nat /\ Len(<<>>) = 0
  OBVIOUS
<1>2. CASE q = <<>>
  BY <1>1, <1>2
<1>3. CASE q # <<>>
  <2>1. 1 \in 1..Len(q)
    BY <1>3
  <2> QED
    BY <1>1, <1>3, <2>1
<1> QED
  BY ZenonT(300), <1>2, <1>3

LEMMA BoundMono ==
  ASSUME NEW st \in Seq(Nat), NEW h \in Int, NEW q \in Seq(Nat), NEW v \in Int, NEW w \in Int,
         Bound(st, h, q, v), v <= w
  PROVE  Bound(st, h, q, w)
BY UnderMono DEF Bound

\* The replay or forwardLiveBatches puts e behind the line.
LEMMA LineAppend ==
  ASSUME NEW st \in Seq(Nat), NEW h \in Int, NEW q \in Seq(Nat), NEW e \in Nat,
         Line(st, h, q), Bound(st, h, q, e)
  PROVE  /\ Line(st, h, Append(q, e))
         /\ \A v \in Int : e < v => Bound(st, h, Append(q, e), v)
<1>1. Sorted(st, h, Append(q, e))
  <2>1. Increasing(Append(q, e))
    BY ZenonT(300), IncreasingAppend DEF Line, Sorted, Bound
  <2>2. \A j \in 1..Len(Append(q, e)) : Under(st, Append(q, e)[j]) /\ h < Append(q, e)[j]
    BY ZenonT(300), AppendIndex DEF Line, Sorted, Bound
  <2> QED
    BY ZenonT(300), <2>1, <2>2 DEF Line, Sorted
<1>2. HandshakeFirst(st, h, Append(q, e))
  <2>1. Append(q, e) # <<>> /\ (q # <<>> => Append(q, e)[1] = q[1])
    BY ZenonT(300), AppendFirst
  <2> QED
    BY ZenonT(300), <2>1 DEF Line, HandshakeFirst
<1>3. ASSUME NEW v \in Int, e < v PROVE Bound(st, h, Append(q, e), v)
  <2>1. Bound(st, h, q, v)
    BY <1>3, BoundMono
  <2> QED
    BY ZenonT(300), <1>3, <2>1, UnderAppend DEF Bound
<1> QED
  BY ZenonT(300), <1>1, <1>2, <1>3 DEF Line

\* sendLoop takes the first message.
LEMMA LineTake ==
  ASSUME NEW st \in Seq(Nat), NEW q \in Seq(Nat), q # <<>>, Line(st, Receiving, q)
  PROVE  /\ Line(st, Head(q), Tail(q))
         /\ \A v \in Int : Bound(st, Receiving, q, v) => Bound(st, Head(q), Tail(q), v)
<1>1. Head(q) = q[1] /\ 1 \in 1..Len(q) /\ Head(q) \in Nat
  OBVIOUS
<1>2. Sorted(st, Head(q), Tail(q))
  <2>1. Increasing(Tail(q)) /\ \A i \in 1..Len(Tail(q)) : Head(q) < Tail(q)[i]
    BY ZenonT(300), IncreasingTail DEF Line, Sorted
  <2>2. \A j \in 1..Len(Tail(q)) : Under(st, Tail(q)[j])
    BY ZenonT(300), TailIndex DEF Line, Sorted
  <2>3. Under(st, Head(q))
    BY ZenonT(300), <1>1 DEF Line, Sorted
  <2> QED
    BY ZenonT(300), <2>1, <2>2, <2>3 DEF Line, Sorted
<1>3. HandshakeFirst(st, Head(q), Tail(q))
  BY <1>1 DEF Line, HandshakeFirst, Receiving
<1>4. ASSUME NEW v \in Int, Bound(st, Receiving, q, v) PROVE Bound(st, Head(q), Tail(q), v)
  BY ZenonT(300), <1>4, UnderTail DEF Bound
<1> QED
  BY ZenonT(300), <1>2, <1>3, <1>4 DEF Line

\* sendLoop hands its message to the stream.
LEMMA LineSend ==
  ASSUME NEW st \in Seq(Nat), NEW h \in Nat, NEW q \in Seq(Nat), Line(st, h, q)
  PROVE  /\ Line(Append(st, h), Receiving, q)
         /\ \A v \in Int : Bound(st, h, q, v) => Bound(Append(st, h), Receiving, q, v)
<1>1. Sorted(Append(st, h), Receiving, q)
  <2>1. Increasing(Append(st, h))
    BY IncreasingAppend DEF Line, Sorted
  <2>2. ASSUME NEW j \in 1..Len(q) PROVE Under(Append(st, h), q[j]) /\ Receiving < q[j]
    <3>1. q[j] \in Nat /\ Under(st, q[j]) /\ h < q[j]
      BY DEF Line, Sorted
    <3> QED
      BY <3>1, UnderAppend DEF Receiving
  <2> QED
    BY <2>1, <2>2 DEF Line, Sorted, Receiving
<1>2. HandshakeFirst(Append(st, h), Receiving, q)
  <2>1. Append(st, h) # <<>> /\ Append(st, h)[1] = IF st = <<>> THEN h ELSE st[1]
    BY ZenonT(300), AppendFirst
  <2> QED
    BY <2>1 DEF Line, HandshakeFirst, Receiving
<1>3. ASSUME NEW v \in Int, Bound(st, h, q, v) PROVE Bound(Append(st, h), Receiving, q, v)
  BY <1>3, UnderAppend DEF Bound, Receiving
<1> QED
  BY ZenonT(300), <1>1, <1>2, <1>3 DEF Line

\* sendLoop ends, with or without a message in hand.
LEMMA LineEnd ==
  ASSUME NEW st \in Seq(Nat), NEW h \in Int, NEW q \in Seq(Nat), Line(st, h, q)
  PROVE  /\ Line(st, Ended, q)
         /\ \A v \in Nat : Bound(st, h, q, v) => Bound(st, Ended, q, v)
<1>1. Sorted(st, Ended, q)
  <2>1. \A j \in 1..Len(q) : q[j] \in Nat
    OBVIOUS
  <2> QED
    BY SMTT(300), <2>1 DEF Line, Sorted, Ended
<1>2. HandshakeFirst(st, Ended, q)
  BY DEF Line, HandshakeFirst, Ended, Receiving
<1> QED
  BY <1>1, <1>2 DEF Line, Bound, Ended

-----------------------------------------------------------------------------
(* The invariant of stream s.                                               *)
Below(s, v) == Bound(sent[s], sender[s], queue[s], v)
LineOf(s) == Line(sent[s], sender[s], queue[s])

\* What has not begun yet.
NotBegun(s) ==
  /\ pc[s] = "none" => sent[s] = <<>> /\ queue[s] = <<>> /\ sender[s] = NotStarted
  /\ pc[s] \in {"none", "subscribe", "watermark", "replay"} => fwd[s] = NotStarted
  /\ pc[s] \in {"none", "subscribe", "watermark"} => pos[s] = 0

\* publishLive has stored a batch that s may still get.
ToCome(s) == pub = "publish" \/ (pub = "send" /\ s \in targets)

Replayed(s) ==
  /\ pos[s] <= wm[s] /\ wm[s] <= stored
  /\ fwd[s] = NotStarted => Below(s, pos[s] + 1)
StoredIsLast(s) == Below(s, stored + 1) /\ fwd[s] <= stored /\ Under(chan[s], stored + 1)
ChanAbove(s) ==
  /\ Increasing(chan[s])
  /\ \A i \in 1..Len(chan[s]) : chan[s][i] > wm[s] => Below(s, chan[s][i]) /\ fwd[s] < chan[s][i]
FwdAbove(s) == fwd[s] > 0 => fwd[s] > wm[s] /\ Below(s, fwd[s])
ToComeAbove(s) ==
  ToCome(s) => Under(chan[s], stored) /\ fwd[s] < stored /\ (stored > wm[s] => Below(s, stored))

OrderInv(s) ==
  /\ LineOf(s) /\ NotBegun(s)
  /\ Replayed(s) /\ StoredIsLast(s) /\ ChanAbove(s) /\ FwdAbove(s) /\ ToComeAbove(s)

LEMMA Values ==
  ASSUME Types, NEW s \in Streams
  PROVE  /\ chan[s] \in Seq(Nat) /\ queue[s] \in Seq(Nat) /\ sent[s] \in Seq(Nat)
         /\ sender[s] \in Int /\ fwd[s] \in Int /\ (sender[s] >= 0 => sender[s] \in Nat)
         /\ wm[s] \in Nat /\ pos[s] \in Nat /\ stored \in Nat
         /\ \A i \in 1..Len(chan[s]) : chan[s][i] \in Nat
<1> USE StreamAssumption DEF Types
<1>1. Batches \subseteq Nat
  BY DEF Batches
<1>2. chan[s] \in Seq(Batches) /\ queue[s] \in Seq(Batches) /\ sent[s] \in Seq(Batches)
  BY ZenonT(300) DEF ChannelType, WorkerType
<1>3. ASSUME NEW q \in Seq(Batches) PROVE q \in Seq(Nat)
  <2>1. Len(q) \in Nat /\ q = [i \in 1..Len(q) |-> q[i]] /\ \A i \in 1..Len(q) : q[i] \in Nat
    BY <1>1
  <2>2. [i \in 1..Len(q) |-> q[i]] \in Seq(Nat)
    BY <2>1
  <2> QED
    BY ZenonT(300), <2>1, <2>2
<1>4. sender[s] \in Goroutine /\ fwd[s] \in Goroutine
  BY ZenonT(300) DEF WorkerType
<1>5. sender[s] \in Int /\ fwd[s] \in Int
  BY <1>4 DEF Goroutine, NotStarted, Receiving, Ended
<1>6. wm[s] \in Nat /\ pos[s] \in Nat /\ stored \in Nat
  BY ZenonT(300), <1>1 DEF HandlerType, PublisherType
<1> QED
  BY SMTT(300), <1>2, <1>3, <1>5, <1>6

\* Steps that at most shorten what lies ahead of s: the line moves towards the client,
\* forwardLiveBatches starts, drops its batch or ends, another stream or the publisher goes on.
LEMMA CalmStep ==
  ASSUME Types, Types', NEW s \in Streams, OrderInv(s), LineOf(s)', NotBegun(s)',
         \A v \in Nat : Below(s, v) => Below(s, v)',
         stored' = stored, ToCome(s)' => ToCome(s),
         wm'[s] = wm[s], pos'[s] = pos[s], chan'[s] = chan[s],
         fwd'[s] \in {fwd[s], Receiving, Ended}
  PROVE  OrderInv(s)'
<1> USE DEF OrderInv
<1>0. /\ stored \in Nat /\ wm[s] \in Nat /\ pos[s] \in Nat /\ fwd[s] \in Int
      /\ \A i \in 1..Len(chan[s]) : chan[s][i] \in Nat
  BY ZenonT(300), Values
<1>1. fwd'[s] \in Int /\ (fwd'[s] = fwd[s] \/ (fwd'[s] < 0 /\ fwd'[s] # NotStarted))
  BY SMTT(300), <1>0 DEF Receiving, Ended, NotStarted
<1>2. Replayed(s)'
  <2>1. pos[s] + 1 \in Nat
    BY SMTT(300), <1>0
  <2>2. ASSUME fwd'[s] = NotStarted PROVE Bound(sent'[s], sender'[s], queue'[s], pos[s] + 1)
    BY ZenonT(300), <1>1, <2>1, <2>2 DEF Replayed, Below
  <2> QED
    BY ZenonT(300), <2>2 DEF Replayed, Below
<1>3. StoredIsLast(s)'
  <2>1. stored + 1 \in Nat
    BY SMTT(300), <1>0
  <2>2. Bound(sent'[s], sender'[s], queue'[s], stored + 1)
    BY ZenonT(300), <2>1 DEF StoredIsLast, Below
  <2>3. fwd'[s] <= stored
    BY SMTT(300), <1>0, <1>1 DEF StoredIsLast
  <2> QED
    BY ZenonT(300), <2>2, <2>3 DEF StoredIsLast, Below
<1>4. ChanAbove(s)'
  <2>1. ASSUME NEW i \in 1..Len(chan[s]), chan[s][i] > wm[s]
        PROVE  Bound(sent'[s], sender'[s], queue'[s], chan[s][i]) /\ fwd'[s] < chan[s][i]
    BY SMTT(300), <1>0, <1>1, <2>1 DEF ChanAbove, Below
  <2> QED
    BY ZenonT(300), <2>1 DEF ChanAbove, Below
<1>5. FwdAbove(s)'
  <2>1. ASSUME fwd'[s] > 0 PROVE fwd[s] > wm[s] /\ Bound(sent'[s], sender'[s], queue'[s], fwd[s])
    BY SMTT(300), <1>0, <1>1, <2>1 DEF FwdAbove, Below
  <2> QED
    BY SMTT(300), <1>0, <1>1, <2>1 DEF FwdAbove, Below
<1>6. ToComeAbove(s)'
  <2> SUFFICES ASSUME ToCome(s)
               PROVE  /\ Under(chan[s], stored) /\ fwd'[s] < stored
                      /\ stored > wm[s] => Bound(sent'[s], sender'[s], queue'[s], stored)
    BY ZenonT(300) DEF ToComeAbove, Below
  <2>1. fwd'[s] < stored
    BY SMTT(300), <1>0, <1>1 DEF ToComeAbove
  <2> QED
    BY ZenonT(300), <1>0, <2>1 DEF ToComeAbove, Below
<1> QED
  BY ZenonT(300), <1>2, <1>3, <1>4, <1>5, <1>6

\* Enqueue stores the next batch: it is beyond everything the stream holds.
LEMMA StoreStep ==
  ASSUME Types, NEW s \in Streams, OrderInv(s), Store
  PROVE  OrderInv(s)'
<1> USE DEF OrderInv
<1>0. /\ stored \in Nat /\ stored' = stored + 1 /\ wm[s] \in Nat /\ fwd[s] \in Int
      /\ chan[s] \in Seq(Nat) /\ queue[s] \in Seq(Nat) /\ sent[s] \in Seq(Nat) /\ sender[s] \in Int
  BY ZenonT(300), Values DEF Store
<1>1. UNCHANGED <<pc, wm, pos, chan, queue, sender, fwd, sent>>
  BY ZenonT(300) DEF Store, handler, channels
<1>2. Below(s, stored + 2) /\ Under(chan[s], stored + 2)
  <2>1. stored + 1 \in Int /\ stored + 2 \in Int /\ stored + 1 <= stored + 2
    BY SMTT(300), <1>0
  <2> QED
    BY ZenonT(300), <1>0, <2>1, BoundMono, UnderMono DEF StoredIsLast, Below
<1>3. LineOf(s)' /\ NotBegun(s)' /\ ChanAbove(s)' /\ FwdAbove(s)'
  BY ZenonT(300), <1>1 DEF LineOf, NotBegun, ChanAbove, FwdAbove, Below
<1>4. Replayed(s)'
  BY SMTT(300), <1>0, <1>1 DEF Replayed, Below
<1>5. StoredIsLast(s)'
  <2>1. Bound(sent'[s], sender'[s], queue'[s], stored + 2) /\ Under(chan'[s], stored + 2)
    BY ZenonT(300), <1>1, <1>2 DEF Below
  <2>2. stored' + 1 = stored + 2 /\ fwd'[s] <= stored'
    BY SMTT(300), <1>0, <1>1 DEF StoredIsLast
  <2> QED
    BY ZenonT(300), <2>1, <2>2 DEF StoredIsLast, Below
<1>6. ToComeAbove(s)'
  BY SMTT(300), <1>0, <1>1 DEF ToComeAbove, StoredIsLast, Below
<1> QED
  BY ZenonT(300), <1>3, <1>4, <1>5, <1>6

\* publishLive delivers the stored batch to the channel of s.
LEMMA PublishStep ==
  ASSUME Types, NEW s \in Streams, OrderInv(s), PublishTo(s), chan' # chan
  PROVE  OrderInv(s)'
<1> USE DEF OrderInv
<1>0. /\ stored \in Nat /\ wm[s] \in Nat /\ fwd[s] \in Int /\ chan[s] \in Seq(Nat)
  BY ZenonT(300), Values
<1>1. UNCHANGED <<pc, wm, pos, queue, sender, fwd, sent, stored>> /\ ~ToCome(s)' /\ ToCome(s)
  BY ZenonT(300) DEF PublishTo, handler, ToCome
<1>2. chan'[s] = Append(chan[s], stored)
  BY ZenonT(300) DEF PublishTo, Set, Types, ChannelType
<1>3. LineOf(s)' /\ NotBegun(s)' /\ Replayed(s)' /\ FwdAbove(s)'
  BY ZenonT(300), <1>1 DEF LineOf, NotBegun, Replayed, FwdAbove, Below
<1>4. StoredIsLast(s)'
  <2>1. Under(Append(chan[s], stored), stored + 1)
    BY SMTT(300), <1>0, UnderAppend DEF StoredIsLast
  <2> QED
    BY ZenonT(300), <1>1, <1>2, <2>1 DEF StoredIsLast, Below
<1>5. ChanAbove(s)'
  <2>1. Increasing(Append(chan[s], stored))
    BY ZenonT(300), <1>0, <1>1, IncreasingAppend DEF ChanAbove, ToComeAbove
  <2>2. ASSUME NEW i \in 1..Len(Append(chan[s], stored)), Append(chan[s], stored)[i] > wm[s]
        PROVE  Below(s, Append(chan[s], stored)[i]) /\ fwd[s] < Append(chan[s], stored)[i]
    BY ZenonT(300), <1>0, <1>1, <2>2, AppendIndex DEF ChanAbove, ToComeAbove
  <2> QED
    BY ZenonT(300), <1>1, <1>2, <2>1, <2>2 DEF ChanAbove, Below
<1>6. ToComeAbove(s)'
  BY ZenonT(300), <1>1 DEF ToComeAbove
<1> QED
  BY ZenonT(300), <1>3, <1>4, <1>5, <1>6

\* The handshake is queued on a fresh stream.
LEMMA OpenStep ==
  ASSUME Types, Types', NEW s \in Streams, OrderInv(s), Open(s)
  PROVE  OrderInv(s)'
<1> USE DEF OrderInv
<1>0. /\ stored \in Nat /\ wm[s] \in Nat /\ pos[s] \in Nat /\ fwd[s] = NotStarted /\ pos[s] = 0
      /\ \A i \in 1..Len(chan[s]) : chan[s][i] \in Nat
  BY ZenonT(300), Values DEF Open, NotBegun
<1>1. /\ UNCHANGED <<wm, pos, chan, fwd, stored, pub, targets>>
      /\ pc'[s] = "subscribe" /\ sent'[s] = <<>> /\ sender'[s] = Receiving /\ queue'[s] = <<0>>
  BY SMTT(300) DEF Open, Set, publisher, Types, HandlerType, WorkerType, ChannelType, NotBegun
<1>2. Line(<<>>, Receiving, <<0>>)
  BY DEF Line, Sorted, HandshakeFirst, Increasing, Under, Receiving
<1>3. \A v \in Nat : v > 0 => Bound(<<>>, Receiving, <<0>>, v)
  BY DEF Bound, Under, Receiving
<1>4. LineOf(s)' /\ NotBegun(s)' /\ FwdAbove(s)'
  BY SMTT(300), <1>0, <1>1, <1>2 DEF LineOf, NotBegun, FwdAbove, NotStarted
<1>5. Replayed(s)' /\ StoredIsLast(s)'
  <2>1. Bound(<<>>, Receiving, <<0>>, pos[s] + 1) /\ Bound(<<>>, Receiving, <<0>>, stored + 1)
    BY SMTT(300), <1>0, <1>3
  <2> QED
    BY ZenonT(300), <1>1, <2>1 DEF Replayed, StoredIsLast, Below
<1>6. ChanAbove(s)'
  <2>1. ASSUME NEW i \in 1..Len(chan[s]), chan[s][i] > wm[s]
        PROVE  Bound(<<>>, Receiving, <<0>>, chan[s][i])
    BY SMTT(300), <1>0, <1>3, <2>1
  <2> QED
    BY ZenonT(300), <1>1, <2>1 DEF ChanAbove, Below
<1>7. ToComeAbove(s)'
  <2>1. stored > wm[s] => Bound(<<>>, Receiving, <<0>>, stored)
    BY SMTT(300), <1>0, <1>3
  <2> QED
    BY ZenonT(300), <1>1, <2>1 DEF ToComeAbove, ToCome, Below
<1> QED
  BY ZenonT(300), <1>4, <1>5, <1>6, <1>7

\* The watermark is the last stored batch: nothing in the channel is beyond it.
LEMMA WatermarkStep ==
  ASSUME Types, NEW s \in Streams, OrderInv(s), ReadWatermark(s)
  PROVE  OrderInv(s)'
<1> USE DEF OrderInv
<1>0. /\ stored \in Nat /\ pos[s] = 0 /\ fwd[s] = NotStarted
      /\ \A i \in 1..Len(chan[s]) : chan[s][i] \in Nat
  BY ZenonT(300), Values DEF ReadWatermark, NotBegun
<1>1. /\ UNCHANGED <<pos, chan, fwd, stored, pub, targets, sent, sender, queue>>
      /\ pc'[s] = "replay" /\ wm'[s] = stored
  BY ZenonT(300) DEF ReadWatermark, Set, publisher, channels, Types, HandlerType
<1>2. LineOf(s)' /\ NotBegun(s)' /\ FwdAbove(s)' /\ Replayed(s)' /\ StoredIsLast(s)'
  BY SMTT(300), <1>0, <1>1 DEF LineOf, NotBegun, FwdAbove, Replayed, StoredIsLast, Below, NotStarted
<1>3. ChanAbove(s)'
  <2>1. \A i \in 1..Len(chan[s]) : ~(chan[s][i] > stored)
    BY SMTT(300), <1>0 DEF StoredIsLast, Under
  <2> QED
    BY ZenonT(300), <1>1, <2>1 DEF ChanAbove
<1>4. ToComeAbove(s)'
  BY SMTT(300), <1>0, <1>1 DEF ToComeAbove, ToCome
<1> QED
  BY ZenonT(300), <1>2, <1>3, <1>4

\* The replay queues the batch behind the last one it queued.
LEMMA ReplayStep ==
  ASSUME Types, NEW s \in Streams, OrderInv(s), Replay(s)
  PROVE  OrderInv(s)'
<1> USE DEF OrderInv
<1>0. /\ stored \in Nat /\ pos[s] \in Nat /\ wm[s] \in Nat /\ fwd[s] = NotStarted
      /\ queue[s] \in Seq(Nat) /\ sent[s] \in Seq(Nat) /\ sender[s] \in Int
      /\ \A i \in 1..Len(chan[s]) : chan[s][i] \in Nat
  BY ZenonT(300), Values DEF Replay, NotBegun
<1>1. /\ UNCHANGED <<pc, wm, chan, fwd, stored, pub, targets, sent, sender>> /\ pc[s] = "replay"
      /\ queue'[s] = Append(queue[s], pos[s] + 1) /\ pos'[s] = pos[s] + 1 /\ pos[s] < wm[s]
  BY ZenonT(300) DEF Replay, Set, publisher, Types, HandlerType, ChannelType
<1>2. pos[s] + 1 \in Nat /\ Bound(sent[s], sender[s], queue[s], pos[s] + 1)
  BY SMTT(300), <1>0 DEF Replayed, Below
<1>3. /\ Line(sent[s], sender[s], Append(queue[s], pos[s] + 1))
      /\ \A v \in Int : pos[s] + 1 < v => Bound(sent[s], sender[s], Append(queue[s], pos[s] + 1), v)
  BY ZenonT(300), <1>0, <1>2, LineAppend DEF LineOf
<1>4. LineOf(s)' /\ NotBegun(s)' /\ FwdAbove(s)'
  BY SMTT(300), <1>0, <1>1, <1>3 DEF LineOf, NotBegun, FwdAbove, NotStarted
<1>5. Replayed(s)' /\ StoredIsLast(s)'
  <2>0. /\ pos[s] + 2 \in Int /\ stored + 1 \in Int
        /\ pos[s] + 1 < pos[s] + 2 /\ pos[s] + 1 < stored + 1
    <3>1. /\ pos[s] \in Nat /\ wm[s] \in Nat /\ stored \in Nat
          /\ pos[s] < wm[s] /\ wm[s] <= stored
      BY ZenonT(300), <1>0, <1>1 DEF Replayed
    <3> QED
      BY SMTT(300), <3>1
  <2>1. /\ Bound(sent'[s], sender'[s], queue'[s], pos[s] + 2)
        /\ Bound(sent'[s], sender'[s], queue'[s], stored + 1)
    BY ZenonT(300), <1>1, <1>3, <2>0
  <2>2. pos'[s] + 1 = pos[s] + 2 /\ pos'[s] <= wm[s]
    BY SMTT(300), <1>0, <1>1
  <2> QED
    BY ZenonT(300), <1>1, <2>1, <2>2 DEF Replayed, StoredIsLast, Below
<1>6. ChanAbove(s)'
  <2>1. ASSUME NEW i \in 1..Len(chan[s]), chan[s][i] > wm[s]
        PROVE  Bound(sent'[s], sender'[s], queue'[s], chan[s][i])
    <3>1. chan[s][i] \in Int /\ pos[s] + 1 < chan[s][i]
      <4>1. /\ chan[s][i] \in Nat /\ pos[s] \in Nat /\ wm[s] \in Nat
            /\ pos[s] < wm[s] /\ chan[s][i] > wm[s]
        BY ZenonT(300), <1>0, <1>1, <2>1
      <4> QED
        BY SMTT(300), <4>1
    <3> QED
      BY ZenonT(300), <1>1, <1>3, <3>1
  <2> QED
    BY ZenonT(300), <1>1, <2>1 DEF ChanAbove, Below
<1>7. ToComeAbove(s)'
  <2>1. stored > wm[s] => Bound(sent'[s], sender'[s], queue'[s], stored)
    <3>1. stored \in Int /\ (stored > wm[s] => pos[s] + 1 < stored)
      BY SMTT(300), <1>0, <1>1
    <3> QED
      BY ZenonT(300), <1>1, <1>3, <3>1
  <2> QED
    BY ZenonT(300), <1>1, <2>1 DEF ToComeAbove, ToCome, Below
<1> QED
  BY ZenonT(300), <1>4, <1>5, <1>6, <1>7

\* forwardLiveBatches takes the first batch of the channel, or drops it.
LEMMA ReceiveStep ==
  ASSUME Types, NEW s \in Streams, OrderInv(s), Receive(s)
  PROVE  OrderInv(s)'
<1> USE DEF OrderInv
<1> DEFINE b == Head(chan[s])
<1> DEFINE f == IF b > wm[s] THEN b ELSE fwd[s]
<1>0. /\ stored \in Nat /\ wm[s] \in Nat /\ fwd[s] = Receiving /\ chan[s] # <<>>
      /\ chan[s] \in Seq(Nat) /\ b \in Nat /\ b = chan[s][1] /\ 1 \in 1..Len(chan[s])
      /\ \A i \in 1..Len(chan[s]) : chan[s][i] \in Nat
  BY SMTT(300), Values DEF Receive
<1>1. /\ UNCHANGED <<pc, wm, pos, stored, pub, targets, sent, sender, queue>>
      /\ chan'[s] = Tail(chan[s]) /\ fwd'[s] = f
  BY ZenonT(300) DEF Receive, Forwarded, Set, publisher, handler, Types, WorkerType, ChannelType
<1>2. f # NotStarted /\ f \in Int /\ f <= b /\ (f = b \/ f < 0)
  BY SMTT(300), <1>0 DEF NotStarted, Receiving
<1>3. LineOf(s)' /\ Replayed(s)' /\ NotBegun(s)'
  BY SMTT(300), <1>0, <1>1, <1>2 DEF LineOf, Replayed, NotBegun, Receiving, NotStarted
<1>4. StoredIsLast(s)'
  <2>1. b <= stored /\ Under(Tail(chan[s]), stored + 1)
    BY SMTT(300), <1>0, UnderTail DEF StoredIsLast
  <2>2. f <= stored
    BY SMTT(300), <1>0, <1>2, <2>1
  <2> QED
    BY ZenonT(300), <1>1, <2>1, <2>2 DEF StoredIsLast, Below
<1>5. ChanAbove(s)'
  <2>1. Increasing(Tail(chan[s])) /\ \A i \in 1..Len(Tail(chan[s])) : b < Tail(chan[s])[i]
    BY ZenonT(300), <1>0, IncreasingTail DEF ChanAbove
  <2>2. ASSUME NEW i \in 1..Len(Tail(chan[s])), Tail(chan[s])[i] > wm[s]
        PROVE  Below(s, Tail(chan[s])[i]) /\ f < Tail(chan[s])[i]
    <3>1. i + 1 \in 1..Len(chan[s]) /\ Tail(chan[s])[i] = chan[s][i + 1]
      BY ZenonT(300), <1>0, TailIndex
    <3>2. Below(s, Tail(chan[s])[i]) /\ Tail(chan[s])[i] \in Nat
      BY ZenonT(300), <1>0, <2>2, <3>1 DEF ChanAbove
    <3> QED
      BY SMTT(300), <1>0, <1>2, <2>1, <3>2
  <2> QED
    BY ZenonT(300), <1>1, <2>1, <2>2 DEF ChanAbove, Below
<1>6. FwdAbove(s)'
  <2>1. f > 0 => f > wm[s] /\ Below(s, f)
    BY SMTT(300), <1>0, <1>2 DEF ChanAbove, Receiving
  <2> QED
    BY ZenonT(300), <1>1, <2>1 DEF FwdAbove, Below
<1>7. ToComeAbove(s)'
  <2>1. ToCome(s) => Under(Tail(chan[s]), stored) /\ b < stored
    BY SMTT(300), <1>0, UnderTail DEF ToComeAbove
  <2>2. ToCome(s) => f < stored
    BY SMTT(300), <1>0, <1>2, <2>1
  <2> QED
    BY ZenonT(300), <1>1, <2>1, <2>2 DEF ToComeAbove, ToCome, Below
<1> QED
  BY ZenonT(300), <1>3, <1>4, <1>5, <1>6, <1>7

\* forwardLiveBatches queues the batch it holds.
LEMMA ForwardStep ==
  ASSUME Types, NEW s \in Streams, OrderInv(s), Forward(s), ~closed[s]
  PROVE  OrderInv(s)'
<1> USE DEF OrderInv
<1>0. /\ stored \in Nat /\ wm[s] \in Nat /\ fwd[s] \in Nat /\ fwd[s] > 0
      /\ queue[s] \in Seq(Nat) /\ sent[s] \in Seq(Nat) /\ sender[s] \in Int
      /\ \A i \in 1..Len(chan[s]) : chan[s][i] \in Nat
  BY SMTT(300), Values DEF Forward
<1>1. /\ UNCHANGED <<pc, wm, pos, chan, stored, pub, targets, sent, sender>>
      /\ queue'[s] = Append(queue[s], fwd[s]) /\ fwd'[s] = Receiving
  BY ZenonT(300) DEF Forward, Set, publisher, handler, Types, WorkerType, ChannelType
<1>2. /\ Line(sent[s], sender[s], Append(queue[s], fwd[s]))
      /\ \A v \in Int : fwd[s] < v => Bound(sent[s], sender[s], Append(queue[s], fwd[s]), v)
  BY ZenonT(300), <1>0, LineAppend DEF LineOf, FwdAbove, Below
<1>3. LineOf(s)' /\ Replayed(s)' /\ NotBegun(s)' /\ FwdAbove(s)'
  BY SMTT(300), <1>0, <1>1, <1>2 DEF LineOf, Replayed, NotBegun, FwdAbove, Receiving, NotStarted
<1>4. StoredIsLast(s)'
  <2>1. Bound(sent'[s], sender'[s], queue'[s], stored + 1)
    <3>1. stored + 1 \in Int /\ fwd[s] < stored + 1
      BY SMTT(300), <1>0 DEF StoredIsLast
    <3> QED
      BY ZenonT(300), <1>1, <1>2, <3>1
  <2>2. fwd'[s] <= stored
    <3>1. fwd'[s] = Receiving /\ stored \in Nat
      BY ZenonT(300), <1>0, <1>1
    <3> QED
      BY SMTT(300), <3>1 DEF Receiving
  <2> QED
    BY ZenonT(300), <1>1, <2>1, <2>2 DEF StoredIsLast, Below
<1>5. ChanAbove(s)'
  <2>1. ASSUME NEW i \in 1..Len(chan[s]), chan[s][i] > wm[s]
        PROVE  Bound(sent'[s], sender'[s], queue'[s], chan[s][i]) /\ fwd'[s] < chan[s][i]
    <3>1. chan[s][i] \in Nat /\ fwd[s] < chan[s][i]
      BY ZenonT(300), <1>0, <2>1 DEF ChanAbove
    <3>2. chan[s][i] \in Int /\ Receiving < chan[s][i]
      BY SMTT(300), <3>1 DEF Receiving
    <3> QED
      BY ZenonT(300), <1>1, <1>2, <3>1, <3>2
  <2> QED
    BY ZenonT(300), <1>1, <2>1 DEF ChanAbove, Below
<1>6. ToComeAbove(s)'
  <2>1. ToCome(s) => Bound(sent'[s], sender'[s], queue'[s], stored) /\ fwd'[s] < stored
    BY SMTT(300), <1>0, <1>1, <1>2 DEF ToComeAbove, Receiving
  <2> QED
    BY ZenonT(300), <1>1, <2>1 DEF ToComeAbove, ToCome, Below
<1> QED
  BY ZenonT(300), <1>3, <1>4, <1>5, <1>6

\* A step of sendLoop moves the line of its stream towards the client, or ends it.
LEMMA SenderStep ==
  ASSUME Types, Types', NEW s \in Streams, OrderInv(s), Take(s) \/ SendMessage(s) \/ EndSender(s)
  PROVE  OrderInv(s)'
<1>0. queue[s] \in Seq(Nat) /\ sent[s] \in Seq(Nat) /\ sender[s] \in Int
      /\ (sender[s] >= 0 => sender[s] \in Nat) /\ pc[s] # "none"
  <2>1. sender[s] # NotStarted
    BY SMTT(300) DEF Take, SendMessage, EndSender, NotStarted, Receiving
  <2> QED
    BY ZenonT(300), <2>1, Values DEF OrderInv, NotBegun
<1>1. UNCHANGED <<pc, wm, pos, chan, fwd, stored, pub, targets>>
  BY ZenonT(300) DEF Take, SendMessage, EndSender, publisher, handler, channels
<1>2. LineOf(s)' /\ \A v \in Nat : Below(s, v) => Below(s, v)'
  <2>0. \A v \in Nat : v \in Int
    BY SMTT(300)
  <2>1. CASE Take(s)
    <3>1. /\ sender[s] = Receiving /\ queue[s] # <<>> /\ sent' = sent
          /\ sender'[s] = Head(queue[s]) /\ queue'[s] = Tail(queue[s])
      BY ZenonT(300), <2>1 DEF Take, Set, Types, WorkerType, ChannelType
    <3> QED
      BY ZenonT(300), <1>0, <2>0, <3>1, LineTake DEF OrderInv, LineOf, Below
  <2>2. CASE SendMessage(s)
    <3>1. /\ sender[s] \in Nat /\ queue' = queue
          /\ sender'[s] = Receiving /\ sent'[s] = Append(sent[s], sender[s])
      BY ZenonT(300), <1>0, <2>2 DEF SendMessage, Set, channels, Types, WorkerType
    <3> QED
      BY ZenonT(300), <1>0, <2>0, <3>1, LineSend DEF OrderInv, LineOf, Below
  <2>3. CASE EndSender(s)
    <3>1. queue' = queue /\ sent' = sent /\ sender'[s] = Ended
      BY ZenonT(300), <2>3 DEF EndSender, Set, Types, WorkerType
    <3> QED
      BY ZenonT(300), <1>0, <3>1, LineEnd DEF OrderInv, LineOf, Below
  <2> QED
    BY ZenonT(300), <2>1, <2>2, <2>3
<1>3. NotBegun(s)'
  BY ZenonT(300), <1>0, <1>1 DEF OrderInv, NotBegun
<1>4. (ToCome(s)' => ToCome(s)) /\ fwd'[s] \in {fwd[s], Receiving, Ended}
  BY ZenonT(300), <1>1 DEF ToCome
<1> QED
  BY ZenonT(300), <1>1, <1>2, <1>3, <1>4, CalmStep

\* Steps that leave line and channel of s as they are.
LEMMA QuietStep ==
  ASSUME Types, Types', NEW s \in Streams, OrderInv(s), NotBegun(s)',
         sent'[s] = sent[s], sender'[s] = sender[s], queue'[s] = queue[s],
         stored' = stored, ToCome(s)' => ToCome(s),
         wm'[s] = wm[s], pos'[s] = pos[s], chan'[s] = chan[s],
         fwd'[s] \in {fwd[s], Receiving, Ended}
  PROVE  OrderInv(s)'
<1>1. LineOf(s)' /\ \A v \in Nat : Below(s, v) => Below(s, v)'
  BY ZenonT(300) DEF OrderInv, LineOf, Below
<1> QED
  BY ZenonT(300), <1>1, CalmStep

\* The handler's own steps that touch neither line nor channel, and the end of the stream.
LEMMA HandlerStep ==
  ASSUME Types, Types', NEW s \in Streams, OrderInv(s),
         \/ Subscribe(s) \/ StartForward(s) \/ QueryFails(s) \/ Leave(s)
         \/ Unsubscribe(s) \/ CloseQueue(s) \/ Return(s) \/ StreamEnds(s) \/ EndForward(s)
  PROVE  OrderInv(s)'
<1> USE DEF Set
<1>1. UNCHANGED <<sent, sender, queue, chan, wm, pos, stored, pub, targets>>
  BY ZenonT(300) DEF Subscribe, StartForward, QueryFails, Leave, Unsubscribe, CloseQueue, Return, StreamEnds,
         EndForward, publisher, channels, handler
<1>2. pc[s] # "none" /\ pc'[s] # "none"
  <2>1. CASE EndForward(s)
    <3>1. (fwd[s] > 0 \/ fwd[s] = Receiving) /\ pc' = pc
      BY ZenonT(300), <2>1 DEF EndForward, handler
    <3>2. fwd[s] # NotStarted
      BY SMTT(300), <3>1 DEF NotStarted, Receiving
    <3> QED
      BY ZenonT(300), <3>1, <3>2 DEF OrderInv, NotBegun
  <2> QED
    BY ZenonT(300), <2>1 DEF Subscribe, StartForward, QueryFails, Leave, Unsubscribe, CloseQueue, Return,
                StreamEnds, Types, HandlerType
<1>3. /\ fwd'[s] \in {fwd[s], Receiving, Ended}
      /\ pc'[s] \in {"subscribe", "watermark", "replay"} =>
           pc[s] \in {"subscribe", "watermark", "replay"} /\ fwd' = fwd
      /\ pc'[s] \in {"subscribe", "watermark"} => pc[s] \in {"subscribe", "watermark"}
  <2>1. CASE EndForward(s)
    <3>1. pc' = pc /\ fwd'[s] = Ended /\ (fwd[s] > 0 \/ fwd[s] = Receiving)
      BY ZenonT(300), <2>1 DEF EndForward, handler, Types, WorkerType
    <3>2. fwd[s] # NotStarted
      BY SMTT(300), <3>1 DEF NotStarted, Receiving
    <3> QED
      BY ZenonT(300), <1>2, <3>1, <3>2 DEF OrderInv, NotBegun
  <2>2. CASE StreamEnds(s)
    BY ZenonT(300), <2>2 DEF StreamEnds
  <2>3. CASE StartForward(s)
    BY ZenonT(300), <2>3 DEF StartForward, Types, HandlerType, WorkerType
  <2> QED
    BY ZenonT(300), <2>1, <2>2, <2>3
       DEF Subscribe, QueryFails, Leave, Unsubscribe, CloseQueue, Return, Types, HandlerType
<1>4. NotBegun(s)' /\ (ToCome(s)' => ToCome(s))
  BY ZenonT(300), <1>1, <1>2, <1>3 DEF OrderInv, NotBegun, ToCome
<1> QED
  BY ZenonT(300), <1>1, <1>3, <1>4, QuietStep

\* A step of stream t leaves the other streams and the publisher alone.
LEMMA OthersKeep ==
  ASSUME Types, NEW s \in Streams, NEW t \in Streams, s # t,
         Progress(t) \/ Open(t) \/ QueryFails(t) \/ StreamEnds(t)
  PROVE  /\ UNCHANGED <<stored, pub, targets>>
         /\ pc'[s] = pc[s] /\ wm'[s] = wm[s] /\ pos'[s] = pos[s] /\ fwd'[s] = fwd[s]
         /\ chan'[s] = chan[s] /\ queue'[s] = queue[s] /\ sender'[s] = sender[s] /\ sent'[s] = sent[s]
<1> USE DEF Types, HandlerType, ChannelType, WorkerType, Set, publisher, handler, channels
<1>1. CASE Subscribe(t) \/ ReadWatermark(t) \/ Replay(t) \/ StartForward(t)
  BY ZenonT(300), <1>1 DEF Subscribe, ReadWatermark, Replay, StartForward
<1>2. CASE Leave(t) \/ Unsubscribe(t) \/ CloseQueue(t) \/ Return(t)
  BY ZenonT(300), <1>2 DEF Leave, Unsubscribe, CloseQueue, Return
<1>3. CASE Take(t) \/ SendMessage(t) \/ EndSender(t)
  BY ZenonT(300), <1>3 DEF Take, SendMessage, EndSender
<1>4. CASE Receive(t) \/ Forward(t) \/ EndForward(t)
  BY ZenonT(300), <1>4 DEF Receive, Forward, EndForward
<1>5. CASE Open(t) \/ QueryFails(t) \/ StreamEnds(t)
  BY ZenonT(300), <1>5 DEF Open, QueryFails, StreamEnds
<1> QED
  BY ZenonT(300), <1>1, <1>2, <1>3, <1>4, <1>5 DEF Progress

LEMMA OrderStep ==
  ASSUME Types, Types', NEW s \in Streams, OrderInv(s), [Next]_vars
  PROVE  OrderInv(s)'
<1>1. CASE UNCHANGED <<stored, pub, targets, pc, wm, pos, fwd, chan, queue, sender, sent>>
  <2>1. NotBegun(s)' /\ (ToCome(s)' => ToCome(s))
    BY ZenonT(300), <1>1 DEF OrderInv, NotBegun, ToCome
  <2> QED
    BY ZenonT(300), <1>1, <2>1, QuietStep
<1>2. CASE Store
  BY ZenonT(300), <1>2, StoreStep
<1>3. CASE Collect \/ Published
  <2>1. UNCHANGED <<stored, pc, wm, pos, fwd, chan, queue, sender, sent>>
    BY ZenonT(300), <1>3 DEF Collect, Published, handler, channels
  <2>2. NotBegun(s)' /\ (ToCome(s)' => ToCome(s))
    BY ZenonT(300), <1>3, <2>1 DEF OrderInv, NotBegun, ToCome, Collect, Published
  <2> QED
    BY ZenonT(300), <2>1, <2>2, QuietStep
<1>4. ASSUME NEW t \in Streams, PublishTo(t) PROVE OrderInv(s)'
  <2>1. CASE t = s /\ chan' # chan
    BY ZenonT(300), <1>4, <2>1, PublishStep
  <2>2. CASE t # s \/ chan' = chan
    <3>1. /\ UNCHANGED <<stored, pc, wm, pos, fwd, queue, sender, sent>> /\ chan'[s] = chan[s]
      BY ZenonT(300), <1>4, <2>2 DEF PublishTo, handler, Set, Types, ChannelType
    <3>2. NotBegun(s)' /\ (ToCome(s)' => ToCome(s))
      BY ZenonT(300), <1>4, <3>1 DEF OrderInv, NotBegun, ToCome, PublishTo
    <3> QED
      BY ZenonT(300), <3>1, <3>2, QuietStep
  <2> QED
    BY ZenonT(300), <2>1, <2>2
<1>5. CASE Progress(s)
  <2>1. CASE Forward(s) /\ closed[s]
    <3>1. /\ UNCHANGED <<stored, pub, targets, pc, wm, pos, chan, queue, sender, sent>>
          /\ fwd'[s] = Receiving /\ fwd[s] # NotStarted
      BY SMTT(300), <2>1 DEF Forward, publisher, handler, Set, Types, WorkerType, NotStarted
    <3>2. NotBegun(s)' /\ (ToCome(s)' => ToCome(s))
      BY ZenonT(300), <3>1 DEF OrderInv, NotBegun, ToCome
    <3> QED
      BY ZenonT(300), <3>1, <3>2, QuietStep
  <2> QED
    BY ZenonT(300), <1>5, <2>1, WatermarkStep, ReplayStep, ReceiveStep, ForwardStep, SenderStep, HandlerStep
       DEF Progress
<1>6. CASE Open(s) \/ QueryFails(s) \/ StreamEnds(s)
  BY ZenonT(300), <1>6, OpenStep, HandlerStep
<1>7. ASSUME NEW t \in Streams, t # s, Progress(t) \/ Open(t) \/ QueryFails(t) \/ StreamEnds(t)
      PROVE  OrderInv(s)'
  <2>1. /\ UNCHANGED <<stored, pub, targets>>
        /\ pc'[s] = pc[s] /\ wm'[s] = wm[s] /\ pos'[s] = pos[s] /\ fwd'[s] = fwd[s]
        /\ chan'[s] = chan[s] /\ queue'[s] = queue[s] /\ sender'[s] = sender[s] /\ sent'[s] = sent[s]
    BY ZenonT(300), <1>7, OthersKeep
  <2>2. NotBegun(s)' /\ (ToCome(s)' => ToCome(s))
    BY ZenonT(300), <2>1 DEF OrderInv, NotBegun, ToCome
  <2> QED
    BY ZenonT(300), <2>1, <2>2, QuietStep
<1>8. CASE UNCHANGED vars
  BY ZenonT(300), <1>1, <1>8 DEF vars, publisher, handler, channels
<1> QED
  BY ZenonT(300), <1>2, <1>3, <1>4, <1>5, <1>6, <1>7, <1>8 DEF Next, Publish

LEMMA InitOrder == ASSUME Init, NEW s \in Streams PROVE OrderInv(s)
<1> USE DEF Init, OrderInv
<1>1. LineOf(s) /\ \A v \in Nat : Below(s, v)
  BY SMTT(300) DEF LineOf, Line, Sorted, HandshakeFirst, Increasing, Under, Below, Bound, NotStarted, Receiving
<1>2. NotBegun(s) /\ FwdAbove(s) /\ ToComeAbove(s) /\ ChanAbove(s)
  BY SMTT(300) DEF NotBegun, FwdAbove, ToComeAbove, ToCome, ChanAbove, Increasing, NotStarted
<1>3. Replayed(s) /\ StoredIsLast(s)
  BY SMTT(300), <1>1 DEF Replayed, StoredIsLast, Under, NotStarted
<1> QED
  BY ZenonT(300), <1>1, <1>2, <1>3

\* On every stream the client sees the handshake first and then every batch at most once and
\* in order, whatever the buffer sizes, the faults and the number of streams (Consume).
THEOREM InOrder == Spec => []SentInOrder
<1> DEFINE Inv == Types /\ \A s \in Streams : OrderInv(s)
<1>1. Init => Inv
  BY ZenonT(300), InitTypes, InitOrder
<1>2. Inv /\ [Next]_vars => Inv'
  BY ZenonT(300), TypesStep, OrderStep
<1>3. Inv => SentInOrder
  <2> SUFFICES ASSUME Inv, NEW s \in Streams
               PROVE  /\ sent[s] # <<>> => sent[s][1] = 0
                      /\ \A i, j \in DOMAIN sent[s] : i < j => sent[s][i] < sent[s][j]
    BY ZenonT(300) DEF SentInOrder
  <2>1. DOMAIN sent[s] = 1..Len(sent[s])
    BY SMTT(300), Values
  <2> QED
    BY ZenonT(300), <2>1 DEF OrderInv, LineOf, Line, Sorted, HandshakeFirst, Increasing
<1> QED
  BY <1>1, <1>2, <1>3, PTL DEF Spec
=============================================================================
