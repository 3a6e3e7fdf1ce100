-------------------------------- MODULE Stream --------------------------------
(***************************************************************************)
(* The goroutines of Consume and of the publisher in one process.           *)
(*                                                                         *)
(* A handler (one per stream) starts sendLoop, subscribes, reads the live    *)
(* watermark, replays the stored batches into the send queue, starts         *)
(* forwardLiveBatches and waits; its deferred function cancels the context, *)
(* unsubscribes (which closes the channel), closes the send queue and waits *)
(* for the goroutines.  The publisher collects the subscribed channels       *)
(* under the lock and sends to them after it has released it.                *)
(*                                                                         *)
(* A batch is its number, 0 is the handshake.  A send on a closed channel    *)
(* panics, which ends the process.  Snapshots are in Snapshot, Acks, pages   *)
(* and the outbox rows in Delivery.                                          *)
(***************************************************************************)
EXTENDS Integers, Sequences, FiniteSets

CONSTANTS
  Streams,             \* Consume calls of one peer region
  ChanCap, QueueCap,   \* LiveReplicationBufferSize, of the subscription and of sendQueue
  MaxBatch, MaxFaults  \* bounds: batches; failing calls

ASSUME StreamAssumption ==
  /\ ChanCap \in Nat \ {0} /\ QueueCap \in Nat \ {0}
  /\ MaxBatch \in Nat /\ MaxFaults \in Nat

VARIABLES
  stored,             \* batches 1..stored are in the outbox
  pub, targets,       \* the publisher: what it does, and the channels it still has to serve
  pc, ctx,            \* handler: where it is; is its context done
  sub, chan,          \* its subscription and the batches buffered in it
  queue, closed,      \* sendQueue, and is it closed
  wm, pos,            \* live watermark; last batch replayed
  sender, fwd,        \* sendLoop: message in hand (or a state); forwardLiveBatches likewise
  errs,               \* results in errCh
  sent,               \* messages given to stream.Send
  panicked, faults

publisher == <<stored, pub, targets>>
handler == <<pc, ctx, wm, pos>>
channels == <<sub, chan, queue, closed, errs>>
vars == <<publisher, handler, channels, sender, fwd, sent, panicked, faults>>

\* States of a goroutine that holds no message.
NotStarted == -3
Receiving == -2
Ended == -1

\* errCh's capacity in a wrong program.
ErrCapOfOne == 1
ErrCap == 2

Fail == faults < MaxFaults /\ faults' = faults + 1
Set(f, s, v) == [f EXCEPT ![s] = v]
Cancelled(s) == Set(ctx, s, TRUE)

Init ==
  /\ stored = 0 /\ pub = "idle" /\ targets = {}
  /\ pc = [s \in Streams |-> "none"] /\ ctx = [s \in Streams |-> FALSE]
  /\ sub = [s \in Streams |-> "none"] /\ chan = [s \in Streams |-> <<>>]
  /\ queue = [s \in Streams |-> <<>>] /\ closed = [s \in Streams |-> FALSE]
  /\ wm = [s \in Streams |-> 0] /\ pos = [s \in Streams |-> 0]
  /\ sender = [s \in Streams |-> NotStarted] /\ fwd = [s \in Streams |-> NotStarted]
  /\ errs = [s \in Streams |-> 0] /\ sent = [s \in Streams |-> <<>>]
  /\ panicked = FALSE /\ faults = 0

-----------------------------------------------------------------------------
(* The publisher: Enqueue.                                                  *)
Store ==
  /\ pub = "idle" /\ stored < MaxBatch
  /\ stored' = stored + 1 /\ pub' = "publish"
  /\ UNCHANGED <<targets, handler, channels, sender, fwd, sent, panicked, faults>>

\* publishLive, with the lock.
Collect ==
  /\ pub = "publish"
  /\ targets' = {s \in Streams : sub[s] = "open"} /\ pub' = "send"
  /\ UNCHANGED <<stored, handler, channels, sender, fwd, sent, panicked, faults>>

\* Deliberately wrong variant of PublishTo: a channel that is full takes one more.
PublishToFull(s) ==
  /\ pub = "send" /\ s \in targets
  /\ targets' = targets \ {s}
  /\ panicked' = (sub[s] = "closed")
  /\ chan' = IF sub[s] = "open" THEN Set(chan, s, Append(chan[s], stored)) ELSE chan
  /\ UNCHANGED <<stored, pub, handler, sub, queue, closed, errs, sender, fwd, sent, faults>>

\* publishLive, without it: one turn of the loop, or its end.
PublishTo(s) ==
  /\ pub = "send" /\ s \in targets
  /\ targets' = targets \ {s}
  /\ panicked' = (sub[s] = "closed")
  /\ chan' = IF sub[s] = "open" /\ Len(chan[s]) < ChanCap
               THEN Set(chan, s, Append(chan[s], stored)) ELSE chan
  /\ UNCHANGED <<stored, pub, handler, sub, queue, closed, errs, sender, fwd, sent, faults>>

Published ==
  /\ pub = "send" /\ targets = {}
  /\ pub' = "idle"
  /\ UNCHANGED <<stored, targets, handler, channels, sender, fwd, sent, panicked, faults>>

-----------------------------------------------------------------------------
(* The handler: Consume.                                                    *)

\* The request is accepted, sendLoop runs, the handshake is queued.
Open(s) ==
  /\ pc[s] = "none"
  /\ pc' = Set(pc, s, "subscribe")
  /\ sender' = Set(sender, s, Receiving) /\ queue' = Set(queue, s, <<0>>)
  /\ UNCHANGED <<publisher, ctx, wm, pos, sub, chan, closed, errs, fwd, sent, panicked, faults>>

Subscribe(s) ==
  /\ pc[s] = "subscribe"
  /\ pc' = Set(pc, s, "watermark") /\ sub' = Set(sub, s, "open")
  /\ UNCHANGED <<publisher, ctx, wm, pos, chan, queue, closed, errs, sender, fwd, sent, panicked, faults>>

ReadWatermark(s) ==
  /\ pc[s] = "watermark"
  /\ pc' = Set(pc, s, "replay") /\ wm' = Set(wm, s, stored)
  /\ UNCHANGED <<publisher, ctx, pos, channels, sender, fwd, sent, panicked, faults>>

\* replayPendingBatches: the select between the queue and the context.
Replay(s) ==
  /\ pc[s] = "replay" /\ pos[s] < wm[s] /\ Len(queue[s]) < QueueCap
  /\ queue' = Set(queue, s, Append(queue[s], pos[s] + 1))
  /\ pos' = Set(pos, s, pos[s] + 1)
  /\ UNCHANGED <<publisher, pc, ctx, wm, sub, chan, closed, errs, sender, fwd, sent, panicked, faults>>

\* All is replayed, or the context is done (which is no error): forwarding starts.
StartForward(s) ==
  /\ pc[s] = "replay" /\ (pos[s] = wm[s] \/ ctx[s])
  /\ pc' = Set(pc, s, "live") /\ fwd' = Set(fwd, s, Receiving)
  /\ UNCHANGED <<publisher, ctx, wm, pos, channels, sender, sent, panicked, faults>>

\* A failing query ends the handler.
QueryFails(s) ==
  /\ pc[s] \in {"watermark", "replay"} /\ Fail
  /\ pc' = Set(pc, s, "unsubscribe") /\ ctx' = Cancelled(s)
  /\ UNCHANGED <<publisher, wm, pos, channels, sender, fwd, sent, panicked>>

\* The final select; the deferred function then cancels the context.
Leave(s) ==
  /\ pc[s] = "live"
  /\ \/ ctx[s] /\ UNCHANGED errs
     \/ errs[s] > 0 /\ errs' = Set(errs, s, errs[s] - 1)
  /\ pc' = Set(pc, s, "unsubscribe") /\ ctx' = Cancelled(s)
  /\ UNCHANGED <<publisher, wm, pos, sub, chan, queue, closed, sender, fwd, sent, panicked, faults>>

Unsubscribe(s) ==
  /\ pc[s] = "unsubscribe"
  /\ pc' = Set(pc, s, "close") /\ sub' = Set(sub, s, "closed")
  /\ UNCHANGED <<publisher, ctx, wm, pos, chan, queue, closed, errs, sender, fwd, sent, panicked, faults>>

CloseQueue(s) ==
  /\ pc[s] = "close"
  /\ pc' = Set(pc, s, "wait") /\ closed' = Set(closed, s, TRUE)
  /\ UNCHANGED <<publisher, ctx, wm, pos, sub, chan, queue, errs, sender, fwd, sent, panicked, faults>>

\* Deliberately wrong variant of Return: no wg.Wait.
ReturnAtOnce(s) ==
  /\ pc[s] = "wait"
  /\ pc' = Set(pc, s, "returned")
  /\ UNCHANGED <<publisher, ctx, wm, pos, channels, sender, fwd, sent, panicked, faults>>

Return(s) ==
  /\ pc[s] = "wait" /\ sender[s] = Ended /\ fwd[s] \in {NotStarted, Ended}
  /\ pc' = Set(pc, s, "returned")
  /\ UNCHANGED <<publisher, ctx, wm, pos, channels, sender, fwd, sent, panicked, faults>>

\* The client goes away, or the server stops: the stream's context is done.
StreamEnds(s) ==
  /\ pc[s] \notin {"none", "returned"} /\ ~ctx[s]
  /\ ctx' = Cancelled(s)
  /\ UNCHANGED <<publisher, pc, wm, pos, channels, sender, fwd, sent, panicked, faults>>

-----------------------------------------------------------------------------
(* sendLoop.                                                                *)
Take(s) ==
  /\ sender[s] = Receiving /\ queue[s] # <<>>
  /\ sender' = Set(sender, s, Head(queue[s])) /\ queue' = Set(queue, s, Tail(queue[s]))
  /\ UNCHANGED <<publisher, handler, sub, chan, closed, errs, fwd, sent, panicked, faults>>

SendMessage(s) ==
  /\ sender[s] >= 0
  /\ sent' = Set(sent, s, Append(sent[s], sender[s]))
  /\ sender' = Set(sender, s, Receiving)
  /\ UNCHANGED <<publisher, handler, channels, fwd, panicked, faults>>

\* A Send fails when the stream has ended; the queue is closed and drained.
EndSender(s) ==
  /\ \/ sender[s] >= 0 /\ ctx[s]
     \/ sender[s] = Receiving /\ queue[s] = <<>> /\ closed[s]
  /\ errs[s] < ErrCap
  /\ sender' = Set(sender, s, Ended) /\ errs' = Set(errs, s, errs[s] + 1)
  /\ UNCHANGED <<publisher, handler, sub, chan, queue, closed, fwd, sent, panicked, faults>>

-----------------------------------------------------------------------------
(* forwardLiveBatches.                                                      *)

\* Deliberately wrong variant of Forwarded: what the replay covered is not left out.
ForwardedAlways(s, batch) == TRUE
Forwarded(s, batch) == batch > wm[s]

\* The next batch of the channel, which may be closed but not yet drained.
Receive(s) ==
  /\ fwd[s] = Receiving /\ chan[s] # <<>>
  /\ chan' = Set(chan, s, Tail(chan[s]))
  /\ fwd' = IF Forwarded(s, Head(chan[s])) THEN Set(fwd, s, Head(chan[s])) ELSE fwd
  /\ UNCHANGED <<publisher, handler, sub, queue, closed, errs, sender, sent, panicked, faults>>

\* The select: a send on the closed queue is as ready as the context.
Forward(s) ==
  /\ fwd[s] > 0 /\ (closed[s] \/ Len(queue[s]) < QueueCap)
  /\ panicked' = closed[s]
  /\ queue' = IF closed[s] THEN queue ELSE Set(queue, s, Append(queue[s], fwd[s]))
  /\ fwd' = Set(fwd, s, Receiving)
  /\ UNCHANGED <<publisher, handler, sub, chan, closed, errs, sender, sent, faults>>

\* The context is done, the batch cannot be encoded, or the channel is closed and drained.
EndForward(s) ==
  /\ \/ fwd[s] > 0 /\ ctx[s] /\ UNCHANGED faults
     \/ fwd[s] > 0 /\ Fail
     \/ fwd[s] = Receiving /\ chan[s] = <<>> /\ sub[s] = "closed" /\ UNCHANGED faults
  /\ errs[s] < ErrCap
  /\ fwd' = Set(fwd, s, Ended) /\ errs' = Set(errs, s, errs[s] + 1)
  /\ UNCHANGED <<publisher, handler, sub, chan, queue, closed, sender, sent, panicked>>

-----------------------------------------------------------------------------
\* What a stream's goroutines do, and what its environment does.
Progress(s) ==
  \/ Subscribe(s) \/ ReadWatermark(s) \/ Replay(s) \/ StartForward(s) \/ Leave(s) \/ Unsubscribe(s)
  \/ CloseQueue(s) \/ Return(s) \/ Take(s) \/ SendMessage(s) \/ EndSender(s)
  \/ Receive(s) \/ Forward(s) \/ EndForward(s)

Publish == Store \/ Collect \/ Published \/ \E s \in Streams : PublishTo(s)

Next ==
  /\ ~panicked
  /\ Publish \/ \E s \in Streams : Progress(s) \/ Open(s) \/ QueryFails(s) \/ StreamEnds(s)

\* Goroutines that can go on do; a Send returns, with success or with an error.
Spec ==
  /\ Init /\ [][Next]_vars
  /\ \A s \in Streams : WF_vars(~panicked /\ Progress(s))

-----------------------------------------------------------------------------
Goroutine == {NotStarted, Receiving, Ended} \cup 0..MaxBatch
Batches == 0..MaxBatch

TypeOK ==
  /\ stored \in Batches /\ pub \in {"idle", "publish", "send"} /\ targets \subseteq Streams
  /\ pc \in [Streams -> {"none", "subscribe", "watermark", "replay", "live", "unsubscribe",
                         "close", "wait", "returned"}]
  /\ ctx \in [Streams -> BOOLEAN] /\ sub \in [Streams -> {"none", "open", "closed"}]
  /\ \A s \in Streams : Len(chan[s]) <= ChanCap /\ Len(queue[s]) <= QueueCap
  /\ closed \in [Streams -> BOOLEAN] /\ wm \in [Streams -> Batches] /\ pos \in [Streams -> Batches]
  /\ sender \in [Streams -> Goroutine] /\ fwd \in [Streams -> Goroutine]
  /\ errs \in [Streams -> 0..ErrCap] /\ panicked \in BOOLEAN /\ faults \in 0..MaxFaults

\* The client sees the handshake first and every batch at most once and in order, although
\* replay and forwarding feed one queue and the channel holds what the replay covers (Consume).
SentInOrder ==
  \A s \in Streams :
    /\ sent[s] # <<>> => sent[s][1] = 0
    /\ \A i, j \in DOMAIN sent[s] : i < j => sent[s][i] < sent[s][j]

\* Nothing is sent on a stream whose handler has returned (wg.Wait; gRPC forbids it).
NothingSentAfterReturn ==
  [][\A s \in Streams : pc[s] = "returned" => sent'[s] = sent[s]]_vars

\* A handler whose stream has ended returns: none of its goroutines waits for ever for a
\* queue, a channel, errCh or each other (Consume's deferred function).
HandlerReturns ==
  \A s \in Streams : ctx[s] ~> (pc[s] = "returned" \/ panicked)

\* No goroutine sends on a closed channel, which would end the whole process.
NoSendOnClosedChannel == ~panicked
=============================================================================
