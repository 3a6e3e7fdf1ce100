------------------------------- MODULE Delivery -------------------------------
(***************************************************************************)
(* The path of one table's change batches from the producer of a region to *)
(* one consuming peer region: HandleBatch stages them in outbound_batches   *)
(* and pushes them to the in-memory subscribers of the producer's process; *)
(* the Consume handler of a session subscribes, reads a watermark, replays  *)
(* the pending rows up to it and then forwards what its channel receives;   *)
(* the client applies each batch against the peer cursor and acks it, which *)
(* deletes the row.                                                         *)
(*                                                                         *)
(* A batch is its version (the position of its changes in the source       *)
(* order).  The id and the created_at of a row are drawn by the same INSERT *)
(* of the one producer, so they order the rows alike and the model keeps a  *)
(* single stamp.  Stamps are only compared: a reading of NOW() is the next  *)
(* number above every stamp in use (no two readings are equal, as at        *)
(* microsecond resolution).                                                *)
(***************************************************************************)
EXTENDS Integers, Sequences, FiniteSets, Functions

CONSTANTS
  Sessions,    \* consume sessions that may exist, one incarnation at a time
  Pods,        \* processes of the serving region
  PodOf,       \* [Sessions -> Pods]: the pod that serves a session
  MaxVersion,  \* bound: changes at the source
  ChanCap,     \* LiveReplicationBufferSize, the batch in hand included
  QueueCap,    \* sendQueue and the stream's own buffers
  PageSize,    \* replayPendingPageSize
  AgeLimit,    \* outbox.max_batch_age > 0
  MaxPending,  \* outbox.max_pending_per_peer, 0: off
  MaxStamp,    \* bound: readings of the database clock
  MaxFaults    \* bound: failures, crashes and overlapping sessions

ASSUME DeliveryAssumption ==
  /\ PodOf \in [Sessions -> Pods]
  /\ MaxVersion \in Nat /\ MaxStamp \in Nat /\ MaxFaults \in Nat
  /\ ChanCap \in Nat \ {0} /\ QueueCap \in Nat \ {0} /\ PageSize \in Nat \ {0}
  /\ AgeLimit \in BOOLEAN /\ MaxPending \in Nat

VARIABLES
  outbox,        \* the committed rows
  pos, slot,     \* last version handled; the position the slot would resume after
  home,          \* the pod that holds the producer lease
  ppc, prow,     \* where HandleBatch is, and the row it is inserting
  phase,         \* where each Consume handler is
  lw, after,     \* its liveWatermark and the afterID of its replay
  chan, page,    \* its subscription channel; the page being replayed
  queue,         \* versions sent and not yet received by the client
  acking,        \* the version whose Ack call the client waits for, or 0
  acks,          \* Ack requests on their way to the server
  cursor,        \* peer_cursors.last_version of the consuming region
  missed,        \* history: versions a session did not get, and why
  cleaned,       \* history: versions removed by the outbox cleanup
  faults

producerVars == <<pos, slot, home, ppc, prow>>
serverVars == <<phase, lw, after, chan, page>>
clientVars == <<acking, acks, cursor>>
vars == <<outbox, producerVars, serverVars, queue, clientVars, missed, cleaned, faults>>

Versions == 1..MaxVersion
Row == [ver : Versions, at : 1..MaxStamp]
NoBatch == [ver |-> 0, at |-> 0]

\* "closed": the handler returned, the client may still read what was sent.
Phases == {"off", "subscribed", "replaying", "live", "closed"}
Causes == {"full", "late", "unpublished", "remote"}

ProducerType ==
  /\ outbox \subseteq Row
  /\ pos \in 0..MaxVersion /\ slot \in 0..MaxVersion
  /\ home \in Pods
  /\ ppc \in {"idle", "inserting", "publishing"}
  /\ IF ppc = "idle" THEN prow = NoBatch ELSE prow \in Row

ServerType ==
  /\ phase \in [Sessions -> Phases]
  /\ lw \in [Sessions -> 0..MaxStamp] /\ after \in [Sessions -> 0..MaxStamp]
  /\ chan \in [Sessions -> Seq(Row)]
  /\ page \in [Sessions -> SUBSET Row]

ClientType ==
  /\ queue \in [Sessions -> Seq(Versions)]
  /\ acking \in [Sessions -> 0..MaxVersion]
  /\ acks \subseteq Sessions \X Versions
  /\ cursor \in 0..MaxVersion

HistoryType ==
  /\ missed \in [Sessions -> SUBSET (Versions \X Causes)]
  /\ cleaned \subseteq Versions
  /\ faults \in 0..MaxFaults

TypeOK == ProducerType /\ ServerType /\ ClientType /\ HistoryType

Pending(v) == \E r \in outbox : r.ver = v
\* Rows held anywhere, and NOW() as read by a statement that starts now.
Rows == outbox \cup {prow} \cup UNION {page[s] \cup Range(chan[s]) : s \in Sessions}
Stamps == {r.at : r \in Rows} \cup {lw[s] : s \in Sessions}
IsNow(t) == (\A u \in Stamps : u < t) /\ (t = 1 \/ t - 1 \in Stamps)

Subscribed(s) == phase[s] \in {"subscribed", "replaying", "live"}

Max2(a, b) == IF a > b THEN a ELSE b

CanFail == faults < MaxFaults
Fail == CanFail /\ faults' = faults + 1

Init ==
  /\ outbox = {}
  /\ pos = 0 /\ slot = 0 /\ home \in Pods
  /\ ppc = "idle" /\ prow = NoBatch
  /\ phase = [s \in Sessions |-> "off"]
  /\ lw = [s \in Sessions |-> 0] /\ after = [s \in Sessions |-> 0]
  /\ chan = [s \in Sessions |-> <<>>] /\ page = [s \in Sessions |-> {}]
  /\ queue = [s \in Sessions |-> <<>>]
  /\ acking = [s \in Sessions |-> 0] /\ acks = {}
  /\ cursor = 0 /\ cleaned = {}
  /\ missed = [s \in Sessions |-> {}]
  /\ faults = 0

-----------------------------------------------------------------------------
(* The producer.                                                            *)

\* History: the sessions in S will not be sent version v, and (the first) why.
HasMissed(s, v) == \E m \in missed[s] : m[1] = v
Misses(S, v, why) ==
  missed' = [s \in Sessions |->
    IF s \in S /\ ~HasMissed(s, v) THEN missed[s] \cup {<<v, why>>} ELSE missed[s]]

SubscribedSessions == {s \in Sessions : Subscribed(s)}

\* HandleBatch of the next change: the INSERT starts, id and NOW() are drawn.
StageBegin ==
  /\ ppc = "idle" /\ pos < MaxVersion
  /\ \E t \in 1..MaxStamp : IsNow(t) /\ prow' = [ver |-> pos + 1, at |-> t]
  /\ ppc' = "inserting"
  /\ UNCHANGED <<outbox, pos, slot, home, serverVars, queue, clientVars, missed, cleaned, faults>>

\* A session that replayed up to a later watermark will not list the new row.
ReplayedPast == {s \in Sessions : phase[s] = "live" /\ prow.at <= lw[s]}

\* The INSERT commits ...
StageCommit ==
  /\ ppc = "inserting" /\ ~Pending(prow.ver)
  /\ outbox' = outbox \cup {prow}
  /\ ppc' = "publishing"
  /\ Misses(ReplayedPast, prow.ver, "late")
  /\ UNCHANGED <<pos, slot, home, prow, serverVars, queue, clientVars, cleaned, faults>>

\* ... or meets its last_event_id (ON CONFLICT DO NOTHING): nothing to publish.
StageConflict ==
  /\ ppc = "inserting" /\ Pending(prow.ver)
  /\ pos' = prow.ver
  /\ ppc' = "idle" /\ prow' = NoBatch
  /\ UNCHANGED <<outbox, slot, home, serverVars, queue, clientVars, missed, cleaned, faults>>

\* publishLive: a non-blocking send to every subscriber of this process.
Reaches(s) == Subscribed(s) /\ PodOf[s] = home /\ Len(chan[s]) < ChanCap

PublishLive ==
  /\ ppc = "publishing"
  /\ chan' = [s \in Sessions |-> IF Reaches(s) THEN Append(chan[s], prow) ELSE chan[s]]
  /\ missed' = [s \in Sessions |->
       IF Subscribed(s) /\ ~Reaches(s) /\ ~HasMissed(s, prow.ver)
         THEN missed[s] \cup {<<prow.ver, IF PodOf[s] = home THEN "full" ELSE "remote">>}
         ELSE missed[s]]
  /\ pos' = prow.ver
  /\ ppc' = "idle" /\ prow' = NoBatch
  /\ UNCHANGED <<outbox, slot, home, phase, lw, after, page, queue, clientVars, cleaned, faults>>

\* Deliberately wrong variant of ConfirmPosition: one commit too far.
ConfirmNextPosition ==
  /\ ppc = "idle"
  /\ slot' = pos + 1
  /\ UNCHANGED <<outbox, pos, home, ppc, prow, serverVars, queue, clientVars, missed, cleaned, faults>>

\* Standby status update: the slot resumes after the last handled commit.
ConfirmPosition ==
  /\ ppc = "idle"
  /\ slot' = pos
  /\ UNCHANGED <<outbox, pos, home, ppc, prow, serverVars, queue, clientVars, missed, cleaned, faults>>

\* The session of the producer ends (an error of the INSERT, whether or not it
\* committed; the lease or the WAL connection lost) and a pod that gets the
\* lease resumes from the slot.
ProducerRestart(p) ==
  /\ ppc \in {"idle", "inserting"}
  /\ Fail
  /\ home' = p /\ pos' = slot
  /\ ppc' = "idle" /\ prow' = NoBatch
  /\ \/ UNCHANGED <<outbox, missed>>
     \/ /\ ppc = "inserting" /\ ~Pending(prow.ver)
        /\ outbox' = outbox \cup {prow}
        /\ Misses(SubscribedSessions, prow.ver, "unpublished")
  /\ UNCHANGED <<slot, serverVars, queue, clientVars, cleaned>>

-----------------------------------------------------------------------------
(* The Consume handler of session s.                                        *)

\* A second session of the peer opens only when the consume lease was lost.
Connect(s) ==
  /\ phase[s] = "off"
  /\ IF \A t \in Sessions : phase[t] = "off" THEN UNCHANGED faults ELSE Fail
  /\ phase' = [phase EXCEPT ![s] = "subscribed"]
  /\ UNCHANGED <<outbox, producerVars, lw, after, chan, page, queue, clientVars, missed, cleaned>>

LiveWatermark(s) ==
  /\ phase[s] = "subscribed"
  /\ \E t \in 1..MaxStamp : IsNow(t) /\ lw' = [lw EXCEPT ![s] = t]
  /\ phase' = [phase EXCEPT ![s] = "replaying"]
  /\ UNCHANGED <<outbox, producerVars, after, chan, page, queue, clientVars, missed, cleaned, faults>>

\* OutboxListPendingWindow: the first rows by id above afterID, up to the watermark.
Window(s) == {r \in outbox : r.at > after[s] /\ r.at <= lw[s]}
FirstPage(s) == {r \in Window(s) : Cardinality({q \in Window(s) : q.at < r.at}) < PageSize}

ListPage(s) ==
  /\ phase[s] = "replaying" /\ page[s] = {}
  /\ page' = [page EXCEPT ![s] = FirstPage(s)]
  /\ IF Window(s) = {}
       THEN /\ phase' = [phase EXCEPT ![s] = "live"]
            /\ after' = [after EXCEPT ![s] = 0]
       ELSE UNCHANGED <<phase, after>>
  /\ UNCHANGED <<outbox, producerVars, lw, chan, queue, clientVars, missed, cleaned, faults>>

Room(s) == Len(queue[s]) < QueueCap

\* Deliberately wrong variant of ReplayNext: the page is sent newest first.
ReplayNewestNext(s) ==
  /\ phase[s] = "replaying" /\ Room(s)
  /\ \E r \in page[s] :
       /\ \A q \in page[s] : r.at >= q.at
       /\ queue' = [queue EXCEPT ![s] = Append(@, r.ver)]
       /\ after' = [after EXCEPT ![s] = Max2(@, r.at)]
       /\ page' = [page EXCEPT ![s] = @ \ {r}]
       /\ missed' = [missed EXCEPT ![s] = {m \in @ : m[1] # r.ver}]
  /\ UNCHANGED <<outbox, producerVars, phase, lw, chan, clientVars, cleaned, faults>>

ReplayNext(s) ==
  /\ phase[s] = "replaying" /\ Room(s)
  /\ \E r \in page[s] :
       /\ \A q \in page[s] : r.at <= q.at
       /\ queue' = [queue EXCEPT ![s] = Append(@, r.ver)]
       /\ after' = [after EXCEPT ![s] = r.at]
       /\ page' = [page EXCEPT ![s] = @ \ {r}]
       /\ missed' = [missed EXCEPT ![s] = {m \in @ : m[1] # r.ver}]
  /\ UNCHANGED <<outbox, producerVars, phase, lw, chan, clientVars, cleaned, faults>>

\* forwardLiveBatches: batches the replay window covered are skipped.
ForwardLive(s) ==
  /\ phase[s] = "live" /\ chan[s] # <<>>
  /\ chan' = [chan EXCEPT ![s] = Tail(@)]
  /\ IF Head(chan[s]).at <= lw[s]
       THEN UNCHANGED queue
       ELSE Room(s) /\ queue' = [queue EXCEPT ![s] = Append(@, Head(chan[s]).ver)]
  /\ UNCHANGED <<outbox, producerVars, phase, lw, after, page, clientVars, missed, cleaned, faults>>

\* The handler of every session in S returns: unsubscribed, nothing more sent.
CloseHandlers(S) ==
  /\ phase' = [s \in Sessions |-> IF s \in S THEN "closed" ELSE phase[s]]
  /\ lw' = [s \in Sessions |-> IF s \in S THEN 0 ELSE lw[s]]
  /\ after' = [s \in Sessions |-> IF s \in S THEN 0 ELSE after[s]]
  /\ chan' = [s \in Sessions |-> IF s \in S THEN <<>> ELSE chan[s]]
  /\ page' = [s \in Sessions |-> IF s \in S THEN {} ELSE page[s]]

ServerEnd(s) ==
  /\ Subscribed(s)
  /\ Fail
  /\ CloseHandlers({s})
  /\ UNCHANGED <<outbox, producerVars, queue, clientVars, missed, cleaned>>

\* The producer's process dies, with the handlers it runs; the lease passes to p.
HomeCrash(p) ==
  /\ Fail
  /\ CloseHandlers({s \in Sessions : Subscribed(s) /\ PodOf[s] = home})
  /\ home' = p /\ pos' = slot
  /\ ppc' = "idle" /\ prow' = NoBatch
  /\ \/ ppc # "publishing" /\ UNCHANGED <<outbox, missed>>
     \/ /\ ppc = "inserting" /\ ~Pending(prow.ver)
        /\ outbox' = outbox \cup {prow}
        /\ Misses(SubscribedSessions, prow.ver, "unpublished")
     \/ /\ ppc = "publishing" /\ UNCHANGED outbox
        /\ Misses(SubscribedSessions, prow.ver, "unpublished")
  /\ UNCHANGED <<slot, queue, clientVars, cleaned>>

-----------------------------------------------------------------------------
(* The client of session s, and the Ack call.                               *)

\* Deliberately wrong variant of ApplyNext: the Ack is sent before the commit.
AckBeforeApply(s) ==
  /\ acking[s] = 0 /\ queue[s] # <<>>
  /\ acking' = [acking EXCEPT ![s] = Head(queue[s])]
  /\ acks' = acks \cup {<<s, Head(queue[s])>>}
  /\ queue' = [queue EXCEPT ![s] = Tail(@)]
  /\ UNCHANGED <<outbox, producerVars, serverVars, cursor, missed, cleaned, faults>>

\* CommitStateAppliedTransaction: apply unless stale, save the cursor; then Ack.
ApplyNext(s) ==
  /\ acking[s] = 0 /\ queue[s] # <<>>
  /\ LET v == Head(queue[s]) IN
       /\ cursor' = Max2(cursor, v)
       /\ acking' = [acking EXCEPT ![s] = v]
       /\ acks' = acks \cup {<<s, v>>}
  /\ queue' = [queue EXCEPT ![s] = Tail(@)]
  /\ UNCHANGED <<outbox, producerVars, serverVars, missed, cleaned, faults>>

\* Deliberately wrong variant of ServeAck: the DELETE looks for another table.
ServeAckWrongTable(s, v) ==
  /\ <<s, v>> \in acks
  /\ acks' = acks \ {<<s, v>>}
  /\ UNCHANGED <<outbox, producerVars, serverVars, queue, acking, cursor, missed, cleaned, faults>>

\* Deliberately wrong variant of ServeAck: the DELETE ignores which batch was acked.
ServeAckAllBatches(s, v) ==
  /\ <<s, v>> \in acks
  /\ outbox' = {}
  /\ acks' = acks \ {<<s, v>>}
  /\ UNCHANGED <<producerVars, serverVars, queue, acking, cursor, missed, cleaned, faults>>

\* Handler.Ack: OutboxAck deletes the row of that batch, if there is one.
ServeAck(s, v) ==
  /\ <<s, v>> \in acks
  /\ outbox' = {r \in outbox : r.ver # v}
  /\ acks' = acks \ {<<s, v>>}
  /\ UNCHANGED <<producerVars, serverVars, queue, acking, cursor, missed, cleaned, faults>>

AckReturn(s) ==
  /\ acking[s] # 0 /\ <<s, acking[s]>> \notin acks
  /\ acking' = [acking EXCEPT ![s] = 0]
  /\ UNCHANGED <<outbox, producerVars, serverVars, queue, acks, cursor, missed, cleaned, faults>>

\* The request of a session that ended may get lost, or be served late.
LoseAck(s, v) ==
  /\ <<s, v>> \in acks /\ acking[s] # v
  /\ acks' = acks \ {<<s, v>>}
  /\ UNCHANGED <<outbox, producerVars, serverVars, queue, acking, cursor, missed, cleaned, faults>>

\* recvLoop returns: the stream ended, or (a fault) any error on the way.
ClientEnd(s) ==
  /\ phase[s] # "off"
  /\ IF phase[s] = "closed" THEN UNCHANGED faults ELSE Fail
  /\ phase' = [phase EXCEPT ![s] = "off"]
  /\ lw' = [lw EXCEPT ![s] = 0] /\ after' = [after EXCEPT ![s] = 0]
  /\ chan' = [chan EXCEPT ![s] = <<>>] /\ page' = [page EXCEPT ![s] = {}]
  /\ queue' = [queue EXCEPT ![s] = <<>>]
  /\ acking' = [acking EXCEPT ![s] = 0]
  /\ missed' = [missed EXCEPT ![s] = {}]
  /\ UNCHANGED <<outbox, producerVars, acks, cursor, cleaned>>

-----------------------------------------------------------------------------
(* OutboxCleanup, run periodically: a DELETE by age, then one by count (the *)
(* newest ids are kept), each a transaction of its own.                     *)

TooOld(cutoff) == {r \in outbox : AgeLimit /\ r.at < cutoff}
TooMany == {r \in outbox : MaxPending > 0 /\ Cardinality({q \in outbox : q.at > r.at}) >= MaxPending}

Cleanup ==
  \E gone \in {TooMany} \cup {TooOld(t) : t \in 1..(MaxStamp + 1)} :
    /\ gone # {}
    /\ outbox' = outbox \ gone
    /\ cleaned' = cleaned \cup {r.ver : r \in gone}
    /\ UNCHANGED <<producerVars, serverVars, queue, clientVars, missed, faults>>

-----------------------------------------------------------------------------
Producer ==
  \/ StageBegin \/ StageCommit \/ StageConflict \/ PublishLive \/ ConfirmPosition
  \/ \E p \in Pods : ProducerRestart(p) \/ HomeCrash(p)

Server(s) ==
  LiveWatermark(s) \/ ListPage(s) \/ ReplayNext(s) \/ ForwardLive(s)

Client(s) ==
  \/ Connect(s) \/ ApplyNext(s) \/ AckReturn(s) \/ ClientEnd(s)
  \/ \E v \in Versions : LoseAck(s, v)

Next ==
  \/ Producer
  \/ \E s \in Sessions : Server(s) \/ ServerEnd(s) \/ Client(s)
  \/ \E s \in Sessions, v \in Versions : ServeAck(s, v)
  \/ Cleanup

Spec == Init /\ [][Next]_vars

\* Handlers, the receive loop and the Ack calls keep running, an interrupted
\* session is ended and a new one opened; nothing is asked of the source.
Fairness ==
  /\ WF_vars(StageCommit \/ StageConflict \/ PublishLive)
  /\ WF_vars(\E s \in Sessions : Connect(s) /\ UNCHANGED faults)
  /\ \A s \in Sessions :
       /\ WF_vars(Server(s))
       /\ WF_vars(ApplyNext(s) \/ AckReturn(s))
       /\ WF_vars(\E v \in Versions : ServeAck(s, v))
       /\ WF_vars(phase[s] = "closed" /\ ClientEnd(s))

FairSpec == Spec /\ Fairness

-----------------------------------------------------------------------------
\* A batch the producer has put behind it is still pending, is covered by the
\* peer's cursor, or was removed by the outbox cleanup: no crash, restart from
\* the slot, ON CONFLICT, late or repeated Ack loses it (HandleBatch, Ack).
PendingUntilCovered ==
  \A v \in 1..pos : Pending(v) \/ v <= cursor \/ v \in cleaned

\* Session s commits a batch; the versions its cursor update jumps over are
\* from then on stale for every session.
Applies(s) == acking[s] = 0 /\ acking'[s] = cursor'
JumpedOver == (cursor + 1)..(cursor' - 1)

\* The cursor jumps over a version only where the session that moves it missed
\* it on the live path (or the outbox cleanup removed it): subscribing before
\* reading the watermark, replaying by id until a page is empty and only then
\* forwarding leave no other hole, with overlapping sessions, reconnects and
\* re-staged batches (Consume, replayPendingBatches, forwardLiveBatches).
OnlyMissedIsJumpedOver ==
  [][\A s \in Sessions : Applies(s) =>
       \A v \in JumpedOver : v \in cleaned \/ HasMissed(s, v)]_vars

\* A batch staged by a producer in another pod than the session's handler is
\* delivered before the cursor passes it (the per-process subs of publishLive).
FailoverLosesNothing ==
  [][\A s \in Sessions : Applies(s) =>
       \A v \in JumpedOver : <<v, "remote">> \notin missed[s]]_vars

\* Sessions, pods, watermarks, channels and Acks together keep the promise of Feed: staging
\* leaves no gap, nothing that was not staged is applied, and a row leaves the outbox only
\* when it is covered or discarded (Enqueue, Consume, CommitStateAppliedTransaction, Ack).
Promise == INSTANCE Feed WITH pending <- {r.ver : r \in outbox}, discarded <- cleaned
ImplementsFeed == Promise!Spec

\* Once the faults are over, what stays in the outbox is what the live session
\* missed: everything else is replayed or forwarded, applied, acked and deleted.
EventuallyDrained ==
  <>[](\A r \in outbox : \E s \in Sessions :
         phase[s] = "live" /\ HasMissed(s, r.ver))
=============================================================================
