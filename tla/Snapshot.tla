------------------------------- MODULE Snapshot -------------------------------
(***************************************************************************)
(* The bootstrap of one table at a peer.  The client asks for a snapshot    *)
(* while it has neither a cursor nor a finished job, resuming behind its    *)
(* last checkpoint; the handler sends the rows in chunks, subscribes, reads *)
(* the live watermark, replays the pending batches, sends SnapshotComplete  *)
(* and goes on with live batches.  The client applies a chunk in one        *)
(* transaction and writes the checkpoint in another, and may fail or be     *)
(* overtaken by its successor in between.                                   *)
(*                                                                         *)
(* log is the history of the source table: change i gave key log[i].key the *)
(* value i, or deleted it (value 0).  A batch is one change.  What a live    *)
(* session may miss is in Delivery; here staged batches reach the stream.    *)
(***************************************************************************)
EXTENDS Integers, Sequences, FiniteSetsExt, Functions

CONSTANTS
  Keys, InitialKeys,  \* primary keys; those with a row before the producer starts
  ChunkSize,          \* snapshot.chunk_size
  QueueCap,           \* messages on their way to the client
  MaxLog, MaxFaults   \* bounds: changes; failures

ASSUME SnapshotAssumption ==
  /\ Keys \subseteq Nat \ {0} /\ IsFiniteSet(Keys) /\ InitialKeys \subseteq Keys
  /\ ChunkSize \in Nat \ {0} /\ QueueCap \in Nat \ {0}
  /\ MaxLog \in Nat /\ MaxFaults \in Nat

Absent == 0
Initially == MaxLog + 1    \* the value of a row nobody has changed yet
Unborn == MaxLog + 2       \* slotAt before there is a slot
NoGhost == [step |-> "none"]
\* How far a client is with a chunk: before it, and done with it.
Begin == [at |-> "apply", seen |-> 0]
Done == [at |-> "done", seen |-> 0]

VARIABLES
  src, log,
  slotAt,            \* changes behind this one are captured
  staged, pending,   \* changes staged so far; those whose outbox row is there
  on, phase, after,  \* the stream: its phase and the key the snapshot has come to
  requested, liveWm, sent,
  wire, step,        \* messages under way; how far the client is with the first one
  ghost,             \* a chunk in the hands of a client that lost its lease
  rows, cursor, job, \* the peer: table, peer_cursors, snapshot_jobs
  uncaptured,        \* history: keys changed without a slot after they were read
  overwritten,       \* history: keys to which a ghost wrote an old value
  faults

source == <<src, log, slotAt>>
outbox == <<staged, pending>>
stream == <<on, phase, after, requested, liveWm, sent>>
vars == <<source, outbox, stream, wire, step, ghost, rows, cursor, job, uncaptured, overwritten, faults>>

Fail == faults < MaxFaults /\ faults' = faults + 1
NoJob == [status |-> "none", last |-> 0, finished |-> FALSE]

Init ==
  /\ src = [k \in Keys |-> IF k \in InitialKeys THEN Initially ELSE Absent] /\ log = <<>>
  /\ slotAt \in {0, Unborn} /\ staged = 0 /\ pending = {}
  /\ on = FALSE /\ phase = "none" /\ after = 0 /\ requested = FALSE /\ liveWm = 0 /\ sent = 0
  /\ wire = <<>> /\ step = Begin /\ ghost = NoGhost
  /\ rows = [k \in Keys |-> Absent] /\ cursor = 0 /\ job = NoJob
  /\ uncaptured = {} /\ overwritten = {} /\ faults = 0

-----------------------------------------------------------------------------
(* The source: a write or a delete, and the producer.                       *)
HasBeenRead(k) ==
  \/ rows[k] # Absent \/ k <= after \/ k <= job.last \/ phase \in {"subscribe", "replay", "live"}
  \/ k <= step.seen
  \/ ghost # NoGhost /\ (k <= ghost.step.seen \/ \E j \in DOMAIN ghost.chunk.vals : k <= j)

Change(k, delete) ==
  LET val == IF delete THEN Absent ELSE Len(log) + 1
  IN  /\ Len(log) < MaxLog /\ (delete => src[k] # Absent)
      /\ log' = Append(log, [key |-> k, val |-> val])
      /\ src' = [src EXCEPT ![k] = val]
      /\ uncaptured' = IF slotAt = Unborn /\ HasBeenRead(k) THEN uncaptured \cup {k} ELSE uncaptured
      /\ UNCHANGED <<slotAt, outbox, stream, wire, step, ghost, rows, cursor, job, overwritten, faults>>

\* The first session of the producer creates the slot.
CreateSlot ==
  /\ slotAt = Unborn
  /\ slotAt' = Len(log) /\ staged' = Len(log)
  /\ UNCHANGED <<src, log, pending, stream, wire, step, ghost, rows, cursor, job, uncaptured, overwritten, faults>>

Stage ==
  /\ slotAt # Unborn /\ staged < Len(log)
  /\ staged' = staged + 1 /\ pending' = pending \cup {staged + 1}
  /\ UNCHANGED <<source, stream, wire, step, ghost, rows, cursor, job, uncaptured, overwritten, faults>>

-----------------------------------------------------------------------------
(* The stream: runPeerSession's request, and Consume.                       *)

\* QueueSnapshotRequests.
Connect ==
  /\ ~on
  /\ on' = TRUE
  /\ requested' = (cursor = 0 /\ ~job.finished)
  /\ phase' = IF requested' THEN "snapshot" ELSE "subscribe"
  /\ after' = job.last /\ liveWm' = 0 /\ sent' = 0
  /\ UNCHANGED <<source, outbox, wire, step, ghost, rows, cursor, job, uncaptured, overwritten, faults>>

Send(message) == Len(wire) < QueueCap /\ wire' = Append(wire, message)

\* Deliberately wrong variant of ChunkAfter: the limit is off by one.
ChunkOneMore(k) ==
  LET rest == {j \in Keys : j > k /\ src[j] # Absent}
      keys == {j \in rest : Cardinality({i \in rest : i < j}) <= ChunkSize}
  IN  [type |-> "chunk", vals |-> Restrict(src, keys), last |-> Cardinality(keys) < ChunkSize]

\* Deliberately wrong variant of ChunkAfter: a full chunk counts as the last one.
ChunkEndsEarly(k) ==
  LET rest == {j \in Keys : j > k /\ src[j] # Absent}
      keys == {j \in rest : Cardinality({i \in rest : i < j}) < ChunkSize}
  IN  [type |-> "chunk", vals |-> Restrict(src, keys), last |-> Cardinality(keys) <= ChunkSize]

\* ReadSnapshotChunk: the rows behind a key, in key order; fewer than the limit
\* means the last chunk.
ChunkAfter(k) ==
  LET rest == {j \in Keys : j > k /\ src[j] # Absent}
      keys == {j \in rest : Cardinality({i \in rest : i < j}) < ChunkSize}
  IN  [type |-> "chunk", vals |-> Restrict(src, keys), last |-> Cardinality(keys) < ChunkSize]

LastKey(chunk) == Max(DOMAIN chunk.vals)

\* One turn of SendToPeer's loop.
SendChunk ==
  /\ on /\ phase = "snapshot"
  /\ LET chunk == ChunkAfter(after) IN
       /\ Send(chunk)
       /\ phase' = IF chunk.last THEN "subscribe" ELSE phase
       /\ after' = IF chunk.last THEN after ELSE LastKey(chunk)
  /\ UNCHANGED <<source, outbox, on, requested, liveWm, sent, step, ghost, rows, cursor, job, uncaptured, overwritten, faults>>

\* Subscribe, then the live watermark.
Subscribe ==
  /\ on /\ phase = "subscribe"
  /\ phase' = "replay" /\ liveWm' = staged
  /\ UNCHANGED <<source, outbox, on, after, requested, sent, wire, step, ghost, rows, cursor, job, uncaptured, overwritten, faults>>

Unsent(upper) == {i \in pending : i > sent /\ i <= upper}

\* replayPendingBatches over both windows, forwardLiveBatches.
SendBatch ==
  /\ on /\ phase \in {"replay", "live"}
  /\ LET unsent == Unsent(IF phase = "replay" THEN liveWm ELSE staged) IN
       /\ unsent # {}
       /\ Send([type |-> "batch", at |-> Min(unsent)])
       /\ sent' = Min(unsent)
  /\ UNCHANGED <<source, outbox, on, phase, after, requested, liveWm, step, ghost, rows, cursor, job, uncaptured, overwritten, faults>>

\* Deliberately wrong variant of SendComplete: it does not wait for the replay.
SendCompleteEarly ==
  /\ on /\ phase = "replay"
  /\ IF requested THEN Send([type |-> "complete"]) ELSE UNCHANGED wire
  /\ phase' = "live" /\ sent' = Max({sent, liveWm})
  /\ UNCHANGED <<source, outbox, on, after, requested, liveWm, step, ghost, rows, cursor, job, uncaptured, overwritten, faults>>

SendComplete ==
  /\ on /\ phase = "replay" /\ Unsent(liveWm) = {}
  /\ IF requested THEN Send([type |-> "complete"]) ELSE UNCHANGED wire
  /\ phase' = "live" /\ sent' = Max({sent, liveWm})
  /\ UNCHANGED <<source, outbox, on, after, requested, liveWm, step, ghost, rows, cursor, job, uncaptured, overwritten, faults>>

-----------------------------------------------------------------------------
(* The client: recvLoop, ApplyIncomingChunk.                                *)
Receiving(type) == wire # <<>> /\ Head(wire).type = type

\* What follows the application of a chunk: the checkpoint (saveCheckpoint, once more if
\* the job was finished and is reset), then catching_up for the last chunk, to which an
\* empty one carries the key that GetStateSnapshotJob has read.
NextStep(s, chunk) ==
  IF s = Begin /\ DOMAIN chunk.vals # {} THEN [at |-> "checkpoint", seen |-> 0]
  ELSE IF s.at = "checkpoint" /\ job.finished THEN [at |-> "again", seen |-> 0]
  ELSE IF s.at # "last" /\ chunk.last
    THEN [at |-> "last", seen |-> IF DOMAIN chunk.vals = {} THEN job.last ELSE 0]
  ELSE Done

\* UpsertStateSnapshotJob (pending, or catching_up for an empty last chunk) reopens the
\* job, CommitStateSnapshotCheckpoint writes only an unfinished one.
JobAfter(s, chunk) ==
  LET At(status, key) == [status |-> status, last |-> key, finished |-> FALSE]
  IN  CASE s.at = "apply" -> job
        [] s.at = "checkpoint" -> IF job.finished THEN At("pending", 0) ELSE At("snapshotting", LastKey(chunk))
        [] s.at = "again" -> IF job.finished THEN job ELSE At("snapshotting", LastKey(chunk))
        [] s.at = "last" -> IF DOMAIN chunk.vals = {} THEN At("catching_up", s.seen)
                            ELSE IF job.finished THEN job ELSE At("catching_up", LastKey(chunk))

RowsAfter(s, chunk) ==
  [k \in Keys |-> IF s = Begin /\ k \in DOMAIN chunk.vals THEN chunk.vals[k] ELSE rows[k]]

\* Deliberately wrong variant of ChunkStep: the checkpoint is written before the rows.
ChunkStepCheckpointFirst ==
  /\ on /\ Receiving("chunk")
  /\ LET chunk == Head(wire)
         first == step = Begin /\ DOMAIN chunk.vals # {}
     IN  /\ rows' = IF first THEN rows ELSE RowsAfter(Begin, chunk)
         /\ job' = IF first THEN [job EXCEPT !.last = LastKey(chunk), !.finished = FALSE] ELSE job
         /\ overwritten' = overwritten \ DOMAIN chunk.vals
         /\ IF first THEN step' = [at |-> "checkpoint", seen |-> 0] /\ UNCHANGED wire
                     ELSE step' = Begin /\ wire' = Tail(wire)
  /\ UNCHANGED <<source, outbox, stream, ghost, cursor, uncaptured, faults>>

ChunkStep ==
  /\ on /\ Receiving("chunk")
  /\ LET chunk == Head(wire) IN
       /\ rows' = RowsAfter(step, chunk) /\ job' = JobAfter(step, chunk)
       /\ overwritten' = IF step = Begin THEN overwritten \ DOMAIN chunk.vals ELSE overwritten
       /\ IF NextStep(step, chunk) = Done
            THEN step' = Begin /\ wire' = Tail(wire)
            ELSE step' = NextStep(step, chunk) /\ UNCHANGED wire
  /\ UNCHANGED <<source, outbox, stream, ghost, cursor, uncaptured, faults>>

\* CommitStateAppliedTransaction and the Ack; an Ack that fails ends the session.
ApplyBatch ==
  /\ on /\ Receiving("batch")
  /\ LET i == Head(wire).at IN
       /\ rows' = IF i > cursor THEN [rows EXCEPT ![log[i].key] = log[i].val] ELSE rows
       /\ overwritten' = IF i > cursor THEN overwritten \ {log[i].key} ELSE overwritten
       /\ cursor' = Max({cursor, i})
       /\ \/ pending' = pending \ {i} /\ wire' = Tail(wire) /\ UNCHANGED <<on, faults>>
          \/ Fail /\ on' = FALSE /\ wire' = <<>> /\ UNCHANGED pending
  /\ UNCHANGED <<source, staged, phase, after, requested, liveWm, sent, step, ghost, job, uncaptured>>

\* Deliberately wrong variant of Complete: the job is not marked.
CompleteUnmarked ==
  /\ on /\ Receiving("complete")
  /\ wire' = Tail(wire)
  /\ UNCHANGED <<source, outbox, stream, step, ghost, rows, cursor, job, uncaptured, overwritten, faults>>

\* CompleteIncomingSnapshot.
Complete ==
  /\ on /\ Receiving("complete")
  /\ job' = IF job = NoJob THEN job ELSE [job EXCEPT !.status = "finished", !.finished = TRUE]
  /\ wire' = Tail(wire)
  /\ UNCHANGED <<source, outbox, stream, step, ghost, rows, cursor, uncaptured, overwritten, faults>>

\* The stream breaks or a process dies.  A client that only lost its lease may still be
\* at work on the chunk it has received.
Break ==
  /\ on /\ Fail
  /\ on' = FALSE /\ wire' = <<>> /\ step' = Begin
  /\ \/ UNCHANGED ghost
     \/ Receiving("chunk") /\ ghost = NoGhost /\ ghost' = [step |-> step, chunk |-> Head(wire)]
  /\ UNCHANGED <<source, outbox, phase, after, requested, liveWm, sent, rows, cursor, job, uncaptured, overwritten>>

GhostStep ==
  /\ ghost # NoGhost
  /\ LET chunk == ghost.chunk  next == NextStep(ghost.step, chunk) IN
       /\ rows' = RowsAfter(ghost.step, chunk) /\ job' = JobAfter(ghost.step, chunk)
       /\ overwritten' = overwritten \cup {k \in Keys : rows'[k] # rows[k]}
       /\ ghost' = IF next = Done THEN NoGhost ELSE [ghost EXCEPT !.step = next]
  /\ UNCHANGED <<source, outbox, stream, wire, step, cursor, uncaptured, faults>>

-----------------------------------------------------------------------------
\* What the goroutines of producer, handler and client do as long as one of them can.
Work ==
  \/ CreateSlot \/ Stage \/ Connect \/ SendChunk \/ Subscribe \/ SendBatch \/ SendComplete
  \/ ChunkStep \/ ApplyBatch \/ Complete \/ GhostStep

Next == Work \/ Break \/ \E k \in Keys, delete \in BOOLEAN : Change(k, delete)

Spec == Init /\ [][Next]_vars /\ WF_vars(Work)

-----------------------------------------------------------------------------
Values == 0..(MaxLog + 1)

TypeOK ==
  /\ src \in [Keys -> Values] /\ rows \in [Keys -> Values]
  /\ slotAt \in 0..MaxLog \cup {Unborn} /\ Len(log) <= MaxLog
  /\ staged \in 0..Len(log) /\ pending \subseteq 1..staged
  /\ on \in BOOLEAN /\ requested \in BOOLEAN
  /\ phase \in {"none", "snapshot", "subscribe", "replay", "live"}
  /\ after \in Keys \cup {0} /\ liveWm \in 0..staged /\ sent \in 0..staged
  /\ Len(wire) <= QueueCap /\ step.at \in {"apply", "checkpoint", "again", "last"} /\ step.seen \in Keys \cup {0}
  /\ \A n \in DOMAIN wire : wire[n].type = "chunk" => Cardinality(DOMAIN wire[n].vals) <= ChunkSize
  /\ cursor \in 0..staged
  /\ job \in [status : {"none", "pending", "snapshotting", "catching_up", "finished"},
              last : Keys \cup {0}, finished : BOOLEAN]
  /\ uncaptured \subseteq Keys /\ overwritten \subseteq Keys /\ faults \in 0..MaxFaults

\* A captured change of k that the peer has not applied.
Outstanding(k) == \E i \in DOMAIN log : i > slotAt /\ i > cursor /\ log[i].key = k

\* The peer has k's row as the source has it, or a captured change of it is still to come.
\* The exceptions are changes made before there was a slot, behind the snapshot's back, and
\* rows to which a client that lost its lease wrote its chunk.
Accounted(k) ==
  rows[k] = src[k] \/ Outstanding(k) \/ k \in uncaptured \/ k \in overwritten

\* The checkpoint, behind which the next session resumes, never runs ahead of the rows:
\* every key up to it is at the peer (ApplyIncomingChunk's two transactions).
CheckpointIsBehindRows == \A k \in Keys : k <= job.last => Accounted(k)

\* A table for which no snapshot will be asked any more, because an event was applied or the
\* job is finished, has received all of it (QueueSnapshotRequests).
SeededIsComplete == cursor > 0 \/ job.finished => \A k \in Keys : Accounted(k)

\* SnapshotComplete comes after the catch-up: in the session that delivers it the peer has
\* applied every batch staged before the live watermark (Consume).
CompleteAfterCatchUp ==
  on /\ Receiving("complete") => \A i \in pending : i <= liveWm => i <= cursor

\* The bootstrap terminates: the job is finished or made superfluous by an event, and in the
\* end the stream is live with nothing pending.  (A client that lost its lease may open a
\* finished job again, which then stays open until the next connection.)
EventuallySeeded ==
  /\ <>(job.finished \/ cursor > 0)
  /\ <>[](on /\ phase = "live" /\ wire = <<>> /\ pending = {})
=============================================================================
