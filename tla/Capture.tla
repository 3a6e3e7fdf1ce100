------------------------------- MODULE Capture -------------------------------
(***************************************************************************)
(* CDC end to end: transactions of the source region write the WAL,        *)
(* ChangeDataCapture.Run decodes them in commit order, HandleBatch stages   *)
(* each one in the outbox of every peer in chunks of at most max_batch_events, the *)
(* slot is confirmed behind it, and the peers apply the staged batches in   *)
(* the order of their ids (what a live session can miss is in Delivery).    *)
(*                                                                         *)
(* WAL record i starts at LSN(i).  The version of a change is nextLSN, its  *)
(* start plus the length of the decoded message, which is not the length of *)
(* the record.                                                              *)
(***************************************************************************)
EXTENDS Apply, FiniteSets

CONSTANTS
  Peers,
  PeerOwned,    \* [Peers -> SUBSET Ids]: ids under which a peer has a row of its own
  Local,        \* the source's region
  Bootstrapped, \* rows of the source that a snapshot brought to the peers before
  BroadcastMode, ApplyMode,
  Configs,      \* configurations to consider: max_batch_events, cdc.update_diff and whether
                \* the tables have REPLICA IDENTITY FULL, which update_diff sets
  RecordSize,   \* bytes of a WAL record
  MsgLens,      \* bytes a decoded change of each kind may have; a commit has CommitLen
  CommitLen,
  MaxTx, MaxChanges,  \* bounds: transactions, changes in all
  MaxFaults     \* bound: ended sessions and lost Acks

ASSUME CaptureAssumption ==
  /\ Peers \cap {Local, "null", "absent"} = {}
  /\ PeerOwned \in [Peers -> SUBSET Ids] /\ Bootstrapped \subseteq Ids
  /\ BroadcastMode \in Modes /\ ApplyMode \in Modes
  /\ Configs \subseteq [maxEvents : Nat \ {0}, updateDiff : BOOLEAN, identityFull : BOOLEAN]
  /\ \A c \in Configs : c.updateDiff => c.identityFull
  /\ MsgLens \in [{"insert", "update", "delete"} -> SUBSET Nat]
  /\ RecordSize \in Nat \ {0} /\ CommitLen \in 1..RecordSize
  /\ MaxTx \in Nat /\ MaxChanges \in Nat /\ MaxFaults \in Nat
  /\ MaxValue \in Nat /\ MaxTx + MaxChanges <= MaxValue

VARIABLES
  wal, src,          \* the source's WAL, and its rows as the writes left them
  conf,              \* the configuration of the run
  slot,              \* confirmed_flush_lsn
  on, start, durable, last,  \* the producer's session: startLSN, durableLSN, last commit handled
  handling, staged,  \* the commit HandleBatch is at (or 0); events enqueued per peer
  outbox, peer,      \* per peer: pending batches in id order; rows and cursors
  handled,           \* history: commits whose batch was staged completely
  applied, passed,   \* history per peer: changes applied; ids with a change that had no effect
  shadowed,          \* history per peer: changes not staged, another batch having the same id
  faults

source == <<wal, src>>
session == <<on, start, durable, last, handling, staged>>
history == <<handled, applied, passed, shadowed>>
vars == <<source, conf, slot, session, outbox, peer, history, faults>>

Indices == 1..(MaxTx + MaxChanges)
LSN(i) == i * RecordSize
Version(i, len) == LSN(i) + len
\* The commit message's WALStart is the end of its record.
CommitNext(c) == LSN(c + 1) + CommitLen

Commits == {i \in DOMAIN wal : wal[i].kind = "commit"}
ChangesOf(t) == {i \in DOMAIN wal : wal[i].kind = "change" /\ wal[i].tx = t}
IsCommitted(t) == \E c \in Commits : wal[c].tx = t
\* Rows a transaction in progress has written are locked.
LockedBy(t) == UNION {{wal[i].id, wal[i].old} : i \in IF IsCommitted(t) THEN {} ELSE ChangesOf(t)}

Fail == faults < MaxFaults /\ faults' = faults + 1

InitialSource == [id \in Ids |-> IF id \in Bootstrapped THEN [NoRow EXCEPT !.owner = Local] ELSE NoRow]

Fresh(p) ==
  [rows |-> [id \in Ids |-> IF id \in PeerOwned[p] THEN [NoRow EXCEPT !.owner = p] ELSE InitialSource[id]],
   cursors |-> [t \in Tables |-> ZeroCursor]]

Init ==
  /\ wal = <<>> /\ src = InitialSource
  /\ conf \in Configs
  /\ slot = LSN(1)
  /\ on = FALSE /\ start = 0 /\ durable = 0 /\ last = 0
  /\ handling = 0 /\ staged = [p \in Peers |-> 0]
  /\ outbox = [p \in Peers |-> <<>>]
  /\ peer = [p \in Peers |-> Fresh(p)]
  /\ handled = {} /\ applied = [p \in Peers |-> {}] /\ passed = [p \in Peers |-> {}]
  /\ shadowed = [p \in Peers |-> {}]
  /\ faults = 0

-----------------------------------------------------------------------------
(* The source database.                                                     *)

MayWrite(t, id) ==
  /\ t = 1 \/ ChangesOf(t - 1) # {}
  /\ ~IsCommitted(t) /\ Len(wal) - Cardinality(Commits) < MaxChanges
  /\ \A u \in (1..MaxTx) \ {t} : id \notin LockedBy(u)

\* Every write gives the columns it sets the index of its record as value.  With
\* update_diff an update is decoded to the changed columns, without it to all of
\* them, one of which may be an unchanged TOAST value.
Write(t, op, old, id, owner, cols) ==
  LET now == Len(wal) + 1
      fields == [c \in cols |-> now]
      full == op = "update" /\ ~conf.updateDiff
      row == [owner |-> owner, vals |-> Overwritten(src[old].vals, fields)]
  IN  /\ MayWrite(t, old) /\ MayWrite(t, id)
      /\ \E len \in MsgLens[op], toast \in IF full THEN BOOLEAN ELSE {FALSE} :
           wal' = Append(wal, [kind |-> "change", tx |-> t, op |-> op, id |-> id, old |-> old,
                               owner |-> owner, rehomed |-> op = "update" /\ owner # src[old].owner,
                               len |-> len, toast |-> toast,
                               fields |-> IF full THEN row.vals ELSE fields])
      /\ src' = [src EXCEPT ![old] = NoRow, ![id] = IF op = "delete" THEN NoRow ELSE row]
      /\ UNCHANGED <<conf, slot, session, outbox, peer, history, faults>>

\* Rows of other owners are the ones this region applied from its peers.
SourceInsert(t, id) ==
  /\ src[id] = NoRow
  /\ \E owner \in {Local, "elsewhere"} : Write(t, "insert", id, id, owner, Cols)

\* An UPDATE may move a row to another primary key or give it to another region.
SourceUpdate(t, old, id) ==
  /\ src[old] # NoRow /\ (id = old \/ src[id] = NoRow) /\ old[1] = id[1]
  /\ \E c \in Cols, owner \in {Local, "elsewhere"} : Write(t, "update", old, id, owner, {c})

SourceDelete(t, id) ==
  /\ src[id] # NoRow
  /\ Write(t, "delete", id, id, src[id].owner, {})

SourceCommit(t) ==
  /\ ChangesOf(t) # {} /\ ~IsCommitted(t)
  /\ wal' = Append(wal, [kind |-> "commit", tx |-> t])
  /\ UNCHANGED <<src, conf, slot, session, outbox, peer, history, faults>>

-----------------------------------------------------------------------------
(* The producer.                                                            *)

\* PostgreSQL decodes, in commit order, what commits at or after the position
\* the session started from.
Decoded == {c \in Commits : c > last /\ LSN(c) >= start}
Lost == {c \in Commits \ handled : LSN(c) < IF on THEN start ELSE slot}

\* Deliberately wrong variant of IsLocal: rows of other regions are sent as well.
IsAnyRegion(i) == TRUE

\* tupleRegionIsLocal (of the new tuple), deleteRegionIsLocal: only rows of this region are sent.
IsLocal(i) == wal[i].owner = Local

\* buildWriteChange, buildUpdateDiffChange, buildDeleteChange, and the event
\* HandleBatch makes of the change.
ChangeEvent(i) ==
  [table |-> wal[i].id[1], key |-> wal[i].id[2], ver |-> Version(i, wal[i].len),
   op |-> wal[i].op, fields |-> wal[i].fields, at |-> i]

\* The events of the transaction committed at c that its HandleBatch stages.
SentOf(c) ==
  {i \in 1..c : /\ wal[i].tx = wal[c].tx /\ wal[i].kind = "change" /\ IsLocal(i)
                /\ Allowed(BroadcastMode, wal[i].op)}
EventsOf(c) == LET order == InOrder(SentOf(c), <) IN [n \in DOMAIN order |-> ChangeEvent(order[n])]

\* buildTuplePayload cannot encode an unchanged TOAST value; deleteRegionIsLocal finds no
\* region in the tuple of a delete, whoever owned the row, without REPLICA IDENTITY FULL.
CannotDecode(c) ==
  \E i \in ChangesOf(wal[c].tx) :
    \/ IsLocal(i) /\ wal[i].toast
    \/ wal[i].op = "delete" /\ ~conf.identityFull

\* runSession: ensure publication and slot, start replication from its position.
StartSession ==
  /\ ~on
  /\ on' = TRUE /\ start' = slot /\ durable' = slot /\ last' = 0
  /\ UNCHANGED <<source, conf, slot, handling, staged, outbox, peer, history, faults>>

EndSession ==
  /\ on' = FALSE /\ start' = 0 /\ durable' = 0 /\ last' = 0
  /\ handling' = 0 /\ staged' = [p \in Peers |-> 0]

\* The commit message: durableLSN moves, and is confirmed by a later status update.
Finish(c) ==
  /\ handled' = handled \cup {c}
  /\ last' = c /\ durable' = CommitNext(c)

\* A transaction without events for the peers needs no batch.
DecodeEmpty ==
  /\ on /\ handling = 0 /\ Decoded # {}
  /\ ~CannotDecode(Min(Decoded)) /\ EventsOf(Min(Decoded)) = <<>>
  /\ Finish(Min(Decoded))
  /\ UNCHANGED <<source, conf, slot, on, start, handling, staged, outbox, peer, applied, passed, shadowed, faults>>

DecodeTransaction ==
  /\ on /\ handling = 0 /\ Decoded # {}
  /\ ~CannotDecode(Min(Decoded)) /\ EventsOf(Min(Decoded)) # <<>>
  /\ handling' = Min(Decoded)
  /\ UNCHANGED <<source, conf, slot, on, start, durable, last, staged, outbox, peer, history, faults>>

DecodeError ==
  /\ on /\ handling = 0 /\ Decoded # {}
  /\ CannotDecode(Min(Decoded))
  /\ EndSession
  /\ UNCHANGED <<source, conf, slot, outbox, peer, history, faults>>

\* Deliberately wrong variant of Chunk: one event too many.
ChunkTooLong(p) ==
  LET events == EventsOf(handling)
  IN  SubSeq(events, staged[p] + 1, Min({staged[p] + conf.maxEvents + 1, Len(events)}))

\* enqueueBatch of one peer, the next chunk: a row with its LastEventID may be pending.
Chunk(p) ==
  LET events == EventsOf(handling)
  IN  SubSeq(events, staged[p] + 1, Min({staged[p] + conf.maxEvents, Len(events)}))

IsPending(p, batch) == \E n \in DOMAIN outbox[p] : LastEventID(outbox[p][n]) = LastEventID(batch)

\* The batch is pending, but only under a change of another transaction with the same version.
LastChange(batch) == batch[Len(batch)].at
IsShadowed(p, batch) ==
  /\ IsPending(p, batch)
  /\ \A n \in DOMAIN outbox[p] : LastChange(outbox[p][n]) # LastChange(batch)

EnqueueChunk(p) ==
  /\ handling # 0 /\ Chunk(p) # <<>>
  /\ outbox' = IF IsPending(p, Chunk(p)) THEN outbox
               ELSE [outbox EXCEPT ![p] = Append(@, Chunk(p))]
  /\ staged' = [staged EXCEPT ![p] = @ + Len(Chunk(p))]
  /\ shadowed' = IF ~IsShadowed(p, Chunk(p)) THEN shadowed
                 ELSE [shadowed EXCEPT ![p] = @ \cup ({e.at : e \in Range(Chunk(p))} \ applied[p])]
  /\ UNCHANGED <<source, conf, slot, on, start, durable, last, handling, peer, handled, applied, passed, faults>>

\* Deliberately wrong variant of FinishBatch: it does not wait for all peers.
FinishBatchEarly ==
  /\ handling # 0 /\ \E p \in Peers : Chunk(p) = <<>>
  /\ Finish(handling)
  /\ handling' = 0 /\ staged' = [p \in Peers |-> 0]
  /\ UNCHANGED <<source, conf, slot, on, start, outbox, peer, applied, passed, shadowed, faults>>

FinishBatch ==
  /\ handling # 0 /\ \A p \in Peers : Chunk(p) = <<>>
  /\ Finish(handling)
  /\ handling' = 0 /\ staged' = [p \in Peers |-> 0]
  /\ UNCHANGED <<source, conf, slot, on, start, outbox, peer, applied, passed, shadowed, faults>>

\* Standby status update, at the top of Run's loop.
ConfirmSlot ==
  /\ on /\ handling = 0 /\ durable > slot
  /\ slot' = durable
  /\ UNCHANGED <<source, conf, session, outbox, peer, history, faults>>

\* Any error of an Enqueue (the others of the errgroup stop where they are) or of
\* the connection, the loss of the lease, or a crash.
SessionFails ==
  /\ on /\ Fail
  /\ EndSession
  /\ UNCHANGED <<source, conf, slot, outbox, peer, history>>

-----------------------------------------------------------------------------
(* A peer applies its next batch and acks it; the Ack may get lost.         *)

\* Changes of a batch that are skipped as stale, and ids the deduplication changes.
Kept(p, batch) == FilterStale(peer[p].cursors, Prepared(batch, ApplyMode, FALSE)).kept
StaleIn(p, batch) == Range(Prepared(batch, ApplyMode, FALSE)) \ Range(Kept(p, batch))

PeerApply(p) ==
  /\ outbox[p] # <<>>
  /\ LET batch == Head(outbox[p]) IN
       /\ peer' = [peer EXCEPT ![p] = Commit(@, batch, Local, ApplyMode, FALSE)]
       /\ applied' = [applied EXCEPT ![p] = @ \cup {e.at : e \in Range(Kept(p, batch))}]
       /\ passed' = [passed EXCEPT ![p] =
            @ \cup {IdOf(e) : e \in {f \in StaleIn(p, batch) : f.at \notin applied[p]}}
              \cup Collapsed(peer[p].rows, Kept(p, batch), Local, ApplyMode)]
  /\ \/ outbox' = [outbox EXCEPT ![p] = Tail(@)] /\ UNCHANGED faults
     \/ Fail /\ UNCHANGED outbox
  /\ UNCHANGED <<source, conf, slot, session, handled, shadowed>>

-----------------------------------------------------------------------------
Source ==
  \E t \in 1..MaxTx :
    \/ SourceCommit(t)
    \/ \E id \in Ids : SourceInsert(t, id) \/ SourceDelete(t, id)
    \/ \E old, id \in Ids : SourceUpdate(t, old, id)

Producer ==
  \/ StartSession \/ DecodeEmpty \/ DecodeTransaction \/ DecodeError \/ FinishBatch
  \/ ConfirmSlot \/ SessionFails \/ \E p \in Peers : EnqueueChunk(p)

Next == Source \/ Producer \/ \E p \in Peers : PeerApply(p)

Spec == Init /\ [][Next]_vars

-----------------------------------------------------------------------------
TypeOK ==
  /\ Len(wal) <= MaxTx + MaxChanges
  /\ src \in [Ids -> RowType({Local, "elsewhere"})]
  /\ conf \in Configs
  /\ slot \in Nat /\ on \in BOOLEAN /\ start \in Nat /\ durable \in Nat
  /\ last \in Commits \cup {0} /\ handling \in Commits \cup {0}
  /\ staged \in [Peers -> 0..MaxChanges]
  /\ \A p \in Peers :
       /\ peer[p].rows \in [Ids -> RowType(Peers \cup {Local})]
       /\ peer[p].cursors \in [Tables -> [ver : Nat, key : Keys \cup {0}]]
       /\ \A n \in DOMAIN outbox[p] : Len(outbox[p][n]) \in 1..conf.maxEvents
  /\ handled \subseteq Commits
  /\ applied \in [Peers -> SUBSET Indices] /\ passed \in [Peers -> SUBSET Ids]
  /\ shadowed \in [Peers -> SUBSET Indices]
  /\ faults \in 0..MaxFaults

\* Event e has reached peer p, waits in its outbox, was passed over, was taken for another
\* one or is not wanted there.
Accounted(p, e) ==
  \/ ~Allowed(ApplyMode, e.op)
  \/ e.at \in applied[p] \cup shadowed[p]
  \/ \E n \in DOMAIN outbox[p] : e \in Range(outbox[p][n])
  \/ IdOf(e) \in passed[p]

\* durableLSN (end of the commit record plus length of the message) lies behind the start of
\* a commit record that follows at once.
Overstepped(c) == c \notin handled /\ c - 1 \in handled

\* A transaction the slot has passed is staged for every peer: one peer's failed
\* Enqueue, a restart in the middle of a batch or of its chunks loses it for none.
\* The exceptions are an unhandled commit right behind a handled one, which durableLSN
\* oversteps (Run), and a batch that shares its id with one that is pending (Enqueue).
ConfirmedIsStagedForAll ==
  \A c \in Commits : LSN(c) < slot =>
    Overstepped(c) \/ \A p \in Peers, e \in Range(EventsOf(c)) : Accounted(p, e)

\* The next batch moves no row back: what it applies to a key is younger in the WAL
\* than everything the peer applied to that key, redelivered and staged again or not
\* (isStaleCursorPosition); only what was taken for another batch before may come late.
NextBatchMovesForward ==
  \A p \in Peers : outbox[p] # <<>> =>
    \A e \in Range(Kept(p, Head(outbox[p]))), j \in applied[p] :
      wal[j].id = IdOf(e) /\ e.at \notin shadowed[p] => j < e.at

\* Rows the replication promises to bring to the peer: none of their changes was stale,
\* replaced in its batch, overstepped or taken for another one, or gave the row another key
\* or owner (Run tests the owner of the new tuple: a row that is given away stays at the
\* peers, and the update of one that is taken over finds no row there).
Promised(p) ==
  {id \in Ids \ (passed[p] \cup PeerOwned[p]) :
     \A i \in DOMAIN wal : wal[i].kind = "change" /\ id \in {wal[i].id, wal[i].old} =>
       /\ wal[i].id = wal[i].old /\ ~wal[i].rehomed /\ i \notin shadowed[p]
       /\ \A c \in Lost : wal[c].tx # wal[i].tx}

Quiet(p) ==
  /\ Commits \subseteq handled \cup Lost /\ outbox[p] = <<>>
  /\ \A t \in 1..MaxTx : ChangesOf(t) # {} => IsCommitted(t)

\* When everything committed is handled and the outbox is drained, peer and source
\* agree on every promised row: the columns, its absence after a delete, and nothing
\* of the rows that belong to other regions (the whole CDC path).
QuietPeersAgree ==
  \A p \in Peers : Quiet(p) =>
    \A id \in Promised(p) :
      peer[p].rows[id] = IF src[id].owner = Local THEN src[id] ELSE NoRow

\* A row the peer region owns is never touched by what another region sends, whatever
\* the operation (ownerRegionCondition, the region filters of UPDATE and DELETE).
PeerOwnedRowsUntouched ==
  \A p \in Peers, id \in Ids : id \in PeerOwned[p] => peer[p].rows[id] = Fresh(p).rows[id]

\* A peer skips as stale only what it has already applied.
SkippedWasApplied ==
  \A p \in Peers : outbox[p] # <<>> =>
    \A e \in StaleIn(p, Head(outbox[p])) : e.at \in applied[p]
=============================================================================
