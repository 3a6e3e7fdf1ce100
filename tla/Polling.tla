------------------------------- MODULE Polling -------------------------------
(***************************************************************************)
(* Polling capture end to end: pollTable pages through the rows of a table  *)
(* by (updated_at, primary key), HandleBatch stages each page for every     *)
(* peer and saves the cursor, the peers apply the staged batches in order.  *)
(*                                                                         *)
(* A write draws its updated_at when it starts and becomes visible when its *)
(* transaction commits.  Pages are in the order of the database (dbRank),   *)
(* while the peers compare primary keys as ComparePrimaryKeys does (the     *)
(* order of the numbers).                                                   *)
(***************************************************************************)
EXTENDS Apply, FiniteSets, Functions

CONSTANTS
  Peers, Local, Table,
  Initial,      \* keys of the rows there are before the first session
  DbRanks,      \* orders of the database to consider: functions [Keys -> Nat]
  PageSize,     \* defaultPollBatchSize
  MaxEvents,    \* replication.max_batch_events
  BroadcastMode, ApplyMode,
  MaxClock, MaxFaults  \* bounds: distinct timestamps; failures

ASSUME PollingAssumption ==
  /\ Tables = {Table} /\ IsFiniteSet(Keys) /\ Initial \subseteq Keys
  /\ DbRanks \subseteq [Keys -> Nat] /\ \A rank \in DbRanks : IsInjective(rank)
  /\ Local \notin {"absent", "elsewhere"}
  /\ PageSize \in Nat \ {0} /\ MaxEvents \in Nat \ {0}
  /\ BroadcastMode \in Modes /\ ApplyMode \in Modes
  /\ MaxClock \in Nat \ {0} /\ MaxFaults \in Nat /\ MaxValue \in Nat /\ MaxClock <= MaxValue

VARIABLES
  dbRank,
  rows, writing,  \* committed rows; transactions in progress: {[keys, ver, owner]}
  clock,
  saved,          \* changefeed_cursors: source, version and primary key
  on, stopped,    \* the producer has a session; it gave up
  mem,            \* the adapter's in-memory cursor
  page, staged,   \* the page HandleBatch is at, and the events enqueued per peer
  outbox, peer,
  drawn,          \* history: [key, ver] of all writes
  reach,          \* history: the furthest position a page or the baseline has come to
  sent,           \* history: [key, ver] of the changes staged for each peer
  missed,         \* history: [key, ver] of the rows the first baseline found, or that came too late
  rebased,        \* history: [key, ver] of the rows a later baseline passed over, by peer
  faults

source == <<dbRank, rows, writing, clock, drawn>>
session == <<on, stopped, mem, page, staged>>
history == <<reach, sent, missed, rebased>>
vars == <<source, saved, session, outbox, peer, history, faults>>

Stamp(k) == [key |-> k, ver |-> rows[k].ver]
Locked == UNION {w.keys : w \in writing}
Fail == faults < MaxFaults /\ faults' = faults + 1

Init ==
  /\ dbRank \in DbRanks
  /\ rows = [k \in Keys |-> IF k \in Initial THEN [owner |-> Local, ver |-> 1] ELSE [owner |-> "absent", ver |-> 0]]
  /\ writing = {} /\ clock = 1 /\ drawn = {Stamp(k) : k \in Initial}
  /\ saved \in [source : {"", "cdc"}, ver : {0}, key : {0}]
  /\ on = FALSE /\ stopped = FALSE /\ mem = ZeroCursor
  /\ page = <<>> /\ staged = [p \in Peers |-> 0]
  /\ outbox = [p \in Peers |-> <<>>]
  /\ peer = [p \in Peers |-> [rows |-> [id \in Ids |-> NoRow],
                              cursors |-> [t \in Tables |-> ZeroCursor]]]
  /\ reach = ZeroCursor /\ missed = {} /\ sent = [p \in Peers |-> {}] /\ rebased = [p \in Peers |-> {}]
  /\ faults = 0

-----------------------------------------------------------------------------
\* The WHERE clause of ChangefeedPollingListTableChanges.
IsAfter(cursor, k) ==
  /\ rows[k].owner = Local
  /\ \/ rows[k].ver > cursor.ver
     \/ cursor.key # 0 /\ rows[k].ver = cursor.ver /\ dbRank[k] > dbRank[cursor.key]

\* History: local rows that no query from this cursor returns.
Behind(keys, cursor) ==
  {Stamp(k) : k \in {j \in keys : rows[j].owner = Local /\ ~IsAfter(cursor, j)}}

(* The source database.                                                     *)
BeginWrite(keys, owner) ==
  /\ keys # {} /\ keys \cap Locked = {}
  /\ \E ver \in {clock, clock + 1} :
       /\ ver <= MaxClock /\ \A k \in keys : rows[k].ver < ver
       /\ clock' = ver
       /\ writing' = writing \cup {[keys |-> keys, ver |-> ver, owner |-> owner]}
  /\ drawn' = drawn \cup {[key |-> k, ver |-> clock'] : k \in keys}
  /\ UNCHANGED <<dbRank, rows, saved, session, outbox, peer, history, faults>>

\* A row that becomes visible at or before the position polling has reached is late.
CommitWrite(w) ==
  /\ w \in writing
  /\ rows' = [k \in Keys |-> IF k \in w.keys THEN [owner |-> w.owner, ver |-> w.ver] ELSE rows[k]]
  /\ writing' = writing \ {w}
  /\ UNCHANGED <<dbRank, clock, drawn, saved, session, outbox, peer, reach, sent, rebased, faults>>
  /\ missed' = missed \cup Behind(w.keys, reach)'

\* The version of a deleted row is kept: no two writes of a key share a microsecond.
DeleteRow(k) ==
  /\ rows[k].owner = Local /\ k \notin Locked
  /\ rows' = [rows EXCEPT ![k].owner = "absent"]
  /\ UNCHANGED <<dbRank, writing, clock, drawn, saved, session, outbox, peer, history, faults>>

-----------------------------------------------------------------------------
(* The producer.                                                            *)

\* restoreCursors meets the cursor of another source: the producer gives up.
SourceMismatch ==
  /\ ~on /\ ~stopped /\ saved.source \notin {"", "polling"}
  /\ stopped' = TRUE
  /\ UNCHANGED <<source, saved, on, mem, page, staged, outbox, peer, history, faults>>

\* ChangefeedPollingCurrentMaxVersion.
CurrentMaxVersion == Max({0} \cup {rows[k].ver : k \in {j \in Keys : rows[j].owner = Local}})

\* History: the first baseline passes over the rows there are.  A later one, taken because no
\* page was saved yet, also passes over rows that were visible in time: a peer they are not
\* staged for never gets them.
PassOver(baseline) ==
  /\ missed' = missed \cup IF saved.source = "" THEN Behind(Keys, baseline) ELSE {}
  /\ rebased' = [p \in Peers |-> rebased[p] \cup
                   IF saved.source # "" /\ saved.ver = 0 THEN Behind(Keys, baseline) \ sent[p] ELSE {}]
  /\ reach' = IF saved.ver = 0 /\ baseline.ver >= reach.ver THEN baseline ELSE reach

\* Deliberately wrong variant of StartSession: the baseline is taken every time.
StartAtMaximum ==
  /\ ~on /\ ~stopped /\ saved.source \in {"", "polling"}
  /\ saved' = [saved EXCEPT !.source = "polling"]
  /\ on' = TRUE
  /\ mem' = [ver |-> CurrentMaxVersion, key |-> 0]
  /\ PassOver(mem')
  /\ UNCHANGED <<source, stopped, page, staged, outbox, peer, sent, faults>>

\* restoreCursors and RestoreCursors: a cursor at version 0 starts at the current
\* maximum, which is not saved.
StartSession ==
  /\ ~on /\ ~stopped /\ saved.source \in {"", "polling"}
  /\ saved' = [saved EXCEPT !.source = "polling"]
  /\ on' = TRUE
  /\ mem' = IF saved.ver = 0 THEN [ver |-> CurrentMaxVersion, key |-> 0]
            ELSE [ver |-> saved.ver, key |-> saved.key]
  /\ PassOver(mem')
  /\ UNCHANGED <<source, stopped, page, staged, outbox, peer, sent, faults>>

\* The next rows by (version, key in the order of the database).
PageOrder(j, k) == rows[j].ver < rows[k].ver \/ (rows[j].ver = rows[k].ver /\ dbRank[j] < dbRank[k])

ChangedKeys(cursor) == InOrder({k \in Keys : IsAfter(cursor, k)}, PageOrder)
ChangeOf(k) == [table |-> Table, key |-> k, ver |-> rows[k].ver, op |-> "upsert",
                fields |-> [c \in Cols |-> rows[k].ver]]

\* Deliberately wrong variant of ListTableChanges: no LIMIT.
ListAllChanges(cursor) ==
  LET keys == ChangedKeys(cursor) IN [n \in 1..Len(keys) |-> ChangeOf(keys[n])]

ListTableChanges(cursor) ==
  LET keys == ChangedKeys(cursor) IN [n \in 1..Min({PageSize, Len(keys)}) |-> ChangeOf(keys[n])]

LastRow == page[Len(page)]

\* pollTable up to the call of onBatch.
Poll ==
  /\ on /\ page = <<>> /\ \E k \in Keys : IsAfter(mem, k)
  /\ page' = ListTableChanges(mem)
  /\ reach' = IF IsAfter(reach, LastRow'.key) THEN Position(LastRow') ELSE reach
  /\ UNCHANGED <<source, saved, on, stopped, mem, staged, outbox, peer, sent, missed, rebased, faults>>

\* broadcastAllowed: every change polling finds is an upsert.
Events == IF Allowed(BroadcastMode, "upsert") THEN page ELSE <<>>
Chunk(p) == SubSeq(Events, staged[p] + 1, Min({staged[p] + MaxEvents, Len(Events)}))
IsPending(p, batch) == \E n \in DOMAIN outbox[p] : LastEventID(outbox[p][n]) = LastEventID(batch)
StampOf(e) == [key |-> e.key, ver |-> e.ver]

\* A pending row with the same LastEventID stands for the chunk, whatever else is in it.
EnqueueChunk(p) ==
  /\ page # <<>> /\ Chunk(p) # <<>>
  /\ outbox' = IF IsPending(p, Chunk(p)) THEN outbox
               ELSE [outbox EXCEPT ![p] = Append(@, Chunk(p))]
  /\ staged' = [staged EXCEPT ![p] = @ + Len(Chunk(p))]
  /\ sent' = [sent EXCEPT ![p] = @ \cup {StampOf(e) : e \in Range(Chunk(p))}]
  /\ UNCHANGED <<source, saved, on, stopped, mem, page, peer, reach, missed, rebased, faults>>

\* Deliberately wrong variant of FinishPage: the cursor is saved before the last peer.
FinishPageEarly ==
  /\ page # <<>> /\ \E p \in Peers : Chunk(p) = <<>>
  /\ saved' = [saved EXCEPT !.ver = LastRow.ver, !.key = LastRow.key]
  /\ mem' = Position(LastRow)
  /\ page' = <<>> /\ staged' = [p \in Peers |-> 0]
  /\ UNCHANGED <<source, on, stopped, outbox, peer, history, faults>>

\* Deliberately wrong variant of FinishPage: the in-memory cursor stays.
FinishPageInPlace ==
  /\ page # <<>> /\ \A p \in Peers : Chunk(p) = <<>>
  /\ page' = <<>> /\ staged' = [p \in Peers |-> 0]
  /\ UNCHANGED <<source, saved, on, stopped, mem, outbox, peer, history, faults>>

\* Saved only if anything was sent.
SaveCursor ==
  saved' = IF Events = <<>> THEN saved
           ELSE [saved EXCEPT !.ver = LastRow.ver, !.key = LastRow.key]

\* saveCursor, then setCursor.
FinishPage ==
  /\ page # <<>> /\ \A p \in Peers : Chunk(p) = <<>>
  /\ SaveCursor
  /\ mem' = Position(LastRow)
  /\ page' = <<>> /\ staged' = [p \in Peers |-> 0]
  /\ UNCHANGED <<source, on, stopped, outbox, peer, history, faults>>

\* An Enqueue or the saving of the cursor fails, the lease is lost, or the process dies.
SessionFails ==
  /\ on /\ Fail
  /\ on' = FALSE /\ mem' = ZeroCursor
  /\ page' = <<>> /\ staged' = [p \in Peers |-> 0]
  /\ UNCHANGED <<source, saved, stopped, outbox, peer, history>>

-----------------------------------------------------------------------------
\* A peer applies its next batch and acks it; the Ack may get lost.
PeerApply(p) ==
  /\ outbox[p] # <<>>
  /\ peer' = [peer EXCEPT ![p] = Commit(@, Head(outbox[p]), Local, ApplyMode, TRUE)]
  /\ \/ outbox' = [outbox EXCEPT ![p] = Tail(@)] /\ UNCHANGED faults
     \/ Fail /\ UNCHANGED outbox
  /\ UNCHANGED <<source, saved, session, history>>

-----------------------------------------------------------------------------
Source ==
  \/ \E keys \in SUBSET Keys, owner \in {Local, "elsewhere"} : BeginWrite(keys, owner)
  \/ \E w \in writing : CommitWrite(w)
  \/ \E k \in Keys : DeleteRow(k)

\* The goroutines of the session and the peers: as long as one can take a step, one does; a
\* session that ended is started again by the lease loop of some pod.
Work ==
  \/ SourceMismatch \/ FinishPage \/ Poll \/ StartSession
  \/ \E p \in Peers : EnqueueChunk(p)
  \/ \E p \in Peers : PeerApply(p)

Next == Source \/ Work \/ SessionFails

Spec == Init /\ [][Next]_vars /\ WF_vars(Work)

-----------------------------------------------------------------------------
Cursors == [ver : 0..MaxClock, key : Keys \cup {0}]
Stamps == [key : Keys, ver : 0..MaxClock]

TypeOK ==
  /\ rows \in [Keys -> [owner : {"absent", Local, "elsewhere"}, ver : 0..MaxClock]]
  /\ writing \subseteq [keys : SUBSET Keys, ver : 0..MaxClock, owner : {Local, "elsewhere"}]
  /\ dbRank \in DbRanks /\ clock \in 1..MaxClock
  /\ saved.source \in {"", "cdc", "polling"} /\ Position(saved) \in Cursors
  /\ on \in BOOLEAN /\ stopped \in BOOLEAN /\ mem \in Cursors /\ reach \in Cursors
  /\ Len(page) <= PageSize /\ staged \in [Peers -> 0..PageSize]
  /\ \A p \in Peers :
       /\ peer[p].rows \in [Ids -> RowType({Local})] /\ peer[p].cursors \in [Tables -> Cursors]
       /\ \A n \in DOMAIN outbox[p] : Len(outbox[p][n]) \in 1..MaxEvents
  /\ drawn \subseteq Stamps /\ missed \subseteq Stamps
  /\ sent \in [Peers -> SUBSET Stamps] /\ rebased \in [Peers -> SUBSET Stamps]
  /\ faults \in 0..MaxFaults

\* The page loop has come to its end and the peer has applied what was staged for it.
Quiet(p) == on /\ page = <<>> /\ (\A k \in Keys : ~IsAfter(mem, k)) /\ outbox[p] = <<>>

\* The database reads a row of the same version first that ComparePrimaryKeys puts later.
Collated(k) ==
  \E s \in drawn : s.ver = rows[k].ver /\ s.key > k /\ dbRank[s.key] < dbRank[k]

\* A row of this region that was visible in time (not before the first session, not behind
\* a page that was already read) and whose order database and peers agree on is at every
\* peer once all is quiet, whatever restarts, pages, partial staging and lost Acks came in
\* between.  Only a baseline that is taken again, by a session that finds no saved page, may
\* pass over such a row, and only for the peers it was not staged for (pollTable,
\* HandleBatch, RestoreCursors, applyBatch).
QuietPeersHaveTimelyRows ==
  \A p \in Peers : Quiet(p) =>
    \A k \in Keys : rows[k].owner = Local /\ Stamp(k) \notin missed \cup rebased[p] /\ ~Collated(k) =>
      peer[p].rows[<<Table, k>>] = [owner |-> Local, vals |-> [c \in Cols |-> rows[k].ver]]

\* The saved cursor, from which the next session reads on, has not passed a row that is not
\* staged for every peer, except those that came too late or that a baseline passed over
\* before the first page was saved (saveCursor after the errgroup).
SavedCursorCoversStaged ==
  \A p \in Peers, k \in Keys : rows[k].owner = Local /\ saved.ver # 0 /\ ~IsAfter(saved, k) =>
    Stamp(k) \in sent[p] \cup missed \cup rebased[p]

\* Once the writes have ended, polling comes to rest: it neither reads the same page for
\* ever nor leaves a staged batch behind (pollTable's loop).
EventuallyQuiet == <>[](stopped \/ \A p \in Peers : Quiet(p))
=============================================================================
