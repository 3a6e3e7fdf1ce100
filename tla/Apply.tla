-------------------------------- MODULE Apply --------------------------------
(***************************************************************************)
(* What a region does with the events a peer sends it: applyBatch filters  *)
(* (and, for polling, sorts) them, CommitStateAppliedTransaction skips the  *)
(* stale ones against the cursor of the table and applyEventsBatch writes   *)
(* the rest with one upsert, one update and one delete per table.           *)
(*                                                                         *)
(* An event is [table, key, ver, op, fields]; fields is a function on some  *)
(* of the non-key columns.  A cursor is the position [ver, key] of the last *)
(* applied event, key 0 standing for no event.  Rows are identified by      *)
(* <<table, key>>.                                                         *)
(***************************************************************************)
EXTENDS Integers, Sequences, FiniteSetsExt

CONSTANTS Tables, Keys, Cols, MaxValue

ASSUME ApplyAssumption == Keys \subseteq Nat \ {0}

Ids == Tables \X Keys
Operations == {"insert", "update", "upsert", "delete"}
Modes == {"insert_only", "upsert", "full_sync"}

\* A row is owned by the region in its region column.
NoRow == [owner |-> "absent", vals |-> [c \in Cols |-> 0]]
RowType(regions) ==
  {NoRow} \cup [owner : regions \cup {"null"}, vals : [Cols -> 0..MaxValue]]

ZeroCursor == [ver |-> 0, key |-> 0]
Position(e) == [ver |-> e.ver, key |-> e.key]
IdOf(e) == <<e.table, e.key>>

\* eventIDFromChange: what identifies an event (and, as LastEventID, a batch).
EventID(e) == [table |-> e.table, key |-> e.key, ver |-> e.ver, op |-> e.op]
LastEventID(events) == EventID(events[Len(events)])

\* The elements of a finite set in a strict order.
InOrder(S, less(_, _)) ==
  CHOOSE s \in [1..Cardinality(S) -> S] : \A m, n \in DOMAIN s : m < n => less(s[m], s[n])

\* Positions are ordered by version, then by primary key.
Before(p, q) == p.ver < q.ver \/ (p.ver = q.ver /\ p.key < q.key)

-----------------------------------------------------------------------------
\* applyAllowed; broadcastAllowed is the same rule for the sender.
Allowed(mode, op) ==
  CASE mode = "insert_only" -> op = "insert"
    [] mode = "upsert"      -> op # "delete"
    [] OTHER                -> TRUE

\* compareCursorOrderedEvents; a batch of polling has one table and one region.
CursorOrder(e, f) == Before(Position(e), Position(f))

\* The events applyBatch hands on, in the order of the batch; those of polling are sorted
\* for the cursor, and the sort is stable.
Prepared(events, mode, sortForCursor) ==
  LET allowed == {i \in DOMAIN events : Allowed(mode, events[i].op)}
      sorted(i, j) == sortForCursor /\ CursorOrder(events[i], events[j])
      order == InOrder(allowed, LAMBDA i, j : sorted(i, j) \/ (i < j /\ ~sorted(j, i)))
  IN  [n \in DOMAIN order |-> events[order[n]]]

\* Deliberately wrong variant of Stale: an event at the cursor is applied again.
StaleByVersion(e, cursor) == e.ver < cursor.ver

\* isStaleCursorPosition.
Stale(e, cursor) == ~ Before(cursor, Position(e))

\* The loop over the events with the running cursor of each table.
FilterEvent(acc, e) ==
  IF Stale(e, acc.cursors[e.table]) THEN acc
  ELSE [kept |-> Append(acc.kept, e), cursors |-> [acc.cursors EXCEPT ![e.table] = Position(e)]]

FilterStale(cursors, events) ==
  LET filtered[n \in 0..Len(events)] ==
        IF n = 0 THEN [kept |-> <<>>, cursors |-> cursors] ELSE FilterEvent(filtered[n - 1], events[n])
  IN  filtered[Len(events)]

-----------------------------------------------------------------------------
(* The three statements, for one row.                                       *)

\* The owner conditions of the conflict clause and of the DELETE.
Owned(row, peer) == row.owner \in {"null", peer}
\* Columns after some of them were set.
Overwritten(vals, fields) == [c \in Cols |-> IF c \in DOMAIN fields THEN fields[c] ELSE vals[c]]
\* The row an event leaves: its columns, and the peer as owner.
Written(row, e, peer) == [owner |-> peer, vals |-> Overwritten(row.vals, e.fields)]

\* Deliberately wrong variant of Upserted: the conflict clause ignores the owner.
UpsertedAnyOwner(row, e, peer, mode) ==
  IF row = NoRow \/ mode # "insert_only" THEN Written(row, e, peer) ELSE row

\* INSERT ... ON CONFLICT: rows of other owners stay as they are.
Upserted(row, e, peer, mode) ==
  IF row = NoRow \/ (mode # "insert_only" /\ Owned(row, peer)) THEN Written(row, e, peer) ELSE row

\* UPDATE of the columns the event carries, if the row exists and is the peer's.
PartiallyUpdated(row, e, peer, mode) ==
  IF mode # "insert_only" /\ row.owner = peer THEN Written(row, e, peer) ELSE row

Deleted(row, peer) == IF Owned(row, peer) THEN NoRow ELSE row

Effect(row, e, peer, mode) ==
  CASE e.op = "delete" -> Deleted(row, peer)
    [] e.op = "update" -> PartiallyUpdated(row, e, peer, mode)
    [] OTHER           -> Upserted(row, e, peer, mode)

\* applyEventsBatch: the last event per primary key wins.  The statements of a
\* table touch different keys, so their order does not show.
LastFor(id, events) == Max({0} \cup {i \in DOMAIN events : IdOf(events[i]) = id})

ApplyEvents(rows, events, peer, mode) ==
  [id \in DOMAIN rows |->
     LET i == LastFor(id, events)
     IN  IF i = 0 THEN rows[id] ELSE Effect(rows[id], events[i], peer, mode)]

\* CommitStateAppliedTransaction, on what applyBatch prepared.
Commit(state, events, peer, mode, sortForCursor) ==
  LET f == FilterStale(state.cursors, Prepared(events, mode, sortForCursor))
  IN  [rows |-> ApplyEvents(state.rows, f.kept, peer, mode), cursors |-> f.cursors]

-----------------------------------------------------------------------------
\* Reference: the kept events one after the other.
ApplyInOrder(rows, events, peer, mode) ==
  LET after[n \in 0..Len(events)] ==
        IF n = 0 THEN rows
        ELSE [after[n - 1] EXCEPT ![IdOf(events[n])] = Effect(@, events[n], peer, mode)]
  IN  after[Len(events)]

\* Ids on which keeping only the last event of a batch loses an earlier one.
Collapsed(rows, events, peer, mode) ==
  {id \in DOMAIN rows : ApplyEvents(rows, events, peer, mode)[id]
                        # ApplyInOrder(rows, events, peer, mode)[id]}
=============================================================================
