# A TLA+ model of transmogr

transmogr replicates PostgreSQL tables between regions, peer to peer. This
directory holds TLA+ modules for the parts of it whose correctness depends on
the order in which concurrent steps happen, TLC configurations that check them on small
instances, and TLAPS proofs. `PROJECT.json` is the index: which definition
models which lines, which run checks what, which hazards are covered.

## The system

Each region runs several identical processes (pods) on one PostgreSQL database.

| part | code | modules |
|---|---|---|
| leases | `repository/postgres/state_leases.go`, `service/lease` | `Lease` |
| CDC producer | `service/changefeed`, `adapter/capture.go` | `Capture`, `Delivery` |
| polling producer | `service/changefeed`, `adapter/polling.go` | `Polling` |
| outbox | `service/outbox`, `repository/postgres/outbox.go` | `Delivery`, `Feed`, `Stream` |
| consume server | `transport/grpc/server` | `Stream`, `Delivery`, `Snapshot` |
| peer client | `transport/grpc/client` | `Lease`, `Delivery`, `Snapshot` |
| inbound apply | `state_events.go`, `events.go`, `service/replication` | `Apply` |
| snapshots | `service/snapshot`, `state_snapshots.go`, `snapshot.go` | `Snapshot` |
| field encryption | `pkg/crypto`, `service/crypto`, `replication/transformers` | `Keys` |
| schema migrations | `pkg/migrations`, `cmd/init` | `Migrations` |
| process and configuration | `internal/app` | `Process` |

The path of a change: the producer of a region (one pod, under a lease) reads it
from the WAL or by polling, stages it in the outbox once per peer and pushes it to
the subscriptions of its own process. The peer's client (one pod, under a lease)
has a `Consume` stream open. The handler sends a snapshot if one was asked for,
subscribes, reads a watermark, replays the pending rows up to it and then
forwards what the subscription receives. The client applies each batch
against the cursor of (peer, table) in one transaction and calls `Ack`, which
deletes the row.

## The modules

`Apply` holds operators only; `Capture` and `Polling` extend it. `Process` extends
`Migrations`, since a process starts when its init job is done. `Feed` is the abstract
specification that `Delivery` implements. The `MC...` modules instantiate a
module for TLC, the `...Proofs` modules hold theorems about it. `ControlProofs` is about `Lease`, `Keys` and
`Process` with `Migrations`, whose names differ so that one module can extend all of them. `ApplyProofs` has the lemmas about batches that
`CaptureProofs` and `PollingProofs` share, and `CaptureBasics` the first part of the argument about `Capture`.

Operators introduced as "deliberately wrong variant" are mutants: no action
uses them. Put in the place of the definition they precede, each makes a checked
property fail, which shows that the property depends on that code. Variables called
history guard no action.

### Lease

`leaseRow` is the lease row. A worker is a caller of acquire / run / release:
`RunWithLease` (producer), `runPeerLoop` (consume session), `withLease`
(snapshot worker). The three differ in what follows an error: `StopOnError` is TRUE for
the producer, whose loop returns when acquiring fails. A snapshot worker that
cannot acquire fails its stream and is tried again by the reconnect, which is
the model's "sleeping" state.

Time is relative to the database clock: `left` is the number of ticks until
`expires_at`, in the row and in the grant a worker was given. `leaseExpiry` uses the
pod's clock, so a grant lasts `TTL + Skew[w]` ticks. Each statement is atomic
(one SQL statement). A failing statement may or may not have taken effect. `Tick`
lets time pass when no renewal or release is due; `LateTick` lets it pass
beyond one, and costs a fault.

Exclusion holds for unexpired grants and distinct owners only. A holder whose renewal is
late works on after its lease expired, two workers of one process share an
owner, and the generation starts again when the row was deleted.

### Delivery and Feed

A batch is its version. The actions follow the code's transactions and
channel operations: an INSERT starts (drawing `id` and `created_at`) and commits
in two steps; publishing is a third; the handler subscribes, reads the
watermark, lists pages, sends rows one by one, forwards; the client applies and
acks; the Ack request is served, lost, or served after its session ended.

`missed[s]` records which versions session `s` will not be sent, and the first
reason: "full" (channel full), "late" (committed after the replay with a stamp
below the watermark), "unpublished" (committed, but the call failed or the process
died), "remote" (published in another pod). All four have the same effect: the peer cursor is
a high-water mark, so the batch is stale once a later one was applied; its row
survives, is replayed on the next connect, skipped and acked.
`OnlyMissedIsJumpedOver` says that besides cleanup there are no other ways.
`delivery_failover` shows the fourth.

Abstractions: one table, one peer, one event per batch; a single stamp
stands for `id` and `created_at`, which are drawn together by the only producer; a
reading of `NOW()` is the next number above the stamps in use, since stamps are only
compared. `ChanCap` counts the batch `forwardLiveBatches` holds; `QueueCap`
stands for the send queue and the stream's own buffering. Unsubscribing is
atomic with respect to publishing (`Stream` undoes that).

`Feed` is what remains without sessions, pods, channels and positions: pending
versions, the peer's cursor, what retention discarded. `ImplementsFeed` maps
`pending` to the versions in the outbox and `discarded` to `cleaned`.

### Apply, Capture and Polling

`Apply` has the way of a batch through `applyBatch` and
`CommitStateAppliedTransaction`: the mode, the sort of polling batches, the stale
filter with the running cursor of each table, the last event per key, and what the upsert,
partial update and delete statements do to one row, owner conditions included.
`Collapsed` compares this with applying the events one after the other.

`Capture` has a WAL of changes and commits of interleaved transactions with row
locks. Record `i` starts at `LSN(i)`; a change's version is that plus the length of the
decoded message, as `nextLSN` is computed. The producer decodes in commit order, leaves out rows of other
regions, stages each transaction per peer in chunks, moves `durable` and confirms it
to the slot later. Any step may be the last of a session. `passed`, `shadowed` and `Lost` name what replication
does not bring:

- changes that are stale on arrival although never applied, and changes replaced by a later one of
  their batch that is weaker, such as an insert followed by a partial update (`passed`);
- a batch whose last change has the version and the operation of a change that is pending: the outbox
  takes one for the other (`shadowed`);
- a commit record directly behind a handled one, over which `durableLSN` (end of the record
  plus length of the message) steps (`Lost`, `Overstepped`).

Two more are left out of `Promised`. A row moved to another primary key stays at the peers under
the old one. An `UPDATE` of the region column is tested on the new tuple only (`rehomed`): a row that is given to another
region stays at the peers, and the update by which one is taken over finds no row there.
A transaction with an unchanged TOAST value in a full update, or with a `DELETE` of a table without
`REPLICA IDENTITY FULL`, cannot be decoded. It ends the session, at the same transaction every time.

`Polling` separates drawing `updated_at` from committing. Pages are in database
order (`dbRank`), while the receiver compares keys with `ComparePrimaryKeys`; both
orders are tried. `missed` are rows replication passes over by design: those before the first
baseline, and those that become visible behind the position already read. The baseline is not saved. A session
that fails before its first page is saved leaves the cursor at version 0, and the next one takes the baseline again, at the
maximum of that time. Rows that came in between, were visible in time and are not staged for a peer never reach it; `rebased[p]`
has exactly these. A row that was staged for the peer is not excepted, nor is any row once a page was saved.

### Snapshot

One table's bootstrap: request, chunks, subscription, watermark, replay, completion, live.
`step` follows the transactions of `ApplyIncomingChunk`: the rows, the checkpoint, if the job was finished
its reset and the checkpoint once more (whose result is ignored), `catching_up` after the last chunk. An empty
last chunk reads the job first and writes back the key it has seen (`step.seen`), which may be old by then. `ghost` is a
chunk in the hands of a client that lost its lease and goes on. `uncaptured` are keys changed before the slot
existed after the snapshot had read them, `overwritten` those to which a ghost wrote
an old value.

### Stream

Every goroutine of `Consume` (handler, `sendLoop`, `forwardLiveBatches`) and the
publisher, with channels, capacities, closing, `errCh` and the deferred teardown.
A send on a closed channel sets `panicked`, which ends everything.

### Keys

The key manager with its retries, its merged sources and its validation, and one
encrypted field: written with the region's current key (or not encrypted),
staged, decrypted with the manager's, sent, encrypted by the peer. Values are the kinds `Encrypt`
and `Decrypt` tell apart. A NULL in an encrypted column arrives as "". Staged batches (`pending`) are sent in order. One
whose field does not decrypt ends the stream and is the first of the next one, so it holds up what is
behind it: until a refresh brings its key, or for ever if no source has that key any more. `StaleKeysOnlyDelay` says the first, and
promises nothing about the second.

### Migrations and Process

`Migrations` has jobs with a draft of the database per transaction. Nothing in the
repository calls `ApplyDown`; the model runs it as the package offers it, where undoing migration 1
drops `schema_migrations` and therefore always rolls back.

`Process` has the configuration (defaults, the rules of `Validate` about the source, the tables and the leases,
the three ways the source type is compared; the other rules are one flag, `accepted`), the start of the components, the running
group, and the stop: cancel, drain, close in reverse order, collect.

## The runs

| run | result | shows |
|---|---|---|
| `lease_producer` | holds | unexpired grants exclude each other; a punctual holder keeps its row; a live row is lost only by its own session's release; a dead holder does not block the others for ever |
| `delivery_overlap` | holds | two overlapping sessions, a producer that moves between pods, cleanup: only what was missed is jumped over; `Delivery` implements `Feed` |
| `delivery_reconnect` | holds | three faults in the life of a session; after them, all that was not missed is delivered and deleted |
| `capture` | holds | what the slot passed is staged for all peers, no row moves back, quiet peers agree with the source, rows of other owners stay |
| `polling` | holds | the saved cursor has passed nothing unstaged, timely rows reach every peer unless a baseline is taken again before they are staged, polling comes to rest |
| `snapshot` | holds | the checkpoint is behind the rows, a seeded table is complete, completion comes after catch-up, the bootstrap ends |
| `stream` | holds | messages in order and once, none after the return, every handler returns |
| `keys` | holds | keys in use are complete and change as a whole, copies open alike, stale keys only delay the next batch, readiness returns |
| `process` | holds | schema and version agree, pool outlives streams, exits are clean, polling tables have their column, stopping completes |
| `delivery_failover` | violated | batches staged while the producer was in another pod are passed by the cursor |
| `capture_commit_order` | violated | the later commit of two interleaved transactions is skipped as stale |
| `stream_closed_channel` | violated | a send on a channel that a leaving handler has closed |

The violated runs check statements of the repository's documentation or comments; each
has a finding in `PROJECT.json` that quotes the line.

### Bounds

- `Lease`: three workers, so that a third can take over while two disagree; a ttl of
  four ticks, renewal every two; three faults, enough for a lost reply, a late tick and a crash in one behaviour.
- `Delivery`: two or three versions (two suffice for one to overtake another),
  buffers of one so that they fill, pages of two, one to three faults, up to two sessions and
  pods. `MaxStamp` is never reached: stamps are renumbered from those in use.
  The two sessions of `delivery_overlap` are interchangeable, hence the symmetry set.
- `Capture`: two transactions with two changes in all, two peers, two keys, two
  columns (interchangeable), messages of 1 and 5 bytes in records of 2, so that a version passes that of the next record and is that of the
  next but one, chunks of one and of two events with and without `update_diff` and `REPLICA IDENTITY FULL`, one fault.
  Two changes are enough for interleaving, for an overtaken and for a shared version, a chunk boundary and an insert with its update.
- `Polling`: two keys, two timestamps, pages and chunks of one row, both database orders, two peers, so that one can
  have a page the other has not, one fault. Batches of several rows, which the receiver sorts, and pages that are cut differently
  after a restart are the proofs' part: they are for every page and chunk size.
- `Snapshot`: two keys, chunks of one row (three chunks, the last empty), two changes, two faults:
  one to leave a ghost behind, one to break its successor.
- `Stream`: one stream, three batches, a channel of one and a queue of two, one failing call.
  Streams share only the publisher's list, and the theorems are for any number.
- `Keys`: two ids, two sources with three contents each, two attempts, two changes, failures and writes.
- `Process`: two jobs up and one down over two migrations, one death, one failing component, fifteen configurations
  (valid ones, and ones that break a rule), one peer.

The longest run takes about three minutes. `Lease` and `Delivery` are checked for deadlock. The other runs
are not: there all bounded inputs can be used up, handlers return and processes
exit, after which nothing is left to do; their liveness properties say that they do not stop before.

### Fairness

- `Lease`: time passes, and every loop issues its next statement. A session may last for ever,
  nothing is asked of the cleanup job, and faults are bounded, not fair.
- `Delivery`: goroutines that can take a step take one (Go's scheduler and the
  blocking channel operations give this), Ack requests are served, a closed stream
  ends the client session and `runPeerLoop` opens another. New changes, cleanup
  and confirming the slot are not assumed to happen.
- `Polling` and `Snapshot`: as long as one of the goroutines can take a step, one does (weak
  fairness of their disjunction, `Work`); the lease loop starts an ended session again. Source writes and
  faults are free.
- `Stream`: weak fairness of each stream's goroutines together; a blocked `Send` of gRPC returns once
  the stream has ended. Opening and ending streams is free.
- `Keys`: the refresh ticker, answered requests, and a sender that tries again on the next stream.
- `Process`: a process that is stopping goes on stopping. Peers, signals and jobs are free.

## The proofs

For every value of the constants that satisfies the module's assumption:

| theorem | statement | further assumptions |
|---|---|---|
| `ControlProofs!LeaseTypeCorrect` | `LeaseTypeOK` | |
| `ControlProofs!GrantExclusion` | `UnexpiredGrantExclusive` | `OwnersDistinct` |
| `ControlProofs!TimelyHolder` | `TimelyHolderKeepsRow` | `OwnersDistinct`, `GrantsOutlastInterval` |
| `ControlProofs!RowSafety` | `LiveRowLostOnlyByItsRelease` | |
| `ControlProofs!TypeCorrect` | `TypeOK` of `Keys` | |
| `ControlProofs!UsableKeys` | `SnapshotIsUsable` | |
| `ControlProofs!AllOrNothing` | `RefreshIsAllOrNothing` | |
| `ControlProofs!CopyIsFaithful` | `CopyOpensAlike` | |
| `ControlProofs!ProcessTypeCorrect` | `ProcessTypeOK` | |
| `ControlProofs!SchemaIsConsistent` | `SchemaMatchesVersion` | |
| `ControlProofs!PoolIsClosedLast` | `PoolOutlivesStreams` | |
| `ControlProofs!CleanExit` | `ExitIsClean` | |
| `ControlProofs!PollingIsValidated` | `PollingTablesAreStamped` | |
| `DeliveryProofs!TypeCorrect` | `TypeOK` | |
| `DeliveryProofs!DurableStaging` | `PendingUntilCovered` | |
| `DeliveryProofs!FeedRefinement` | `ImplementsFeed` | |
| `DeliveryProofs!NoOtherHole` | `OnlyMissedIsJumpedOver` | |
| `StreamProofs!TypeCorrect` | `TypeOK` | |
| `StreamProofs!NoLateSend` | `NothingSentAfterReturn` | |
| `StreamProofs!InOrder` | `SentInOrder` | |
| `CaptureProofs!OwnersKeepTheirRows` | `PeerOwnedRowsUntouched` | |
| `CaptureProofs!TypeCorrect` | `TypeOK` | |
| `CaptureProofs!ConfirmedIsStaged` | `ConfirmedIsStagedForAll` | |
| `CaptureProofs!BatchesMoveForward` | `NextBatchMovesForward` | |
| `CaptureProofs!PeersAgree` | `QuietPeersAgree` | `FullSync` |
| `PollingProofs!TypeCorrect` | `TypeOK` | |
| `PollingProofs!CursorCoversStaged` | `SavedCursorCoversStaged` | |
| `PollingProofs!PeersHaveTimelyRows` | `QuietPeersHaveTimelyRows` | `Replicates` |
| `SnapshotProofs!TypeCorrect` | `TypeOK` | |
| `SnapshotProofs!CheckpointNeverAhead` | `CheckpointIsBehindRows` | |
| `SnapshotProofs!NoSnapshotIsSkipped` | `SeededIsComplete` | |
| `SnapshotProofs!CatchUpComesFirst` | `CompleteAfterCatchUp` | |

`LeaseTypeOK` is proved and therefore not repeated in a run; the same goes for
`PendingUntilCovered` in `delivery_reconnect`.

`ZenonT` and `SMTT` in a proof, or in the `USE` at the head of its module, name the prover that finds it. The limit of 300 seconds is
far above what any leaf takes (six at most), so that the proofs do not depend on the load of the machine.

`GrantExclusion` rests on `GrantBacked`: an active worker whose grant has not run
out finds its own owner and generation in the row, which has at least as many
ticks left. Exclusion follows because one row has one owner. The invariant also
bounds a grant by `Fresh(w)`: a renewal that takes effect but whose reply is lost
moves the row and not the grant, and must not leave the row behind it.
`TimelyHolder` adds, as long as there was no fault, that the grant outlasts the renew ticker.
`Config.Validate` demands `renew_interval < ttl`, which gives `GrantsOutlastInterval`
only if the pods' clocks are not behind the database's by the difference.

`DurableStaging` needs three facts besides the property. An Ack on its way is for
a version the cursor covers. The slot is never ahead of the producer's position.
The row being inserted is the next version, and is committed while it is being published.

`FeedRefinement` extends that invariant (`FeedInv`): whatever a page, a channel or
a queue holds was staged (is pending, covered or cleaned), and the outbox has
one row per version. Each step of `Delivery` is then one of a few kinds (`StepKinds`), each of which is a
step of `Feed` or a stutter.

`NoOtherHole` accounts for every version below the one the client is about to apply. `HoleInv` says that every smaller version has an older row
unless it is *over*, that is, covered by the cursor or cleaned (`RowsAreOrdered`), and that stamps differ. For each session it says
which versions *came*: they are over, missed or in the send queue. Rows up to `afterID`, and up to the watermark once the replay
has ended, came (`ReplayedCame`); younger ones came, are in the channel or are being published (`LiveCame`). The page holds what follows `afterID`
without a gap (`PageIsNext`), and the channel rises (`ChanRises`). `QueueIsComplete` is the goal one step earlier: what is below
a version in the queue is over, missed or before it in the queue. Each step of the system is of one of ten kinds for a session
(`StepsOfSession`), and each conjunct is kept by each kind.

`InOrder` of `StreamProofs` sees a stream as one line: the messages sent, the one in the
sender's hand, the queue. `OrderInv` says that this line increases, that nothing above the
replay's position is in it until forwarding starts, and that whatever is still to come (the batch forwarding holds, the
channel behind it, the batch being published) is above its end or will be filtered out by the
watermark. One lemma per kind of step keeps it.

`CopyIsFaithful` needs that the field on the wire is what the batch that was sent opens to, whose key the
sender held. `UsableKeys` and `AllOrNothing` follow from one place where the keys in use are assigned.

`SchemaIsConsistent` needs, per job, that only the holder of the lock is past `Lock`, that it counts
from the committed version, and how its draft differs from the database at each step. `PoolIsClosedLast` and `CleanExit`
share `LifeInv`: the closers are in the order repository, server, the rest, and the pool is open as
long as the repository is among them. `PollingIsValidated` keeps that a
configuration past `Load` is valid.

`OwnersKeepTheirRows` goes through the three statements: a row of another owner than
the sender is left alone by each, so by any batch.

The other theorems about `Capture` share one invariant in two parts. `Basics` needs nothing of
the messages. It says what a batch of the outbox is: the part of one committed transaction that begins at a
multiple of `max_batch_events`, also when an earlier session staged it. It says that the
slot, and the position a session starts from, stand right behind a commit; that a transaction writes
nothing after its commit and no row that another one holds; and that what a peer has applied is at or
behind its cursor. `TypeCorrect` follows from it, the length of the batches and the size of the WAL included.
`IInv` adds four facts. What is staged of the transaction at hand, every handled transaction, and every transaction the slot or
`durable` has passed unless it is overstepped, has *reached* the peers: each of its events is in the outbox, in `shadowed`, or was
applied or passed over, in which case the cursor is at it or behind it (`StagedIsReached`, `HandledIsReached`, `StagedIsSafe`). And
the changes of a key come to a peer in their order (`KeysInOrder`): an older change is before a younger one in
the outbox, or is stale, or is of a transaction that no session decodes again and has left the outbox.
The last is needed because a transaction may be staged again behind batches of a later one; by
then its changes are stale or still pending, and pending ones are not staged twice.

That an event is staged once rests on its id, which is made of table, key, operation and
version, and the version is a position plus a length. Two changes of one key and operation can get the same
version, and nothing in the code prevents it. `Enqueue` then takes the later one for the earlier while that is pending, and drops its
batch. The invariant does not assume such lengths away: the events of the dropped batch that were not applied before are in `shadowed`, which
counts as reached, and the order of `KeysInOrder` is claimed for the others.
A batch that is only the same one staged again has the last change of a pending batch, and is not in `shadowed` (`IsShadowed`, `PendingIsChunk`).

`PeersAgree` describes a row as what its changes make of it. A history of a row is a function `g` of the positions of the WAL
which changes only where a change of the row is sent, by what the apply statement of its event does, and which ends with the source's row as
the peers are to see it (`IsHistory`). Every row that was not moved has a history for which each peer that has applied
its changes up to some position has the row as `g` is there (`RowsAreReplayed`). A write at the source prolongs the history, because the statement
for its event does to `g` what the write does to the row (`WriteShows`, `SourceReplays`). A batch moves the peer along it, because the
events kept of a batch rise with the WAL, and changes that are skipped or replaced put the row into `passed` (`KeptRises`, `FoldIsHistory`,
`PeerReplays`). When all is quiet, every transaction that was not overstepped has been handled, has therefore reached the peer, and its changes are
applied or the row is passed over (`QuietHasApplied`). `FullSync` is needed: in the other modes deletes, or deletes and updates, are not
sent or not applied, and the rows differ as they should.

The invariant of `Polling` rests on `reach`, the furthest position a page has come to. A row that becomes visible at or before it is in
`missed`; one that a repeated baseline passes over before it is staged for `p` is in `rebased[p]`. So whatever is at or before the cursor of the session, or the saved one, is staged or one of these (`SessionIsSafe`), and whatever is at or before
the end of the page is that or on the page (`PageIsSafe`); `CursorCoversStaged` is the part about the saved cursor. `PeersHaveTimelyRows`
adds `Delivered`: a timely row that is staged is at the peer or in its outbox, and nothing it should come before, neither the peer's cursor
nor an event in the outbox, is ahead of it. Pages are in the order of the database, while a batch is sorted and compared by the receiver in
its own; the two differ only for rows of one version, which is what `Collated` names (`OrdersAgree`). `Replicates` says that both modes
let upserts through; `insert_only` does not.

The invariant of `Snapshot` is about the messages on the wire, since they make the peer's table right.
Values in a chunk are the source's or have a captured change behind them (`ChunksAreCurrent`). Whatever a chunk has
come past is at the peer, or in it or in an earlier chunk (`Prefix`), and whatever the
snapshot has come past is at the peer or on the wire (`Covered`). Pending batches are on the wire in order and
`SnapshotComplete` is behind those up to the watermark (`InOrder`). The chunk of a client that lost
its lease satisfies the same as the ones on the wire (`GhostIsBehind`), which is why its late checkpoint does no harm; so does the
key an empty last chunk has read and not yet written back (`SeenIsBehind`).

### Induction

What a loop over a batch computes is defined by a function on `0..Len(events)` (such as
`FilterStale`), and proved by induction: the set of lengths for which the claim fails has no least element
(`WFMin` and `NatLessThanWellFounded` of the library). The library's own induction rules
cannot be used, as they take the claim as an operator.

## What only TLC checks

Liveness: `Failover`, `EventuallyDrained`, `EventuallyQuiet`, `EventuallySeeded`, `HandlerReturns`,
`StaleKeysOnlyDelay`, `ReadyAgain` and `StopCompletes`. They rest on fairness and on which actions are enabled, which TLAPS does not
reach. Every safety property of a run that holds is also proved. The violated runs are counterexamples, which only TLC finds.

## Not modelled

- The handshake and the authorisation of a peer's region compare values once at the start of a
  stream and keep no state; a refused stream is one that ends.
- The reconnect delay and the list of open connections decide when a connection is tried.
  The attempt counter is reset only by a session that ended without an error.
- The field-by-field copy to and from protobuf, and generated code.
- `pkg/fanout`: nothing outside the tests publishes to it or subscribes.
- Metrics, health endpoints, logging, flag and file parsing, range checks of single settings.
- Ciphers, the PostgreSQL protocol and the key servers are taken as given. Clock skew is constant per pod.
- Sequence numbers of batches: drawn from a counter per peer and table, stored and sent, not read by the receiver.
- `insert_only`: `Allowed` and `Upserted` have it, the runs use `full_sync` and `upsert`. Polling gives every row the
  operation "upsert", which `insert_only` filters out on either side.
