---------------------------- MODULE CaptureProofs ----------------------------
(***************************************************************************)
(* Proofs about Capture, for any number of peers, tables, keys, columns,   *)
(* transactions and message lengths, and every order in which batches are  *)
(* staged, staged again, applied and acked.                                *)
(*                                                                         *)
(* Who owns a row needs no more than the three statements. The rest stands *)
(* on CaptureBasics: the predecessors of the commit the slot stands behind *)
(* have reached every peer (StagedIsSafe), and the changes of a key reach  *)
(* a peer in their order (KeysInOrder).  So a peer's row is the fold of    *)
(* the changes of its key that the peer has applied (RowsAreReplayed).     *)
(***************************************************************************)
EXTENDS CaptureBasics

\* Leaves without a backend of their own are Zenon's.
USE ZenonT(300)

LEMMA FreshRows ==
  ASSUME NEW p \in Peers
  PROVE  /\ DOMAIN Fresh(p).rows = Ids
         /\ \A id \in PeerOwned[p] : id \in Ids /\ Fresh(p).rows[id].owner = p
<1>1. PeerOwned[p] \subseteq Ids
  BY SMTT(300), CaptureAssumption
<1>2. DOMAIN Fresh(p).rows = Ids
  BY SMTT(300) DEF Fresh
<1>3. ASSUME NEW id \in PeerOwned[p] PROVE Fresh(p).rows[id].owner = p
  BY SMTT(300), <1>1, <1>3 DEF Fresh, NoRow
<1> QED
  BY SMTT(300), <1>1, <1>2, <1>3

\* A row the peer region owns is never touched by what another region sends, for any modes,
\* batch limits, message lengths, restarts and lost Acks (the owner conditions of the upsert,
\* the UPDATE and the DELETE).
THEOREM OwnersKeepTheirRows == Spec => []PeerOwnedRowsUntouched
<1> DEFINE Inv == /\ DOMAIN peer = Peers /\ \A p \in Peers : DOMAIN peer[p].rows = Ids
                  /\ PeerOwnedRowsUntouched
<1>1. Init => Inv
  BY SMTT(300), FreshRows DEF Init, PeerOwnedRowsUntouched
<1>2. Inv /\ [Next]_vars => Inv'
  <2> SUFFICES ASSUME Inv, [Next]_vars PROVE Inv'
    BY SMTT(300)
  <2>1. CASE UNCHANGED peer
    BY SMTT(300), <2>1 DEF PeerOwnedRowsUntouched
  <2>2. ASSUME NEW q \in Peers, PeerApply(q) PROVE Inv'
    <3> DEFINE state == Commit(peer[q], Head(outbox[q]), Local, ApplyMode, FALSE)
    <3>1. peer' = [peer EXCEPT ![q] = state]
      BY SMTT(300), <2>2 DEF PeerApply
    <3> DEFINE kept == FilterStale(peer[q].cursors, Prepared(Head(outbox[q]), ApplyMode, FALSE)).kept
    <3>0. state.rows = ApplyEvents(peer[q].rows, kept, Local, ApplyMode)
      BY SMTT(300) DEF Commit
    <3> HIDE DEF kept, state
    <3>2. DOMAIN state.rows = Ids
      BY SMTT(300), <3>0, ApplyKeepsForeign
    <3>3. ASSUME NEW id \in Ids, id \in PeerOwned[q] PROVE state.rows[id] = peer[q].rows[id]
      <4>1. peer[q].rows[id].owner = q
        BY SMTT(300), <3>3, FreshRows DEF PeerOwnedRowsUntouched
      <4>2. q \notin {Local, "null", "absent"}
        BY SMTT(300), CaptureAssumption
      <4> QED
        BY SMTT(300), <3>0, <4>1, <4>2, ApplyKeepsForeign
    <3>4. DOMAIN peer' = Peers /\ \A p \in Peers : DOMAIN peer'[p].rows = Ids
      BY SMTT(300), <3>1, <3>2
    <3>5. PeerOwnedRowsUntouched'
      <4> SUFFICES ASSUME NEW p \in Peers, NEW id \in Ids, id \in PeerOwned[p]
                   PROVE  peer'[p].rows[id] = Fresh(p).rows[id]
        BY SMTT(300) DEF PeerOwnedRowsUntouched
      <4> QED
        BY SMTT(300), <3>1, <3>3 DEF PeerOwnedRowsUntouched
    <3> QED
      BY SMTT(300), <3>4, <3>5
  <2>3. Source => UNCHANGED peer
    <3>1. ASSUME NEW t, NEW op, NEW old, NEW id, NEW owner, NEW cols, Write(t, op, old, id, owner, cols)
          PROVE  UNCHANGED peer
      BY SMTT(300), <3>1 DEF Write
    <3>2. \A t : SourceCommit(t) => UNCHANGED peer
      BY DEF SourceCommit
    <3>3. \A t, id : SourceInsert(t, id) \/ SourceDelete(t, id) => UNCHANGED peer
      BY <3>1 DEF SourceInsert, SourceDelete
    <3>4. \A t, old, id : SourceUpdate(t, old, id) => UNCHANGED peer
      BY <3>1 DEF SourceUpdate
    <3> QED
      BY <3>2, <3>3, <3>4 DEF Source
  <2>4. Producer => UNCHANGED peer
    BY SMTT(300) DEF Producer, StartSession, DecodeEmpty, DecodeTransaction, DecodeError, FinishBatch,
           ConfirmSlot, SessionFails, EnqueueChunk
  <2>5. UNCHANGED vars => UNCHANGED peer
    BY DEF vars
  <2> QED
    BY SMTT(300), <2>1, <2>2, <2>3, <2>4, <2>5 DEF Next
<1>3. Inv => PeerOwnedRowsUntouched
  OBVIOUS
<1> QED
  BY <1>1, <1>2, <1>3, PTL DEF Spec

-----------------------------------------------------------------------------
(* The order of the changes of a key, step by step.                         *)

LEMMA KeysStep ==
  ASSUME Types, WalIsOrdered, RowsAreLocked, SessionIsOrdered, StagedInChunks, StagedIsReached, StagedIsSafe, BatchesAreChunks,
         AppliedIsBehind, KeysInOrder, [Next]_vars
  PROVE  KeysInOrder'
<1>1. ASSUME NEW p \in Peers, NEW c \in Commits, NEW i \in SentOf(c), Allowed(ApplyMode, wal[i].op),
             i \notin shadowed[p], NEW j \in applied'[p], i < j, wal[i].id = wal[j].id
      PROVE  IsOver(p, c, i)'
  <2>1. CASE j \in applied[p]
    <3>1. IsOver(p, c, i)
      BY <1>1, <2>1 DEF KeysInOrder
    <3> QED
      BY <3>1, OverStays
  <2>2. CASE j \notin applied[p]
    <3>1. /\ PeerApply(p) /\ 1 \in DOMAIN outbox[p] /\ Head(outbox[p]) = outbox[p][1]
          /\ ChangeEvent(j) \in Range(outbox[p][1]) /\ ChangeEvent(j).at = j
      BY <2>2, AppliedAdds
    <3>2. IdOf(ChangeEvent(j)) = wal[j].id
      <4>1. PICK d \in Commits : j \in SentOf(d)
        BY <2>2, AppliedAdds
      <4> QED
        BY <4>1, SentEvent
    <3>3. IsOver(p, c, i) \/ \E m \in 1..1 : ChangeEvent(i) \in Range(outbox[p][m])
      <4> DEFINE f == ChangeEvent(j)
      <4>1. f \in Range(outbox[p][1]) /\ i < f.at /\ wal[i].id = IdOf(f)
        BY <1>1, <3>1, <3>2
      <4> HIDE DEF f
      <4> QED
        BY <1>1, <3>1, <4>1 DEF KeysInOrder
    <3>4. ASSUME NEW m \in 1..1, ChangeEvent(i) \in Range(outbox[p][m]) PROVE IsOver(p, c, i)'
      <4>1. m = 1
        BY SMTT(300)
      <4>2. Processed(p, i)'
        BY <1>1, <3>1, <3>4, <4>1, HeadIsProcessed
      <4> QED
        BY <4>2 DEF IsOver
    <3> QED
      BY <3>3, <3>4, OverStays
  <2> QED
    BY <2>1, <2>2
<1>2. ASSUME NEW p \in Peers, NEW c \in Commits, NEW i \in SentOf(c), Allowed(ApplyMode, wal[i].op),
             i \notin shadowed[p], NEW n \in DOMAIN outbox'[p], NEW e \in Range(outbox'[p][n]), i < e.at, wal[i].id = IdOf(e)
      PROVE  \/ IsOver(p, c, i)'
             \/ \E m \in 1..n : ChangeEvent(i) \in Range(outbox'[p][m])
  <2>1. CASE outbox'[p] = outbox[p]
    <3>1. n \in DOMAIN outbox[p] /\ e \in Range(outbox[p][n])
      BY <2>1
    <3>2. IsOver(p, c, i) \/ \E m \in 1..n : ChangeEvent(i) \in Range(outbox[p][m])
      BY <1>2, <3>1 DEF KeysInOrder
    <3> QED
      BY <2>1, <3>2, OverStays
  <2>2. CASE PeerApply(p) /\ outbox'[p] = Tail(outbox[p])
    <3>1. /\ n \in Nat /\ n + 1 \in DOMAIN outbox[p] /\ outbox'[p][n] = outbox[p][n + 1]
          /\ 1 \in DOMAIN outbox[p] /\ Head(outbox[p]) = outbox[p][1]
          /\ \A m \in DOMAIN outbox[p] : m # 1 => m - 1 \in DOMAIN outbox'[p] /\ outbox'[p][m - 1] = outbox[p][m]
      BY <2>2, OutboxAfterAck
    <3>2. IsOver(p, c, i) \/ \E m \in 1..(n + 1) : ChangeEvent(i) \in Range(outbox[p][m])
      BY <1>2, <3>1 DEF KeysInOrder
    <3>3. ASSUME NEW m \in 1..(n + 1), ChangeEvent(i) \in Range(outbox[p][m])
          PROVE  \/ IsOver(p, c, i)'
                 \/ \E k \in 1..n : ChangeEvent(i) \in Range(outbox'[p][k])
      <4>1. CASE m = 1
        <5>1. Processed(p, i)'
          BY <1>2, <2>2, <3>1, <3>3, <4>1, HeadIsProcessed
        <5> QED
          BY <5>1 DEF IsOver
      <4>2. CASE m # 1
        <5>1. m - 1 \in 1..n /\ m \in 1..Len(outbox[p])
          BY SMTT(300), <3>1, <3>3, <4>2, OutboxIs
        <5>2. m \in DOMAIN outbox[p]
          BY <5>1, OutboxIs
        <5>3. outbox'[p][m - 1] = outbox[p][m]
          BY <3>1, <4>2, <5>2
        <5> QED
          BY <3>3, <5>1, <5>3
      <4> QED
        BY <4>1, <4>2
    <3> QED
      BY <3>2, <3>3, OverStays
  <2>3. CASE EnqueueChunk(p) /\ outbox'[p] = Append(outbox[p], Chunk(p))
    <3>1. handling # 0 /\ Chunk(p) \in Seq(Events)
      BY <2>3, Staging DEF EnqueueChunk
    <3>2. /\ Len(outbox[p]) + 1 \in DOMAIN outbox'[p] /\ outbox'[p][Len(outbox[p]) + 1] = Chunk(p)
          /\ \A m \in DOMAIN outbox'[p] : m \in DOMAIN outbox[p] \/ m = Len(outbox[p]) + 1
          /\ \A m \in DOMAIN outbox[p] : /\ m \in DOMAIN outbox'[p] /\ outbox'[p][m] = outbox[p][m]
                                         /\ m \in 1..(Len(outbox[p]) + 1)
      BY <2>3, <3>1, OutboxAfterEnqueue
    <3>3. CASE n \in DOMAIN outbox[p]
      <4>1. IsOver(p, c, i) \/ \E m \in 1..n : ChangeEvent(i) \in Range(outbox[p][m])
        BY ZenonT(300), <1>2, <3>2, <3>3 DEF KeysInOrder
      <4>2. \A m \in 1..n : m \in DOMAIN outbox[p]
        BY SMTT(300), <3>3, OutboxIs
      <4> QED
        BY <3>2, <4>1, <4>2, OverStays
    <3>4. CASE n = Len(outbox[p]) + 1
      <4>1. e \in Range(Chunk(p))
        BY <3>2, <3>4
      <4>2. IsOver(p, c, i) \/ IsStaged(p, i) \/ ChangeEvent(i) \in Range(Chunk(p))
        BY <1>2, <3>1, <4>1, EnqueuedInOrder
      <4>3. CASE IsOver(p, c, i)
        BY <4>3, OverStays
      <4>4. CASE IsStaged(p, i)
        BY <3>2, <3>4, <4>4 DEF IsStaged
      <4>5. CASE ChangeEvent(i) \in Range(Chunk(p))
        <5>1. n \in 1..n
          BY SMTT(300), <3>4, OutboxIs
        <5> QED
          BY <3>2, <3>4, <4>5, <5>1
      <4> QED
        BY <4>2, <4>3, <4>4, <4>5
    <3> QED
      BY <3>2, <3>3, <3>4
  <2> QED
    BY <2>1, <2>2, <2>3, OutboxStep
<1>3. ASSUME NEW p \in Peers, NEW c \in Commits', NEW i \in SentOf(c)', Allowed(ApplyMode, wal'[i].op),
             i \notin shadowed'[p], NEW j \in applied'[p], i < j, wal'[i].id = wal'[j].id
      PROVE  IsOver(p, c, i)'
  <2>1. PICK d \in Commits : j \in SentOf(d)
    BY AppliedAdds DEF AppliedIsBehind
  <2>2. wal'[j] = wal[j]
    BY <2>1, SentEvent, StepKeepsWal
  <2>3. c \in Commits /\ i \in SentOf(c) /\ wal'[i] = wal[i]
    BY <1>3, <2>1, <2>2, NewComesAfter
  <2> QED
    BY <1>1, <1>3, <2>2, <2>3, ShadowsStay
<1>4. ASSUME NEW p \in Peers, NEW c \in Commits', NEW i \in SentOf(c)', Allowed(ApplyMode, wal'[i].op),
             i \notin shadowed'[p], NEW n \in DOMAIN outbox'[p], NEW e \in Range(outbox'[p][n]), i < e.at, wal'[i].id = IdOf(e)
      PROVE  \/ IsOver(p, c, i)'
             \/ \E m \in 1..n : ChangeEvent(i)' \in Range(outbox'[p][m])
  <2>1. PICK d \in Commits : e.at \in SentOf(d) /\ e = ChangeEvent(e.at)
    <3>1. CASE \E m \in DOMAIN outbox[p] : e \in Range(outbox[p][m])
      BY <3>1, StagedEvent
    <3>2. CASE EnqueueChunk(p) /\ outbox'[p] = Append(outbox[p], Chunk(p)) /\ e \in Range(Chunk(p))
      <4>1. handling \in Commits /\ staged[p] \in 0..Len(EventsOf(handling))
        BY <3>2, Staging DEF EnqueueChunk
      <4> QED
        BY <3>2, <4>1, ChunkEvents
    <3>3. \/ \E m \in DOMAIN outbox[p] : e \in Range(outbox[p][m])
          \/ EnqueueChunk(p) /\ outbox'[p] = Append(outbox[p], Chunk(p)) /\ e \in Range(Chunk(p))
      <4>1. CASE outbox'[p] = outbox[p]
        BY <4>1
      <4>2. CASE PeerApply(p) /\ outbox'[p] = Tail(outbox[p])
        <5>1. n + 1 \in DOMAIN outbox[p] /\ outbox'[p][n] = outbox[p][n + 1]
          BY <4>2, OutboxAfterAck
        <5> QED
          BY <5>1
      <4>3. CASE EnqueueChunk(p) /\ outbox'[p] = Append(outbox[p], Chunk(p))
        <5>1. Chunk(p) \in Seq(Events)
          BY <4>3, Staging DEF EnqueueChunk
        <5>2. (n \in DOMAIN outbox[p] /\ outbox'[p][n] = outbox[p][n]) \/ outbox'[p][n] = Chunk(p)
          BY <4>3, <5>1, OutboxAfterEnqueue
        <5> QED
          BY <4>3, <5>2
      <4> QED
        BY <4>1, <4>2, <4>3, OutboxStep
    <3> QED
      BY <3>1, <3>2, <3>3
  <2> DEFINE j == e.at
  <2>2. j \in SentOf(d) /\ e = ChangeEvent(j) /\ i < j
    BY <1>4, <2>1
  <2>3. IdOf(e) = wal[j].id
    BY <2>1, SentEvent
  <2> HIDE DEF j
  <2>4. c \in Commits /\ i \in SentOf(c) /\ wal'[i] = wal[i] /\ ChangeEvent(i)' = ChangeEvent(i)
    BY <1>4, <2>1, <2>2, <2>3, NewComesAfter
  <2>5. \/ IsOver(p, c, i)'
        \/ \E m \in 1..n : ChangeEvent(i) \in Range(outbox'[p][m])
    BY <1>2, <1>4, <2>4, ShadowsStay
  <2> QED
    BY <2>4, <2>5
<1> QED
  BY <1>3, <1>4 DEF KeysInOrder

-----------------------------------------------------------------------------
(* The results.                                                             *)

LEMMA TypesInit ==
  ASSUME Init
  PROVE  Types
<1>1. wal \in Seq(Changes \cup CommitRecords)
  <2> DEFINE R == Changes \cup CommitRecords
  <2> HIDE DEF R
  <2>1. wal \in Seq(R)
    BY SMTT(300) DEF Init
  <2> QED
    BY <2>1 DEF R
<1>0. [c \in Cols |-> 0] \in [Cols -> 0..MaxValue]
  <2>1. 0 \in 0..MaxValue
    BY SMTT(300), CaptureAssumption
  <2> QED
    BY <2>1
<1>2. ASSUME NEW regions, NEW r \in regions
      PROVE  [NoRow EXCEPT !.owner = r] \in RowType(regions) /\ NoRow \in RowType(regions)
  <2> DEFINE z == [c \in Cols |-> 0]
  <2>1. NoRow = [owner |-> "absent", vals |-> z]
    BY DEF NoRow
  <2>2. z \in [Cols -> 0..MaxValue]
    BY <1>0
  <2> HIDE DEF z
  <2>3. [NoRow EXCEPT !.owner = r] = [owner |-> r, vals |-> z]
    BY SMTT(300), <2>1
  <2>4. [owner |-> r, vals |-> z] \in RowType(regions) /\ NoRow \in RowType(regions)
    BY <2>2 DEF RowType
  <2> QED
    BY <2>3, <2>4
<1>3. ASSUME NEW regions, Local \in regions PROVE InitialSource \in [Ids -> RowType(regions)]
  BY <1>2, <1>3 DEF InitialSource
<1>4. src \in [Ids -> RowType({Local, "elsewhere"})]
  BY <1>3 DEF Init
<1>5. ASSUME NEW p \in Peers PROVE Fresh(p) \in PeerStates
  <2> DEFINE T == RowType(Peers \cup {Local})
  <2>1. InitialSource \in [Ids -> T] /\ [NoRow EXCEPT !.owner = p] \in T
    BY <1>2, <1>3
  <2> HIDE DEF T
  <2>2. [id \in Ids |-> IF id \in PeerOwned[p] THEN [NoRow EXCEPT !.owner = p] ELSE InitialSource[id]] \in [Ids -> T]
    BY <2>1
  <2>3. ZeroCursor \in CursorValues
    <3>1. 0 \in Nat /\ 0 \in Keys \cup {0}
      BY SMTT(300)
    <3> QED
      BY <3>1 DEF ZeroCursor, CursorValues
  <2>4. [t \in Tables |-> ZeroCursor] \in [Tables -> CursorValues]
    BY <2>3
  <2> QED
    BY <2>2, <2>4 DEF Fresh, PeerStates, T
<1>6. peer \in [Peers -> PeerStates]
  BY <1>5 DEF Init
<1>7. outbox \in [Peers -> Seq(Seq(Events))]
  <2> DEFINE B == Seq(Seq(Events))
  <2>1. <<>> \in B
    BY SMTT(300)
  <2> HIDE DEF B
  <2>2. outbox \in [Peers -> B]
    BY <2>1 DEF Init
  <2> QED
    BY <2>2 DEF B
<1>8. 0 \in Nat /\ LSN(1) \in Nat /\ 0 \in 0..MaxFaults
  BY SMTT(300), CaptureAssumption DEF LSN
<1>9. shadowed \in [Peers -> SUBSET DOMAIN wal]
  BY DEF Init
<1> QED
  BY <1>1, <1>4, <1>6, <1>7, <1>8, <1>9 DEF Init, Types

LEMMA InvInit ==
  ASSUME Init
  PROVE  IInv
<1>1. Types
  BY TypesInit
<1>2. DOMAIN wal = {} /\ Len(wal) = 0
  BY SMTT(300) DEF Init
<1>3. Commits = {}
  BY <1>2 DEF Commits
<1>4. WalIsOrdered
  <2>1. Cardinality(Commits) = 0
    BY <1>3, FS_EmptySet
  <2>2. Len(wal) - Cardinality(Commits) <= MaxChanges
    BY SMTT(300), <1>2, <2>1, CaptureAssumption
  <2> QED
    BY <1>2, <1>3, <2>2 DEF WalIsOrdered
<1>5. RowsAreLocked
  BY <1>2 DEF RowsAreLocked
<1>6. /\ on = FALSE /\ last = 0 /\ slot = LSN(1) /\ handling = 0 /\ staged = [p \in Peers |-> 0] /\ handled = {}
      /\ applied = [p \in Peers |-> {}] /\ \A p \in Peers : outbox[p] = <<>>
  BY DEF Init
<1>7. SessionIsOrdered
  BY <1>6 DEF SessionIsOrdered, IsStop
<1>8. StagedInChunks /\ StagedIsReached
  BY <1>6 DEF StagedInChunks, StagedIsReached
<1>9. \A p \in Peers : DOMAIN outbox[p] = {}
  <2>1. DOMAIN <<>> = {}
    BY SMTT(300)
  <2> QED
    BY <1>6, <2>1
<1>10. BatchesAreChunks
  BY <1>9 DEF BatchesAreChunks
<1>11. AppliedIsBehind
  BY <1>6 DEF AppliedIsBehind
<1>12. StagedIsSafe /\ HandledIsReached /\ KeysInOrder
  BY <1>3, <1>6 DEF StagedIsSafe, HandledIsReached, KeysInOrder
<1> QED
  BY <1>1, <1>4, <1>5, <1>7, <1>8, <1>10, <1>11, <1>12 DEF IInv, Basics

LEMMA BasicsStep ==
  ASSUME Basics, [Next]_vars
  PROVE  Basics'
BY TypesStep, WalOrderStep, RowLocksStep, SessionStep, StagedChunksStep, ChunksStep, AppliedStep DEF Basics

LEMMA IInvStep ==
  ASSUME IInv, [Next]_vars
  PROVE  IInv'
BY BasicsStep, StagedStep, SafeStep, HandledStep, KeysStep DEF IInv, Basics

LEMMA SentIsBounded ==
  ASSUME Types, WalIsOrdered, NEW c \in Commits
  PROVE  Len(EventsOf(c)) \in 0..MaxChanges
<1> DEFINE D == DOMAIN wal
<1>1. c \in D /\ D = 1..Len(wal) /\ Len(wal) \in Nat
  BY WalParts DEF Commits
<1>2. IsFiniteSet(D) /\ Cardinality(D) = Len(wal)
  BY <1>1, IntervalIs
<1>3. D \cap Commits = Commits
  BY DEF Commits
<1>4. SentOf(c) \in SUBSET (D \ Commits) /\ Len(EventsOf(c)) = Cardinality(SentOf(c)) /\ Len(EventsOf(c)) \in Nat
  BY <1>1, SentParts, EventsAre DEF Commits
<1> HIDE DEF D
<1>5. IsFiniteSet(D \ Commits) /\ Cardinality(D \ Commits) = Cardinality(D) - Cardinality(D \cap Commits)
  BY <1>2, FS_Difference
<1>6. Cardinality(SentOf(c)) <= Cardinality(D \ Commits)
  BY <1>4, <1>5, FS_Subset
<1>7. Cardinality(D \ Commits) = Len(wal) - Cardinality(Commits)
  BY <1>2, <1>3, <1>5
<1>8. Len(wal) - Cardinality(Commits) <= MaxChanges /\ Cardinality(Commits) \in 0..MaxTx /\ MaxTx \in Nat /\ MaxChanges \in Nat
  BY CommitsAreFew, CaptureAssumption DEF WalIsOrdered
<1> QED
  BY SMTT(300), <1>1, <1>4, <1>6, <1>7, <1>8

\* Type correctness, with the bounds: no chunk is empty or longer than max_batch_events, and
\* whatever is applied was written.
THEOREM TypeCorrect == Spec => []TypeOK
<1>1. Init => Basics
  BY InvInit DEF IInv
<1>2. Basics /\ [Next]_vars => Basics'
  BY BasicsStep
<1>3. Basics => TypeOK
  <2> SUFFICES ASSUME Basics PROVE TypeOK
    OBVIOUS
  <2>0. Types /\ WalIsOrdered /\ SessionIsOrdered /\ StagedInChunks /\ BatchesAreChunks /\ AppliedIsBehind
    BY DEF Basics
  <2>1. Len(wal) <= MaxTx + MaxChanges /\ \A i \in DOMAIN wal : i \in Indices
    <3>1. Len(wal) \in 0..(MaxTx + MaxChanges) /\ DOMAIN wal = 1..Len(wal)
      BY <2>0, CommitsAreFew, WalParts
    <3> QED
      BY SMTT(300), <3>1, CaptureAssumption DEF Indices
  <2>2. last \in Commits \cup {0} /\ handling \in Commits \cup {0} /\ handled \subseteq Commits
    BY <2>0 DEF SessionIsOrdered, Decoded
  <2>3. staged \in [Peers -> 0..MaxChanges]
    <3>1. CASE handling = 0
      <4>1. staged = [p \in Peers |-> 0]
        BY <2>0, <3>1 DEF SessionIsOrdered
      <4>2. 0 \in 0..MaxChanges
        BY SMTT(300), CaptureAssumption
      <4> QED
        BY <4>1, <4>2
    <3>2. CASE handling # 0
      <4>1. ASSUME NEW p \in Peers PROVE staged[p] \in 0..MaxChanges
        <5>1. staged[p] \in 0..Len(EventsOf(handling)) /\ handling \in Commits
          BY <2>0, <3>2, Staging
        <5>2. Len(EventsOf(handling)) \in 0..MaxChanges
          BY <2>0, <5>1, SentIsBounded
        <5> DEFINE L == Len(EventsOf(handling))
        <5>3. staged[p] \in 0..L /\ L \in 0..MaxChanges /\ MaxChanges \in Nat
          BY <5>1, <5>2, CaptureAssumption
        <5> HIDE DEF L
        <5> QED
          BY SMTT(300), <5>3
      <4>2. staged \in [Peers -> Nat]
        BY <2>0 DEF Types
      <4> QED
        BY SMTT(300), <4>1, <4>2
    <3> QED
      BY <3>1, <3>2
  <2>4. ASSUME NEW p \in Peers, NEW n \in DOMAIN outbox[p] PROVE Len(outbox[p][n]) \in 1..conf.maxEvents
    <3>1. PICK c \in Commits : \E s \in 0..Len(EventsOf(c)) :
            IsBoundary(c, s) /\ s < Len(EventsOf(c)) /\ outbox[p][n] = Part(c, s)
      BY <2>0 DEF BatchesAreChunks
    <3>2. PICK s \in 0..Len(EventsOf(c)) : s < Len(EventsOf(c)) /\ outbox[p][n] = Part(c, s)
      BY <3>1
    <3> DEFINE L == Len(EventsOf(c))
               M == conf.maxEvents
               x == End(c, s)
    <3>3. /\ x \in 1..L /\ s < x /\ x <= s + M /\ Len(Part(c, s)) = x - s
      BY <2>0, <3>2, LastOfPart, PartIs
    <3>4. M \in Nat \ {0} /\ L \in Nat /\ s \in 0..L /\ Len(outbox[p][n]) = x - s
      BY <2>0, <3>2, <3>3, ConfIs, EventsAre DEF Commits
    <3> HIDE DEF L, M, x
    <3>5. x - s \in 1..M
      BY SMTT(300), <3>3, <3>4
    <3> QED
      BY <3>4, <3>5 DEF M
  <2>5. applied \in [Peers -> SUBSET Indices]
    <3>1. ASSUME NEW p \in Peers PROVE applied[p] \in SUBSET Indices
      <4>1. ASSUME NEW j \in applied[p] PROVE j \in DOMAIN wal
        BY <2>0, SentEvent DEF AppliedIsBehind
      <4> QED
        BY <2>1, <4>1
    <3>2. applied \in [Peers -> SUBSET Nat]
      BY <2>0 DEF Types
    <3> QED
      BY <3>1, <3>2
  <2>6. ASSUME NEW p \in Peers
        PROVE  /\ peer[p].rows \in [Ids -> RowType(Peers \cup {Local})]
               /\ peer[p].cursors \in [Tables -> [ver : Nat, key : Keys \cup {0}]]
    BY <2>0, PeerParts DEF CursorValues
  <2>7. shadowed \in [Peers -> SUBSET Indices]
    <3>1. shadowed \in [Peers -> SUBSET DOMAIN wal]
      BY <2>0 DEF Types
    <3>2. \A p \in Peers : shadowed[p] \in SUBSET Indices
      BY <2>1, <3>1
    <3> QED
      BY <3>1, <3>2
  <2> QED
    BY <2>0, <2>1, <2>2, <2>3, <2>4, <2>5, <2>6, <2>7 DEF Types, TypeOK
<1> QED
  BY <1>1, <1>2, <1>3, PTL DEF Spec

\* A transaction the slot has passed was staged for every peer, whatever failed in between: the
\* Enqueue of one peer, the session, the region, an Ack; for any max_batch_events, modes and sizes.
\* Left out are the one behind a handled transaction, which the slot oversteps, and what a peer got
\* another change of the same version for (durableLSN, nextLSN, enqueueBatch).
THEOREM ConfirmedIsStaged == Spec => []ConfirmedIsStagedForAll
<1>1. Init => IInv
  BY InvInit
<1>2. IInv /\ [Next]_vars => IInv'
  BY IInvStep
<1>3. IInv => ConfirmedIsStagedForAll
  <2> SUFFICES ASSUME IInv, NEW c \in Commits, LSN(c) < slot, ~Overstepped(c)
               PROVE  \A p \in Peers : \A e \in Range(EventsOf(c)) : Accounted(p, e)
    BY DEF ConfirmedIsStagedForAll
  <2>1. ReachedByAll(c)
    BY DEF IInv, StagedIsSafe, Safe, HandledIsReached, Overstepped
  <2> QED
    BY <2>1 DEF ReachedByAll, Reached, Accounted
<1> QED
  BY <1>1, <1>2, <1>3, PTL DEF Spec

LEMMA MovesForward ==
  ASSUME IInv
  PROVE  NextBatchMovesForward
<1> SUFFICES ASSUME NEW p \in Peers, outbox[p] # <<>>, NEW e \in Range(Kept(p, Head(outbox[p]))),
                    e.at \notin shadowed[p], NEW j \in applied[p], wal[j].id = IdOf(e), ~(j < e.at)
             PROVE  FALSE
  BY DEF NextBatchMovesForward
<1>0. Types /\ BatchesAreChunks /\ AppliedIsBehind /\ KeysInOrder
  BY DEF IInv, Basics
<1> DEFINE batch == Head(outbox[p])
<1>1. 1 \in DOMAIN outbox[p] /\ batch = outbox[p][1] /\ batch \in Seq(Events)
  <2> DEFINE o == outbox[p]
             B == Seq(Events)
  <2>1. o \in Seq(B) /\ o # <<>>
    BY <1>0 DEF Types
  <2> HIDE DEF o, B
  <2>2. 1 \in DOMAIN o /\ Head(o) = o[1] /\ Head(o) \in B
    BY SMTT(300), <2>1
  <2> QED
    BY <2>2 DEF o, B
<1>2. /\ Range(Prepared(batch, ApplyMode, FALSE)) = {f \in Range(batch) : Allowed(ApplyMode, f.op)}
      /\ Range(Kept(p, batch)) \subseteq Range(Prepared(batch, ApplyMode, FALSE))
      /\ Before(peer[p].cursors[e.table], Position(e))
  BY <1>0, <1>1, BatchIsApplied
<1>3. e \in Range(Kept(p, batch))
  OBVIOUS
<1> HIDE DEF batch
<1>4. e \in Range(batch) /\ Allowed(ApplyMode, e.op) /\ ~Stale(e, peer[p].cursors[e.table])
  BY <1>2, <1>3 DEF Stale
<1>5. PICK c \in Commits : e.at \in SentOf(c) /\ e = ChangeEvent(e.at)
  BY <1>0, <1>1, <1>4, StagedEvent
<1> DEFINE i == e.at
<1>6. i \in SentOf(c) /\ e = ChangeEvent(i) /\ i \notin shadowed[p]
  BY <1>5
<1>7. wal[i].op = e.op /\ wal[i].id = IdOf(e) /\ wal[i].id[1] = e.table /\ i \in Nat
  BY <1>0, <1>5, SentEvent
<1>8. ~Processed(p, i)
  BY <1>4, <1>6, <1>7 DEF Processed
<1>9. i # j
  BY <1>0, <1>8 DEF AppliedIsBehind, Processed
<1>10. j \in Nat
  BY <1>0, SentEvent DEF AppliedIsBehind
<1>11. i < j
  <2> HIDE DEF i
  <2>1. ~(j < i)
    BY DEF i
  <2> QED
    BY SMTT(300), <1>7, <1>9, <1>10, <2>1
<1> HIDE DEF i
<1>12. IsOver(p, c, i)
  BY <1>0, <1>4, <1>6, <1>7, <1>11 DEF KeysInOrder
<1>13. IsStaged(p, i)
  BY <1>1, <1>4, <1>6 DEF IsStaged
<1> QED
  BY <1>8, <1>12, <1>13 DEF IsOver

\* A batch moves no row of a peer back: what it applies to a key is younger in the WAL than all the
\* peer has applied to that key, however often batches are redelivered and transactions staged
\* again, unless it was taken for another change of its version before (isStaleCursorPosition, and
\* the order of the outbox).
THEOREM BatchesMoveForward == Spec => []NextBatchMovesForward
<1>1. Init => IInv
  BY InvInit
<1>2. IInv /\ [Next]_vars => IInv'
  BY IInvStep
<1>3. IInv => NextBatchMovesForward
  BY MovesForward
<1> QED
  BY <1>1, <1>2, <1>3, PTL DEF Spec

-----------------------------------------------------------------------------
(* The rows of the peers.                                                   *)

\* Peers and source agree on what is sent, applied and not taken back: all operations.
FullSync == BroadcastMode = "full_sync" /\ ApplyMode = "full_sync"

\* What the peers are to see of a row: nothing, if another region owns it.
View(row) == IF row.owner = Local THEN row ELSE NoRow

\* The changes of a row that are sent, and whether it was moved from or to another key or owner.
ChangesAt(id) == {i \in DOMAIN wal : wal[i].kind = "change" /\ wal[i].id = id /\ IsLocal(i)}
IsUnmoved(id) ==
  \A i \in DOMAIN wal : wal[i].kind = "change" /\ id \in {wal[i].id, wal[i].old} =>
    wal[i].id = wal[i].old /\ ~wal[i].rehomed

\* g[n] is the row, as the peers are to see it, after the first n records of the WAL.
IsHistory(g, id) ==
  /\ g[Len(wal)] = View(src[id])
  /\ \A n \in 1..Len(wal) :
       g[n] = IF n \in ChangesAt(id) THEN Effect(g[n - 1], ChangeEvent(n), Local, ApplyMode) ELSE g[n - 1]

\* Of the changes C, those in S are the ones up to n.
IsUpTo(S, C, n) == \A i \in C : i \in S <=> i <= n

\* A peer that has applied the changes of a row up to n has the row as it was then.
HasRow(g, p, id) ==
  id \notin passed[p] /\ id \notin PeerOwned[p] /\ (\A i \in ChangesAt(id) : i \notin shadowed[p]) =>
    \A n \in 0..Len(wal) : IsUpTo(applied[p], ChangesAt(id), n) => peer[p].rows[id] = g[n]

RowsAreReplayed ==
  \A id \in Ids : IsUnmoved(id) => \E g : IsHistory(g, id) /\ \A p \in Peers : HasRow(g, p, id)

\* Only the changes C, of which there are none behind i and up to x, make a difference to g.
ChangesOnlyAt(g, C, N) == \A n \in 1..N : n \notin C => g[n] = g[n - 1]
NoneBetween(C, i, x) == \A n \in C : ~(i < n /\ n <= x)
IsSame(g, i, x) == g[x] = g[i]

\* Between its changes a row stays.
LEMMA RowRests ==
  ASSUME NEW N \in Nat, NEW C, NEW g, ChangesOnlyAt(g, C, N),
         NEW i \in 0..N, NEW x \in 0..N, i <= x, NoneBetween(C, i, x)
  PROVE  IsSame(g, i, x)
<1> DEFINE P == {d \in Nat : i + d <= x => g[i + d] = g[i]}
<1>1. i \in Nat /\ x \in Nat /\ i + 0 = i /\ x - i \in Nat /\ i + (x - i) = x /\ x <= x
  BY SMTT(300)
<1>2. 0 \in P
  BY <1>1
<1>3. ASSUME NEW d \in Nat, d \in P PROVE d + 1 \in P
  <2> SUFFICES ASSUME i + (d + 1) <= x PROVE g[i + (d + 1)] = g[i]
    BY SMTT(300)
  <2> DEFINE n == i + (d + 1)
  <2>1. n \in 1..N /\ n - 1 = i + d /\ i + d <= x /\ i < n /\ n <= x
    BY SMTT(300)
  <2>2. g[i + d] = g[i]
    BY <1>3, <2>1
  <2> HIDE DEF n
  <2>3. g[n] = g[n - 1]
    BY <2>1 DEF ChangesOnlyAt, NoneBetween
  <2> QED
    BY <2>1, <2>2, <2>3 DEF n
<1> HIDE DEF P
<1>4. x - i \in P
  BY <1>1, <1>2, <1>3, Induction
<1> QED
  BY SMTT(300), <1>1, <1>4 DEF P, IsSame

\* A row with the changes A, and events at the places t of the WAL that come after those.
IsRowOf(row, g, A, C, N) == \A x \in 0..N : IsUpTo(A, C, x) => row = g[x]
AreNext(t, events, g, A, C, id, from, mode) ==
  \A k \in 1..Len(events) :
    /\ t[k] \in C <=> IdOf(events[k]) = id
    /\ t[k] \in C => /\ \A j \in C : j \in A => j < t[k]
                     /\ g[t[k]] = Effect(g[t[k] - 1], events[k], from, mode)
    /\ \A l \in 1..Len(events) : k < l => t[k] < t[l]
IsLast(a, events, g, n) == a[Len(events)] = g[n]
Joined(A, t, m) == A \cup {t[k] : k \in 1..m}

\* The events of a batch, one after the other, take the row on from what was applied before them
\* to what is applied after them.
LEMMA FoldIsHistory ==
  ASSUME NEW N \in Nat, NEW C \in SUBSET (1..N), NEW A, NEW g, NEW row, NEW id, NEW from, NEW mode,
         ChangesOnlyAt(g, C, N), IsRowOf(row, g, A, C, N),
         NEW E, NEW events \in Seq(E), NEW t, AreNext(t, events, g, A, C, id, from, mode),
         NEW a, IsFold(a, row, id, events, from, mode),
         NEW n \in 0..N, IsUpTo(Joined(A, t, Len(events)), C, n)
  PROVE  IsLast(a, events, g, n)
<1> DEFINE L == Len(events)
           S(m) == Joined(A, t, m)
           P == {m \in Nat : m <= L => \A x \in 0..N : IsUpTo(S(m), C, x) => a[m] = g[x]}
<1>0. L \in Nat
  BY SMTT(300)
<1> HIDE DEF L
<1>1. 0 \in P
  <2>1. 1..0 = {}
    BY SMTT(300)
  <2>2. S(0) = A
    BY <2>1 DEF Joined
  <2> QED
    BY <2>2 DEF IsFold, IsRowOf
<1>2. ASSUME NEW m \in Nat, m \in P PROVE m + 1 \in P
  <2> SUFFICES ASSUME m + 1 <= L, NEW x \in 0..N, IsUpTo(S(m + 1), C, x) PROVE a[m + 1] = g[x]
    BY SMTT(300)
  <2> DEFINE e == events[m + 1]
             i == t[m + 1]
  <2>1. /\ m <= L /\ m + 1 \in 1..L /\ (m + 1) - 1 = m
        /\ \A k \in 1..m : k \in 1..L /\ k < m + 1 /\ k \in 1..(m + 1)
        /\ \A k \in 1..(m + 1) : k \in 1..m \/ k = m + 1
        /\ m + 1 \in 1..(m + 1)
    BY SMTT(300), <1>0
  <2>2. a[m + 1] = IF IdOf(e) = id THEN Effect(a[m], e, from, mode) ELSE a[m]
    BY <2>1 DEF IsFold, L
  <2>3. \A j : j \in S(m + 1) <=> j \in S(m) \/ j = i
    BY <2>1 DEF Joined
  <2>4. \A y \in 0..N : IsUpTo(S(m), C, y) => a[m] = g[y]
    BY <1>2, <2>1
  <2>5. CASE IdOf(e) # id
    <3>1. i \notin C
      BY <2>1, <2>5 DEF L, AreNext
    <3>2. IsUpTo(S(m), C, x)
      BY <2>3, <3>1 DEF IsUpTo
    <3> QED
      BY <2>2, <2>4, <2>5, <3>2
  <2>6. CASE IdOf(e) = id
    <3>1. /\ i \in C /\ g[i] = Effect(g[i - 1], e, from, mode)
          /\ \A j \in C : j \in A => j < i
      BY <2>1, <2>6 DEF L, AreNext
    <3>2. \A k \in 1..m : t[k] < i
      BY <2>1 DEF L, AreNext
    <3>3. \A j \in C : j \in S(m) => j < i
      BY <3>1, <3>2 DEF Joined
    <3>4. i \in S(m + 1)
      BY <2>3
    <3> HIDE DEF S, i, e
    <3>5. i <= x
      BY <3>1, <3>4 DEF IsUpTo
    <3>6. i \in 1..N /\ i - 1 \in 0..N /\ i \in 0..N /\ \A j \in C : j \in Nat /\ (j < i <=> j <= i - 1)
      BY SMTT(300), <3>1
    <3>7. ASSUME NEW j \in C PROVE j \in S(m) <=> j <= i - 1
      <4>1. ASSUME j <= i - 1 PROVE j \in S(m)
        <5>1. j < i
          BY <3>6, <4>1
        <5>2. j # i /\ j <= x
          <6>1. j \in Nat /\ i \in Nat /\ x \in Nat /\ j < i /\ i <= x
            BY SMTT(300), <3>5, <3>6, <5>1
          <6> QED
            BY SMTT(300), <6>1
        <5>3. j \in S(m + 1)
          BY <5>2 DEF IsUpTo
        <5> QED
          BY <2>3, <5>2, <5>3
      <4> QED
        BY <3>3, <3>6, <4>1
    <3>8. IsUpTo(S(m), C, i - 1)
      BY <3>7 DEF IsUpTo
    <3>9. a[m] = g[i - 1]
      BY <2>4, <3>6, <3>8
    <3>10. a[m + 1] = g[i]
      BY <2>2, <2>6, <3>1, <3>9
    <3>11. ASSUME NEW j \in C, i < j, j <= x PROVE FALSE
      <4>1. j \in S(m + 1)
        BY <3>11 DEF IsUpTo
      <4>2. j < i \/ j = i
        BY <2>3, <3>3, <4>1
      <4> QED
        BY SMTT(300), <3>6, <3>11, <4>2
    <3>12. NoneBetween(C, i, x)
      BY <3>11 DEF NoneBetween
    <3>13. IsSame(g, i, x)
      BY <3>5, <3>6, <3>12, RowRests
    <3> QED
      BY <3>10, <3>13 DEF IsSame
  <2> QED
    BY <2>5, <2>6
<1> HIDE DEF P
<1>3. L \in P
  BY <1>0, <1>1, <1>2, Induction
<1>4. IsUpTo(S(L), C, n)
  BY DEF L
<1>5. \A x \in 0..N : IsUpTo(S(L), C, x) => a[L] = g[x]
  <2>1. L <= L
    BY SMTT(300), <1>0
  <2> QED
    BY <1>3, <2>1 DEF P
<1> QED
  BY <1>4, <1>5 DEF L, IsLast

\* A batch holds changes in their order in the WAL, and so does what the peer keeps of it.
Rises(s) == \A k, l \in DOMAIN s : k < l => s[k].at < s[l].at

LEMMA BatchRises ==
  ASSUME Types, BatchesAreChunks, NEW p \in Peers, NEW n \in DOMAIN outbox[p]
  PROVE  Rises(outbox[p][n])
<1>1. PICK c \in Commits : \E s \in 0..Len(EventsOf(c)) :
        IsBoundary(c, s) /\ s < Len(EventsOf(c)) /\ outbox[p][n] = Part(c, s)
  BY DEF BatchesAreChunks
<1>2. PICK s \in 0..Len(EventsOf(c)) : outbox[p][n] = Part(c, s)
  BY <1>1
<1> DEFINE E == EventsOf(c)
           L == Len(E)
           x == End(c, s)
           b == Part(c, s)
<1>3. x \in s..L /\ DOMAIN b = 1..(x - s) /\ \A k \in 1..(x - s) : b[k] = E[s + k]
  BY <1>2, PartIs
<1>4. L \in Nat /\ \A k, l \in 1..L : k < l => E[k].at < E[l].at
  BY EventsAre DEF Commits
<1> HIDE DEF E, x, b, L
<1>5. ASSUME NEW k \in 1..(x - s), NEW l \in 1..(x - s), k < l PROVE b[k].at < b[l].at
  <2>1. s + k \in 1..L /\ s + l \in 1..L /\ s + k < s + l
    BY SMTT(300), <1>2, <1>3, <1>4, <1>5 DEF L, E
  <2> QED
    BY <1>3, <1>4, <2>1
<1> QED
  BY <1>2, <1>3, <1>5 DEF Rises, b

LEMMA KeptRises ==
  ASSUME Types, NEW p \in Peers, NEW batch \in Seq(Events), Rises(batch)
  PROVE  Rises(Kept(p, batch))
<1> DEFINE pr == Prepared(batch, ApplyMode, FALSE)
           R == {ss \in Events \X Events : ss[1].at < ss[2].at}
           kept == FilterStale(peer[p].cursors, pr).kept
<1>1. \A e \in Events : Position(e) \in Positions
  BY ZenonT(300), EventFields DEF IsPlaced
<1>2. pr \in Seq(Events) /\ KeepsOrder(pr, batch)
  BY <1>1, PreparedIs
<1>3. Kept(p, batch) = kept
  BY DEF Kept
<1> HIDE DEF pr, kept
<1>4. \A n \in DOMAIN pr : pr[n] \in Events
  <2> HIDE DEF Events
  <2> QED
    BY SMTT(300), <1>2
<1>5. \A e, f \in Events : <<e, f>> \in R <=> e.at < f.at
  <2> HIDE DEF Events
  <2> QED
    BY SMTT(300)
<1>6. ASSUME NEW m \in DOMAIN pr, NEW n \in DOMAIN pr, m < n PROVE <<pr[m], pr[n]>> \in R
  <2>1. PICK i \in DOMAIN batch, j \in DOMAIN batch : i < j /\ pr[m] = batch[i] /\ pr[n] = batch[j]
    BY <1>2, <1>6 DEF KeepsOrder
  <2>2. pr[m].at < pr[n].at
    BY <2>1 DEF Rises
  <2> QED
    BY <1>4, <1>5, <2>2
<1> HIDE DEF R
<1>7. \A m, n \in DOMAIN kept : m < n => <<kept[m], kept[n]>> \in R
  BY <1>2, <1>6, FilterInOrder DEF kept
<1>8. \A m \in DOMAIN kept : kept[m] \in Events
  <2>1. kept \in Seq(Events)
    BY <1>3, BatchIsApplied
  <2> HIDE DEF Events
  <2> QED
    BY SMTT(300), <2>1
<1> QED
  BY <1>3, <1>5, <1>7, <1>8 DEF Rises

\* The step of a peer: the row is what the changes applied so far make of it.
LEMMA PeerReplays ==
  ASSUME IInv, NEW p \in Peers, PeerApply(p), NEW id \in Ids, NEW g, IsHistory(g, id), HasRow(g, p, id)
  PROVE  HasRow(g, p, id)'
<1> DEFINE batch == Head(outbox[p])
           kept == Kept(p, batch)
           C == ChangesAt(id)
           N == Len(wal)
           A == applied[p]
           rows == peer[p].rows
           t == [k \in 1..Len(kept) |-> kept[k].at]
<1>0. Types /\ BatchesAreChunks /\ NextBatchMovesForward
  BY MovesForward DEF IInv, Basics
<1>1. UNCHANGED <<wal, shadowed>> /\ C' = C /\ N' = N
  BY DEF PeerApply, source, ChangesAt, IsLocal
<1> SUFFICES ASSUME id \notin passed'[p], id \notin PeerOwned[p], \A i \in C : i \notin shadowed[p],
                    NEW n \in 0..N, IsUpTo(applied'[p], C, n)
             PROVE  peer'[p].rows[id] = g[n]
  BY <1>1 DEF HasRow
<1>2. /\ batch \in Seq(Events) /\ 1 \in DOMAIN outbox[p] /\ batch = outbox[p][1]
      /\ peer'[p] = After(p, batch)
      /\ applied'[p] = A \cup {e.at : e \in Range(kept)} /\ passed[p] \subseteq passed'[p]
      /\ Collapsed(rows, kept, Local, ApplyMode) \subseteq passed'[p]
  BY <1>0, PeerStep
<1>3. outbox[p] # <<>>
  BY DEF PeerApply
<1>4. /\ kept \in Seq(Events) /\ Range(kept) \subseteq Range(batch)
  <2>1. /\ Range(Prepared(batch, ApplyMode, FALSE)) = {e \in Range(batch) : Allowed(ApplyMode, e.op)}
        /\ kept \in Seq(Events) /\ Range(kept) \subseteq Range(Prepared(batch, ApplyMode, FALSE))
    BY <1>0, <1>2, BatchIsApplied
  <2> HIDE DEF kept, Prepared, batch
  <2> QED
    BY <2>1
<1>5. Rises(kept)
  BY <1>0, <1>2, BatchRises, KeptRises
<1>6. DOMAIN rows = Ids /\ After(p, batch).rows = ApplyEvents(rows, kept, Local, ApplyMode)
  <2>1. DOMAIN rows = Ids
    BY <1>0, PeerParts
  <2>2. After(p, batch).rows = ApplyEvents(rows, kept, Local, ApplyMode)
    BY SMTT(300) DEF After, Commit, Kept
  <2> QED
    BY <2>1, <2>2
<1>7. \A e \in Range(kept), j \in A : e.at \notin shadowed[p] /\ wal[j].id = IdOf(e) => j < e.at
  BY <1>0, <1>3 DEF NextBatchMovesForward
<1>8. IsRowOf(rows[id], g, A, C, N)
  BY <1>2 DEF HasRow, IsRowOf
<1> HIDE DEF batch, kept, rows
<1>9. peer'[p].rows[id] = ApplyInOrder(rows, kept, Local, ApplyMode)[id]
  BY <1>2, <1>6 DEF Collapsed
<1>10. PICK a : /\ IsFold(a, rows[id], id, kept, Local, ApplyMode)
                /\ a[Len(kept)] = ApplyInOrder(rows, kept, Local, ApplyMode)[id]
  <2>1. id \in DOMAIN rows /\ kept \in Seq(Events)
    BY <1>4, <1>6
  <2> HIDE DEF Events
  <2>2. HasFold(rows, id, kept, Local, ApplyMode)
    BY <2>1, InOrderIsFold
  <2> QED
    BY <2>2 DEF HasFold
<1>11. N \in Nat /\ DOMAIN wal = 1..N
  BY <1>0, WalParts
<1>12. C \in SUBSET (1..N)
  BY <1>11 DEF ChangesAt
<1>13. ChangesOnlyAt(g, C, N)
  BY DEF ChangesOnlyAt, IsHistory
<1> DEFINE K == 1..Len(kept)
<1>14. DOMAIN kept = K /\ \A k \in K : kept[k] \in Range(kept)
  <2>1. DOMAIN kept = K
    <3> HIDE DEF Events
    <3> QED
      BY SMTT(300), <1>4
  <2> QED
    BY <2>1 DEF Range
<1>15. ASSUME NEW k \in K
       PROVE  /\ t[k] = kept[k].at /\ t[k] \in Nat /\ t[k] \in 1..N /\ wal[t[k]].id = IdOf(kept[k])
              /\ kept[k] = ChangeEvent(t[k]) /\ (IdOf(kept[k]) = id => t[k] \in C)
  <2>1. kept[k] \in Range(outbox[p][1])
    BY <1>2, <1>4, <1>14
  <2>2. PICK c \in Commits : kept[k].at \in SentOf(c) /\ kept[k] = ChangeEvent(kept[k].at)
    BY <1>0, <1>2, <2>1, StagedEvent
  <2> DEFINE i == kept[k].at
  <2>3. t[k] = i
    OBVIOUS
  <2> HIDE DEF i, t
  <2>4. i \in SentOf(c) /\ kept[k] = ChangeEvent(i)
    BY <2>2 DEF i
  <2>5. i \in DOMAIN wal /\ i \in Nat /\ wal[i].kind = "change" /\ IdOf(ChangeEvent(i)) = wal[i].id
    BY <1>0, <2>4, SentEvent
  <2>6. IsLocal(i)
    BY <2>4 DEF SentOf
  <2>7. IdOf(kept[k]) = id => i \in C
    BY <2>4, <2>5, <2>6 DEF ChangesAt
  <2>8. t[k] = kept[k].at
    BY <2>3 DEF i
  <2>9. i \in 1..N /\ wal[i].id = IdOf(kept[k])
    BY <1>11, <2>4, <2>5
  <2> QED
    BY <2>3, <2>4, <2>5, <2>7, <2>8, <2>9
<1>16. {e.at : e \in Range(kept)} = {t[k] : k \in 1..Len(kept)}
  <2>1. Range(kept) = {kept[k] : k \in K}
    BY <1>14 DEF Range
  <2> QED
    BY <2>1
<1>17. ASSUME NEW k \in 1..Len(kept), IdOf(kept[k]) = id
       PROVE  /\ t[k] \in C /\ \A j \in C : j \in A => j < t[k]
              /\ g[t[k]] = Effect(g[t[k] - 1], kept[k], Local, ApplyMode)
  <2>1. t[k] = kept[k].at /\ t[k] \in 1..N /\ t[k] \in C /\ kept[k] = ChangeEvent(t[k])
    BY <1>15, <1>17
  <2> HIDE DEF t
  <2>2. ASSUME NEW j \in C, j \in A PROVE j < t[k]
    <3>1. wal[j].id = IdOf(kept[k])
      BY <1>17 DEF ChangesAt
    <3>2. j < kept[k].at
      BY <1>7, <1>14, <2>1, <2>2, <3>1
    <3> QED
      BY <2>1, <3>2
  <2>3. g[t[k]] = Effect(g[t[k] - 1], ChangeEvent(t[k]), Local, ApplyMode)
    BY <2>1 DEF IsHistory
  <2> QED
    BY <2>1, <2>2, <2>3
<1>18. \A k \in 1..Len(kept) : t[k] \in C => IdOf(kept[k]) = id
  <2> HIDE DEF t
  <2> QED
    BY <1>15 DEF ChangesAt
<1>19. \A k, l \in 1..Len(kept) : k < l => t[k] < t[l]
  BY <1>5, <1>14 DEF Rises
<1>20. IsUpTo(Joined(A, t, Len(kept)), C, n)
  BY <1>2, <1>16 DEF Joined
<1> HIDE DEF t, C, N, A, K, Events
<1>21. AreNext(t, kept, g, A, C, id, Local, ApplyMode)
  BY <1>17, <1>18, <1>19 DEF AreNext
<1>22. IsLast(a, kept, g, n)
  BY <1>4, <1>8, <1>10, <1>11, <1>12, <1>13, <1>20, <1>21, FoldIsHistory
<1> QED
  BY <1>9, <1>10, <1>22 DEF IsLast

\* What the record that a step of the source writes shows of a row is what it does to the row.
Shows(n, k) ==
  View(src'[k]) = IF n \in ChangesAt(k)'
                  THEN Effect(View(src[k]), ChangeEvent(n)', Local, ApplyMode)
                  ELSE View(src[k])

LEMMA ViewOfNoRow == View(NoRow) = NoRow
BY DEF View

LEMMA WriteShows ==
  ASSUME Types, FullSync, NEW t, NEW op \in WriteOps, NEW old \in Ids, NEW id \in Ids, NEW owner,
         NEW cols \in SUBSET Cols, Write(t, op, old, id, owner, cols),
         op = "insert" => src[id] = NoRow, op = "delete" => owner = src[old].owner,
         NEW k \in Ids, IsUnmoved(k)', NEW now, now = Len(wal) + 1
  PROVE  Shows(now, k)
<1> DEFINE fields == [c \in cols |-> now]
           full == op = "update" /\ ~conf.updateDiff
           given == op = "update" /\ owner # src[old].owner
           vals == Overwritten(src[old].vals, fields)
           row == [owner |-> owner, vals |-> vals]
           sent == IF full THEN row.vals ELSE fields
           e == ChangeEvent(now)'
<1>1. PICK len \in MsgLens[op], toast \in IF full THEN BOOLEAN ELSE {FALSE} :
        wal' = Append(wal, [kind |-> "change", tx |-> t, op |-> op, id |-> id, old |-> old,
                            owner |-> owner, rehomed |-> given, len |-> len, toast |-> toast,
                            fields |-> sent])
  BY DEF Write
<1>2. src' = [src EXCEPT ![old] = NoRow, ![id] = IF op = "delete" THEN NoRow ELSE row]
  BY DEF Write
<1>3. DOMAIN src = Ids
  BY DEF Types
<1> HIDE DEF sent, row, full, given
<1> DEFINE r == [kind |-> "change", tx |-> t, op |-> op, id |-> id, old |-> old,
                 owner |-> owner, rehomed |-> given, len |-> len, toast |-> toast,
                 fields |-> sent]
<1>4. r.kind = "change" /\ r.op = op /\ r.id = id /\ r.old = old /\ r.owner = owner /\ r.fields = sent /\ r.rehomed = given
  BY SMTT(300)
<1>5. wal' = Append(wal, r)
  BY <1>1
<1> HIDE DEF r
<1>6. now \in DOMAIN wal' /\ wal'[now] = r
  <2>1. /\ DOMAIN wal' = 1..now /\ wal'[now] = r
    BY <1>5, WalGrows
  <2>2. Len(wal) \in Nat
    BY WalParts
  <2>3. now \in 1..now
    BY SMTT(300), <2>2
  <2> QED
    BY <2>1, <2>3
<1>7. e.op = op /\ e.fields = sent
  BY SMTT(300), <1>4, <1>6 DEF ChangeEvent
<1>8. now \in ChangesAt(k)' <=> id = k /\ owner = Local
  BY <1>4, <1>6 DEF ChangesAt, IsLocal
<1>9. CASE k # id /\ k # old
  <2>1. src'[k] = src[k]
    BY SMTT(300), <1>2, <1>3, <1>9
  <2> QED
    BY <1>8, <1>9, <2>1 DEF Shows
<1>10. CASE k = id \/ k = old
  <2>0. id = old /\ ~given
    BY <1>4, <1>6, <1>10 DEF IsUnmoved
  <2>1. id = old /\ k = id /\ (op # "insert" => owner = src[old].owner)
    BY <1>10, <2>0 DEF given, WriteOps
  <2>2. src'[k] = IF op = "delete" THEN NoRow ELSE row
    BY SMTT(300), <1>2, <1>3, <2>1
  <2>3. row.owner = owner /\ row.vals = vals /\ row = [owner |-> owner, vals |-> vals]
    BY SMTT(300) DEF row
  <2> HIDE DEF e
  <2>4. CASE owner # Local
    <3>1. View(src'[k]) = NoRow
      BY <2>2, <2>3, <2>4, ViewOfNoRow DEF View
    <3>2. View(src[k]) = NoRow
      BY <2>1, <2>4, ViewOfNoRow DEF View
    <3> QED
      BY <1>8, <2>4, <3>1, <3>2 DEF Shows
  <2>5. CASE owner = Local
    <3> SUFFICES View(src'[k]) = Effect(View(src[k]), e, Local, ApplyMode)
      BY <1>8, <2>1, <2>5 DEF Shows, e
    <3>1. CASE op = "insert"
      <4>1. View(src[k]) = NoRow /\ src'[k] = row /\ View(row) = row
        BY <2>1, <2>2, <2>3, <2>5, <3>1, ViewOfNoRow DEF View
      <4>2. Effect(NoRow, e, Local, ApplyMode) = Written(NoRow, e, Local)
        BY <1>7, <3>1 DEF Effect, Upserted
      <4>3. Written(NoRow, e, Local) = [owner |-> Local, vals |-> Overwritten(NoRow.vals, sent)]
        BY <1>7 DEF Written
      <4>4. sent = fields /\ src[old] = NoRow
        BY <2>1, <3>1 DEF sent, full
      <4> QED
        BY <2>3, <2>5, <4>1, <4>2, <4>3, <4>4
    <3>2. CASE op = "update"
      <4>1. View(src[k]) = src[k] /\ src[k].owner = Local /\ src'[k] = row /\ View(row) = row
        BY <2>1, <2>2, <2>3, <2>5, <3>2 DEF View
      <4>2. Effect(src[k], e, Local, ApplyMode) = Written(src[k], e, Local)
        BY <1>7, <3>2, <4>1 DEF Effect, PartiallyUpdated, FullSync
      <4>3. Written(src[k], e, Local) = [owner |-> Local, vals |-> Overwritten(src[k].vals, sent)]
        BY <1>7 DEF Written
      <4>4. Overwritten(src[k].vals, sent) = vals
        <5>1. CASE full
          <6>1. sent = Overwritten(src[k].vals, fields)
            BY <2>1, <2>3, <5>1 DEF sent
          <6> QED
            BY <2>1, <6>1 DEF Overwritten
        <5>2. CASE ~full
          BY <2>1, <5>2 DEF sent
        <5> QED
          BY <5>1, <5>2
      <4> QED
        BY <2>3, <2>5, <4>1, <4>2, <4>3, <4>4
    <3>3. CASE op = "delete"
      <4>1. View(src[k]) = src[k] /\ src[k].owner = Local /\ src'[k] = NoRow
        BY <2>1, <2>2, <2>5, <3>3 DEF View
      <4>2. Effect(src[k], e, Local, ApplyMode) = NoRow
        BY <1>7, <3>3, <4>1 DEF Effect, Deleted, Owned
      <4> QED
        BY <4>1, <4>2, ViewOfNoRow
    <3> QED
      BY <3>1, <3>2, <3>3 DEF WriteOps
  <2> QED
    BY <2>4, <2>5
<1> QED
  BY <1>9, <1>10

LEMMA SourceShows ==
  ASSUME Types, FullSync, Source, NEW k \in Ids, IsUnmoved(k)', NEW now, now = Len(wal) + 1
  PROVE  Shows(now, k)
<1>1. ASSUME NEW t \in 1..MaxTx, SourceCommit(t) PROVE Shows(now, k)
  <2> DEFINE r == [kind |-> "commit", tx |-> t]
  <2>1. wal' = Append(wal, r) /\ UNCHANGED src
    BY <1>1 DEF SourceCommit
  <2>2. wal'[now].kind = "commit"
    <3>1. wal'[now] = r
      BY <2>1, WalGrows
    <3> QED
      BY SMTT(300), <3>1
  <2>3. now \notin ChangesAt(k)'
    BY <2>2 DEF ChangesAt
  <2> QED
    BY <2>1, <2>3 DEF Shows
<1>2. ASSUME NEW t \in 1..MaxTx, NEW id \in Ids, SourceInsert(t, id) PROVE Shows(now, k)
  <2>1. PICK owner : Write(t, "insert", id, id, owner, Cols)
    BY <1>2 DEF SourceInsert
  <2>2. src[id] = NoRow /\ "insert" \in WriteOps
    BY <1>2 DEF SourceInsert, WriteOps
  <2> QED
    BY <2>1, <2>2, WriteShows
<1>3. ASSUME NEW t \in 1..MaxTx, NEW id \in Ids, SourceDelete(t, id) PROVE Shows(now, k)
  <2>1. Write(t, "delete", id, id, src[id].owner, {})
    BY <1>3 DEF SourceDelete
  <2>2. {} \in SUBSET Cols /\ "delete" \in WriteOps /\ "delete" # "insert"
    BY DEF WriteOps
  <2> QED
    BY <2>1, <2>2, WriteShows
<1>4. ASSUME NEW t \in 1..MaxTx, NEW old \in Ids, NEW id \in Ids, SourceUpdate(t, old, id) PROVE Shows(now, k)
  <2>1. PICK c \in Cols, owner \in {Local, "elsewhere"} : Write(t, "update", old, id, owner, {c})
    BY <1>4 DEF SourceUpdate
  <2>2. {c} \in SUBSET Cols /\ "update" \in WriteOps /\ "update" # "insert" /\ "update" # "delete"
    BY DEF WriteOps
  <2> QED
    BY <2>1, <2>2, WriteShows
<1> QED
  BY <1>1, <1>2, <1>3, <1>4 DEF Source

\* A step of the source adds its record to the history of each row; the peers stay where they are.
LEMMA SourceReplays ==
  ASSUME Types, AppliedIsBehind, FullSync, Source, NEW id \in Ids, IsUnmoved(id)',
         NEW g, IsHistory(g, id), \A p \in Peers : HasRow(g, p, id)
  PROVE  \E h : IsHistory(h, id)' /\ \A p \in Peers : HasRow(h, p, id)'
<1>1. PICK N : N = Len(wal)
  OBVIOUS
<1>2. PICK now : now = Len(wal) + 1
  OBVIOUS
<1>3. PICK r : wal' = Append(wal, r)
  BY SourceWrites
<1>4. N \in Nat /\ DOMAIN wal = 1..N /\ now = N + 1 /\ now \in Nat /\ now # N /\ ~(now <= N)
  <2>1. N \in Nat /\ DOMAIN wal = 1..N
    BY <1>1, WalParts
  <2> QED
    BY SMTT(300), <1>1, <1>2, <2>1
<1>5. /\ Len(wal') = now /\ DOMAIN wal' = 1..now /\ now \notin DOMAIN wal
      /\ \A i \in DOMAIN wal' : i \in DOMAIN wal \/ i = now
      /\ \A i \in DOMAIN wal : wal'[i] = wal[i] /\ ChangeEvent(i)' = ChangeEvent(i) /\ i \in DOMAIN wal'
  BY <1>2, <1>3, WalGrows, WalKeeps
<1>6. UNCHANGED <<peer, applied, passed, shadowed>>
  BY SourceWrites DEF history
<1>7. Shows(now, id)
  BY <1>2, SourceShows
<1> DEFINE C == ChangesAt(id)
           D == ChangesAt(id)'
<1>8. /\ \A i \in DOMAIN wal : i \in D <=> i \in C
      /\ C \subseteq DOMAIN wal /\ D \subseteq DOMAIN wal'
  BY <1>5 DEF ChangesAt, IsLocal
<1>9. \A p \in Peers : now \notin applied[p]
  BY <1>5, SentEvent DEF AppliedIsBehind
<1>10. PICK h : h = [n \in 0..now |-> IF n = now THEN View(src'[id]) ELSE g[n]]
  OBVIOUS
<1>11. /\ h[now] = View(src'[id])
      /\ \A n \in 0..N : h[n] = g[n] /\ n # now /\ n \in 0..now
  <2>1. now \in 0..now /\ \A n \in 0..N : n # now /\ n \in 0..now
    BY SMTT(300), <1>4
  <2> QED
    BY <1>10, <2>1
<1> HIDE DEF C, D
<1>12. IsHistory(h, id)'
  <2> DEFINE G(n) == h[n] = IF n \in D THEN Effect(h[n - 1], ChangeEvent(n)', Local, ApplyMode) ELSE h[n - 1]
  <2> SUFFICES ASSUME NEW n \in 1..now PROVE G(n)
    BY <1>5, <1>11 DEF IsHistory, D
  <2>1. CASE n = now
    <3>1. n - 1 = N /\ N \in 0..N
      BY SMTT(300), <1>4, <2>1
    <3>2. h[n - 1] = View(src[id])
      BY <1>1, <1>11, <3>1 DEF IsHistory
    <3> QED
      BY <1>7, <1>11, <2>1, <3>2 DEF Shows, D
  <2>2. CASE n # now
    <3>1. n \in 1..N /\ n \in 0..N /\ n - 1 \in 0..N
      BY SMTT(300), <1>4, <2>2
    <3>2. g[n] = IF n \in C THEN Effect(g[n - 1], ChangeEvent(n), Local, ApplyMode) ELSE g[n - 1]
      BY <1>1, <3>1 DEF IsHistory, C
    <3>3. h[n] = g[n] /\ h[n - 1] = g[n - 1]
      BY <1>11, <3>1
    <3>4. (n \in D <=> n \in C) /\ ChangeEvent(n)' = ChangeEvent(n)
      BY <1>4, <1>5, <1>8, <3>1
    <3> QED
      BY <3>2, <3>3, <3>4
  <2> QED
    BY <2>1, <2>2
<1>13. ASSUME NEW p \in Peers PROVE HasRow(h, p, id)'
  <2> SUFFICES ASSUME id \notin passed[p], id \notin PeerOwned[p], \A i \in D : i \notin shadowed[p],
                      NEW n \in 0..now, IsUpTo(applied[p], D, n)
               PROVE  peer[p].rows[id] = h[n]
    BY <1>5, <1>6 DEF HasRow, D
  <2>1. \A m \in 0..N : IsUpTo(applied[p], C, m) => peer[p].rows[id] = g[m]
    BY <1>1, <1>8 DEF HasRow, C
  <2>2. CASE n # now
    <3>1. n \in 0..N
      BY SMTT(300), <1>4, <2>2
    <3>2. IsUpTo(applied[p], C, n)
      BY <1>8 DEF IsUpTo
    <3> QED
      BY <1>11, <2>1, <3>1, <3>2
  <2>3. CASE n = now
    <3>1. now \notin D
      <4>1. now <= now
        BY SMTT(300), <1>4
      <4> QED
        BY <1>9, <2>3, <4>1 DEF IsUpTo
    <3>2. N \in 0..N /\ \A i \in DOMAIN wal : i <= N /\ i <= now
      BY SMTT(300), <1>4
    <3>3. IsUpTo(applied[p], C, N)
      BY <1>8, <2>3, <3>2 DEF IsUpTo
    <3>4. View(src'[id]) = View(src[id])
      BY <1>7, <3>1 DEF Shows, D
    <3> QED
      BY <1>1, <1>11, <2>1, <2>3, <3>2, <3>3, <3>4 DEF IsHistory
  <2> QED
    BY <2>2, <2>3
<1> QED
  BY <1>12, <1>13

LEMMA RowsStep ==
  ASSUME IInv, FullSync, RowsAreReplayed, [Next]_vars
  PROVE  RowsAreReplayed'
<1> SUFFICES ASSUME NEW id \in Ids, IsUnmoved(id)'
             PROVE  \E h : IsHistory(h, id)' /\ \A p \in Peers : HasRow(h, p, id)'
  BY DEF RowsAreReplayed
<1>0. Types /\ AppliedIsBehind
  BY DEF IInv, Basics
<1>1. IsUnmoved(id)
  BY <1>0, StepKeepsWal DEF IsUnmoved
<1>2. PICK g : IsHistory(g, id) /\ \A p \in Peers : HasRow(g, p, id)
  BY <1>1 DEF RowsAreReplayed
<1>3. CASE Source
  BY <1>0, <1>2, <1>3, SourceReplays
<1>4. CASE UNCHANGED source
  <2>1. wal' = wal /\ src' = src
    BY <1>4 DEF source
  <2>2. IsHistory(g, id)'
    BY <1>2, <2>1 DEF IsHistory, ChangesAt, IsLocal, ChangeEvent
  <2>3. ASSUME NEW p \in Peers PROVE HasRow(g, p, id)'
    <3>1. CASE PeerApply(p)
      BY <1>2, <3>1, PeerReplays
    <3>2. CASE UNCHANGED <<applied[p], passed[p], peer[p]>>
      <4>1. HasRow(g, p, id)
        BY <1>2
      <4>2. shadowed[p] \subseteq shadowed'[p]
        BY <1>0, ShadowsStay
      <4> QED
        BY <2>1, <3>2, <4>1, <4>2 DEF HasRow, ChangesAt, IsLocal
    <3> QED
      BY <1>0, <3>1, <3>2, PeersMoveOn
  <2> QED
    BY <2>2, <2>3
<1> QED
  BY <1>3, <1>4, OthersReadTheWal DEF Next

LEMMA RowsInit ==
  ASSUME Init
  PROVE  RowsAreReplayed
<1>1. ASSUME NEW id \in Ids
      PROVE  \E g : IsHistory(g, id) /\ \A p \in Peers : HasRow(g, p, id)
  <2> DEFINE g == [n \in 0..0 |-> InitialSource[id]]
  <2>1. Len(wal) = 0 /\ 1..Len(wal) = {} /\ 0 \in 0..0 /\ \A n \in 0..Len(wal) : n = 0
    BY SMTT(300) DEF Init
  <2>2. g[0] = InitialSource[id]
    BY <2>1
  <2>3. View(src[id]) = InitialSource[id]
    <3>1. src[id] = InitialSource[id]
      BY DEF Init
    <3>2. CASE id \in Bootstrapped
      <4>1. InitialSource[id].owner = Local
        BY SMTT(300), <3>2 DEF InitialSource, NoRow
      <4> QED
        BY <3>1, <4>1 DEF View
    <3>3. CASE id \notin Bootstrapped
      <4>1. InitialSource[id] = NoRow
        BY <3>3 DEF InitialSource
      <4> QED
        BY <3>1, <4>1, ViewOfNoRow
    <3> QED
      BY <3>2, <3>3
  <2>4. ASSUME NEW p \in Peers, id \notin PeerOwned[p]
        PROVE  peer[p].rows[id] = InitialSource[id]
    <3>1. peer[p] = Fresh(p)
      BY DEF Init
    <3>2. Fresh(p).rows[id] = InitialSource[id]
      BY SMTT(300), <2>4 DEF Fresh
    <3> QED
      BY <3>1, <3>2
  <2> HIDE DEF g
  <2>5. IsHistory(g, id)
    BY <2>1, <2>2, <2>3 DEF IsHistory
  <2>6. \A p \in Peers : HasRow(g, p, id)
    BY <2>1, <2>2, <2>4 DEF HasRow
  <2> QED
    BY <2>5, <2>6
<1> QED
  BY <1>1 DEF RowsAreReplayed

\* A quiet peer has applied every change of a promised row: its transaction was handled.
LEMMA QuietHasApplied ==
  ASSUME IInv, FullSync, NEW p \in Peers, Quiet(p), NEW id \in Promised(p),
         NEW i \in ChangesAt(id)
  PROVE  i \in applied[p]
<1>0. Types /\ WalIsOrdered
  BY DEF IInv, Basics
<1>1. i \in DOMAIN wal /\ wal[i].kind = "change" /\ wal[i].id = id /\ IsLocal(i)
  BY DEF ChangesAt
<1>2. wal[i].tx \in 1..MaxTx /\ wal[i].op \in WriteOps
  BY <1>0, <1>1, WalParts, ChangeParts
<1>3. PICK c \in Commits : wal[c].tx = wal[i].tx
  BY <1>1, <1>2 DEF Quiet, ChangesOf, IsCommitted
<1>4. c \notin Lost
  BY <1>1, <1>3 DEF Promised
<1>5. ReachedByAll(c)
  BY <1>4 DEF Quiet, IInv, HandledIsReached
<1>6. i \in 1..c
  <2>1. i <= c /\ i \in 1..Len(wal) /\ c \in Nat
    BY <1>0, <1>1, <1>3, WalParts DEF WalIsOrdered, Commits
  <2> QED
    BY SMTT(300), <2>1
<1>7. Allowed(BroadcastMode, wal[i].op) /\ Allowed(ApplyMode, wal[i].op)
  BY <1>2 DEF FullSync, Allowed, WriteOps
<1>8. i \in SentOf(c)
  BY <1>1, <1>3, <1>6, <1>7 DEF SentOf
<1> DEFINE e == ChangeEvent(i)
<1>9. e \in Range(EventsOf(c)) /\ e.at = i /\ e.op = wal[i].op /\ IdOf(e) = id
  BY <1>0, <1>1, <1>8, SentEvent
<1> HIDE DEF e
<1>10. Reached(p, e)
  BY <1>5, <1>9 DEF ReachedByAll
<1>11. DOMAIN outbox[p] = {}
  <2>1. DOMAIN <<>> = {}
    BY SMTT(300)
  <2> QED
    BY <2>1 DEF Quiet
<1>12. id \notin passed[p] /\ i \notin shadowed[p]
  BY <1>1 DEF Promised
<1> QED
  BY <1>7, <1>9, <1>10, <1>11, <1>12 DEF Reached

\* When all that was committed is handled and its outbox is empty, a peer has each row that is
\* promised to it as the source has it, where both sides replicate every operation: through batches
\* staged twice, redelivered, cut into chunks and interleaved with other transactions, its row has
\* always been the source's as of some place in the WAL, and no change of the row is left
\* (HandleBatch, applyBatch, isStaleCursorPosition).
THEOREM PeersAgree == FullSync => (Spec => []QuietPeersAgree)
<1> SUFFICES ASSUME FullSync PROVE Spec => []QuietPeersAgree
  OBVIOUS
<1> DEFINE Inv == IInv /\ RowsAreReplayed
<1>1. Init => Inv
  BY InvInit, RowsInit
<1>2. Inv /\ [Next]_vars => Inv'
  BY IInvStep, RowsStep
<1>3. Inv => QuietPeersAgree
  <2> SUFFICES ASSUME Inv, NEW p \in Peers, Quiet(p), NEW id \in Promised(p)
               PROVE  peer[p].rows[id] = View(src[id])
    BY DEF QuietPeersAgree, View
  <2>1. id \in Ids /\ id \notin passed[p] /\ id \notin PeerOwned[p] /\ IsUnmoved(id)
        /\ \A i \in ChangesAt(id) : i \notin shadowed[p]
    BY DEF Promised, IsUnmoved, ChangesAt
  <2>2. PICK g : IsHistory(g, id) /\ \A q \in Peers : HasRow(g, q, id)
    BY <2>1 DEF RowsAreReplayed
  <2>3. \A i \in ChangesAt(id) : i \in applied[p]
    BY QuietHasApplied
  <2>4. Len(wal) \in 0..Len(wal) /\ \A i \in DOMAIN wal : i <= Len(wal)
    <3>1. Len(wal) \in Nat /\ DOMAIN wal = 1..Len(wal)
      BY WalParts DEF IInv, Basics
    <3> QED
      BY SMTT(300), <3>1
  <2>5. IsUpTo(applied[p], ChangesAt(id), Len(wal))
    BY <2>3, <2>4 DEF IsUpTo, ChangesAt
  <2>6. peer[p].rows[id] = g[Len(wal)]
    BY <2>1, <2>2, <2>4, <2>5 DEF HasRow
  <2> QED
    BY <2>2, <2>6 DEF IsHistory
<1> QED
  BY <1>1, <1>2, <1>3, PTL DEF Spec
=============================================================================
