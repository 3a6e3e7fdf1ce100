---------------------------- MODULE SnapshotProofs ----------------------------
(***************************************************************************)
(* Proofs about Snapshot, for any finite set of keys, any chunk size and    *)
(* any number of changes, failures and chunks in the hands of a client that *)
(* lost its lease.                                                          *)
(*                                                                         *)
(* The properties speak of the peer's table, and it is the messages under   *)
(* way that make them true: a chunk brings values that are the source's or  *)
(* have a captured change behind them (ChunksAreCurrent), no key the        *)
(* snapshot has come past is missing both at the peer and on the wire       *)
(* (Prefix, Covered), and the pending batches are on the wire in order       *)
(* (InOrder).                                                               *)
(***************************************************************************)
EXTENDS Snapshot, FiniteSetTheorems, TLAPS

\* Leaves without a backend of their own are Zenon's.
USE ZenonT(300)

Past == {"subscribe", "replay", "live"}
Parts == UNION {[S -> Values] : S \in SUBSET Keys}
Chunks == [type : {"chunk"}, vals : Parts, last : BOOLEAN]
Batches == [type : {"batch"}, at : Nat]
Messages == Chunks \cup Batches \cup {[type |-> "complete"]}

Is(n, type) == wire[n].type = type

Saves == {"checkpoint", "again"}
Steps == {Begin} \cup [at : Saves \cup {"last"}, seen : Keys \cup {0}]
JobType == [status : {"none", "pending", "snapshotting", "catching_up", "finished"},
            last : Keys \cup {0}, finished : BOOLEAN]

SourceType ==
  /\ src \in [Keys -> Values] /\ log \in Seq([key : Keys, val : Values]) /\ Len(log) <= MaxLog
  /\ slotAt \in 0..MaxLog \cup {Unborn}
OutboxType ==
  /\ staged \in Nat /\ staged <= Len(log) /\ pending \subseteq 1..staged
  /\ liveWm \in 0..staged /\ sent \in 0..staged /\ cursor \in 0..staged
StreamType ==
  /\ on \in BOOLEAN /\ requested \in BOOLEAN /\ phase \in {"none", "snapshot"} \cup Past
  /\ after \in Keys \cup {0}
ClientType ==
  /\ wire \in Seq(Messages) /\ step \in Steps
  /\ ghost \in {NoGhost} \cup [step : Steps, chunk : Chunks]
PeerType ==
  /\ rows \in [Keys -> Values] /\ job \in JobType
  /\ uncaptured \subseteq Keys /\ overwritten \subseteq Keys /\ faults \in 0..MaxFaults
Types == SourceType /\ OutboxType /\ StreamType /\ ClientType /\ PeerType

\* Without a slot nothing is staged; behind it every staged change waits or was applied.
SlotAndOutbox ==
  /\ slotAt = Unborn => staged = 0
  /\ slotAt # Unborn => slotAt <= staged
  /\ \A j \in pending : j > slotAt
  /\ \A j \in 1..staged : j > slotAt => j \in pending \/ j <= cursor

\* The source's row is what the last change of its key left.
SourceFollowsLog ==
  \A i \in 1..Len(log) :
    (\A j \in 1..Len(log) : j > i => log[j].key # log[i].key) => src[log[i].key] = log[i].val

\* The wire carries chunks, then batches and SnapshotComplete, as far as the phase has come.
WireOrder ==
  /\ ~on => wire = <<>> /\ step = Begin
  /\ step # Begin => wire # <<>> /\ Is(1, "chunk")
  /\ step.at \in Saves => DOMAIN wire[1].vals # {}
  /\ \A n, m \in 1..Len(wire) : n < m /\ Is(m, "chunk") => Is(n, "chunk")
  /\ \A n \in 1..Len(wire) :
       /\ Is(n, "batch") => /\ phase \in {"replay", "live"}
                            /\ slotAt # Unborn /\ wire[n].at \in (slotAt + 1)..sent
       /\ Is(n, "complete") => phase = "live"
       /\ Is(n, "chunk") /\ (wire[n].last \/ \E j \in DOMAIN wire[n].vals : j > after) => phase \in Past

\* Change j was applied, or its batch is among the first n messages.
Reaches(j, n) == j <= cursor \/ \E m \in 1..n : Is(m, "batch") /\ wire[m].at = j

\* Batches are sent in order, and SnapshotComplete behind those up to the watermark.
InOrder ==
  /\ on => \A j \in pending : j <= sent => Reaches(j, Len(wire))
  /\ \A n \in 1..Len(wire), j \in pending :
       (Is(n, "batch") /\ j < wire[n].at) \/ (Is(n, "complete") /\ j <= liveWm) => Reaches(j, n - 1)

\* Value v of key k is the source's, or a change that the peer will get is behind it.
Current(k, v) == v = src[k] \/ Outstanding(k) \/ k \in uncaptured

\* One of the first n messages is a chunk with k.
Brought(k, n) == \E m \in 1..n : Is(m, "chunk") /\ k \in DOMAIN wire[m].vals

\* Message n is a chunk of a snapshot that has come past k.
Passes(n, k) == Is(n, "chunk") /\ (wire[n].last \/ \E j \in DOMAIN wire[n].vals : k <= j)

ChunksAreCurrent ==
  \A n \in 1..Len(wire) : Is(n, "chunk") =>
    \A k \in DOMAIN wire[n].vals : wire[n].vals[k] # Absent /\ Current(k, wire[n].vals[k])

\* A row the peer has is accounted for.
RowsAreAccounted == \A k \in Keys : rows[k] # Absent => Accounted(k)

\* What a chunk passes is at the peer, or in that chunk or an earlier one.
Prefix ==
  /\ \A n \in 1..Len(wire), k \in Keys : Passes(n, k) => Accounted(k) \/ Brought(k, n)
  /\ step # Begin => \A k \in DOMAIN wire[1].vals : Accounted(k)

\* What the snapshot has passed is at the peer or on the wire.
Covered ==
  on => \A k \in Keys : k <= after \/ phase \in Past => Accounted(k) \/ Brought(k, Len(wire))

\* The same for the chunk in the hands of a client that lost its lease.
GhostIsBehind ==
  ghost # NoGhost =>
    /\ ghost.step.at \in Saves => DOMAIN ghost.chunk.vals # {}
    /\ \A k \in DOMAIN ghost.chunk.vals : ghost.chunk.vals[k] # Absent
    /\ \A k \in Keys : (\E j \in DOMAIN ghost.chunk.vals : k <= j) =>
         Accounted(k) \/ (ghost.step = Begin /\ k \in DOMAIN ghost.chunk.vals)

\* What a client has read of the job is at the peer, whatever has become of the job since.
SeenIsBehind ==
  \A k \in Keys : k <= step.seen \/ (ghost # NoGhost /\ k <= ghost.step.seen) => Accounted(k)

\* The queue holds QueueCap messages, a chunk ChunkSize rows.
Bounded ==
  /\ Len(wire) <= QueueCap
  /\ \A n \in 1..Len(wire) : Is(n, "chunk") => Cardinality(DOMAIN wire[n].vals) <= ChunkSize

\* A finished job stays in the phases behind the snapshot.
Finished == job.finished => phase \in Past

IInv ==
  /\ Types /\ SlotAndOutbox /\ SourceFollowsLog /\ WireOrder /\ InOrder
  /\ ChunksAreCurrent /\ RowsAreAccounted /\ Prefix /\ Covered /\ GhostIsBehind /\ Finished
  /\ CheckpointIsBehindRows /\ SeenIsBehind /\ SeededIsComplete /\ Bounded

-----------------------------------------------------------------------------
(* Least and greatest elements, and what ReadSnapshotChunk returns.         *)

LEMMA LeastExists ==
  ASSUME NEW S \in SUBSET Nat, S # {}
  PROVE  \E m \in S : \A n \in S : m <= n
<1> DEFINE R == OpToRel(<, Nat)
<1>1. IsWellFoundedOn(R, Nat)
  BY NatLessThanWellFounded
<1>2. R = {ss \in Nat \X Nat : ss[1] < ss[2]}
  BY DEF OpToRel
<1> HIDE DEF R
<1>3. PICK m \in S : \A n \in S : ~(<<n, m>> \in R)
  BY <1>1, WFMin
<1>4. \A n, k \in Nat : n < k => <<n, k>> \in R
  BY SMTT(300), <1>2
<1>5. \A n \in S : ~(n < m)
  BY <1>3, <1>4
<1>6. \A n \in S : m <= n
  BY SMTT(300), <1>5
<1> QED
  BY <1>6

LEMMA MinIsLeast ==
  ASSUME NEW S \in SUBSET Nat, S # {}
  PROVE  Min(S) \in S /\ \A n \in S : Min(S) <= n
BY LeastExists DEF Min

LEMMA MaxOfTwo ==
  ASSUME NEW a \in Int, NEW b \in Int
  PROVE  Max({a, b}) = IF a >= b THEN a ELSE b
BY SMTT(300) DEF Max

LEMMA GreatestExists ==
  ASSUME NEW S \in SUBSET Nat, IsFiniteSet(S), S # {}
  PROVE  \E m \in S : \A n \in S : m >= n
<1> DEFINE NoGreatest(T) == T # {} /\ \A m \in T : \E n \in T : ~(m >= n)
           Sizes == {Cardinality(T) : T \in {U \in SUBSET S : NoGreatest(U)}}
<1>1. SUFFICES ASSUME NoGreatest(S) PROVE FALSE
  BY SMTT(300)
<1>2. \A T \in SUBSET S : IsFiniteSet(T) /\ Cardinality(T) \in Nat
  BY FS_Subset, FS_CardinalityType
<1>3. Sizes \in SUBSET Nat /\ Sizes # {}
  <2>1. S \in {U \in SUBSET S : NoGreatest(U)}
    BY SMTT(300), <1>1
  <2> QED
    BY SMTT(300), <1>2, <2>1
<1> HIDE DEF NoGreatest
<1>4. PICK T \in SUBSET S : NoGreatest(T) /\ \A U \in SUBSET S : NoGreatest(U) => Cardinality(T) <= Cardinality(U)
  <2> DEFINE Z == Sizes
  <2> HIDE DEF Z
  <2>1. PICK c \in Z : \A d \in Z : c <= d
    BY <1>3, LeastExists DEF Z
  <2> QED
    BY SMTT(300), <2>1 DEF Z
<1>5. PICK x \in T : TRUE
  BY <1>4 DEF NoGreatest
<1> DEFINE U == T \ {x}
<1>6. Cardinality(U) = Cardinality(T) - 1
  BY SMTT(300), <1>2, <1>5, FS_RemoveElement
<1>7. ~NoGreatest(U)
  BY SMTT(300), <1>2, <1>4, <1>6
<1>8. CASE U = {}
  BY SMTT(300), <1>4, <1>5, <1>8 DEF NoGreatest
<1>9. CASE U # {}
  <2>1. PICK m \in U : \A n \in U : m >= n
    BY SMTT(300), <1>7, <1>9 DEF NoGreatest
  <2>2. \E y \in T : \A n \in T : y >= n
    <3>1. CASE x >= m
      BY SMTT(300), <2>1, <1>5, <3>1
    <3>2. CASE ~(x >= m)
      BY SMTT(300), <2>1, <1>5, <3>2
    <3> QED BY SMTT(300), <3>1, <3>2
  <2> QED
    BY SMTT(300), <2>2, <1>4 DEF NoGreatest
<1> QED
  BY SMTT(300), <1>8, <1>9

LEMMA MaxIsGreatest ==
  ASSUME NEW S \in SUBSET Nat, IsFiniteSet(S), S # {}
  PROVE  Max(S) \in S /\ \A n \in S : n <= Max(S)
<1>1. \E m \in S : \A n \in S : m >= n
  BY SMTT(300), GreatestExists
<1> QED
  BY <1>1 DEF Max

\* The elements of R that have fewer than N smaller ones: the first N, or all of R.
First(R, N) == {j \in R : Cardinality({i \in R : i < j}) < N}

LEMMA FirstOf ==
  ASSUME NEW R \in SUBSET Nat, IsFiniteSet(R), NEW N \in Nat \ {0},
         NEW K, K = First(R, N)
  PROVE  /\ K \subseteq R /\ IsFiniteSet(K) /\ Cardinality(K) <= N
         /\ Cardinality(K) < N => K = R
         /\ Cardinality(K) >= N => K # {}
         /\ \A i \in R, j \in K : i <= j => i \in K
<1> DEFINE Less(j) == {i \in R : i < j}
<1>1. \A j \in R : Less(j) \subseteq R /\ j \notin Less(j)
  BY SMTT(300)
<1>3. K \subseteq R /\ \A j \in R : j \in K <=> Cardinality(Less(j)) < N
  BY DEF First
<1>4. \A i, j \in R : i < j <=> i \in Less(j)
  OBVIOUS
<1> HIDE DEF Less
<1>2. \A i, j \in R : i <= j => Less(i) \subseteq Less(j)
  <2>1. \A i, j, n \in R : n < i /\ i <= j => n < j
    BY SMTT(300)
  <2> QED
    BY <1>1, <1>4, <2>1
<1>0. Cardinality({}) = 0
  BY FS_EmptySet
<1>5. IsFiniteSet(K) /\ Cardinality(K) \in Nat
  BY SMTT(300), <1>3, FS_Subset, FS_CardinalityType
<1>6. \A j \in R : IsFiniteSet(Less(j)) /\ Cardinality(Less(j)) \in Nat
  BY SMTT(300), <1>1, FS_Subset, FS_CardinalityType
<1>7. \A i, j \in R : i <= j => Cardinality(Less(i)) <= Cardinality(Less(j))
  BY SMTT(300), <1>2, <1>6, FS_Subset
<1>8. ASSUME NEW i \in R, NEW j \in K, i <= j PROVE i \in K
  BY SMTT(300), <1>3, <1>6, <1>7, <1>8
<1>9. ASSUME Cardinality(K) < N PROVE K = R
  <2> SUFFICES ASSUME R \ K # {} PROVE FALSE
    BY <1>3
  <2>1. PICK j \in R \ K : \A i \in R \ K : j <= i
    <3> DEFINE S == R \ K
    <3>1. S \in SUBSET Nat
      OBVIOUS
    <3> HIDE DEF S
    <3>2. S # {} => \E j \in S : \A i \in S : j <= i
      BY <3>1, LeastExists
    <3> QED
      BY <3>2 DEF S
  <2>2. \A i \in R : i < j => i \in K
    BY SMTT(300), <2>1
  <2>3. Less(j) \subseteq K
    BY <1>1, <1>4, <2>2
  <2>4. Cardinality(Less(j)) <= Cardinality(K)
    BY SMTT(300), <1>5, <2>3, FS_Subset
  <2> QED
    BY SMTT(300), <1>3, <1>5, <1>6, <1>9, <2>1, <2>4
<1>10. Cardinality(K) >= N => K # {}
  BY SMTT(300), <1>0
<1>11. Cardinality(K) <= N
  <2>1. CASE K = {}
    <3>1. Cardinality(K) = 0
      BY <1>0, <2>1
    <3> QED
      BY SMTT(300), <3>1
  <2>2. CASE K # {}
    <3>1. PICK m \in K : \A j \in K : j <= m
      BY <1>3, <1>5, <2>2, MaxIsGreatest
    <3>2. K \subseteq Less(m) \cup {m} /\ m \notin Less(m)
      <4>1. \A j \in K : j = m \/ j < m
        BY SMTT(300), <1>3, <3>1
      <4> QED
        BY <1>1, <1>3, <1>4, <4>1
    <3>3. /\ IsFiniteSet(Less(m) \cup {m})
          /\ Cardinality(Less(m) \cup {m}) = Cardinality(Less(m)) + 1
      BY <1>3, <1>6, <3>1, <3>2, FS_AddElement
    <3>4. Cardinality(K) <= Cardinality(Less(m) \cup {m})
      BY SMTT(300), <3>2, <3>3, FS_Subset
    <3>5. Cardinality(Less(m)) < N /\ Cardinality(Less(m)) \in Nat
      BY SMTT(300), <1>3, <1>6
    <3> QED
      BY SMTT(300), <1>5, <3>3, <3>4, <3>5
  <2> QED
    BY SMTT(300), <2>1, <2>2
<1> QED
  BY <1>3, <1>5, <1>8, <1>9, <1>10, <1>11

\* ReadSnapshotChunk: behind key k a chunk has every row up to its last key, or every row at
\* all if it is the last one; it is not empty unless it is the last one, and never too long.
LEMMA ChunkIsInitialSegment ==
  ASSUME NEW k \in Nat, src \in [Keys -> Values],
         NEW chunk, chunk = ChunkAfter(k), NEW keys, keys = DOMAIN chunk.vals
  PROVE  /\ chunk \in Chunks
         /\ keys \subseteq Keys /\ \A j \in keys : j > k /\ src[j] # Absent /\ chunk.vals[j] = src[j]
         /\ chunk.last => \A j \in Keys : j > k /\ src[j] # Absent => j \in keys
         /\ \A i \in Keys, j \in keys : i > k /\ i <= j /\ src[i] # Absent => i \in keys
         /\ ~chunk.last => keys # {}
         /\ Cardinality(keys) <= ChunkSize
<1> DEFINE R == {j \in Keys : j > k /\ src[j] # Absent}
           K == {j \in R : Cardinality({i \in R : i < j}) < ChunkSize}
<1>1. chunk = [type |-> "chunk", vals |-> [j \in K |-> src[j]], last |-> Cardinality(K) < ChunkSize]
  BY DEF ChunkAfter, Restrict
<1>2. R \in SUBSET Nat /\ IsFiniteSet(R) /\ R \subseteq Keys /\ ChunkSize \in Nat \ {0}
  BY SnapshotAssumption, FS_Subset
<1>3. K = First(R, ChunkSize)
  BY DEF First
<1>4. \A j \in Keys : j \in R <=> j > k /\ src[j] # Absent
  BY SMTT(300)
<1> HIDE DEF R, K
<1>5. /\ K \subseteq R /\ IsFiniteSet(K) /\ Cardinality(K) <= ChunkSize
      /\ Cardinality(K) < ChunkSize => K = R
      /\ Cardinality(K) >= ChunkSize => K # {}
      /\ \A i \in R, j \in K : i <= j => i \in K
  BY SMTT(300), <1>2, <1>3, FirstOf
<1>6. Cardinality(K) \in Nat
  BY <1>5, FS_CardinalityType
<1>7. chunk.last <=> Cardinality(K) < ChunkSize
  <2> DEFINE b == Cardinality(K) < ChunkSize
             f == [j \in K |-> src[j]]
  <2>1. chunk = [type |-> "chunk", vals |-> f, last |-> b]
    BY <1>1
  <2> HIDE DEF b, f
  <2>2. chunk.last = b
    BY SMTT(300), <2>1
  <2> QED
    BY <2>2 DEF b
<1>8. keys = K /\ \A j \in K : chunk.vals[j] = src[j]
  BY SMTT(300), <1>1
<1>9. chunk \in Chunks
  <2>1. [j \in K |-> src[j]] \in [K -> Values] /\ K \in SUBSET Keys
    BY SMTT(300), <1>2, <1>5
  <2>2. [j \in K |-> src[j]] \in Parts
    BY <2>1 DEF Parts
  <2>3. (Cardinality(K) < ChunkSize) \in BOOLEAN
    BY SMTT(300), <1>2, <1>6
  <2> QED
    BY SMTT(300), <1>1, <2>2, <2>3 DEF Chunks
<1>10. ~chunk.last => keys # {}
  BY SMTT(300), <1>2, <1>5, <1>6, <1>7, <1>8
<1>11. keys \subseteq Keys /\ \A j \in keys : j > k /\ src[j] # Absent /\ chunk.vals[j] = src[j]
  BY <1>2, <1>4, <1>5, <1>8
<1>12. chunk.last => \A j \in Keys : j > k /\ src[j] # Absent => j \in keys
  BY <1>4, <1>5, <1>7, <1>8
<1>13. \A i \in Keys, j \in keys : i > k /\ i <= j /\ src[i] # Absent => i \in keys
  BY <1>4, <1>5, <1>8
<1> QED
  BY <1>5, <1>8, <1>9, <1>10, <1>11, <1>12, <1>13

-----------------------------------------------------------------------------
(* Messages, and the job.                                                   *)

LEMMA ChunkParts ==
  ASSUME NEW chunk \in Chunks
  PROVE  /\ chunk.type = "chunk" /\ chunk.last \in BOOLEAN
         /\ DOMAIN chunk.vals \subseteq Keys /\ IsFiniteSet(DOMAIN chunk.vals)
         /\ \A k \in DOMAIN chunk.vals : chunk.vals[k] \in Values
<1>1. chunk.type = "chunk" /\ chunk.last \in BOOLEAN /\ chunk.vals \in Parts
  BY SMTT(300) DEF Chunks
<1>2. PICK S \in SUBSET Keys : chunk.vals \in [S -> Values]
  BY <1>1 DEF Parts
<1>3. DOMAIN chunk.vals = S /\ \A k \in S : chunk.vals[k] \in Values
  BY SMTT(300), <1>2
<1>4. IsFiniteSet(S)
  BY SnapshotAssumption, FS_Subset
<1> QED
  BY <1>1, <1>2, <1>3, <1>4

LEMMA MessageKinds ==
  ASSUME NEW m \in Messages
  PROVE  /\ m.type = "chunk" => m \in Chunks
         /\ m.type = "batch" => m \in Batches
         /\ m.type \in {"chunk", "batch", "complete"}
BY SMTT(300) DEF Messages, Chunks, Batches

LEMMA LastKeyIsGreatest ==
  ASSUME NEW chunk \in Chunks, DOMAIN chunk.vals # {}
  PROVE  LastKey(chunk) \in DOMAIN chunk.vals /\ \A k \in DOMAIN chunk.vals : k <= LastKey(chunk)
<1>1. DOMAIN chunk.vals \in SUBSET Nat /\ IsFiniteSet(DOMAIN chunk.vals)
  BY ChunkParts, SnapshotAssumption
<1> QED
  BY <1>1, MaxIsGreatest DEF LastKey

LEMMA BeginSavesNothing == Begin.at \notin Saves
BY SMTT(300) DEF Begin, Saves

LEMMA StepKinds ==
  ASSUME NEW s \in Steps
  PROVE  /\ s.seen \in Keys \cup {0} /\ (s # Begin => s.at \in Saves \cup {"last"})
         /\ s.at # "done" /\ s # Done /\ (s = Begin => s.at = "apply" /\ s.seen = 0)
<1>1. Begin.at = "apply" /\ Begin.seen = 0 /\ Done.at = "done"
  BY SMTT(300) DEF Begin, Done
<1>2. CASE s = Begin
  BY SMTT(300), <1>1, <1>2
<1>3. CASE s \in [at : Saves \cup {"last"}, seen : Keys \cup {0}]
  <2>1. s.at \in Saves \cup {"last"} /\ s.seen \in Keys \cup {0}
    BY <1>3
  <2>2. s.at # "done" /\ s.at # "apply"
    BY SMTT(300), <2>1 DEF Saves
  <2> QED
    BY <1>1, <2>1, <2>2
<1> QED
  BY <1>2, <1>3 DEF Steps

\* The checkpoint moves to a key of the chunk or back to the start, and only
\* SnapshotComplete finishes a job.
LEMMA JobMoves ==
  ASSUME job \in JobType, NEW chunk \in Chunks, NEW s \in Steps,
         s.at \in Saves => DOMAIN chunk.vals # {}, NEW j, j = JobAfter(s, chunk)
  PROVE  /\ j \in JobType
         /\ j.finished => job.finished
         /\ j.last \in {0, job.last, s.seen} \/ (s # Begin /\ j.last \in DOMAIN chunk.vals)
<1> DEFINE At(status, key) == [status |-> status, last |-> key, finished |-> FALSE]
<1>0. job.last \in Keys \cup {0} /\ job.finished \in BOOLEAN
  BY SMTT(300) DEF JobType
<1>1. s.seen \in Keys \cup {0} /\ (s # Begin => s.at \in {"checkpoint", "again", "last"})
  BY StepKinds DEF Saves
<1>2. \/ j = job \/ j = At("catching_up", s.seen) \/ j = At("pending", 0)
      \/ /\ s # Begin /\ DOMAIN chunk.vals # {}
         /\ \E st \in {"snapshotting", "catching_up"} : j = At(st, LastKey(chunk))
  <2>1. CASE s.at = "apply"
    BY SMTT(300), <2>1 DEF JobAfter
  <2>2. CASE s.at = "checkpoint"
    <3>1. j = IF job.finished THEN At("pending", 0) ELSE At("snapshotting", LastKey(chunk))
      BY SMTT(300), <2>2 DEF JobAfter
    <3>2. s # Begin /\ DOMAIN chunk.vals # {}
      BY SMTT(300), <2>2, StepKinds DEF Saves
    <3> QED
      BY ZenonT(300), <3>1, <3>2
  <2>3. CASE s.at = "again"
    <3>1. j = IF job.finished THEN job ELSE At("snapshotting", LastKey(chunk))
      BY SMTT(300), <2>3 DEF JobAfter
    <3>2. s # Begin /\ DOMAIN chunk.vals # {}
      BY SMTT(300), <2>3, StepKinds DEF Saves
    <3> QED
      BY ZenonT(300), <3>1, <3>2
  <2>4. CASE s.at = "last"
    <3>1. j = IF DOMAIN chunk.vals = {} THEN At("catching_up", s.seen)
              ELSE IF job.finished THEN job ELSE At("catching_up", LastKey(chunk))
      BY SMTT(300), <2>4 DEF JobAfter
    <3>2. s # Begin
      BY SMTT(300), <2>4, StepKinds
    <3> QED
      BY ZenonT(300), <3>1, <3>2
  <2> QED
    BY ZenonT(300), <1>1, StepKinds, <2>1, <2>2, <2>3, <2>4
<1>3. ASSUME NEW st \in {"pending", "snapshotting", "catching_up"}, NEW key \in Keys \cup {0}, j = At(st, key)
      PROVE  j \in JobType /\ j.finished = FALSE /\ j.last = key
  BY SMTT(300), <1>3 DEF JobType
<1>4. DOMAIN chunk.vals # {} => LastKey(chunk) \in DOMAIN chunk.vals /\ DOMAIN chunk.vals \subseteq Keys
  BY LastKeyIsGreatest, ChunkParts
<1> HIDE DEF At
<1>5. 0 \in Keys \cup {0}
  OBVIOUS
<1> QED
  BY <1>1, <1>2, <1>3, <1>4, <1>5

LEMMA Element ==
  ASSUME NEW S, NEW q \in Seq(S), NEW i \in 1..Len(q)
  PROVE  q[i] \in S
BY SMTT(300)

LEMMA Appended ==
  ASSUME wire \in Seq(Messages), NEW m \in Messages, wire' = Append(wire, m)
  PROVE  /\ wire' \in Seq(Messages) /\ Len(wire) \in Nat /\ Len(wire') = Len(wire) + 1
         /\ wire'[Len(wire) + 1] = m /\ \A n \in 1..Len(wire) : wire'[n] = wire[n]
BY SMTT(300)

LEMMA Shortened ==
  ASSUME wire \in Seq(Messages), wire # <<>>, wire' = Tail(wire)
  PROVE  /\ wire' \in Seq(Messages) /\ Len(wire) \in Nat \ {0} /\ Len(wire') = Len(wire) - 1
         /\ \A n \in 1..Len(wire') : n + 1 \in 2..Len(wire) /\ wire'[n] = wire[n + 1]
BY SMTT(300)

-----------------------------------------------------------------------------
(* Types.                                                                   *)

\* The chunk at the head of the wire.
LEMMA HeadChunk ==
  ASSUME Types, WireOrder, Receiving("chunk")
  PROVE  /\ wire # <<>> /\ Len(wire) \in Nat \ {0} /\ Head(wire) = wire[1] /\ Is(1, "chunk")
         /\ Head(wire) \in Chunks /\ (step.at \in Saves => DOMAIN wire[1].vals # {})
<1>1. wire # <<>> /\ wire \in Seq(Messages)
  BY DEF Types, ClientType, Receiving
<1>2. Len(wire) \in Nat \ {0} /\ Head(wire) = wire[1] /\ wire[1] \in Messages
  BY SMTT(300), <1>1
<1>3. wire[1].type = "chunk"
  BY <1>2 DEF Receiving
<1> QED
  BY <1>1, <1>2, <1>3, MessageKinds DEF Is, WireOrder

LEMMA NextStepIs ==
  ASSUME job \in JobType, NEW s \in Steps, NEW chunk \in Chunks, NEW t, t = NextStep(s, chunk), t # Done
  PROVE  t \in Steps /\ t # Begin /\ t.seen \in {0, job.last}
         /\ (t.at \in Saves => s = Begin \/ s.at \in Saves)
         /\ (t.at \in Saves /\ s = Begin => DOMAIN chunk.vals # {})
<1> DEFINE At(place, key) == [at |-> place, seen |-> key]
<1>1. \/ t = At("checkpoint", 0) /\ s = Begin /\ DOMAIN chunk.vals # {}
      \/ t = At("again", 0) /\ s.at = "checkpoint"
      \/ t = At("last", job.last) \/ t = At("last", 0)
  BY DEF NextStep
<1>2. job.last \in Keys \cup {0} /\ 0 \in Keys \cup {0}
  BY SMTT(300) DEF JobType
<1>3. ASSUME NEW place \in Saves \cup {"last"}, NEW key \in {0, job.last}, t = At(place, key)
      PROVE  t \in Steps /\ t.at = place /\ t.seen = key
  BY SMTT(300), <1>2, <1>3 DEF Steps
<1> HIDE DEF At
<1>4. "checkpoint" \in Saves /\ "again" \in Saves /\ "last" \notin Saves /\ Begin.at = "apply"
  BY SMTT(300) DEF Saves, Begin
<1>5. t \in Steps /\ t.seen \in {0, job.last} /\ t.at \in Saves \cup {"last"}
      /\ (t.at \in Saves => (s = Begin /\ DOMAIN chunk.vals # {}) \/ s.at = "checkpoint")
  BY <1>1, <1>3, <1>4
<1>6. t # Begin /\ (s = Begin => s.at # "checkpoint")
  BY SMTT(300), <1>4, <1>5 DEF Saves
<1> QED
  BY <1>4, <1>5, <1>6

LEMMA TypesKept ==
  /\ SourceType /\ UNCHANGED source => SourceType'
  /\ OutboxType /\ UNCHANGED <<log, outbox, liveWm, sent, cursor>> => OutboxType'
  /\ StreamType /\ UNCHANGED <<on, phase, after, requested>> => StreamType'
  /\ ClientType /\ UNCHANGED <<wire, step, ghost>> => ClientType'
  /\ PeerType /\ UNCHANGED <<rows, job, uncaptured, overwritten, faults>> => PeerType'
<1>1. SourceType /\ UNCHANGED source => SourceType'
  BY SMTT(300) DEF SourceType, source
<1>2. OutboxType /\ UNCHANGED <<log, outbox, liveWm, sent, cursor>> => OutboxType'
  BY SMTT(300) DEF OutboxType, outbox
<1>3. StreamType /\ UNCHANGED <<on, phase, after, requested>> => StreamType'
  BY SMTT(300) DEF StreamType
<1>4. ClientType /\ UNCHANGED <<wire, step, ghost>> => ClientType'
  BY SMTT(300) DEF ClientType
<1>5. PeerType /\ UNCHANGED <<rows, job, uncaptured, overwritten, faults>> => PeerType'
  BY SMTT(300) DEF PeerType
<1> QED
  BY <1>1, <1>2, <1>3, <1>4, <1>5

LEMMA TypesStep ==
  ASSUME Types, WireOrder, GhostIsBehind, SlotAndOutbox, [Next]_vars
  PROVE  Types'
<1> USE DEF Types
<1>0. /\ MaxLog \in Nat /\ MaxFaults \in Nat /\ Values = 0..(MaxLog + 1) /\ Absent = 0
      /\ Unborn = MaxLog + 2 /\ Keys \subseteq Nat
  BY SnapshotAssumption DEF Values, Absent, Unborn
<1>1. ASSUME NEW k \in Keys, NEW delete \in BOOLEAN, Change(k, delete) PROVE Types'
  <2> DEFINE val == IF delete THEN Absent ELSE Len(log) + 1
  <2>1. /\ log' = Append(log, [key |-> k, val |-> val]) /\ src' = [src EXCEPT ![k] = val]
        /\ Len(log) < MaxLog /\ uncaptured' \subseteq Keys
    BY <1>1 DEF Change, PeerType
  <2>2. /\ val \in Values /\ [key |-> k, val |-> val] \in [key : Keys, val : Values]
    BY SMTT(300), <1>0, <2>1 DEF SourceType
  <2> HIDE DEF val
  <2>3. src' \in [Keys -> Values]
    BY SMTT(300), <2>1, <2>2 DEF SourceType
  <2>4. log' \in Seq([key : Keys, val : Values]) /\ Len(log') = Len(log) + 1 /\ Len(log) \in Nat
    BY SMTT(300), <2>1, <2>2 DEF SourceType
  <2>5. staged <= Len(log') /\ Len(log') <= MaxLog
    BY SMTT(300), <1>0, <2>1, <2>4 DEF OutboxType
  <2>6. UNCHANGED <<slotAt, outbox, stream, wire, step, ghost, rows, cursor, job, overwritten, faults>>
    BY <1>1 DEF Change
  <2>7. SourceType'
    BY <2>3, <2>4, <2>5, <2>6 DEF SourceType
  <2>8. OutboxType'
    BY SMTT(300), <2>5, <2>6 DEF OutboxType, outbox, stream
  <2>9. PeerType'
    BY <2>1, <2>6 DEF PeerType
  <2> QED
    BY <2>6, <2>7, <2>8, <2>9, TypesKept DEF stream
<1>2. CASE CreateSlot
  <2>1. /\ UNCHANGED <<src, log, pending, stream, wire, step, ghost, rows, cursor, job, uncaptured, overwritten, faults>>
        /\ slotAt' = Len(log) /\ staged' = Len(log) /\ staged = 0
    BY <1>2 DEF CreateSlot, SlotAndOutbox
  <2>2. SourceType'
    BY SMTT(300), <1>0, <2>1 DEF SourceType
  <2>3. OutboxType'
    BY SMTT(300), <1>0, <2>1 DEF SourceType, OutboxType, stream
  <2> QED
    BY <2>1, <2>2, <2>3, TypesKept DEF stream
<1>3. CASE Stage
  <2>1. /\ UNCHANGED <<source, stream, wire, step, ghost, rows, cursor, job, uncaptured, overwritten, faults>>
        /\ staged < Len(log) /\ staged' = staged + 1 /\ pending' = pending \cup {staged + 1}
    BY <1>3 DEF Stage
  <2>2. OutboxType'
    BY SMTT(300), <2>1 DEF SourceType, OutboxType, source, stream
  <2> QED
    BY <2>1, <2>2, TypesKept DEF stream
<1>4. CASE Connect
  <2>1. /\ UNCHANGED <<source, outbox, wire, step, ghost, rows, cursor, job, uncaptured, overwritten, faults>>
        /\ on' = TRUE /\ after' = job.last /\ liveWm' = 0 /\ sent' = 0
        /\ requested' \in BOOLEAN /\ phase' \in {"snapshot", "subscribe"}
    BY <1>4 DEF Connect
  <2>2. StreamType'
    BY SMTT(300), <2>1 DEF StreamType, PeerType, JobType, Past
  <2>3. OutboxType'
    BY SMTT(300), <2>1 DEF OutboxType, source, outbox
  <2> QED
    BY <2>1, <2>2, <2>3, TypesKept
<1>5. CASE SendChunk
  <2> DEFINE chunk == ChunkAfter(after)
  <2>1. /\ UNCHANGED <<source, outbox, on, requested, liveWm, sent, step, ghost, rows, cursor, job, uncaptured, overwritten, faults>>
        /\ wire' = Append(wire, chunk) /\ phase' \in {"subscribe", phase}
        /\ after' = IF chunk.last THEN after ELSE LastKey(chunk)
    BY <1>5 DEF SendChunk, Send
  <2>2. after \in Nat /\ src \in [Keys -> Values]
    BY SMTT(300), <1>0 DEF StreamType, SourceType
  <2>3. chunk \in Chunks /\ (~chunk.last => DOMAIN chunk.vals # {})
    BY SMTT(300), <2>2, ChunkIsInitialSegment
  <2> HIDE DEF chunk
  <2>4. after' \in Keys \cup {0}
    BY <2>1, <2>3, LastKeyIsGreatest, ChunkParts DEF StreamType
  <2>5. ClientType'
    BY <2>1, <2>3, Appended DEF ClientType, Messages
  <2>6. StreamType'
    BY <2>1, <2>4 DEF StreamType, Past
  <2> QED
    BY <2>1, <2>5, <2>6, TypesKept DEF source
<1>6. CASE Subscribe
  <2>1. OutboxType' /\ StreamType'
    BY SMTT(300), <1>6 DEF Subscribe, OutboxType, StreamType, source, outbox, Past
  <2> QED
    BY <1>6, <2>1, TypesKept DEF Subscribe

<1>7. CASE SendBatch
  <2> DEFINE unsent == Unsent(IF phase = "replay" THEN liveWm ELSE staged)
             m == Min(unsent)
  <2>1. /\ UNCHANGED <<source, outbox, on, phase, after, requested, liveWm, step, ghost, rows, cursor, job, uncaptured, overwritten, faults>>
        /\ wire' = Append(wire, [type |-> "batch", at |-> m]) /\ sent' = m /\ unsent # {}
    BY <1>7 DEF SendBatch, Send
  <2>2. unsent \subseteq pending
    BY DEF Unsent
  <2> HIDE DEF unsent
  <2>3. m \in 1..staged
    <3>1. unsent \in SUBSET Nat
      BY SMTT(300), <2>2 DEF OutboxType
    <3>2. m \in unsent
      BY <2>1, <3>1, MinIsLeast
    <3> QED
      BY <2>2, <3>2 DEF OutboxType
  <2>4. m \in Nat /\ m \in 0..staged
    BY SMTT(300), <2>3 DEF OutboxType
  <2> HIDE DEF m
  <2>5. [type |-> "batch", at |-> m] \in Messages
    BY SMTT(300), <2>4 DEF Messages, Batches
  <2>6. ClientType'
    BY <2>1, <2>5, Appended DEF ClientType
  <2>7. OutboxType'
    BY SMTT(300), <2>1, <2>4 DEF OutboxType, source, outbox
  <2> QED
    BY <2>1, <2>6, <2>7, TypesKept
<1>8. CASE SendComplete
  <2>1. /\ UNCHANGED <<source, outbox, on, after, requested, liveWm, step, ghost, rows, cursor, job, uncaptured, overwritten, faults>>
        /\ wire' = wire \/ wire' = Append(wire, [type |-> "complete"])
        /\ phase' = "live" /\ sent' = Max({sent, liveWm})
    BY <1>8 DEF SendComplete, Send
  <2>2. sent \in Int /\ liveWm \in Int
    BY SMTT(300) DEF OutboxType
  <2>3. sent' \in {sent, liveWm}
    BY <2>1, <2>2, MaxOfTwo
  <2>4. OutboxType'
    BY SMTT(300), <2>1, <2>3 DEF OutboxType, source, outbox
  <2>5. ClientType'
    BY <2>1, Appended DEF ClientType, Messages
  <2>6. StreamType'
    BY <2>1 DEF StreamType, Past
  <2> QED
    BY <2>1, <2>4, <2>5, <2>6, TypesKept
<1>9. CASE ChunkStep
  <2> DEFINE chunk == Head(wire)
  <2>1. /\ UNCHANGED <<source, outbox, stream, ghost, cursor, uncaptured, faults>>
        /\ rows' = RowsAfter(step, chunk) /\ job' = JobAfter(step, chunk)
        /\ overwritten' \subseteq overwritten
        /\ \/ step' = Begin /\ wire' = Tail(wire)
           \/ NextStep(step, chunk) # Done /\ step' = NextStep(step, chunk) /\ wire' = wire
    BY <1>9 DEF ChunkStep
  <2>2. wire # <<>> /\ chunk \in Chunks /\ (step.at \in Saves => DOMAIN chunk.vals # {})
    BY <1>9, HeadChunk DEF ChunkStep, Types
  <2> HIDE DEF chunk
  <2>3. rows' \in [Keys -> Values]
    <3>1. \A k \in DOMAIN chunk.vals : chunk.vals[k] \in Values
      BY <2>2, ChunkParts
    <3> QED
      BY SMTT(300), <2>1, <3>1 DEF RowsAfter, PeerType
  <2>4. job' \in JobType
    BY <2>1, <2>2, JobMoves DEF PeerType, ClientType
  <2>5. ClientType'
    <3>1. step' \in Steps
      BY <2>1, <2>2, NextStepIs DEF ClientType, PeerType, Steps
    <3> QED
      BY <2>1, <2>2, <3>1, Shortened DEF ClientType
  <2>6. PeerType'
    BY <2>1, <2>3, <2>4 DEF PeerType
  <2> QED
    BY <2>1, <2>5, <2>6, TypesKept DEF source, stream
<1>10. CASE ApplyBatch
  <2> DEFINE i == Head(wire).at
  <2>1. /\ UNCHANGED <<source, staged, phase, after, requested, liveWm, sent, step, ghost, job, uncaptured>>
        /\ rows' = (IF i > cursor THEN [rows EXCEPT ![log[i].key] = log[i].val] ELSE rows)
        /\ overwritten' \subseteq overwritten /\ cursor' = Max({cursor, i})
        /\ pending' \subseteq pending /\ on' \in BOOLEAN /\ wire' \in {Tail(wire), <<>>}
        /\ faults' = faults \/ (faults < MaxFaults /\ faults' = faults + 1)
        /\ wire # <<>> /\ Head(wire).type = "batch"
    BY <1>10 DEF ApplyBatch, Receiving, Fail, StreamType
  <2>2. i \in 1..staged
    <3>1. 1 \in 1..Len(wire) /\ Head(wire) = wire[1]
      BY SMTT(300), <2>1 DEF ClientType
    <3>2. slotAt # Unborn /\ i \in (slotAt + 1)..sent
      BY <2>1, <3>1 DEF WireOrder, Is
    <3> QED
      BY SMTT(300), <1>0, <3>2 DEF SourceType, OutboxType
  <2> HIDE DEF i
  <2>3. i \in 1..Len(log) /\ i \in Int /\ cursor \in Int
    BY SMTT(300), <2>2 DEF SourceType, OutboxType
  <2>4. log[i] \in [key : Keys, val : Values]
    <3>1. log \in Seq([key : Keys, val : Values])
      BY DEF SourceType
    <3> QED
      BY <2>3, <3>1, Element
  <2>5. rows' \in [Keys -> Values]
    BY SMTT(300), <2>1, <2>4 DEF PeerType
  <2>6. OutboxType'
    <3>1. cursor' \in {cursor, i}
      BY <2>1, <2>3, MaxOfTwo
    <3> QED
      BY SMTT(300), <2>1, <2>2, <3>1 DEF OutboxType, source
  <2>7. faults' \in 0..MaxFaults
    BY SMTT(300), <1>0, <2>1 DEF PeerType
  <2>8. ClientType'
    <3>1. <<>> \in Seq(Messages)
      BY SMTT(300)
    <3> QED
      BY <2>1, <3>1, Shortened DEF ClientType
  <2>9. StreamType' /\ PeerType'
    BY <2>1, <2>5, <2>7 DEF StreamType, PeerType
  <2> QED
    BY <2>1, <2>6, <2>8, <2>9, TypesKept
<1>11. CASE Complete
  <2>1. /\ UNCHANGED <<source, outbox, stream, step, ghost, rows, cursor, uncaptured, overwritten, faults>>
        /\ job' \in {job, [job EXCEPT !.status = "finished", !.finished = TRUE]}
        /\ wire' = Tail(wire) /\ wire # <<>>
    BY <1>11 DEF Complete, Receiving
  <2>2. PeerType'
    BY <2>1 DEF PeerType, JobType
  <2>3. ClientType'
    BY <2>1, Shortened DEF ClientType
  <2> QED
    BY <2>1, <2>2, <2>3, TypesKept DEF source, stream
<1>12. CASE Break
  <2>1. /\ UNCHANGED <<source, outbox, phase, after, requested, liveWm, sent, rows, cursor, job, uncaptured, overwritten>>
        /\ on' = FALSE /\ wire' = <<>> /\ step' = Begin /\ faults < MaxFaults /\ faults' = faults + 1
        /\ ghost' = ghost \/ (Receiving("chunk") /\ ghost' = [step |-> step, chunk |-> Head(wire)])
    BY <1>12 DEF Break, Fail
  <2>2. faults' \in 0..MaxFaults
    BY SMTT(300), <1>0, <2>1 DEF PeerType
  <2>3. ghost' \in {NoGhost} \cup [step : Steps, chunk : Chunks]
    <3>1. CASE Receiving("chunk") /\ ghost' = [step |-> step, chunk |-> Head(wire)]
      <4>1. step \in Steps /\ Head(wire) \in Chunks
        BY <3>1, HeadChunk DEF Types, ClientType
      <4> QED
        BY SMTT(300), <3>1, <4>1
    <3> QED
      BY <2>1, <3>1 DEF ClientType
  <2>4. ClientType'
    <3>1. <<>> \in Seq(Messages)
      BY SMTT(300)
    <3> QED
      BY <2>1, <2>3, <3>1 DEF ClientType, Steps
  <2>5. StreamType' /\ PeerType'
    BY <2>1, <2>2 DEF StreamType, PeerType
  <2> QED
    BY <2>1, <2>4, <2>5, TypesKept DEF source
<1>13. CASE GhostStep
  <2> DEFINE chunk == ghost.chunk
             next == NextStep(ghost.step, chunk)
  <2>1. /\ UNCHANGED <<source, outbox, stream, wire, step, cursor, uncaptured, faults>>
        /\ ghost # NoGhost
        /\ rows' = RowsAfter(ghost.step, chunk) /\ job' = JobAfter(ghost.step, chunk)
        /\ overwritten' = overwritten \cup {k \in Keys : rows'[k] # rows[k]}
        /\ ghost' = IF next = Done THEN NoGhost ELSE [ghost EXCEPT !.step = next]
    BY <1>13 DEF GhostStep
  <2>2. ghost.step \in Steps /\ chunk \in Chunks /\ ghost \in [step : Steps, chunk : Chunks]
    BY SMTT(300), <2>1 DEF ClientType
  <2>3. ghost.step.at \in Saves => DOMAIN chunk.vals # {}
    BY <2>1 DEF GhostIsBehind
  <2>4. next # Done => next \in Steps
    BY <2>2, NextStepIs DEF PeerType
  <2> HIDE DEF chunk, next
  <2>5. rows' \in [Keys -> Values]
    <3>1. \A k \in DOMAIN chunk.vals : chunk.vals[k] \in Values
      BY <2>2, ChunkParts
    <3> QED
      BY SMTT(300), <2>1, <3>1 DEF RowsAfter, PeerType
  <2>6. job' \in JobType
    BY <2>1, <2>2, <2>3, JobMoves DEF PeerType
  <2>7. ClientType'
    BY SMTT(300), <2>1, <2>2, <2>4 DEF ClientType
  <2>8. PeerType'
    BY <2>1, <2>5, <2>6 DEF PeerType
  <2> QED
    BY <2>1, <2>7, <2>8, TypesKept DEF source, stream
<1>14. CASE UNCHANGED vars
  BY <1>14, TypesKept DEF vars, source, stream
<1> QED
  BY <1>1, <1>2, <1>3, <1>4, <1>5, <1>6, <1>7, <1>8, <1>9, <1>10, <1>11, <1>12, <1>13, <1>14
     DEF Next, Work

-----------------------------------------------------------------------------
(* The outbox, the log and the order of the messages.                       *)

LEMMA SlotAndOutboxStep ==
  ASSUME Types, Types', SlotAndOutbox, WireOrder, InOrder, [Next]_vars
  PROVE  SlotAndOutbox'
<1>0. /\ MaxLog \in Nat /\ Unborn = MaxLog + 2
      /\ staged \in Nat /\ cursor \in 0..staged /\ pending \subseteq 1..staged /\ staged <= MaxLog
      /\ Len(log) \in Nat /\ Len(log) <= MaxLog
  BY SMTT(300), SnapshotAssumption DEF Unborn, Types, SourceType, OutboxType
<1>1. CASE CreateSlot
  <2>1. slotAt = Unborn /\ slotAt' = Len(log) /\ staged' = Len(log) /\ pending' = pending /\ cursor' = cursor
    BY <1>1 DEF CreateSlot
  <2> QED
    BY SMTT(300), <1>0, <2>1 DEF SlotAndOutbox
<1>2. CASE Stage
  <2>1. /\ slotAt # Unborn /\ slotAt' = slotAt /\ staged' = staged + 1
        /\ pending' = pending \cup {staged + 1} /\ cursor' = cursor
    BY <1>2 DEF Stage, source
  <2>2. slotAt \in 0..MaxLog
    BY <2>1 DEF Types, SourceType
  <2> QED
    BY SMTT(300), <1>0, <2>1, <2>2 DEF SlotAndOutbox
<1>3. CASE ApplyBatch
  <2> DEFINE i == Head(wire).at
  <2>1. /\ slotAt' = slotAt /\ staged' = staged /\ cursor' = Max({cursor, i})
        /\ pending' \in {pending, pending \ {i}} /\ wire # <<>> /\ Head(wire).type = "batch"
    BY <1>3 DEF ApplyBatch, Receiving, source
  <2>2. 1 \in 1..Len(wire) /\ Head(wire) = wire[1]
    BY SMTT(300), <2>1 DEF Types, ClientType
  <2>3. slotAt # Unborn /\ i \in (slotAt + 1)..sent
    BY <2>1, <2>2 DEF WireOrder, Is
  <2>4. sent \in 0..staged /\ slotAt \in 0..MaxLog
    BY <2>3 DEF Types, OutboxType, SourceType
  <2> HIDE DEF i
  <2>5. cursor' = IF cursor >= i THEN cursor ELSE i
    <3>1. cursor \in Int /\ i \in Int
      BY SMTT(300), <1>0, <2>3, <2>4
    <3> QED
      BY <2>1, <3>1, MaxOfTwo
  <2> QED
    BY SMTT(300), <1>0, <2>1, <2>3, <2>4, <2>5 DEF SlotAndOutbox
<1>4. CASE UNCHANGED <<slotAt, staged, pending, cursor>>
  BY SMTT(300), <1>4 DEF SlotAndOutbox
<1> QED
  BY <1>1, <1>2, <1>3, <1>4
     DEF Next, Work, Change, Connect, SendChunk, Subscribe, SendBatch, SendComplete, ChunkStep,
         Complete, Break, GhostStep, vars, source, outbox

LEMMA SourceFollowsLogStep ==
  ASSUME Types, SourceFollowsLog, [Next]_vars
  PROVE  SourceFollowsLog'
<1>1. ASSUME NEW k \in Keys, NEW delete \in BOOLEAN, Change(k, delete) PROVE SourceFollowsLog'
  <2> DEFINE val == IF delete THEN Absent ELSE Len(log) + 1
             entry == [key |-> k, val |-> val]
  <2>1. log' = Append(log, entry) /\ src' = [src EXCEPT ![k] = val]
    BY <1>1 DEF Change
  <2>2. entry.key = k /\ entry.val = val
    BY SMTT(300)
  <2> HIDE DEF entry, val
  <2>3. /\ Len(log) \in Nat /\ Len(log') = Len(log) + 1 /\ log'[Len(log) + 1] = entry
        /\ \A i \in 1..Len(log) : log'[i] = log[i] /\ log[i].key \in Keys
    <3>1. log \in Seq([key : Keys, val : Values])
      BY DEF Types, SourceType
    <3>2. \A i \in 1..Len(log) : log[i] \in [key : Keys, val : Values]
      BY <3>1, Element
    <3>3. \A i \in 1..Len(log) : log[i].key \in Keys
      BY SMTT(300), <3>2
    <3>4. /\ Len(log) \in Nat /\ Len(log') = Len(log) + 1 /\ log'[Len(log) + 1] = entry
          /\ \A i \in 1..Len(log) : log'[i] = log[i]
      BY SMTT(300), <2>1, <3>1
    <3> QED
      BY <3>3, <3>4
  <2>4. src'[k] = val /\ \A j \in Keys : j # k => src'[j] = src[j]
    BY SMTT(300), <2>1 DEF Types, SourceType
  <2> QED
    BY SMTT(300), <2>2, <2>3, <2>4 DEF SourceFollowsLog
<1>2. CASE UNCHANGED <<src, log>>
  BY SMTT(300), <1>2 DEF SourceFollowsLog
<1> QED
  BY ZenonT(300), <1>1, <1>2
     DEF Next, Work, CreateSlot, Stage, Connect, SendChunk, Subscribe, SendBatch, SendComplete, ChunkStep,
         ApplyBatch, Complete, Break, GhostStep, vars, source

\* Receiving a message leaves the others as they were.
LEMMA TailOrder ==
  ASSUME Types, WireOrder, wire # <<>>, wire' = Tail(wire), step' = Begin,
         on, UNCHANGED <<on, phase, slotAt, sent, after>>
  PROVE  WireOrder'
<1>1. /\ Len(wire) \in Nat \ {0} /\ Len(wire') = Len(wire) - 1
      /\ \A n \in 1..Len(wire') : n + 1 \in 2..Len(wire) /\ wire'[n] = wire[n + 1]
  BY Shortened DEF Types, ClientType
<1>2. \A n, m \in 1..Len(wire)' : n < m /\ wire'[m].type = "chunk" => wire'[n].type = "chunk"
  <2>1. \A n, m \in 1..Len(wire) : n < m /\ wire[m].type = "chunk" => wire[n].type = "chunk"
    BY DEF WireOrder, Is
  <2> QED
    BY SMTT(300), <1>1, <2>1
<1>3. \A n \in 1..Len(wire)' : n + 1 \in 1..Len(wire) /\ wire'[n] = wire[n + 1]
  BY SMTT(300), <1>1
<1> QED
  BY ZenonT(300), <1>2, <1>3, BeginSavesNothing DEF WireOrder, Is

\* Sending one keeps the order if it belongs behind what is on the wire.
LEMMA AppendOrder ==
  ASSUME Types, WireOrder, NEW m \in Messages, wire' = Append(wire, m), on, UNCHANGED <<on, step, slotAt>>,
         m.type = "chunk" => \A n \in 1..Len(wire) : Is(n, "chunk"),
         m.type = "batch" => phase' \in {"replay", "live"} /\ slotAt # Unborn /\ m.at \in (slotAt + 1)..sent',
         m.type = "complete" => phase' = "live",
         m.type = "chunk" /\ (m.last \/ \E j \in DOMAIN m.vals : j > after') => phase' \in Past,
         \A n \in 1..Len(wire) :
           /\ Is(n, "batch") => phase' \in {"replay", "live"} /\ wire[n].at \in (slotAt + 1)..sent'
           /\ Is(n, "complete") => phase' = "live"
           /\ Is(n, "chunk") /\ (wire[n].last \/ \E j \in DOMAIN wire[n].vals : j > after') => phase' \in Past
  PROVE  WireOrder'
<1>1. /\ Len(wire) \in Nat /\ Len(wire') = Len(wire) + 1
      /\ wire'[Len(wire) + 1] = m /\ \A n \in 1..Len(wire) : wire'[n] = wire[n]
  BY Appended DEF Types, ClientType
<1>2. step # Begin => wire' # <<>> /\ 1 \in 1..Len(wire) /\ wire'[1] = wire[1]
  <2>1. step # Begin => wire # <<>>
    BY DEF WireOrder
  <2>2. wire # <<>> => wire' # <<>> /\ 1 \in 1..Len(wire)
    BY SMTT(300), <1>1 DEF Types, ClientType
  <2> QED
    BY <1>1, <2>1, <2>2
<1>3. \A n, p \in 1..Len(wire)' : n < p /\ wire'[p].type = "chunk" => wire'[n].type = "chunk"
  <2>1. \A n, p \in 1..Len(wire) : n < p /\ wire[p].type = "chunk" => wire[n].type = "chunk"
    BY DEF WireOrder, Is
  <2>2. m.type = "chunk" => \A n \in 1..Len(wire) : wire[n].type = "chunk"
    BY DEF Is
  <2> QED
    BY SMTT(300), <1>1, <2>1, <2>2
<1>4. \A n \in 1..Len(wire)' : (n \in 1..Len(wire) /\ wire'[n] = wire[n]) \/ wire'[n] = m
  BY SMTT(300), <1>1
<1>5. \A n \in 1..Len(wire)' :
       /\ Is(n, "batch")' => phase' \in {"replay", "live"} /\ slotAt # Unborn /\ wire'[n].at \in (slotAt + 1)..sent'
       /\ Is(n, "complete")' => phase' = "live"
       /\ Is(n, "chunk")' /\ (wire'[n].last \/ \E j \in DOMAIN wire'[n].vals : j > after') => phase' \in Past
  <2> TAKE n \in 1..Len(wire)'
  <2>1. CASE wire'[n] = m
    BY <2>1 DEF Is
  <2>2. CASE n \in 1..Len(wire) /\ wire'[n] = wire[n]
    BY <2>2 DEF Is, WireOrder
  <2> QED
    BY <1>4, <2>1, <2>2
<1>6. step'.at \in Saves => DOMAIN wire'[1].vals # {}
  BY <1>2, BeginSavesNothing DEF WireOrder
<1> QED
  BY <1>2, <1>3, <1>5, <1>6 DEF WireOrder, Is

\* SendBatch takes the first pending change behind those it has sent.
LEMMA NextBatch ==
  ASSUME Types, SlotAndOutbox, SendBatch
  PROVE  \E m \in pending :
           /\ wire' = Append(wire, [type |-> "batch", at |-> m]) /\ [type |-> "batch", at |-> m] \in Messages
           /\ sent' = m /\ m > sent /\ m \in Nat /\ slotAt # Unborn /\ m \in (slotAt + 1)..m
           /\ \A j \in pending : j < m => j <= sent
<1> DEFINE upper == IF phase = "replay" THEN liveWm ELSE staged
           unsent == Unsent(upper)
           m == Min(unsent)
<1>1. /\ unsent # {} /\ wire' = Append(wire, [type |-> "batch", at |-> m]) /\ sent' = m
  BY DEF SendBatch, Send
<1>2. /\ pending \subseteq Nat /\ sent \in Nat /\ upper \in Nat /\ pending \subseteq 1..staged /\ staged <= MaxLog
      /\ MaxLog \in Nat /\ Unborn = MaxLog + 2
  BY SMTT(300), SnapshotAssumption DEF Types, OutboxType, SourceType, Unborn
<1> HIDE DEF upper
<1>3. m \in unsent /\ \A n \in unsent : m <= n
  <2>1. unsent \in SUBSET Nat
    <3>1. unsent \subseteq pending
      BY DEF Unsent
    <3> HIDE DEF unsent
    <3> QED
      BY <1>2, <3>1
  <2> HIDE DEF unsent
  <2> QED
    BY <1>1, <2>1, MinIsLeast
<1> HIDE DEF m
<1>4. m \in pending /\ m > sent /\ m <= upper /\ \A j \in pending : j > sent /\ j <= upper => m <= j
  BY <1>3 DEF Unsent
<1>5. m \in Nat /\ m > sent /\ \A j \in pending : j < m => j <= sent
  BY SMTT(300), <1>2, <1>4
<1>6. slotAt # Unborn /\ m \in (slotAt + 1)..m
  <2>1. m > slotAt /\ (slotAt = Unborn => staged = 0) /\ slotAt \in Nat
    BY SMTT(300), <1>2, <1>4 DEF SlotAndOutbox, Types, SourceType
  <2> QED
    BY SMTT(300), <1>2, <1>4, <2>1
<1>7. [type |-> "batch", at |-> m] \in Messages
  BY SMTT(300), <1>5 DEF Messages, Batches
<1> QED
  BY <1>1, <1>4, <1>5, <1>6, <1>7

\* SendToPeer's next chunk, and the place it leaves the snapshot at.
LEMMA NextChunk ==
  ASSUME Types, SendChunk
  PROVE  \E chunk \in Chunks :
           /\ wire' = Append(wire, chunk) /\ chunk \in Messages
           /\ \A j \in DOMAIN chunk.vals : j > after /\ src[j] # Absent /\ chunk.vals[j] = src[j]
           /\ chunk.last => after' = after /\ phase' = "subscribe"
           /\ ~chunk.last => /\ after' \in DOMAIN chunk.vals /\ after' > after /\ phase' = phase
                             /\ \A j \in DOMAIN chunk.vals : j <= after'
           /\ \A k \in Keys : k > after /\ (chunk.last \/ \E j \in DOMAIN chunk.vals : k <= j) =>
                                src[k] = Absent \/ k \in DOMAIN chunk.vals
           /\ Cardinality(DOMAIN chunk.vals) <= ChunkSize
<1> DEFINE chunk == ChunkAfter(after)
<1>1. /\ wire' = Append(wire, chunk)
      /\ phase' = IF chunk.last THEN "subscribe" ELSE phase
      /\ after' = IF chunk.last THEN after ELSE LastKey(chunk)
  BY DEF SendChunk, Send
<1>2. after \in Nat /\ src \in [Keys -> Values]
  BY SMTT(300), SnapshotAssumption DEF Types, StreamType, SourceType
<1>3. /\ chunk \in Chunks
      /\ \A j \in DOMAIN chunk.vals : j > after /\ src[j] # Absent /\ chunk.vals[j] = src[j]
      /\ chunk.last => \A j \in Keys : j > after /\ src[j] # Absent => j \in DOMAIN chunk.vals
      /\ \A i \in Keys, j \in DOMAIN chunk.vals : i > after /\ i <= j /\ src[i] # Absent => i \in DOMAIN chunk.vals
      /\ ~chunk.last => DOMAIN chunk.vals # {}
      /\ Cardinality(DOMAIN chunk.vals) <= ChunkSize
  BY SMTT(300), <1>2, ChunkIsInitialSegment
<1> HIDE DEF chunk
<1>4. ~chunk.last => /\ LastKey(chunk) \in DOMAIN chunk.vals
                     /\ \A j \in DOMAIN chunk.vals : j <= LastKey(chunk)
  BY <1>3, LastKeyIsGreatest
<1>5. chunk \in Messages
  BY <1>3 DEF Messages
<1> QED
  BY <1>1, <1>3, <1>4, <1>5

LEMMA HeadMessage ==
  ASSUME Types, WireOrder, wire # <<>>
  PROVE  /\ Len(wire) \in Nat \ {0} /\ 1 \in 1..Len(wire) /\ Head(wire) = wire[1] /\ wire[1] \in Messages
         /\ ~Is(1, "chunk") => step = Begin /\ \A n \in 1..Len(wire) : ~Is(n, "chunk")
<1>1. Len(wire) \in Nat \ {0} /\ 1 \in 1..Len(wire) /\ Head(wire) = wire[1] /\ wire[1] \in Messages
  BY SMTT(300) DEF Types, ClientType
<1>2. \A n \in 1..Len(wire) : n = 1 \/ 1 < n
  BY SMTT(300), <1>1
<1> QED
  BY <1>1, <1>2 DEF WireOrder

LEMMA WireOrderStep ==
  ASSUME Types, Types', SlotAndOutbox, WireOrder, [Next]_vars
  PROVE  WireOrder'
<1>1. CASE CreateSlot
  <2>1. slotAt = Unborn /\ UNCHANGED <<on, wire, step, phase, sent, after>>
    BY <1>1 DEF CreateSlot, stream
  <2> QED
    BY <2>1 DEF WireOrder, Is
<1>2. CASE Connect
  <2>1. wire = <<>> /\ step = Begin /\ UNCHANGED <<wire, step>>
    BY <1>2 DEF Connect, WireOrder
  <2>2. 1..Len(wire)' = {}
    BY SMTT(300), <2>1
  <2> QED
    BY <2>1, <2>2 DEF WireOrder
<1>3. CASE SendChunk
  <2>1. PICK chunk \in Chunks :
           /\ wire' = Append(wire, chunk) /\ chunk \in Messages
           /\ chunk.last => after' = after /\ phase' = "subscribe"
           /\ ~chunk.last => /\ after' \in DOMAIN chunk.vals /\ after' > after /\ phase' = phase
                             /\ \A j \in DOMAIN chunk.vals : j <= after'
    BY <1>3, NextChunk
  <2>2. on /\ phase = "snapshot" /\ UNCHANGED <<on, step, slotAt>>
    BY <1>3 DEF SendChunk, source
  <2>3. chunk.type = "chunk" /\ DOMAIN chunk.vals \subseteq Nat /\ after \in Nat /\ after' \in Nat
    <3>1. chunk.type = "chunk" /\ DOMAIN chunk.vals \subseteq Keys
      BY ChunkParts
    <3> QED
      <4>1. after \in Keys \cup {0} /\ after' \in Keys \cup {0} /\ Keys \subseteq Nat
        BY SnapshotAssumption DEF Types, StreamType
      <4>2. 0 \in Nat
        BY SMTT(300)
      <4> QED
        BY <3>1, <4>1, <4>2
  <2>4. phase \notin {"replay", "live"} /\ phase # "live" /\ phase \notin Past
    BY <2>2 DEF Past
  <2>5. \A n \in 1..Len(wire) :
          /\ ~Is(n, "batch") /\ ~Is(n, "complete")
          /\ Is(n, "chunk") => ~wire[n].last /\ \A j \in DOMAIN wire[n].vals : ~(j > after)
    BY <2>4 DEF WireOrder
  <2>6. \A n \in 1..Len(wire) : Is(n, "chunk") /\ wire[n] \in Chunks
    <3>1. \A n \in 1..Len(wire) : wire[n] \in Messages
      BY Element DEF Types, ClientType
    <3> QED
      BY <2>5, <3>1, MessageKinds DEF Is
  <2>7. \A n \in 1..Len(wire) : \A j \in DOMAIN wire[n].vals : ~(j > after')
    <3> SUFFICES ASSUME NEW n \in 1..Len(wire), NEW j \in DOMAIN wire[n].vals PROVE ~(j > after')
      BY SMTT(300)
    <3>1. ~(j > after) /\ j \in Keys
      BY <2>5, <2>6, ChunkParts
    <3>2. after' = after \/ after' > after
      BY <2>1
    <3> QED
      BY SMTT(300), <2>3, <3>1, <3>2, SnapshotAssumption
  <2>8. ~chunk.last => \A j \in DOMAIN chunk.vals : ~(j > after')
    BY SMTT(300), <2>1, <2>3
  <2>9. chunk.type # "batch" /\ chunk.type # "complete"
    BY SMTT(300), <2>3
  <2>10. "subscribe" \in Past
    BY SMTT(300) DEF Past
  <2> QED
    BY <2>1, <2>2, <2>3, <2>5, <2>6, <2>7, <2>8, <2>9, <2>10, AppendOrder
<1>4. CASE Subscribe
  <2>1. phase = "subscribe" /\ phase' = "replay" /\ UNCHANGED <<on, wire, step, slotAt, sent, after>>
    BY <1>4 DEF Subscribe, source
  <2>2. phase' \in Past /\ ~(phase \in {"replay", "live"}) /\ phase # "live"
    BY SMTT(300), <2>1 DEF Past
  <2> QED
    BY <2>1, <2>2 DEF WireOrder, Is

<1>5. CASE SendBatch
  <2>1. PICK m \in pending :
           /\ wire' = Append(wire, [type |-> "batch", at |-> m]) /\ [type |-> "batch", at |-> m] \in Messages
           /\ sent' = m /\ m > sent /\ m \in Nat /\ slotAt # Unborn /\ m \in (slotAt + 1)..m
    BY <1>5, NextBatch
  <2>2. on /\ phase \in {"replay", "live"} /\ UNCHANGED <<on, step, slotAt, phase, after>>
    BY <1>5 DEF SendBatch, source
  <2> DEFINE batch == [type |-> "batch", at |-> m]
  <2>3. batch.type = "batch" /\ batch.at = m /\ batch.type # "chunk" /\ batch.type # "complete"
    BY SMTT(300)
  <2>4. \A n \in 1..Len(wire) : Is(n, "batch") => wire[n].at \in (slotAt + 1)..sent'
    <3>1. \A n \in 1..Len(wire) : Is(n, "batch") => wire[n].at \in (slotAt + 1)..sent
      BY DEF WireOrder
    <3>2. slotAt \in Nat /\ sent \in Nat
      BY SMTT(300), <2>1, SnapshotAssumption DEF Types, SourceType, OutboxType
    <3> QED
      BY SMTT(300), <2>1, <3>1, <3>2
  <2>5. batch \in Messages /\ wire' = Append(wire, batch)
    BY <2>1
  <2> HIDE DEF batch
  <2>6. \A n \in 1..Len(wire) :
          /\ Is(n, "complete") => phase = "live"
          /\ Is(n, "chunk") /\ (wire[n].last \/ \E j \in DOMAIN wire[n].vals : j > after) => phase \in Past
    BY DEF WireOrder
  <2> QED
    BY <2>1, <2>2, <2>3, <2>4, <2>5, <2>6, AppendOrder
<1>6. CASE SendComplete
  <2>1. /\ on /\ phase = "replay" /\ phase' = "live" /\ UNCHANGED <<on, step, slotAt, after>>
        /\ sent' = Max({sent, liveWm})
        /\ wire' = wire \/ wire' = Append(wire, [type |-> "complete"])
    BY <1>6 DEF SendComplete, Send, source
  <2>2. \A n \in 1..Len(wire) : Is(n, "batch") => slotAt # Unborn /\ wire[n].at \in (slotAt + 1)..sent'
    <3>1. \A n \in 1..Len(wire) : Is(n, "batch") => slotAt # Unborn /\ wire[n].at \in (slotAt + 1)..sent
      BY DEF WireOrder
    <3>2. sent \in Nat /\ liveWm \in Nat /\ slotAt \in Nat
      BY SMTT(300), SnapshotAssumption DEF Types, SourceType, OutboxType, Unborn
    <3>3. sent' = IF sent >= liveWm THEN sent ELSE liveWm
      BY SMTT(300), <2>1, <3>2, MaxOfTwo
    <3> QED
      BY SMTT(300), <3>1, <3>2, <3>3
  <2>3. phase' \in Past /\ phase' \in {"replay", "live"}
    BY SMTT(300), <2>1 DEF Past
  <2>4. CASE wire' = wire
    BY <2>1, <2>2, <2>3, <2>4 DEF WireOrder, Is
  <2>5. CASE wire' = Append(wire, [type |-> "complete"])
    <3> DEFINE message == [type |-> "complete"]
    <3>1. message.type = "complete" /\ message.type # "chunk" /\ message.type # "batch"
      BY SMTT(300)
    <3>2. message \in Messages /\ wire' = Append(wire, message)
      BY <2>5 DEF Messages
    <3> HIDE DEF message
    <3> QED
      BY <2>1, <2>2, <2>3, <3>1, <3>2, AppendOrder
  <2> QED
    BY <2>1, <2>4, <2>5
<1>7. CASE ChunkStep
  <2>1. /\ on /\ wire # <<>> /\ Receiving("chunk") /\ UNCHANGED <<on, phase, slotAt, sent, after>>
        /\ \/ step' = Begin /\ wire' = Tail(wire)
           \/ NextStep(step, Head(wire)) # Done /\ step' = NextStep(step, Head(wire)) /\ wire' = wire
    BY <1>7 DEF ChunkStep, Receiving, source, stream
  <2>2. CASE step' = Begin /\ wire' = Tail(wire)
    BY <2>1, <2>2, TailOrder
  <2>3. CASE NextStep(step, Head(wire)) # Done /\ step' = NextStep(step, Head(wire)) /\ wire' = wire
    <3>1. Head(wire) = wire[1] /\ Is(1, "chunk") /\ Head(wire) \in Chunks /\ step \in Steps /\ job \in JobType
      BY <2>1, HeadChunk DEF Types, ClientType, PeerType
    <3>2. step'.at \in Saves => DOMAIN wire[1].vals # {}
      <4>1. step'.at \in Saves => step = Begin \/ step.at \in Saves
        BY <2>3, <3>1, NextStepIs
      <4>2. step'.at \in Saves /\ step = Begin => DOMAIN Head(wire).vals # {}
        BY <2>3, <3>1, NextStepIs
      <4> QED
        BY <3>1, <4>1, <4>2 DEF WireOrder
    <3> QED
      BY <2>1, <2>3, <3>1, <3>2 DEF WireOrder, Is
  <2> QED
    BY <2>1, <2>2, <2>3
<1>8. CASE ApplyBatch \/ Complete
  <2>1. /\ on /\ wire # <<>> /\ Head(wire).type \in {"batch", "complete"}
        /\ UNCHANGED <<step, phase, slotAt, sent, after>>
        /\ (wire' = Tail(wire) /\ on' = on) \/ (wire' = <<>> /\ on' = FALSE)
    BY <1>8 DEF ApplyBatch, Complete, Receiving, source, stream
  <2>2. step = Begin
    <3>1. Head(wire).type # "chunk"
      BY SMTT(300), <2>1
    <3> QED
      BY <2>1, <3>1, HeadMessage DEF Is
  <2>3. CASE wire' = Tail(wire) /\ on' = on
    BY <2>1, <2>2, <2>3, TailOrder
  <2>4. CASE wire' = <<>>
    <3>1. 1..Len(wire)' = {}
      BY SMTT(300), <2>4
    <3> QED
      BY <2>1, <2>2, <2>4, <3>1, BeginSavesNothing DEF WireOrder
  <2> QED
    BY <2>1, <2>3, <2>4
<1>9. CASE Break
  <2>1. wire' = <<>> /\ step' = Begin
    BY <1>9 DEF Break
  <2>2. 1..Len(wire)' = {}
    BY SMTT(300), <2>1
  <2> QED
    BY <2>1, <2>2, BeginSavesNothing DEF WireOrder
<1>10. CASE UNCHANGED <<on, wire, step, phase, slotAt, sent, after>>
  BY <1>10 DEF WireOrder, Is
<1> QED
  BY <1>1, <1>2, <1>3, <1>4, <1>5, <1>6, <1>7, <1>8, <1>9, <1>10
     DEF Next, Work, Change, Stage, GhostStep, vars, source, stream

LEMMA TailInOrder ==
  ASSUME Types, Types', InOrder, on, wire # <<>>, wire' = Tail(wire), pending' \subseteq pending,
         UNCHANGED <<sent, liveWm>>, cursor' >= cursor, Is(1, "batch") => wire[1].at <= cursor'
  PROVE  InOrder'
<1>1. /\ Len(wire) \in Nat \ {0} /\ Len(wire') = Len(wire) - 1
      /\ \A n \in 1..Len(wire') : n + 1 \in 2..Len(wire) /\ wire'[n] = wire[n + 1]
  BY Shortened DEF Types, ClientType
<1>2. cursor \in Int /\ cursor' \in Int /\ pending \subseteq Int
  BY SMTT(300) DEF Types, OutboxType
<1>3. \A n \in 0..Len(wire)', j \in pending : Reaches(j, n + 1) => Reaches(j, n)'
  <2> SUFFICES ASSUME NEW n \in 0..Len(wire)', NEW j \in pending, Reaches(j, n + 1) PROVE Reaches(j, n)'
    OBVIOUS
  <2>1. CASE j <= cursor
    <3>1. j <= cursor'
      BY SMTT(300), <1>2, <2>1
    <3> QED
      BY <3>1 DEF Reaches
  <2>2. CASE \E m \in 1..(n + 1) : wire[m].type = "batch" /\ wire[m].at = j
    <3>1. PICK m \in 1..(n + 1) : wire[m].type = "batch" /\ wire[m].at = j
      BY <2>2
    <3>2. CASE m = 1
      BY <3>1, <3>2 DEF Reaches, Is
    <3>3. CASE m # 1
      <4>1. m - 1 \in 1..n /\ wire'[m - 1] = wire[m]
        BY SMTT(300), <1>1, <3>3
      <4>2. \E p \in 1..n : wire'[p].type = "batch" /\ wire'[p].at = j
        BY <3>1, <4>1
      <4> QED
        BY <4>2 DEF Reaches, Is
    <3> QED
      BY <3>2, <3>3
  <2> QED
    BY <2>1, <2>2 DEF Reaches, Is
<1>4. \A n \in 1..Len(wire)' :
        n + 1 \in 1..Len(wire) /\ wire'[n] = wire[n + 1] /\ n - 1 \in 0..Len(wire)' /\ (n - 1) + 1 = (n + 1) - 1
  BY SMTT(300), <1>1
<1>5. Len(wire)' \in 0..Len(wire)' /\ Len(wire)' + 1 = Len(wire)
  BY SMTT(300), <1>1
<1>6. \A j \in pending' : j <= sent' => Reaches(j, Len(wire))'
  BY <1>3, <1>5 DEF InOrder
<1>7. \A n \in 1..Len(wire)', j \in pending' :
        (Is(n, "batch")' /\ j < wire'[n].at) \/ (Is(n, "complete")' /\ j <= liveWm') => Reaches(j, n - 1)'
  <2> SUFFICES ASSUME NEW n \in 1..Len(wire)', NEW j \in pending',
                      (wire'[n].type = "batch" /\ j < wire'[n].at) \/ (wire'[n].type = "complete" /\ j <= liveWm')
               PROVE  Reaches(j, n - 1)'
    BY DEF Is
  <2>1. n + 1 \in 1..Len(wire) /\ wire'[n] = wire[n + 1] /\ n - 1 \in 0..Len(wire)' /\ (n - 1) + 1 = (n + 1) - 1
    BY <1>4
  <2>2. Reaches(j, (n + 1) - 1)
    BY <2>1 DEF InOrder, Is
  <2>3. Reaches(j, (n - 1) + 1)
    BY <2>1, <2>2
  <2> QED
    BY <1>3, <2>1, <2>3
<1> QED
  BY <1>6, <1>7 DEF InOrder

LEMMA AppendInOrder ==
  ASSUME Types, InOrder, on, NEW message \in Messages, wire' = Append(wire, message), UNCHANGED <<pending, cursor, liveWm>>,
         \A j \in pending : j <= sent' => j <= sent \/ (message.type = "batch" /\ message.at = j),
         message.type = "batch" => \A j \in pending : j < message.at => j <= sent,
         message.type = "complete" => \A j \in pending : j <= liveWm => j <= sent
  PROVE  InOrder'
<1>1. /\ Len(wire) \in Nat /\ Len(wire') = Len(wire) + 1
      /\ wire'[Len(wire) + 1] = message /\ \A n \in 1..Len(wire) : wire'[n] = wire[n]
  BY Appended DEF Types, ClientType
<1>2. \A n \in 0..Len(wire), j \in pending : Reaches(j, n) => Reaches(j, n)' /\ Reaches(j, n + 1)'
  <2> SUFFICES ASSUME NEW n \in 0..Len(wire), NEW j \in pending, Reaches(j, n) PROVE Reaches(j, n)' /\ Reaches(j, n + 1)'
    OBVIOUS
  <2>1. \A m \in 1..n : m \in 1..(n + 1) /\ wire'[m] = wire[m]
    BY SMTT(300), <1>1
  <2> QED
    BY <2>1 DEF Reaches, Is
<1>3. \A n \in 1..Len(wire)' : \/ n \in 1..Len(wire) /\ wire'[n] = wire[n] /\ n - 1 \in 0..Len(wire)
                               \/ n = Len(wire) + 1 /\ n - 1 = Len(wire) /\ wire'[n] = message
  BY SMTT(300), <1>1
<1>4. Len(wire) \in 0..Len(wire) /\ Len(wire) + 1 \in 1..(Len(wire) + 1)
  BY SMTT(300), <1>1
<1>5. \A j \in pending : j <= sent => Reaches(j, Len(wire))'
  BY <1>1, <1>2, <1>4 DEF InOrder
<1>6. \A j \in pending' : j <= sent' => Reaches(j, Len(wire))'
  <2>1. \A j \in pending : message.type = "batch" /\ message.at = j => Reaches(j, Len(wire))'
    <3>1. Len(wire) + 1 \in 1..Len(wire') /\ wire'[Len(wire) + 1] = message
      BY <1>1, <1>4
    <3> QED
      BY <3>1 DEF Reaches, Is
  <2> QED
    BY <1>5, <2>1
<1>7. \A n \in 1..Len(wire)', j \in pending' :
        (Is(n, "batch")' /\ j < wire'[n].at) \/ (Is(n, "complete")' /\ j <= liveWm') => Reaches(j, n - 1)'
  <2> SUFFICES ASSUME NEW n \in 1..Len(wire)', NEW j \in pending,
                      (wire'[n].type = "batch" /\ j < wire'[n].at) \/ (wire'[n].type = "complete" /\ j <= liveWm)
               PROVE  Reaches(j, n - 1)'
    BY DEF Is
  <2>1. CASE n \in 1..Len(wire) /\ wire'[n] = wire[n] /\ n - 1 \in 0..Len(wire)
    <3>1. Reaches(j, n - 1)
      BY <2>1 DEF InOrder, Is
    <3> QED
      BY <1>2, <2>1, <3>1
  <2>2. CASE n - 1 = Len(wire) /\ wire'[n] = message
    <3>1. j <= sent
      BY <2>2
    <3>2. j <= cursor' \/ \E m \in 1..Len(wire) : wire'[m].type = "batch" /\ wire'[m].at = j
      <4>1. Reaches(j, Len(wire))
        BY <3>1 DEF InOrder
      <4> QED
        BY <1>1, <4>1 DEF Reaches, Is
    <3> QED
      BY <2>2, <3>2 DEF Reaches, Is
  <2> QED
    BY <1>3, <2>1, <2>2
<1> QED
  BY <1>6, <1>7 DEF InOrder

LEMMA SameReach ==
  ASSUME UNCHANGED <<wire, cursor>>
  PROVE  \A j, n : Reaches(j, n) => Reaches(j, n)'
BY DEF Reaches, Is

LEMMA InOrderStep ==
  ASSUME Types, Types', SlotAndOutbox, WireOrder, InOrder, [Next]_vars
  PROVE  InOrder'
<1>0. /\ staged \in Nat /\ pending \subseteq 1..staged /\ sent \in 0..staged /\ liveWm \in 0..staged
      /\ cursor \in 0..staged
  BY DEF Types, OutboxType
<1>1. CASE Stage
  <2>1. pending' = pending \cup {staged + 1} /\ UNCHANGED <<on, sent, liveWm, cursor, wire>>
    BY <1>1 DEF Stage, stream
  <2>2. \A n \in 1..Len(wire) : Is(n, "batch") => ~(staged + 1 < wire[n].at)
    <3>1. \A n \in 1..Len(wire) : Is(n, "batch") => slotAt # Unborn /\ wire[n].at \in (slotAt + 1)..sent
      BY DEF WireOrder
    <3>2. slotAt # Unborn => slotAt \in 0..MaxLog
      BY DEF Types, SourceType
    <3> QED
      BY SMTT(300), <1>0, <3>1, <3>2, SnapshotAssumption
  <2>3. ~(staged + 1 <= sent) /\ ~(staged + 1 <= liveWm)
    BY SMTT(300), <1>0
  <2> QED
    BY <2>1, <2>2, <2>3, SameReach DEF InOrder, Is
<1>2. CASE Connect
  <2>1. wire' = <<>> /\ sent' = 0 /\ pending' = pending
    BY <1>2 DEF Connect, WireOrder, outbox
  <2>2. 1..Len(wire)' = {} /\ \A j \in pending : ~(j <= 0)
    BY SMTT(300), <1>0, <2>1
  <2> QED
    BY <2>1, <2>2 DEF InOrder
<1>3. CASE SendChunk
  <2>1. PICK chunk \in Chunks : wire' = Append(wire, chunk) /\ chunk \in Messages
    BY <1>3, NextChunk
  <2>2. chunk.type # "batch" /\ chunk.type # "complete"
    <3>1. chunk.type = "chunk"
      BY ChunkParts
    <3> QED
      BY SMTT(300), <3>1
  <2>3. on /\ UNCHANGED <<pending, cursor, liveWm, sent>>
    BY <1>3 DEF SendChunk, outbox
  <2> QED
    BY <2>1, <2>2, <2>3, AppendInOrder
<1>4. CASE Subscribe
  <2>1. phase = "subscribe" /\ UNCHANGED <<on, pending, sent, cursor, wire>>
    BY <1>4 DEF Subscribe, outbox
  <2>2. \A n \in 1..Len(wire) : ~Is(n, "complete")
    BY <2>1 DEF WireOrder
  <2> QED
    BY <2>1, <2>2, SameReach DEF InOrder, Is
<1>5. CASE SendBatch
  <2>1. PICK m \in pending :
           /\ wire' = Append(wire, [type |-> "batch", at |-> m]) /\ [type |-> "batch", at |-> m] \in Messages
           /\ sent' = m /\ m > sent /\ m \in Nat /\ \A j \in pending : j < m => j <= sent
    BY <1>5, NextBatch
  <2>2. on /\ UNCHANGED <<pending, cursor, liveWm>>
    BY <1>5 DEF SendBatch, outbox
  <2> DEFINE batch == [type |-> "batch", at |-> m]
  <2>3. batch.type = "batch" /\ batch.at = m /\ batch.type # "complete"
    BY SMTT(300)
  <2>4. batch \in Messages /\ wire' = Append(wire, batch)
    BY <2>1
  <2> HIDE DEF batch
  <2>5. \A j \in pending : j <= m => j = m \/ j < m
    BY SMTT(300), <1>0, <2>1
  <2>6. \A j \in pending : j <= sent' => j <= sent \/ (batch.type = "batch" /\ batch.at = j)
    BY <2>1, <2>3, <2>5
  <2>7. \A j \in pending : j < batch.at => j <= sent
    BY <2>1, <2>3
  <2> QED
    BY <2>2, <2>3, <2>4, <2>6, <2>7, AppendInOrder
<1>6. CASE SendComplete
  <2>1. /\ on /\ Unsent(liveWm) = {} /\ UNCHANGED <<on, pending, cursor, liveWm>>
        /\ sent' = Max({sent, liveWm})
        /\ wire' = wire \/ wire' = Append(wire, [type |-> "complete"])
    BY <1>6 DEF SendComplete, Send, outbox
  <2>2. \A j \in pending : j <= sent' \/ j <= liveWm => j <= sent
    <3>1. sent' = IF sent >= liveWm THEN sent ELSE liveWm
      BY SMTT(300), <1>0, <2>1, MaxOfTwo
    <3>2. \A j \in pending : ~(j > sent /\ j <= liveWm)
      BY <2>1 DEF Unsent
    <3> QED
      BY SMTT(300), <1>0, <3>1, <3>2
  <2>3. CASE wire' = wire
    BY <2>1, <2>2, <2>3, SameReach DEF InOrder, Is
  <2>4. CASE wire' = Append(wire, [type |-> "complete"])
    <3> DEFINE message == [type |-> "complete"]
    <3>1. message.type # "batch"
      BY SMTT(300)
    <3>2. message \in Messages /\ wire' = Append(wire, message)
      BY <2>4 DEF Messages
    <3> HIDE DEF message
    <3> QED
      BY <2>1, <2>2, <3>1, <3>2, AppendInOrder
  <2> QED
    BY <2>1, <2>3, <2>4
<1>7. CASE ChunkStep \/ ApplyBatch \/ Complete
  <2>1. /\ on /\ wire # <<>> /\ UNCHANGED <<sent, liveWm>> /\ pending' \subseteq pending
        /\ cursor' = cursor \/ cursor' = Max({cursor, Head(wire).at})
        /\ Head(wire).type = "batch" => cursor' = Max({cursor, Head(wire).at})
        /\ Head(wire).type # "batch" => cursor' = cursor
        /\ \/ on' = on /\ wire' = Tail(wire)
           \/ on' = FALSE /\ wire' = <<>>
           \/ UNCHANGED <<on, wire, pending, cursor>>
    <3>1. CASE ChunkStep
      <4>1. "chunk" # "batch"
        BY SMTT(300)
      <4> QED
        BY <3>1, <4>1 DEF ChunkStep, Receiving, outbox, stream
    <3>2. CASE ApplyBatch
      BY <3>2 DEF ApplyBatch, Receiving
    <3>3. CASE Complete
      <4>1. "complete" # "batch"
        BY SMTT(300)
      <4> QED
        BY <3>3, <4>1 DEF Complete, Receiving, outbox, stream
    <3> QED
      BY <1>7, <3>1, <3>2, <3>3
  <2>2. /\ 1 \in 1..Len(wire) /\ Head(wire) = wire[1]
    BY <2>1, HeadMessage
  <2>3. cursor' >= cursor /\ (Is(1, "batch") => wire[1].at <= cursor')
    <3>1. CASE Head(wire).type = "batch"
      <4>1. wire[1].at \in (slotAt + 1)..sent /\ slotAt # Unborn
        BY <2>2, <3>1 DEF WireOrder, Is
      <4>2. slotAt \in 0..MaxLog
        BY <4>1 DEF Types, SourceType
      <4>3. wire[1].at \in Int /\ cursor \in Int
        BY SMTT(300), <1>0, <4>1, <4>2, SnapshotAssumption
      <4>4. cursor' = IF cursor >= wire[1].at THEN cursor ELSE wire[1].at
        BY SMTT(300), <2>1, <2>2, <3>1, <4>3, MaxOfTwo
      <4> QED
        BY SMTT(300), <4>3, <4>4
    <3>2. CASE Head(wire).type # "batch"
      <4>1. cursor' >= cursor
        BY SMTT(300), <1>0, <2>1, <3>2
      <4> QED
        BY ZenonT(300), <2>2, <3>2, <4>1 DEF Is
    <3> QED
      BY <3>1, <3>2
  <2>4. CASE wire' = Tail(wire)
    BY <2>1, <2>3, <2>4, TailInOrder
  <2>5. CASE on' = FALSE /\ wire' = <<>>
    <3>1. 1..Len(wire)' = {}
      BY SMTT(300), <2>5
    <3> QED
      BY <2>5, <3>1 DEF InOrder
  <2>6. CASE UNCHANGED <<on, wire, pending, cursor>>
    BY <2>1, <2>6, SameReach DEF InOrder, Is
  <2> QED
    BY <2>1, <2>4, <2>5, <2>6
<1>8. CASE Break
  <2>1. on' = FALSE /\ wire' = <<>>
    BY <1>8 DEF Break
  <2>2. 1..Len(wire)' = {}
    BY SMTT(300), <2>1
  <2> QED
    BY <2>1, <2>2 DEF InOrder
<1>9. CASE UNCHANGED <<on, pending, sent, cursor, wire, liveWm>>
  BY <1>9, SameReach DEF InOrder, Is
<1> QED
  BY <1>1, <1>2, <1>3, <1>4, <1>5, <1>6, <1>7, <1>8, <1>9
     DEF Next, Work, Change, CreateSlot, GhostStep, vars, outbox, stream

-----------------------------------------------------------------------------
(* What the peer has of a key stays accounted for.                          *)

\* A change of a key that was read is captured, or the key counts as uncaptured.
LEMMA ChangeKeeps ==
  ASSUME Types, SlotAndOutbox, NEW c \in Keys, NEW delete \in BOOLEAN, Change(c, delete),
         NEW k \in Keys, slotAt = Unborn => HasBeenRead(k)
  PROVE  /\ src'[k] = src[k] \/ Outstanding(k)' \/ k \in uncaptured'
         /\ Outstanding(k) => Outstanding(k)'
         /\ uncaptured \subseteq uncaptured'
<1> DEFINE val == IF delete THEN Absent ELSE Len(log) + 1
           entry == [key |-> c, val |-> val]
<1>1. /\ log' = Append(log, entry) /\ src' = [src EXCEPT ![c] = val] /\ UNCHANGED <<slotAt, cursor>>
      /\ uncaptured' = IF slotAt = Unborn /\ HasBeenRead(c) THEN uncaptured \cup {c} ELSE uncaptured
  BY DEF Change
<1>2. entry.key = c
  BY SMTT(300)
<1> HIDE DEF entry, val
<1>3. /\ Len(log) \in Nat /\ DOMAIN log = 1..Len(log) /\ DOMAIN log' = 1..(Len(log) + 1)
      /\ log'[Len(log) + 1] = entry /\ \A i \in 1..Len(log) : log'[i] = log[i]
  BY SMTT(300), <1>1 DEF Types, SourceType
<1>4. Outstanding(k) => Outstanding(k)'
  <2>1. \A i \in DOMAIN log : i \in DOMAIN log' /\ log'[i] = log[i]
    BY SMTT(300), <1>3
  <2> QED
    BY ZenonT(300), <1>1, <2>1 DEF Outstanding
<1>5. CASE c # k
  <2>1. src'[k] = src[k]
    BY SMTT(300), <1>1, <1>5 DEF Types, SourceType
  <2> QED
    BY <1>1, <1>4, <2>1
<1>6. CASE c = k /\ slotAt = Unborn
  BY <1>1, <1>4, <1>6
<1>7. CASE c = k /\ slotAt # Unborn
  <2>1. Len(log) + 1 > slotAt /\ Len(log) + 1 > cursor
    <3>1. slotAt \in 0..MaxLog /\ slotAt <= staged /\ staged <= Len(log) /\ staged \in Nat /\ cursor \in 0..staged
      BY <1>7 DEF Types, SourceType, OutboxType, SlotAndOutbox
    <3> QED
      BY SMTT(300), <1>3, <3>1, SnapshotAssumption
  <2>2. Len(log) + 1 \in DOMAIN log'
    BY SMTT(300), <1>3
  <2>3. Outstanding(k)'
    BY <1>1, <1>2, <1>3, <1>7, <2>1, <2>2 DEF Outstanding
  <2> QED
    BY <1>1, <1>4, <2>3
<1> QED
  BY <1>5, <1>6, <1>7

LEMMA SameOutstanding ==
  ASSUME UNCHANGED <<log, slotAt, cursor>>, NEW k, Outstanding(k)
  PROVE  Outstanding(k)'
BY DEF Outstanding

\* Without a slot nothing is outstanding.
LEMMA NothingOutstanding ==
  ASSUME Types, slotAt = Unborn, NEW k
  PROVE  ~Outstanding(k)
<1>1. \A i \in DOMAIN log : ~(i > slotAt)
  BY SMTT(300), SnapshotAssumption DEF Types, SourceType, Unborn
<1> QED
  BY <1>1 DEF Outstanding

LEMMA CurrentKept ==
  ASSUME Types, SlotAndOutbox, [Next]_vars, ~ApplyBatch,
         NEW k \in Keys, NEW v, Current(k, v), slotAt = Unborn => HasBeenRead(k)
  PROVE  Current(k, v)'
<1>1. ASSUME NEW c \in Keys, NEW delete \in BOOLEAN, Change(c, delete) PROVE Current(k, v)'
  BY <1>1, ChangeKeeps DEF Current
<1>2. CASE CreateSlot
  <2>1. slotAt = Unborn /\ UNCHANGED <<src, uncaptured>>
    BY <1>2 DEF CreateSlot
  <2> QED
    BY <2>1, NothingOutstanding DEF Current
<1>3. CASE UNCHANGED <<src, log, slotAt, cursor, uncaptured>>
  BY <1>3, SameOutstanding DEF Current
<1> QED
  BY <1>1, <1>2, <1>3
     DEF Next, Work, Stage, Connect, SendChunk, Subscribe, SendBatch, SendComplete, ChunkStep,
         Complete, Break, GhostStep, vars, source

\* The batch at the head of the wire is the first one the peer has not applied.
LEMMA NextToApply ==
  ASSUME Types, SlotAndOutbox, WireOrder, InOrder, Receiving("batch"), NEW i, i = Head(wire).at
  PROVE  /\ i \in 1..staged /\ i \in DOMAIN log /\ log[i].key \in Keys /\ slotAt # Unborn /\ i > slotAt
         /\ phase \in {"replay", "live"}
         /\ \A j \in DOMAIN log : j > slotAt /\ j > cursor => j >= i
<1>1. wire # <<>> /\ 1 \in 1..Len(wire) /\ Head(wire) = wire[1] /\ Is(1, "batch")
  BY HeadMessage DEF Receiving, Is
<1>2. phase \in {"replay", "live"} /\ slotAt # Unborn /\ i \in (slotAt + 1)..sent
  BY <1>1 DEF WireOrder
<1>3. /\ slotAt \in 0..MaxLog /\ MaxLog \in Nat /\ staged \in Nat /\ sent \in 0..staged /\ staged <= Len(log)
      /\ cursor \in 0..staged
  BY <1>2, SnapshotAssumption DEF Types, SourceType, OutboxType
<1>4. i \in 1..staged /\ i > slotAt /\ i \in 1..Len(log) /\ DOMAIN log = 1..Len(log)
  BY SMTT(300), <1>2, <1>3 DEF Types, SourceType
<1>5. log[i].key \in Keys
  <2>1. log[i] \in [key : Keys, val : Values]
    BY <1>4, Element DEF Types, SourceType
  <2> QED
    BY SMTT(300), <2>1
<1>6. ASSUME NEW j \in DOMAIN log, j > slotAt, j > cursor, ~(j >= i) PROVE FALSE
  <2>1. j \in 1..staged /\ j < i /\ ~(j <= cursor)
    BY SMTT(300), <1>3, <1>4, <1>6
  <2>2. j \in pending
    BY <1>6, <2>1 DEF SlotAndOutbox
  <2>3. Reaches(j, 1 - 1)
    BY <1>1, <2>1, <2>2 DEF InOrder
  <2>4. 1..(1 - 1) = {}
    BY SMTT(300)
  <2> QED
    BY ZenonT(300), <2>1, <2>3, <2>4 DEF Reaches
<1> QED
  BY <1>2, <1>4, <1>5, <1>6

\* Applying the batch: its own key becomes the source's unless a later change is to come.
LEMMA ApplyKeeps ==
  ASSUME Types, SlotAndOutbox, SourceFollowsLog, WireOrder, InOrder, ApplyBatch, NEW k \in Keys, Accounted(k)
  PROVE  Accounted(k)'
<1> DEFINE i == Head(wire).at
<1>1. /\ Receiving("batch") /\ UNCHANGED <<src, log, slotAt, uncaptured>>
      /\ rows' = (IF i > cursor THEN [rows EXCEPT ![log[i].key] = log[i].val] ELSE rows)
      /\ overwritten' = (IF i > cursor THEN overwritten \ {log[i].key} ELSE overwritten)
      /\ cursor' = Max({cursor, i})
  BY DEF ApplyBatch, source
<1>2. /\ i \in 1..staged /\ i \in DOMAIN log /\ log[i].key \in Keys /\ slotAt # Unborn /\ i > slotAt
      /\ \A j \in DOMAIN log : j > slotAt /\ j > cursor => j >= i
  BY <1>1, NextToApply
<1> HIDE DEF i
<1>3. /\ i \in Nat /\ cursor \in Nat /\ DOMAIN log = 1..Len(log) /\ Len(log) \in Nat /\ slotAt \in Nat
      /\ cursor' = IF cursor >= i THEN cursor ELSE i
  <2>1. i \in Nat /\ cursor \in Nat /\ DOMAIN log = 1..Len(log) /\ Len(log) \in Nat /\ slotAt \in Nat
    BY SMTT(300), <1>2, SnapshotAssumption DEF Types, SourceType, OutboxType
  <2> QED
    BY SMTT(300), <1>1, <2>1, MaxOfTwo
<1>4. CASE ~(i > cursor)
  <2>1. cursor' = cursor
    BY SMTT(300), <1>3, <1>4
  <2> QED
    BY <1>1, <1>4, <2>1, SameOutstanding DEF Accounted
<1>5. CASE i > cursor /\ log[i].key # k
  <2>1. rows'[k] = rows[k] /\ (k \in overwritten => k \in overwritten')
    BY SMTT(300), <1>1, <1>5 DEF Types, PeerType
  <2>2. Outstanding(k) => Outstanding(k)'
    <3> SUFFICES ASSUME NEW j \in DOMAIN log, j > slotAt, j > cursor, log[j].key = k PROVE Outstanding(k)'
      BY DEF Outstanding
    <3>1. j >= i /\ j # i
      BY <1>2, <1>5
    <3>2. j > cursor'
      BY SMTT(300), <1>3, <1>5, <3>1
    <3> QED
      BY <1>1, <3>2 DEF Outstanding
  <2> QED
    BY ZenonT(300), <1>1, <2>1, <2>2 DEF Accounted
<1>6. CASE i > cursor /\ log[i].key = k
  <2>1. rows'[k] = log[i].val /\ cursor' = i
    BY SMTT(300), <1>1, <1>3, <1>6 DEF Types, PeerType
  <2>2. CASE \A j \in 1..Len(log) : j > i => log[j].key # log[i].key
    <3>1. src[k] = log[i].val
      BY <1>2, <1>3, <1>6, <2>2 DEF SourceFollowsLog
    <3> QED
      BY <1>1, <2>1, <3>1 DEF Accounted
  <2>3. CASE ~(\A j \in 1..Len(log) : j > i => log[j].key # log[i].key)
    <3>1. PICK j \in 1..Len(log) : j > i /\ log[j].key = k
      BY <1>6, <2>3
    <3>2. j > slotAt
      BY SMTT(300), <1>2, <1>3, <3>1
    <3>3. Outstanding(k)'
      BY <1>1, <1>3, <2>1, <3>1, <3>2 DEF Outstanding
    <3> QED
      BY <3>3 DEF Accounted
  <2> QED
    BY ZenonT(300), <2>2, <2>3
<1> QED
  BY <1>4, <1>5, <1>6

LEMMA AccountedKept ==
  ASSUME Types, SlotAndOutbox, SourceFollowsLog, WireOrder, InOrder, ChunksAreCurrent, [Next]_vars,
         NEW k \in Keys, Accounted(k), slotAt = Unborn => HasBeenRead(k)
  PROVE  Accounted(k)'
<1>1. ASSUME NEW c \in Keys, NEW delete \in BOOLEAN, Change(c, delete) PROVE Accounted(k)'
  <2>1. UNCHANGED <<rows, overwritten>>
    BY <1>1 DEF Change
  <2> QED
    BY <1>1, <2>1, ChangeKeeps DEF Accounted
<1>2. CASE CreateSlot
  <2>1. slotAt = Unborn /\ UNCHANGED <<src, rows, uncaptured, overwritten>>
    BY <1>2 DEF CreateSlot
  <2> QED
    BY <2>1, NothingOutstanding DEF Accounted
<1>3. CASE ChunkStep
  <2>1. /\ Receiving("chunk") /\ UNCHANGED <<src, log, slotAt, cursor, uncaptured>>
        /\ rows' = RowsAfter(step, Head(wire))
        /\ overwritten' = IF step = Begin THEN overwritten \ DOMAIN Head(wire).vals ELSE overwritten
    BY <1>3 DEF ChunkStep, source
  <2>2. rows'[k] = IF step = Begin /\ k \in DOMAIN Head(wire).vals THEN Head(wire).vals[k] ELSE rows[k]
    BY <2>1 DEF RowsAfter
  <2>3. k \in DOMAIN Head(wire).vals => Current(k, Head(wire).vals[k])
    <3>1. Head(wire) = wire[1] /\ Is(1, "chunk") /\ wire # <<>>
      BY <2>1, HeadChunk
    <3>2. 1 \in 1..Len(wire)
      BY <3>1, HeadMessage
    <3> QED
      BY <3>1, <3>2 DEF ChunksAreCurrent
  <2>4. CASE step = Begin /\ k \in DOMAIN Head(wire).vals
    BY <2>1, <2>2, <2>3, <2>4, SameOutstanding DEF Current, Accounted
  <2>5. CASE ~(step = Begin /\ k \in DOMAIN Head(wire).vals)
    <3>1. rows'[k] = rows[k] /\ (k \in overwritten => k \in overwritten')
      BY <2>1, <2>2, <2>5
    <3> QED
      BY <2>1, <3>1, SameOutstanding DEF Accounted
  <2> QED
    BY <2>4, <2>5
<1>4. CASE ApplyBatch
  BY <1>4, ApplyKeeps
<1>5. CASE GhostStep
  <2>1. /\ UNCHANGED <<src, log, slotAt, cursor, uncaptured>>
        /\ overwritten' = overwritten \cup {c \in Keys : rows'[c] # rows[c]}
    BY <1>5 DEF GhostStep, source
  <2> QED
    BY <2>1, SameOutstanding DEF Accounted
<1>6. CASE UNCHANGED <<src, log, slotAt, rows, cursor, uncaptured, overwritten>>
  BY <1>6, SameOutstanding DEF Accounted
<1> QED
  BY <1>1, <1>2, <1>3, <1>4, <1>5, <1>6
     DEF Next, Work, Stage, Connect, SendChunk, Subscribe, SendBatch, SendComplete,
         Complete, Break, vars, source

\* What the snapshot has come past has been read.
LEMMA PassedIsRead ==
  ASSUME Types, WireOrder, NEW k \in Keys, NEW n \in 1..Len(wire), Passes(n, k)
  PROVE  HasBeenRead(k)
<1>1. CASE wire[n].last \/ \E j \in DOMAIN wire[n].vals : j > after
  <2>1. phase \in Past
    BY <1>1 DEF WireOrder, Passes
  <2> QED
    BY <2>1 DEF HasBeenRead, Past
<1>2. CASE ~(wire[n].last \/ \E j \in DOMAIN wire[n].vals : j > after)
  <2>1. PICK j \in DOMAIN wire[n].vals : k <= j /\ ~(j > after)
    BY <1>2 DEF Passes
  <2>2. j \in Keys
    <3>1. wire[n] \in Messages
      BY Element DEF Types, ClientType
    <3>2. wire[n] \in Chunks
      BY ZenonT(300), <3>1, MessageKinds DEF Passes, Is
    <3> QED
      BY <3>2, ChunkParts
  <2>3. k <= after
    BY SMTT(300), <2>1, <2>2, SnapshotAssumption DEF Types, StreamType
  <2> QED
    BY <2>3 DEF HasBeenRead
<1> QED
  BY <1>1, <1>2

-----------------------------------------------------------------------------
(* The chunks on the wire.                                                  *)

\* A step that sends no chunk leaves those on the wire, but for one that was received.
LEMMA TailBrought ==
  ASSUME Types, wire # <<>>, wire' = Tail(wire), NEW k, NEW n \in 0..Len(wire)', Brought(k, n + 1)
  PROVE  Brought(k, n)' \/ (Is(1, "chunk") /\ k \in DOMAIN wire[1].vals)
<1>1. PICK m \in 1..(n + 1) : wire[m].type = "chunk" /\ k \in DOMAIN wire[m].vals
  BY DEF Brought, Is
<1>2. CASE m = 1
  BY <1>1, <1>2 DEF Is
<1>3. CASE m # 1
  <2>1. m - 1 \in 1..n /\ wire'[m - 1] = wire[m]
    BY SMTT(300), <1>3 DEF Types, ClientType
  <2> QED
    BY ZenonT(300), <1>1, <2>1 DEF Brought, Is
<1> QED
  BY <1>2, <1>3

LEMMA AppendBrought ==
  ASSUME Types, NEW message \in Messages, wire' = Append(wire, message), NEW k
  PROVE  /\ \A n \in 0..Len(wire) : Brought(k, n) => Brought(k, n)'
         /\ Brought(k, Len(wire)) => Brought(k, Len(wire))'
<1>1. /\ Len(wire) \in Nat /\ Len(wire') = Len(wire) + 1 /\ \A n \in 1..Len(wire) : wire'[n] = wire[n]
  BY Appended DEF Types, ClientType
<1>2. \A n \in 0..Len(wire) : Brought(k, n) => Brought(k, n)'
  <2> TAKE n \in 0..Len(wire)
  <2>1. \A m \in 1..n : wire'[m] = wire[m]
    BY SMTT(300), <1>1
  <2> QED
    BY <2>1 DEF Brought, Is
<1>3. \A m \in 1..Len(wire) : m \in 1..Len(wire') /\ wire'[m] = wire[m]
  BY SMTT(300), <1>1
<1>4. Brought(k, Len(wire)) => Brought(k, Len(wire))'
  BY <1>3 DEF Brought, Is
<1> QED
  BY <1>2, <1>4

LEMMA WireMoves ==
  ASSUME Types, SlotAndOutbox, WireOrder, [Next]_vars, ~SendChunk
  PROVE  \/ wire' = wire
         \/ wire' = <<>> /\ on' = FALSE
         \/ wire # <<>> /\ wire' = Tail(wire) /\ (Is(1, "chunk") => ChunkStep)
         \/ \E m \in Messages : m.type # "chunk" /\ wire' = Append(wire, m)
<1>1. CASE SendBatch
  <2>1. PICK m \in pending :
          wire' = Append(wire, [type |-> "batch", at |-> m]) /\ [type |-> "batch", at |-> m] \in Messages
    BY <1>1, NextBatch
  <2>2. [type |-> "batch", at |-> m].type # "chunk"
    BY SMTT(300)
  <2> QED
    BY <2>1, <2>2
<1>2. CASE SendComplete
  <2>1. wire' = wire \/ wire' = Append(wire, [type |-> "complete"])
    BY <1>2 DEF SendComplete, Send
  <2>2. [type |-> "complete"].type # "chunk" /\ [type |-> "complete"] \in Messages
    BY SMTT(300) DEF Messages
  <2> QED
    BY <2>1, <2>2
<1>3. CASE ChunkStep \/ ApplyBatch \/ Complete
  <2>1. wire # <<>> /\ Head(wire).type \in {"chunk", "batch", "complete"}
    BY <1>3 DEF ChunkStep, ApplyBatch, Complete, Receiving
  <2>2. ~ChunkStep => Head(wire).type # "chunk"
    <3>1. ~ChunkStep => Head(wire).type \in {"batch", "complete"}
      BY <1>3 DEF ApplyBatch, Complete, Receiving
    <3> QED
      BY SMTT(300), <3>1
  <2>3. Head(wire) = wire[1]
    BY <2>1, HeadMessage
  <2>4. wire' = wire \/ (wire' = <<>> /\ on' = FALSE) \/ wire' = Tail(wire)
    BY <1>3 DEF ChunkStep, ApplyBatch, Complete
  <2> QED
    BY <2>1, <2>2, <2>3, <2>4 DEF Is
<1>4. CASE Break
  BY <1>4 DEF Break
<1>5. CASE wire' = wire
  BY <1>5
<1> QED
  BY <1>1, <1>2, <1>3, <1>4, <1>5
     DEF Next, Work, Change, CreateSlot, Stage, Connect, Subscribe, GhostStep, vars

LEMMA ChunksStay ==
  ASSUME Types, SlotAndOutbox, WireOrder, [Next]_vars, ~SendChunk, NEW n \in 1..Len(wire)', Is(n, "chunk")'
  PROVE  \E m \in 1..Len(wire) :
           /\ wire'[n] = wire[m] /\ Is(m, "chunk")
           /\ \A k : Brought(k, m) => Brought(k, n)' \/ (ChunkStep /\ k \in DOMAIN wire[1].vals)
<1>1. CASE wire' = wire
  BY <1>1 DEF Is, Brought
<1>2. CASE wire' = <<>>
  <2>1. 1..Len(wire)' = {}
    BY SMTT(300), <1>2
  <2> QED
    BY <2>1
<1>3. CASE wire # <<>> /\ wire' = Tail(wire) /\ (Is(1, "chunk") => ChunkStep)
  <2>1. n + 1 \in 1..Len(wire) /\ wire'[n] = wire[n + 1] /\ n \in 0..Len(wire)'
    BY SMTT(300), <1>3 DEF Types, ClientType
  <2>2. \A k : Brought(k, n + 1) => Brought(k, n)' \/ (ChunkStep /\ k \in DOMAIN wire[1].vals)
    BY <1>3, <2>1, TailBrought
  <2>3. Is(n + 1, "chunk")
    BY <2>1 DEF Is
  <2> QED
    BY <2>1, <2>2, <2>3
<1>4. CASE \E m \in Messages : m.type # "chunk" /\ wire' = Append(wire, m)
  <2>1. PICK m \in Messages : m.type # "chunk" /\ wire' = Append(wire, m)
    BY <1>4
  <2>2. /\ Len(wire) \in Nat /\ Len(wire') = Len(wire) + 1 /\ wire'[Len(wire) + 1] = m
        /\ \A p \in 1..Len(wire) : wire'[p] = wire[p]
    BY <2>1, Appended DEF Types, ClientType
  <2>3. n # Len(wire) + 1
    BY <2>1, <2>2 DEF Is
  <2>4. n \in 1..Len(wire) /\ n \in 0..Len(wire)
    BY SMTT(300), <2>2, <2>3
  <2>5. wire'[n] = wire[n] /\ Is(n, "chunk")
    BY <2>2, <2>4 DEF Is
  <2> QED
    BY <2>1, <2>4, <2>5, AppendBrought
<1> QED
  BY <1>1, <1>2, <1>3, <1>4, WireMoves

LEMMA BroughtStays ==
  ASSUME Types, SlotAndOutbox, WireOrder, [Next]_vars, ~SendChunk, on', NEW k, Brought(k, Len(wire))
  PROVE  Brought(k, Len(wire))' \/ (ChunkStep /\ k \in DOMAIN wire[1].vals)
<1>1. CASE wire' = wire
  BY <1>1 DEF Is, Brought
<1>2. CASE wire # <<>> /\ wire' = Tail(wire) /\ (Is(1, "chunk") => ChunkStep)
  <2>1. Len(wire)' \in 0..Len(wire)' /\ Len(wire)' + 1 = Len(wire)
    BY SMTT(300), <1>2 DEF Types, ClientType
  <2> QED
    BY <1>2, <2>1, TailBrought
<1>3. CASE \E m \in Messages : m.type # "chunk" /\ wire' = Append(wire, m)
  BY <1>3, AppendBrought
<1> QED
  BY <1>1, <1>2, <1>3, WireMoves

\* The chunk the client has taken up, once its rows are written.
LEMMA HeadIsApplied ==
  ASSUME Types, SlotAndOutbox, SourceFollowsLog, WireOrder, InOrder, ChunksAreCurrent, Prefix, ChunkStep,
         NEW k \in Keys, k \in DOMAIN wire[1].vals
  PROVE  Accounted(k)'
<1>1. /\ Receiving("chunk") /\ UNCHANGED <<src, log, slotAt, cursor, uncaptured>>
      /\ rows' = RowsAfter(step, Head(wire))
  BY DEF ChunkStep, source
<1>2. wire # <<>> /\ Head(wire) = wire[1] /\ Is(1, "chunk")
  BY <1>1, HeadChunk
<1>3. 1 \in 1..Len(wire)
  BY <1>2, HeadMessage
<1>4. CASE step = Begin
  <2>1. rows'[k] = wire[1].vals[k]
    BY <1>1, <1>2, <1>4 DEF RowsAfter
  <2>2. Current(k, wire[1].vals[k])
    BY <1>2, <1>3 DEF ChunksAreCurrent
  <2> QED
    BY <1>1, <2>1, <2>2, SameOutstanding DEF Current, Accounted
<1>5. CASE step # Begin
  <2>1. Accounted(k)
    BY <1>5 DEF Prefix
  <2>2. k <= k
    BY SMTT(300), SnapshotAssumption
  <2>3. HasBeenRead(k)
    BY <1>2, <1>3, <2>2, PassedIsRead DEF Passes
  <2>4. [Next]_vars
    BY DEF Next, Work
  <2> QED
    BY <2>1, <2>3, <2>4, AccountedKept
<1> QED
  BY <1>4, <1>5

LEMMA ChunksAreCurrentStep ==
  ASSUME Types, SlotAndOutbox, WireOrder, ChunksAreCurrent, [Next]_vars
  PROVE  ChunksAreCurrent'
<1>1. \A n \in 1..Len(wire) : \A k \in DOMAIN wire[n].vals : Is(n, "chunk") => k \in Keys /\ Passes(n, k)
  <2> SUFFICES ASSUME NEW n \in 1..Len(wire), NEW k \in DOMAIN wire[n].vals, Is(n, "chunk") PROVE k \in Keys /\ Passes(n, k)
    OBVIOUS
  <2>1. wire[n] \in Messages
    BY Element DEF Types, ClientType
  <2>2. k \in Keys
    BY ZenonT(300), <2>1, MessageKinds, ChunkParts DEF Is
  <2>3. k <= k
    BY SMTT(300), <2>2, SnapshotAssumption
  <2> QED
    BY <2>2, <2>3 DEF Passes
<1>2. CASE ApplyBatch
  <2>1. wire # <<>> /\ Head(wire).type = "batch" /\ (wire' = <<>> \/ wire' = Tail(wire))
    BY <1>2 DEF ApplyBatch, Receiving
  <2>2. \A n \in 1..Len(wire) : ~Is(n, "chunk")
    <3>1. Head(wire).type # "chunk"
      BY SMTT(300), <2>1
    <3> QED
      BY <2>1, <3>1, HeadMessage DEF Is
  <2>3. ~SendChunk
    <3>1. Len(wire') < Len(wire)
      BY SMTT(300), <2>1 DEF Types, ClientType
    <3>2. SendChunk => Len(wire') = Len(wire) + 1 /\ Len(wire) \in Nat
      BY NextChunk, Appended DEF Types, ClientType
    <3> QED
      BY SMTT(300), <3>1, <3>2
  <2> QED
    BY <2>2, <2>3, ChunksStay DEF ChunksAreCurrent
<1>3. CASE SendChunk
  <2>1. PICK chunk \in Chunks :
           /\ wire' = Append(wire, chunk) /\ chunk \in Messages
           /\ \A j \in DOMAIN chunk.vals : src[j] # Absent /\ chunk.vals[j] = src[j]
    BY <1>3, NextChunk
  <2>2. UNCHANGED <<src, log, slotAt, cursor, uncaptured>>
    BY <1>3 DEF SendChunk, source
  <2>3. /\ Len(wire) \in Nat /\ Len(wire') = Len(wire) + 1 /\ wire'[Len(wire) + 1] = chunk
        /\ \A n \in 1..Len(wire) : wire'[n] = wire[n]
    BY <2>1, Appended DEF Types, ClientType
  <2>4. \A n \in 1..Len(wire)' : (n \in 1..Len(wire) /\ wire'[n] = wire[n]) \/ wire'[n] = chunk
    BY SMTT(300), <2>3
  <2>5. \A k, v : Current(k, v) => Current(k, v)'
    BY <2>2, SameOutstanding DEF Current
  <2>6. \A k \in DOMAIN chunk.vals : chunk.vals[k] # Absent /\ Current(k, chunk.vals[k])
    BY <2>1 DEF Current
  <2> SUFFICES ASSUME NEW n \in 1..Len(wire)', wire'[n].type = "chunk", NEW k \in DOMAIN wire'[n].vals
               PROVE  wire'[n].vals[k] # Absent /\ Current(k, wire[n].vals[k])'
    BY DEF ChunksAreCurrent, Is
  <2>7. wire'[n].vals[k] # Absent /\ Current(k, wire'[n].vals[k])
    BY <2>4, <2>6 DEF ChunksAreCurrent, Is
  <2> QED
    BY <2>5, <2>7
<1>4. CASE ~ApplyBatch /\ ~SendChunk
  <2> SUFFICES ASSUME NEW n \in 1..Len(wire)', Is(n, "chunk")', NEW k \in DOMAIN wire'[n].vals
               PROVE  wire'[n].vals[k] # Absent /\ Current(k, wire[n].vals[k])'
    BY DEF ChunksAreCurrent
  <2>1. PICK m \in 1..Len(wire) : wire'[n] = wire[m] /\ Is(m, "chunk")
    BY <1>4, ChunksStay
  <2>2. wire[m].vals[k] # Absent /\ Current(k, wire[m].vals[k])
    BY <2>1 DEF ChunksAreCurrent
  <2>3. k \in Keys /\ HasBeenRead(k)
    BY <1>1, <2>1, PassedIsRead
  <2> QED
    BY <1>4, <2>1, <2>2, <2>3, CurrentKept
<1> QED
  BY <1>2, <1>3, <1>4

LEMMA RowsAreAccountedStep ==
  ASSUME Types, SlotAndOutbox, SourceFollowsLog, WireOrder, InOrder, ChunksAreCurrent, RowsAreAccounted,
         Prefix, Covered, [Next]_vars
  PROVE  RowsAreAccounted'
<1> SUFFICES ASSUME NEW k \in Keys, rows'[k] # Absent PROVE Accounted(k)'
  BY DEF RowsAreAccounted
<1>1. CASE rows[k] # Absent
  <2>1. Accounted(k) /\ HasBeenRead(k)
    BY <1>1 DEF RowsAreAccounted, HasBeenRead
  <2> QED
    BY <2>1, AccountedKept
<1>2. CASE rows'[k] # rows[k]
  <2>1. CASE ChunkStep
    <3>1. rows' = RowsAfter(step, Head(wire)) /\ Receiving("chunk")
      BY <2>1 DEF ChunkStep
    <3>2. k \in DOMAIN Head(wire).vals
      BY <1>2, <3>1 DEF RowsAfter
    <3>3. Head(wire) = wire[1]
      BY <3>1, HeadChunk
    <3> QED
      BY <2>1, <3>2, <3>3, HeadIsApplied
  <2>2. CASE ApplyBatch
    <3>1. on /\ Receiving("batch") /\ wire # <<>> /\ Head(wire).type # "chunk"
      <4>1. on /\ Receiving("batch") /\ wire # <<>> /\ Head(wire).type = "batch"
        BY <2>2 DEF ApplyBatch, Receiving
      <4> QED
        BY SMTT(300), <4>1
    <3>2. slotAt # Unborn /\ phase \in Past
      BY <3>1, NextToApply DEF Past
    <3>3. ~Brought(k, Len(wire))
      BY <3>1, HeadMessage DEF Brought, Is
    <3>4. Accounted(k)
      BY <3>1, <3>2, <3>3 DEF Covered
    <3> QED
      BY <3>2, <3>4, AccountedKept
  <2>3. CASE GhostStep
    BY <1>2, <2>3 DEF GhostStep, Accounted
  <2> QED
    BY <1>2, <2>1, <2>2, <2>3
       DEF Next, Work, Change, CreateSlot, Stage, Connect, SendChunk, Subscribe, SendBatch, SendComplete,
           Complete, Break, vars
<1> QED
  BY <1>1, <1>2

\* With its next chunk the handler has sent every row up to the new place.
LEMMA SentIsCovered ==
  ASSUME Types, WireOrder, RowsAreAccounted, Covered, SendChunk, NEW k \in Keys,
         Passes(Len(wire), k)' \/ k <= after' \/ phase' \in Past
  PROVE  Accounted(k)' \/ Brought(k, Len(wire))'
<1>1. PICK chunk \in Chunks :
           /\ wire' = Append(wire, chunk) /\ chunk \in Messages
           /\ chunk.last => after' = after /\ phase' = "subscribe"
           /\ ~chunk.last => after' \in DOMAIN chunk.vals /\ phase' = phase
           /\ \A c \in Keys : c > after /\ (chunk.last \/ \E j \in DOMAIN chunk.vals : c <= j) =>
                                src[c] = Absent \/ c \in DOMAIN chunk.vals
  BY NextChunk
<1>2. on /\ phase = "snapshot" /\ UNCHANGED <<src, log, slotAt, rows, cursor, uncaptured, overwritten>>
  BY DEF SendChunk, source
<1>3. /\ Len(wire) \in Nat /\ Len(wire') = Len(wire) + 1 /\ wire'[Len(wire')] = chunk /\ Len(wire') \in 1..Len(wire')
  <2>1. Len(wire) \in Nat /\ Len(wire') = Len(wire) + 1 /\ wire'[Len(wire) + 1] = chunk
    BY <1>1, Appended DEF Types, ClientType
  <2> QED
    BY SMTT(300), <2>1
<1>4. Accounted(k) => Accounted(k)'
  BY <1>2, SameOutstanding DEF Accounted
<1>5. CASE k <= after
  <2>1. Accounted(k) \/ Brought(k, Len(wire))
    BY <1>2, <1>5 DEF Covered
  <2> QED
    BY <1>1, <1>4, <2>1, AppendBrought
<1>6. CASE ~(k <= after)
  <2>1. k > after
    BY SMTT(300), <1>6, SnapshotAssumption DEF Types, StreamType
  <2>2. chunk.last \/ \E j \in DOMAIN chunk.vals : k <= j
    <3>1. phase \notin Past
      BY <1>2 DEF Past
    <3>2. CASE Passes(Len(wire), k)'
      <4>1. wire'[Len(wire')].last \/ \E j \in DOMAIN wire'[Len(wire')].vals : k <= j
        BY <3>2 DEF Passes
      <4> QED
        BY <1>3, <4>1
    <3> QED
      BY <1>1, <1>6, <3>1, <3>2
  <2>3. CASE k \in DOMAIN chunk.vals
    <3>1. chunk.type = "chunk"
      BY ChunkParts
    <3> QED
      BY <1>3, <2>3, <3>1 DEF Brought, Is
  <2>4. CASE src[k] = Absent
    <3>1. Accounted(k)
      BY <2>4 DEF RowsAreAccounted, Accounted
    <3> QED
      BY <1>4, <3>1
  <2> QED
    BY <1>1, <2>1, <2>2, <2>3, <2>4
<1> QED
  BY <1>5, <1>6

LEMMA PrefixStep ==
  ASSUME Types, SlotAndOutbox, SourceFollowsLog, WireOrder, InOrder, ChunksAreCurrent, RowsAreAccounted,
         Prefix, Covered, [Next]_vars, Types', WireOrder'
  PROVE  Prefix'
<1>1. \A n \in 1..Len(wire), k \in Keys : Passes(n, k) => Accounted(k)' \/ Brought(k, n)
  BY PassedIsRead, AccountedKept DEF Prefix
<1>2. CASE SendChunk
  <2>1. PICK chunk \in Chunks : wire' = Append(wire, chunk) /\ chunk \in Messages
    BY <1>2, NextChunk
  <2>2. /\ Len(wire) \in Nat /\ Len(wire') = Len(wire) + 1 /\ \A n \in 1..Len(wire) : wire'[n] = wire[n]
    BY <2>1, Appended DEF Types, ClientType
  <2>3. ASSUME NEW n \in 1..Len(wire)', NEW k \in Keys, Passes(n, k)' PROVE Accounted(k)' \/ Brought(k, n)'
    <3>1. CASE n = Len(wire)'
      BY <1>2, <2>3, <3>1, SentIsCovered
    <3>2. CASE n # Len(wire)'
      <4>1. n \in 1..Len(wire) /\ n \in 0..Len(wire)
        BY SMTT(300), <2>2, <3>2
      <4>2. Passes(n, k)
        BY <2>2, <2>3, <4>1 DEF Passes, Is
      <4> QED
        BY <1>1, <2>1, <4>1, <4>2, AppendBrought
    <3> QED
      BY <3>1, <3>2
  <2>4. ASSUME step' # Begin, NEW k \in DOMAIN wire'[1].vals PROVE Accounted(k)'
    <3>1. step # Begin /\ UNCHANGED <<src, log, slotAt, rows, cursor, uncaptured, overwritten>>
      BY <1>2, <2>4 DEF SendChunk, source
    <3>2. wire # <<>>
      BY <3>1 DEF WireOrder
    <3>3. 1 \in 1..Len(wire)
      BY <3>2, HeadMessage
    <3>4. Accounted(k)
      BY <2>2, <2>4, <3>1, <3>3 DEF Prefix
    <3> QED
      BY <3>1, <3>4, SameOutstanding DEF Accounted
  <2> QED
    BY <2>3, <2>4 DEF Prefix
<1>3. CASE ~SendChunk
  <2>1. ASSUME NEW n \in 1..Len(wire)', NEW k \in Keys, Passes(n, k)' PROVE Accounted(k)' \/ Brought(k, n)'
    <3>1. PICK m \in 1..Len(wire) :
           /\ wire'[n] = wire[m] /\ Is(m, "chunk")
           /\ Brought(k, m) => Brought(k, n)' \/ (ChunkStep /\ k \in DOMAIN wire[1].vals)
      BY <1>3, <2>1, ChunksStay DEF Passes
    <3>2. Passes(m, k)
      BY <2>1, <3>1 DEF Passes
    <3> QED
      BY <1>1, <3>1, <3>2, HeadIsApplied
  <2>2. ASSUME step' # Begin, NEW k \in DOMAIN wire'[1].vals PROVE Accounted(k)'
    <3>1. wire' # <<>> /\ on' /\ wire'[1].type = "chunk"
      BY <2>2 DEF WireOrder, Is
    <3>2. k \in Keys
      <4>1. wire'[1] \in Messages
        BY SMTT(300), <3>1 DEF Types, ClientType
      <4> QED
        BY ZenonT(300), <3>1, <4>1, MessageKinds, ChunkParts
    <3>3. CASE ChunkStep
      <4>1. wire' = wire
        BY <2>2, <3>3 DEF ChunkStep
      <4> QED
        BY <2>2, <3>2, <3>3, <4>1, HeadIsApplied
    <3>4. CASE ~ChunkStep
      <4>1. step # Begin
        BY <2>2, <3>4
           DEF Next, Work, Change, CreateSlot, Stage, Connect, SendChunk, Subscribe, SendBatch, SendComplete,
               ApplyBatch, Complete, Break, GhostStep, vars
      <4>2. wire # <<>> /\ Is(1, "chunk")
        BY <4>1 DEF WireOrder
      <4>3. 1 \in 1..Len(wire)
        BY <4>2, HeadMessage
      <4>4. wire'[1] = wire[1]
        <5>1. ASSUME NEW m \in Messages, wire' = Append(wire, m) PROVE wire'[1] = wire[1]
          BY <4>3, <5>1, Appended DEF Types, ClientType
        <5> QED
          BY <1>3, <3>1, <3>4, <4>2, <5>1, WireMoves
      <4>5. Accounted(k)
        BY ZenonT(300), <2>2, <4>1, <4>4 DEF Prefix
      <4>6. k <= k
        BY SMTT(300), <3>2, SnapshotAssumption
      <4>7. HasBeenRead(k)
        BY <2>2, <3>2, <4>2, <4>3, <4>4, <4>6, PassedIsRead DEF Passes
      <4> QED
        BY <3>2, <4>5, <4>7, AccountedKept
    <3> QED
      BY <3>3, <3>4
  <2> QED
    BY <2>1, <2>2 DEF Prefix
<1> QED
  BY <1>2, <1>3

LEMMA CoveredStep ==
  ASSUME Types, SlotAndOutbox, SourceFollowsLog, WireOrder, InOrder, ChunksAreCurrent, RowsAreAccounted,
         Prefix, Covered, CheckpointIsBehindRows, SeededIsComplete, [Next]_vars
  PROVE  Covered'
<1> SUFFICES ASSUME on', NEW k \in Keys, k <= after' \/ phase' \in Past
             PROVE  Accounted(k)' \/ Brought(k, Len(wire))'
  BY DEF Covered
<1>1. CASE SendChunk
  BY <1>1, SentIsCovered
<1>2. CASE Connect
  <2>1. /\ phase' = (IF cursor = 0 /\ ~job.finished THEN "snapshot" ELSE "subscribe") /\ after' = job.last
        /\ UNCHANGED <<src, log, slotAt, rows, cursor, uncaptured, overwritten>>
    BY <1>2 DEF Connect, source
  <2>2. CASE k <= after'
    BY <2>1, <2>2, SameOutstanding DEF CheckpointIsBehindRows, Accounted
  <2>3. CASE phase' \in Past
    <3>1. ~(cursor = 0 /\ ~job.finished)
      BY <2>1, <2>3 DEF Past
    <3>2. cursor # 0 => cursor > 0
      BY SMTT(300) DEF Types, OutboxType
    <3>3. Accounted(k)
      BY <3>1, <3>2 DEF SeededIsComplete
    <3> QED
      BY <2>1, <3>3, SameOutstanding DEF Accounted
  <2> QED
    BY <2>2, <2>3
<1>3. CASE ~SendChunk /\ ~Connect
  <2>1. on /\ after' = after /\ (phase \in Past \/ phase' = phase)
    BY ZenonT(300), <1>3
       DEF Next, Work, Change, CreateSlot, Stage, Subscribe, SendBatch, SendComplete, ChunkStep,
           ApplyBatch, Complete, Break, GhostStep, vars, stream, Past
  <2>2. (k <= after \/ phase \in Past) /\ HasBeenRead(k)
    BY <2>1 DEF HasBeenRead, Past
  <2>3. Accounted(k)' \/ Brought(k, Len(wire))
    BY <2>1, <2>2, AccountedKept DEF Covered
  <2> QED
    BY <1>3, <2>3, BroughtStays, HeadIsApplied
<1> QED
  BY <1>1, <1>2, <1>3

-----------------------------------------------------------------------------
(* The job: what a checkpoint and the end of the snapshot stand for.        *)

\* What a chunk passes is accounted for once its rows are written.
LEMMA PassedByHead ==
  ASSUME Types, WireOrder, Prefix, Receiving("chunk"), NEW k \in Keys, NEW j \in DOMAIN wire[1].vals, k <= j
  PROVE  /\ Accounted(k) \/ (step = Begin /\ k \in DOMAIN wire[1].vals)
         /\ HasBeenRead(k)
<1>1. wire # <<>> /\ Is(1, "chunk") /\ 1 \in 1..Len(wire)
  BY HeadChunk, HeadMessage
<1>2. Passes(1, k)
  BY <1>1 DEF Passes
<1>3. Brought(k, 1) => k \in DOMAIN wire[1].vals
  <2>1. \A m \in 1..1 : m = 1
    BY SMTT(300)
  <2> QED
    BY <2>1 DEF Brought
<1> QED
  BY <1>1, <1>2, <1>3, PassedIsRead DEF Prefix

LEMMA GhostIsBehindStep ==
  ASSUME Types, SlotAndOutbox, SourceFollowsLog, WireOrder, InOrder, ChunksAreCurrent, RowsAreAccounted,
         Prefix, GhostIsBehind, [Next]_vars
  PROVE  GhostIsBehind'
<1>1. CASE ghost' = ghost
  <2> SUFFICES ASSUME ghost # NoGhost, NEW k \in Keys, \E j \in DOMAIN ghost.chunk.vals : k <= j, Accounted(k)
               PROVE  Accounted(k)'
    BY <1>1 DEF GhostIsBehind
  <2>1. HasBeenRead(k)
    BY DEF HasBeenRead
  <2> QED
    BY <2>1, AccountedKept
<1>2. CASE Receiving("chunk") /\ ghost' = [step |-> step, chunk |-> Head(wire)]
  <2>1. ghost'.step = step /\ ghost'.chunk = Head(wire)
    BY <1>2
  <2>2. /\ Head(wire) = wire[1] /\ (step.at \in Saves => DOMAIN wire[1].vals # {})
        /\ wire # <<>> /\ Is(1, "chunk")
    BY <1>2, HeadChunk
  <2>3. \A k \in DOMAIN wire[1].vals : wire[1].vals[k] # Absent
    <3>1. 1 \in 1..Len(wire)
      BY <2>2, HeadMessage
    <3> QED
      BY <2>2, <3>1 DEF ChunksAreCurrent
  <2>4. \A k \in Keys : (\E j \in DOMAIN wire[1].vals : k <= j) =>
          Accounted(k)' \/ (step = Begin /\ k \in DOMAIN wire[1].vals)
    BY <1>2, PassedByHead, AccountedKept
  <2> QED
    BY <2>1, <2>2, <2>3, <2>4 DEF GhostIsBehind
<1>3. CASE GhostStep
  <2> DEFINE chunk == ghost.chunk
             next == NextStep(ghost.step, chunk)
  <2>1. /\ ghost # NoGhost /\ rows' = RowsAfter(ghost.step, chunk)
        /\ overwritten' = overwritten \cup {k \in Keys : rows'[k] # rows[k]}
        /\ ghost' = IF next = Done THEN NoGhost ELSE [ghost EXCEPT !.step = next]
    BY <1>3 DEF GhostStep
  <2>2. ghost.step \in Steps /\ chunk \in Chunks /\ ghost \in [step : Steps, chunk : Chunks] /\ job \in JobType
    BY SMTT(300), <2>1 DEF Types, ClientType, PeerType
  <2>3. CASE next # Done
    <3>1. ghost'.step = next /\ ghost'.chunk = chunk
      BY SMTT(300), <2>1, <2>2, <2>3
    <3>2. next.at \in Saves => DOMAIN chunk.vals # {}
      <4>0. /\ job \in JobType /\ ghost.step \in Steps /\ chunk \in Chunks
            /\ next = NextStep(ghost.step, chunk) /\ next # Done
        BY <2>2, <2>3
      <4> HIDE DEF next, chunk
      <4>1. next.at \in Saves => ghost.step = Begin \/ ghost.step.at \in Saves
        BY ZenonT(300), <4>0, NextStepIs
      <4>2. next.at \in Saves /\ ghost.step = Begin => DOMAIN chunk.vals # {}
        BY ZenonT(300), <4>0, NextStepIs
      <4> USE DEF next, chunk
      <4> QED
        BY <2>1, <4>1, <4>2 DEF GhostIsBehind
    <3>3. ASSUME NEW k \in Keys, \E j \in DOMAIN chunk.vals : k <= j PROVE Accounted(k)'
      <4>1. HasBeenRead(k)
        BY <2>1, <3>3 DEF HasBeenRead
      <4>2. CASE Accounted(k)
        BY <4>1, <4>2, AccountedKept
      <4>3. CASE ghost.step = Begin /\ k \in DOMAIN chunk.vals
        <5>1. rows'[k] = chunk.vals[k] /\ chunk.vals[k] # Absent
          BY <2>1, <4>3 DEF RowsAfter, GhostIsBehind
        <5>2. CASE rows'[k] = rows[k]
          BY <4>2, <5>1, <5>2 DEF RowsAreAccounted
        <5>3. CASE rows'[k] # rows[k]
          BY <2>1, <5>3 DEF Accounted
        <5> QED
          BY <5>2, <5>3
      <4> QED
        BY <2>1, <3>3, <4>2, <4>3 DEF GhostIsBehind
    <3>4. \A k \in DOMAIN chunk.vals : chunk.vals[k] # Absent
      BY <2>1 DEF GhostIsBehind
    <3> HIDE DEF chunk, next
    <3> QED
      BY <3>1, <3>2, <3>3, <3>4 DEF GhostIsBehind
  <2>4. CASE next = Done
    BY ZenonT(300), <2>1, <2>4 DEF GhostIsBehind, NoGhost
  <2> QED
    BY <2>3, <2>4
<1> QED
  BY ZenonT(300), <1>1, <1>2, <1>3
     DEF Next, Work, Change, CreateSlot, Stage, Connect, SendChunk, Subscribe, SendBatch, SendComplete,
         ChunkStep, ApplyBatch, Complete, Break, vars

\* A step leaves the job, writes a checkpoint of the chunk it is at, or ends the snapshot.
LEMMA JobStep ==
  ASSUME Types, WireOrder, Prefix, GhostIsBehind, SeenIsBehind, [Next]_vars
  PROVE  /\ job'.finished => job.finished \/ (Complete /\ phase = "live")
         /\ \/ job'.last \in {0, job.last}
            \/ \A k \in Keys : k <= job'.last => Accounted(k) /\ HasBeenRead(k)
<1>0. job.last \in {0, job.last}
  BY SMTT(300)
<1>1. CASE ChunkStep
  <2>1. Receiving("chunk") /\ job' = JobAfter(step, Head(wire))
    BY <1>1 DEF ChunkStep
  <2>2. /\ Head(wire) = wire[1] /\ Head(wire) \in Chunks /\ (step.at \in Saves => DOMAIN wire[1].vals # {})
        /\ job \in JobType /\ step \in Steps
    BY <2>1, HeadChunk DEF Types, PeerType, ClientType
  <2>3. /\ job'.finished => job.finished
        /\ job'.last \in {0, job.last, step.seen} \/ (step # Begin /\ job'.last \in DOMAIN wire[1].vals)
    BY <2>1, <2>2, JobMoves
  <2>4. \A k \in Keys : k <= step.seen => Accounted(k) /\ HasBeenRead(k)
    BY DEF SeenIsBehind, HasBeenRead
  <2> QED
    BY <2>1, <2>3, <2>4, PassedByHead
<1>2. CASE GhostStep
  <2>1. ghost # NoGhost /\ job' = JobAfter(ghost.step, ghost.chunk)
    BY <1>2 DEF GhostStep
  <2>2. ghost.step \in Steps /\ ghost.chunk \in Chunks
    BY SMTT(300), <2>1 DEF Types, ClientType
  <2>3. ghost.step.at \in Saves => DOMAIN ghost.chunk.vals # {}
    BY <2>1 DEF GhostIsBehind
  <2>4. /\ job'.finished => job.finished
        /\ job'.last \in {0, job.last, ghost.step.seen} \/ (ghost.step # Begin /\ job'.last \in DOMAIN ghost.chunk.vals)
    BY <2>1, <2>2, <2>3, JobMoves DEF Types, PeerType
  <2>5. ghost.step # Begin /\ job'.last \in DOMAIN ghost.chunk.vals =>
          \A k \in Keys : k <= job'.last => Accounted(k) /\ HasBeenRead(k)
    BY <2>1 DEF GhostIsBehind, HasBeenRead
  <2>6. \A k \in Keys : k <= ghost.step.seen => Accounted(k) /\ HasBeenRead(k)
    BY <2>1 DEF SeenIsBehind, HasBeenRead
  <2> QED
    BY <2>4, <2>5, <2>6
<1>3. CASE Complete
  <2>1. wire # <<>> /\ Head(wire).type = "complete" /\ Complete
    BY <1>3 DEF Complete, Receiving
  <2>2. phase = "live"
    BY <2>1, HeadMessage DEF WireOrder, Is
  <2>3. job' = job \/ job' = [job EXCEPT !.status = "finished", !.finished = TRUE]
    BY <1>3 DEF Complete
  <2>4. job'.last = job.last
    BY <2>3 DEF Types, PeerType, JobType
  <2> QED
    BY <1>0, <1>3, <2>2, <2>4
<1>4. CASE job' = job
  BY <1>0, <1>4
<1> QED
  BY <1>1, <1>2, <1>3, <1>4
     DEF Next, Work, Change, CreateSlot, Stage, Connect, SendChunk, Subscribe, SendBatch, SendComplete,
         ApplyBatch, Break, vars

LEMMA FinishedStep ==
  ASSUME Types, WireOrder, Prefix, GhostIsBehind, SeenIsBehind, Finished, [Next]_vars
  PROVE  Finished'
<1>1. /\ job'.finished => job.finished \/ (Complete /\ phase = "live")
  BY JobStep
<1>2. CASE Complete /\ phase = "live"
  BY ZenonT(300), <1>2 DEF Complete, stream, Finished, Past
<1>3. CASE job.finished
  BY <1>3
     DEF Finished, Past, Next, Work, Change, CreateSlot, Stage, Connect, SendChunk, Subscribe, SendBatch, SendComplete,
         ChunkStep, ApplyBatch, Complete, Break, GhostStep, vars, stream
<1> QED
  BY <1>1, <1>2, <1>3 DEF Finished

LEMMA CheckpointStep ==
  ASSUME Types, Types', SlotAndOutbox, SourceFollowsLog, WireOrder, InOrder, ChunksAreCurrent,
         Prefix, GhostIsBehind, SeenIsBehind, CheckpointIsBehindRows, [Next]_vars
  PROVE  CheckpointIsBehindRows'
<1> SUFFICES ASSUME NEW k \in Keys, k <= job'.last PROVE Accounted(k)'
  BY DEF CheckpointIsBehindRows
<1>1. CASE \A c \in Keys : c <= job'.last => Accounted(c) /\ HasBeenRead(c)
  BY <1>1, AccountedKept
<1>2. CASE job'.last = job.last
  BY <1>2, AccountedKept DEF CheckpointIsBehindRows, HasBeenRead
<1>3. CASE job'.last = 0
  BY SMTT(300), <1>3, SnapshotAssumption
<1> QED
  BY <1>1, <1>2, <1>3, JobStep

LEMMA SeenStep ==
  ASSUME Types, Types', SlotAndOutbox, SourceFollowsLog, WireOrder, InOrder, ChunksAreCurrent,
         CheckpointIsBehindRows, SeenIsBehind, [Next]_vars
  PROVE  SeenIsBehind'
<1> DEFINE Held == {0, job.last, step.seen} \cup IF ghost = NoGhost THEN {} ELSE {ghost.step.seen}
<1>1. ASSUME NEW k \in Keys, NEW key \in Held, k <= key PROVE Accounted(k)'
  <2>1. CASE key = 0
    BY SMTT(300), <1>1, <2>1, SnapshotAssumption
  <2>2. CASE key # 0
    <3>1. Accounted(k) /\ HasBeenRead(k)
      BY <1>1, <2>2 DEF CheckpointIsBehindRows, SeenIsBehind, HasBeenRead
    <3> QED
      BY <3>1, AccountedKept
  <2> QED
    BY <2>1, <2>2
<1>2. step'.seen \in Held
  <2>1. CASE ChunkStep
    <3>1. /\ Receiving("chunk")
          /\ \/ step' = Begin
             \/ NextStep(step, Head(wire)) # Done /\ step' = NextStep(step, Head(wire))
      BY <2>1 DEF ChunkStep
    <3>2. Head(wire) \in Chunks /\ step \in Steps /\ job \in JobType
      BY <3>1, HeadChunk DEF Types, ClientType, PeerType
    <3>3. step' = Begin => step'.seen = 0
      BY SMTT(300) DEF Begin
    <3>4. step' # Begin => step'.seen \in {0, job.last}
      BY <3>1, <3>2, NextStepIs
    <3> QED
      BY <3>3, <3>4
  <2>2. CASE Break
    <3>1. step' = Begin
      BY <2>2 DEF Break
    <3>2. step'.seen = 0
      BY SMTT(300), <3>1 DEF Begin
    <3> QED
      BY <3>2
  <2>3. CASE step' = step
    BY <2>3
  <2> QED
    BY ZenonT(300), <2>1, <2>2, <2>3
       DEF Next, Work, Change, CreateSlot, Stage, Connect, SendChunk, Subscribe, SendBatch, SendComplete,
           ApplyBatch, Complete, GhostStep, vars
<1>3. ghost' # NoGhost => ghost'.step.seen \in Held
  <2>1. CASE ghost' = [step |-> step, chunk |-> Head(wire)]
    BY <2>1
  <2>2. CASE GhostStep
    <3> DEFINE next == NextStep(ghost.step, ghost.chunk)
    <3>1. ghost # NoGhost /\ ghost' = IF next = Done THEN NoGhost ELSE [ghost EXCEPT !.step = next]
      BY <2>2 DEF GhostStep
    <3>2. ghost \in [step : Steps, chunk : Chunks] /\ job \in JobType
      BY <3>1 DEF Types, ClientType, PeerType
    <3>3. ghost.step \in Steps /\ ghost.chunk \in Chunks
      BY <3>2
    <3>4. next # Done => next.seen \in {0, job.last}
      BY <3>2, <3>3, NextStepIs
    <3> HIDE DEF next
    <3>5. next # Done => ghost'.step = next
      BY SMTT(300), <3>1, <3>2
    <3> QED
      BY <3>1, <3>4, <3>5
  <2>3. CASE ghost' = ghost
    BY <2>3
  <2> QED
    BY ZenonT(300), <2>1, <2>2, <2>3
       DEF Next, Work, Change, CreateSlot, Stage, Connect, SendChunk, Subscribe, SendBatch, SendComplete,
           ChunkStep, ApplyBatch, Complete, Break, vars
<1> HIDE DEF Held
<1> QED
  BY <1>1, <1>2, <1>3 DEF SeenIsBehind

\* Once a message behind the chunks has arrived the snapshot is at the peer.
LEMMA BehindTheChunks ==
  ASSUME Types, WireOrder, Covered, on, wire # <<>>, ~Is(1, "chunk"), phase \in Past, NEW k \in Keys
  PROVE  Accounted(k) /\ HasBeenRead(k)
<1>1. ~Brought(k, Len(wire))
  BY ZenonT(300), HeadMessage DEF Brought
<1> QED
  BY <1>1 DEF Covered, HasBeenRead, Past

LEMMA SeededStep ==
  ASSUME Types, SlotAndOutbox, SourceFollowsLog, WireOrder, InOrder, ChunksAreCurrent,
         Prefix, Covered, GhostIsBehind, SeenIsBehind, Finished, SeededIsComplete, [Next]_vars
  PROVE  SeededIsComplete'
<1> SUFFICES ASSUME cursor' > 0 \/ job'.finished, NEW k \in Keys PROVE Accounted(k)'
  BY DEF SeededIsComplete
<1>1. CASE cursor > 0
  <2>1. slotAt # Unborn
    BY SMTT(300), <1>1 DEF Types, OutboxType, SlotAndOutbox
  <2> QED
    BY <1>1, <2>1, AccountedKept DEF SeededIsComplete
<1>2. CASE job.finished
  BY <1>2, AccountedKept DEF SeededIsComplete, Finished, HasBeenRead, Past
<1>3. CASE ApplyBatch \/ Complete
  <2>1. on /\ wire # <<>> /\ Head(wire).type \in {"batch", "complete"}
    BY <1>3 DEF ApplyBatch, Complete, Receiving
  <2>2. 1 \in 1..Len(wire) /\ Head(wire) = wire[1] /\ "batch" # "chunk" /\ "complete" # "chunk"
    BY SMTT(300), HeadMessage, <2>1
  <2>3. ~Is(1, "chunk") /\ (Is(1, "batch") \/ Is(1, "complete"))
    BY <2>1, <2>2 DEF Is
  <2>4. phase \in Past
    BY <2>2, <2>3 DEF WireOrder, Past
  <2> QED
    BY <2>1, <2>3, <2>4, BehindTheChunks, AccountedKept
<1>4. CASE cursor' = cursor /\ ~Complete
  BY <1>1, <1>2, <1>4, JobStep
<1> QED
  BY ZenonT(300), <1>3, <1>4
     DEF Next, Work, Change, CreateSlot, Stage, Connect, SendChunk, Subscribe, SendBatch, SendComplete,
         ChunkStep, Break, GhostStep, vars

LEMMA BoundedStep ==
  ASSUME Types, SlotAndOutbox, WireOrder, Bounded, [Next]_vars
  PROVE  Bounded'
<1>1. Len(wire)' <= QueueCap
  <2>0. wire \in Seq(Messages) /\ Len(wire) <= QueueCap /\ QueueCap \in Nat
    BY SnapshotAssumption DEF Types, ClientType, Bounded
  <2>1. ASSUME NEW m, Send(m) PROVE Len(wire)' <= QueueCap
    <3>1. Len(wire) < QueueCap /\ wire' = Append(wire, m)
      BY <2>1 DEF Send
    <3> QED
      BY SMTT(300), <2>0, <3>1
  <2>2. CASE wire # <<>> /\ wire' = Tail(wire)
    BY SMTT(300), <2>0, <2>2
  <2>3. CASE wire' = <<>>
    BY SMTT(300), <2>0, <2>3
  <2>4. CASE wire' = wire
    BY <2>0, <2>4
  <2> QED
    BY ZenonT(300), <2>1, <2>2, <2>3, <2>4
       DEF Next, Work, Change, CreateSlot, Stage, Connect, SendChunk, Subscribe, SendBatch, SendComplete,
           ChunkStep, ApplyBatch, Complete, Break, GhostStep, vars, Receiving
<1>2. \A n \in 1..Len(wire)' : Is(n, "chunk")' => Cardinality(DOMAIN wire'[n].vals) <= ChunkSize
  <2>1. CASE SendChunk
    <3>1. PICK chunk \in Chunks :
            wire' = Append(wire, chunk) /\ chunk \in Messages /\ Cardinality(DOMAIN chunk.vals) <= ChunkSize
      BY <2>1, NextChunk
    <3>2. /\ Len(wire) \in Nat /\ Len(wire') = Len(wire) + 1 /\ wire'[Len(wire) + 1] = chunk
          /\ \A n \in 1..Len(wire) : wire'[n] = wire[n]
      BY <3>1, Appended DEF Types, ClientType
    <3>3. \A n \in 1..Len(wire)' : (n \in 1..Len(wire) /\ wire'[n] = wire[n]) \/ wire'[n] = chunk
      BY SMTT(300), <3>2
    <3> QED
      BY <3>1, <3>3 DEF Bounded, Is
  <2>2. CASE ~SendChunk
    BY <2>2, ChunksStay DEF Bounded
  <2> QED
    BY <2>1, <2>2
<1> QED
  BY ZenonT(300), <1>1, <1>2 DEF Bounded

-----------------------------------------------------------------------------
(* The invariant, and what follows from it.                                 *)

LEMMA InitIInv == Init => IInv
<1> SUFFICES ASSUME Init PROVE IInv
  BY SMTT(300)
<1>0. /\ MaxLog \in Nat /\ MaxFaults \in Nat /\ Values = 0..(MaxLog + 1) /\ Absent = 0 /\ Initially = MaxLog + 1
      /\ Unborn = MaxLog + 2 /\ Keys \subseteq Nat \ {0}
  BY SnapshotAssumption DEF Values, Absent, Initially, Unborn
<1>1. /\ log = <<>> /\ slotAt \in {0, Unborn} /\ staged = 0 /\ pending = {}
      /\ on = FALSE /\ phase = "none" /\ after = 0 /\ requested = FALSE /\ liveWm = 0 /\ sent = 0
      /\ wire = <<>> /\ step = Begin /\ ghost = NoGhost /\ cursor = 0 /\ job = NoJob
      /\ uncaptured = {} /\ overwritten = {} /\ faults = 0
      /\ \A k \in Keys : rows[k] = Absent
  BY DEF Init
<1>2. Types
  <2>1. SourceType /\ rows \in [Keys -> Values]
    BY SMTT(300), <1>0 DEF Init, SourceType
  <2>2. OutboxType
    BY SMTT(300), <1>1 DEF OutboxType
  <2>3. ClientType /\ faults \in 0..MaxFaults
    <3>1. step \in Steps
      BY <1>1 DEF Steps
    <3> QED
      BY SMTT(300), <1>0, <1>1, <3>1 DEF ClientType
  <2>4. StreamType
    BY <1>1 DEF StreamType
  <2>5. job \in JobType
    <3>1. job = [status |-> "none", last |-> 0, finished |-> FALSE]
      BY ZenonT(300), <1>1 DEF NoJob
    <3> QED
      BY SMTT(300), <3>1 DEF JobType
  <2> QED
    BY <1>1, <2>1, <2>2, <2>3, <2>4, <2>5 DEF Types, PeerType
<1>3. 1..Len(wire) = {} /\ 1..Len(log) = {} /\ 1..staged = {} /\ ~(cursor > 0) /\ \A k \in Keys : ~(k <= 0)
  BY SMTT(300), <1>0, <1>1
<1>4. SlotAndOutbox
  BY SMTT(300), <1>0, <1>1, <1>3 DEF SlotAndOutbox
<1>5. job.finished = FALSE /\ job.last = 0
  BY <1>1 DEF NoJob
<1>6. SourceFollowsLog /\ WireOrder /\ InOrder /\ ChunksAreCurrent /\ RowsAreAccounted
  BY <1>1, <1>3, BeginSavesNothing DEF SourceFollowsLog, WireOrder, InOrder, ChunksAreCurrent, RowsAreAccounted
<1>7. Prefix /\ Covered /\ GhostIsBehind /\ Finished
  BY <1>1, <1>3, <1>5 DEF Prefix, Covered, GhostIsBehind, Finished
<1>8. CheckpointIsBehindRows /\ SeenIsBehind /\ SeededIsComplete
  <2>1. step.seen = 0
    BY SMTT(300), <1>1 DEF Begin
  <2> QED
    BY <1>1, <1>3, <1>5, <2>1 DEF CheckpointIsBehindRows, SeenIsBehind, SeededIsComplete
<1>9. Bounded
  <2>1. Len(wire) <= QueueCap
    BY SMTT(300), <1>1, SnapshotAssumption
  <2> QED
    BY ZenonT(300), <1>3, <2>1 DEF Bounded
<1> QED
  BY <1>2, <1>4, <1>6, <1>7, <1>8, <1>9 DEF IInv

LEMMA NextIInv == IInv /\ [Next]_vars => IInv'
<1> SUFFICES ASSUME IInv, [Next]_vars PROVE IInv'
  BY SMTT(300)
<1> USE DEF IInv
<1>1. Types'
  BY TypesStep
<1>2. SlotAndOutbox'
  BY <1>1, SlotAndOutboxStep
<1>3. SourceFollowsLog'
  BY SourceFollowsLogStep
<1>4. WireOrder'
  BY <1>1, WireOrderStep
<1>5. InOrder'
  BY <1>1, InOrderStep
<1>6. ChunksAreCurrent'
  BY ChunksAreCurrentStep
<1>7. RowsAreAccounted'
  BY RowsAreAccountedStep
<1>8. Prefix'
  BY <1>1, <1>4, PrefixStep
<1>9. Covered'
  BY CoveredStep
<1>10. GhostIsBehind'
  BY GhostIsBehindStep
<1>11. Finished'
  BY FinishedStep
<1>12. CheckpointIsBehindRows'
  BY <1>1, CheckpointStep
<1>13. SeededIsComplete'
  BY SeededStep
<1>14. Bounded'
  BY BoundedStep
<1>15. SeenIsBehind'
  BY <1>1, SeenStep
<1> QED
  BY <1>1, <1>2, <1>3, <1>4, <1>5, <1>6, <1>7, <1>8, <1>9, <1>10, <1>11, <1>12, <1>13, <1>14, <1>15

\* The invariant holds: no interleaving of source, producer, handler, client and a client without its
\* lease (Change, Consume, ApplyIncomingChunk, Ack) leaves it.
THEOREM IInvHolds == Spec => []IInv
<1>1. Init => IInv
  BY InitIInv
<1>2. IInv /\ [Next]_vars => IInv'
  BY NextIInv
<1> QED
  BY <1>1, <1>2, PTL DEF Spec

\* Type correctness, for any keys and bounds: the cursor and the watermarks stay within what
\* is staged, the queue within its capacity and a chunk within snapshot.chunk_size.
THEOREM TypeCorrect == Spec => []TypeOK
<1>1. IInv => TypeOK
  <2> SUFFICES ASSUME IInv PROVE TypeOK
    BY SMTT(300)
  <2>1. Types /\ Bounded
    BY DEF IInv
  <2>2. staged \in 0..Len(log) /\ DOMAIN wire = 1..Len(wire)
    BY SMTT(300), <2>1 DEF Types, SourceType, OutboxType, ClientType
  <2>3. step.at \in {"apply", "checkpoint", "again", "last"} /\ step.seen \in Keys \cup {0}
    BY <2>1, StepKinds DEF Types, ClientType, Saves
  <2> QED
    BY <2>1, <2>2, <2>3
       DEF TypeOK, Types, SourceType, OutboxType, StreamType, ClientType, PeerType, JobType, Past, Bounded, Is
<1> QED
  BY <1>1, IInvHolds, PTL

\* ApplyIncomingChunk: the checkpoint a session resumes behind never runs ahead of the rows,
\* whatever breaks between the two transactions and whichever client writes them.
THEOREM CheckpointNeverAhead == Spec => []CheckpointIsBehindRows
<1>1. IInv => CheckpointIsBehindRows
  BY DEF IInv
<1> QED
  BY <1>1, IInvHolds, PTL

\* QueueSnapshotRequests: a peer that asks for no snapshot any more has all of the table.
THEOREM NoSnapshotIsSkipped == Spec => []SeededIsComplete
<1>1. IInv => SeededIsComplete
  BY DEF IInv
<1> QED
  BY <1>1, IInvHolds, PTL

\* Consume: SnapshotComplete is delivered behind every batch up to the live watermark.
THEOREM CatchUpComesFirst == Spec => []CompleteAfterCatchUp
<1>1. IInv => CompleteAfterCatchUp
  <2> SUFFICES ASSUME IInv, on, Receiving("complete"), NEW i \in pending, i <= liveWm PROVE i <= cursor
    BY DEF CompleteAfterCatchUp
  <2>1. 1 \in 1..Len(wire) /\ Is(1, "complete")
    BY HeadMessage DEF IInv, Receiving, Is
  <2>2. Reaches(i, 1 - 1)
    BY <2>1 DEF IInv, InOrder
  <2>3. 1..(1 - 1) = {}
    BY SMTT(300)
  <2> QED
    BY <2>2, <2>3 DEF Reaches
<1> QED
  BY <1>1, IInvHolds, PTL
=============================================================================
