---------------------------- MODULE CaptureBasics ----------------------------
(***************************************************************************)
(* The inductive invariant of Capture.  A batch is a chunk of one          *)
(* transaction that begins at a multiple of max_batch_events               *)
(* (BatchesAreChunks), even if an earlier session staged it, so one that   *)
(* ends with the same change is the same; and the slot stands behind a     *)
(* handled commit (SessionIsOrdered).  What a peer has reached stays       *)
(* reached, and so do what is staged of the batch at hand and what the     *)
(* slot has passed; and a transaction that is staged again brings no       *)
(* change of a key behind a younger one, unless the change was taken for   *)
(* another one of the same version before (shadowed).                      *)
(***************************************************************************)
EXTENDS Capture, ApplyProofs

\* Leaves without a backend of their own are Zenon's.
USE ZenonT(300)

-----------------------------------------------------------------------------
(* The order of the events of a transaction.                                *)

LEMMA InOrderIs ==
  ASSUME NEW S \in SUBSET Nat, IsFiniteSet(S), NEW s, s = InOrder(S, <)
  PROVE  /\ Cardinality(S) \in Nat /\ s \in [1..Cardinality(S) -> S]
         /\ \A m, n \in 1..Cardinality(S) : m < n => s[m] < s[n]
         /\ \A i \in S : \E n \in 1..Cardinality(S) : s[n] = i
<1>1. \E q \in [1..Cardinality(S) -> S] : \A m, n \in DOMAIN q : m < n => q[m] < q[n]
  BY Ascending
<1>2. s \in [1..Cardinality(S) -> S] /\ \A m, n \in DOMAIN s : m < n => s[m] < s[n]
  BY <1>1 DEF InOrder
<1>3. /\ Cardinality(S) \in Nat /\ DOMAIN s = 1..Cardinality(S)
      /\ \A i \in S : \E n \in 1..Cardinality(S) : s[n] = i
  BY <1>2, Ascending
<1> QED
  BY <1>2, <1>3

-----------------------------------------------------------------------------
(* The inductive invariant.                                                 *)

Owners == {Local, "elsewhere", "null"}
WriteOps == {"insert", "update", "delete"}
Changes == [kind : {"change"}, tx : 1..MaxTx, op : WriteOps, id : Ids, old : Ids, owner : Owners,
            rehomed : BOOLEAN, len : Nat, toast : BOOLEAN, fields : Fields]
CommitRecords == [kind : {"commit"}, tx : 1..MaxTx]
Events == [table : Tables, key : Keys, ver : Nat, op : WriteOps, fields : Fields, at : Nat]
CursorValues == [ver : Nat, key : Keys \cup {0}]
PeerStates == [rows : [Ids -> RowType(Peers \cup {Local})], cursors : [Tables -> CursorValues]]

Types ==
  /\ wal \in Seq(Changes \cup CommitRecords)
  /\ src \in [Ids -> RowType({Local, "elsewhere"})]
  /\ conf \in Configs /\ slot \in Nat /\ on \in BOOLEAN /\ start \in Nat /\ durable \in Nat
  /\ last \in Nat /\ handling \in Nat /\ staged \in [Peers -> Nat]
  /\ outbox \in [Peers -> Seq(Seq(Events))] /\ peer \in [Peers -> PeerStates]
  /\ handled \subseteq Nat /\ applied \in [Peers -> SUBSET Nat] /\ passed \in [Peers -> SUBSET Ids]
  /\ shadowed \in [Peers -> SUBSET DOMAIN wal] /\ faults \in 0..MaxFaults

\* A transaction writes nothing after its commit, and no more than there is room for.
WalIsOrdered ==
  /\ \A c \in Commits : \A i \in DOMAIN wal : wal[i].tx = wal[c].tx => i <= c
  /\ Len(wal) - Cardinality(Commits) <= MaxChanges

\* A row is written by one transaction at a time.
RowsAreLocked ==
  \A i, j \in DOMAIN wal :
    /\ i < j /\ wal[i].kind = "change" /\ wal[j].kind = "change" /\ wal[i].id = wal[j].id
    => wal[i].tx = wal[j].tx \/ \E c \in Commits : c < j /\ wal[c].tx = wal[i].tx

\* Where the slot can stand.
IsStop(x) == x = LSN(1) \/ \E c \in handled : x = CommitNext(c)

SessionIsOrdered ==
  /\ IsStop(slot) /\ (on => IsStop(start) /\ IsStop(durable) /\ start <= slot)
  /\ ~on => handling = 0 /\ last = 0
  /\ handling = 0 => staged = [p \in Peers |-> 0]
  /\ last \in Commits \cup {0} /\ handled \subseteq Commits
  /\ handling # 0 => handling \in Decoded /\ \A c \in Decoded : handling <= c

\* What the peer has seen of a change: its cursor is at or behind it, or it is not wanted,
\* or was taken for another one.
Reached(p, e) ==
  \/ ~Allowed(ApplyMode, e.op) \/ e.at \in shadowed[p]
  \/ \E n \in DOMAIN outbox[p] : e \in Range(outbox[p][n])
  \/ (e.at \in applied[p] \/ IdOf(e) \in passed[p]) /\ Stale(e, peer[p].cursors[e.table])

ReachedByAll(c) == \A p \in Peers : \A e \in Range(EventsOf(c)) : Reached(p, e)
Safe(c) == c - 1 \in handled \/ ReachedByAll(c)

\* A handled transaction has reached every peer, also if a later session forgot that it was.
HandledIsReached == \A c \in handled : ReachedByAll(c)

StagedIsSafe ==
  \A c \in Commits :
    /\ LSN(c) < slot \/ (on /\ LSN(c) < durable) => Safe(c)
    /\ c <= last /\ LSN(c) >= start => ReachedByAll(c)

\* Chunks begin at multiples of max_batch_events.
Part(c, s) == SubSeq(EventsOf(c), s + 1, Min({s + conf.maxEvents, Len(EventsOf(c))}))
IsBoundary(c, s) ==
  /\ s \in 0..Len(EventsOf(c))
  /\ s = Len(EventsOf(c)) \/ \E k \in 0..s : s = k * conf.maxEvents

StagedInChunks == handling # 0 => \A p \in Peers : IsBoundary(handling, staged[p])
StagedIsReached ==
  handling # 0 => \A p \in Peers : \A n \in 1..staged[p] : Reached(p, EventsOf(handling)[n])

BatchesAreChunks ==
  \A p \in Peers : \A n \in DOMAIN outbox[p] :
    \E c \in Commits : \E s \in 0..Len(EventsOf(c)) :
      IsBoundary(c, s) /\ s < Len(EventsOf(c)) /\ outbox[p][n] = Part(c, s)

AppliedIsBehind ==
  \A p \in Peers : \A j \in applied[p] :
    /\ \E c \in Commits : j \in SentOf(c)
    /\ Stale(ChangeEvent(j), peer[p].cursors[wal[j].id[1]])

\* No session, this or a later one, decodes the commit again.
IsPast(c) == LSN(c) < slot /\ (on => c \notin Decoded)
IsStaged(p, i) == \E n \in DOMAIN outbox[p] : ChangeEvent(i) \in Range(outbox[p][n])
Processed(p, i) == Stale(ChangeEvent(i), peer[p].cursors[wal[i].id[1]])
\* Change i can no longer come to peer p, or changes nothing when it does.
IsOver(p, c, i) == Processed(p, i) \/ (IsPast(c) /\ ~IsStaged(p, i))

\* Changes of one key come to a peer in their order, but for the shadowed ones.
KeysInOrder ==
  \A p \in Peers : \A c \in Commits : \A i \in SentOf(c) :
   Allowed(ApplyMode, wal[i].op) /\ i \notin shadowed[p] =>
    /\ \A j \in applied[p] : i < j /\ wal[i].id = wal[j].id => IsOver(p, c, i)
    /\ \A n \in DOMAIN outbox[p] : \A e \in Range(outbox[p][n]) : i < e.at /\ wal[i].id = IdOf(e) =>
         \/ IsOver(p, c, i)
         \/ \E m \in 1..n : ChangeEvent(i) \in Range(outbox[p][m])

Basics ==
  /\ Types /\ WalIsOrdered /\ RowsAreLocked /\ SessionIsOrdered /\ StagedInChunks
  /\ BatchesAreChunks /\ AppliedIsBehind
IInv == Basics /\ StagedIsReached /\ StagedIsSafe /\ HandledIsReached /\ KeysInOrder

-----------------------------------------------------------------------------
(* The WAL, and the events of a commit.                                     *)

LEMMA WalParts ==
  ASSUME Types
  PROVE  /\ Len(wal) \in Nat /\ DOMAIN wal = 1..Len(wal)
         /\ \A i \in DOMAIN wal : i \in Nat /\ wal[i] \in Changes \cup CommitRecords
         /\ \A i \in DOMAIN wal : wal[i].tx \in 1..MaxTx
         /\ \A i \in DOMAIN wal : wal[i].kind = "change" => wal[i] \in Changes
         /\ \A i \in DOMAIN wal : wal[i].kind = "commit" => wal[i] \in CommitRecords
<1>1. Len(wal) \in Nat /\ DOMAIN wal = 1..Len(wal) /\ \A i \in DOMAIN wal : i \in Nat
  BY SMTT(300) DEF Types
<1>2. \A i \in DOMAIN wal : wal[i] \in Changes \cup CommitRecords
  <2> DEFINE R == Changes \cup CommitRecords
  <2> HIDE DEF R
  <2>1. wal \in Seq(R)
    BY DEF Types, R
  <2>2. \A i \in DOMAIN wal : wal[i] \in R
    BY SMTT(300), <2>1
  <2> QED
    BY <2>2 DEF R
<1>3. \A r \in Changes : r.kind = "change" /\ r.tx \in 1..MaxTx
  BY DEF Changes
<1>4. \A r \in CommitRecords : r.kind = "commit" /\ r.tx \in 1..MaxTx
  BY DEF CommitRecords
<1> QED
  BY ZenonT(300), <1>1, <1>2, <1>3, <1>4

LEMMA ChangeParts ==
  ASSUME Types, NEW i \in DOMAIN wal, wal[i].kind = "change"
  PROVE  /\ wal[i].op \in WriteOps /\ wal[i].id \in Ids /\ wal[i].old \in Ids /\ wal[i].owner \in Owners
         /\ wal[i].len \in Nat /\ wal[i].fields \in Fields
         /\ wal[i].id[1] \in Tables /\ wal[i].id[2] \in Keys /\ wal[i].id = <<wal[i].id[1], wal[i].id[2]>>
<1>1. wal[i] \in Changes
  BY WalParts
<1>2. /\ wal[i].op \in WriteOps /\ wal[i].id \in Ids /\ wal[i].old \in Ids /\ wal[i].owner \in Owners
      /\ wal[i].len \in Nat /\ wal[i].fields \in Fields
  BY <1>1 DEF Changes
<1>3. \A id \in Ids : id[1] \in Tables /\ id[2] \in Keys /\ id = <<id[1], id[2]>>
  BY SMTT(300) DEF Ids
<1> QED
  BY <1>2, <1>3

LEMMA EventParts ==
  ASSUME Types, NEW i \in DOMAIN wal, wal[i].kind = "change"
  PROVE  /\ ChangeEvent(i) \in Events /\ ChangeEvent(i).at = i /\ ChangeEvent(i).op = wal[i].op
         /\ ChangeEvent(i).table = wal[i].id[1] /\ IdOf(ChangeEvent(i)) = wal[i].id
         /\ EventID(ChangeEvent(i)) = [table |-> wal[i].id[1], key |-> wal[i].id[2],
                                       ver |-> Version(i, wal[i].len), op |-> wal[i].op]
<1>1. i \in Nat /\ Version(i, wal[i].len) \in Nat
  <2>1. i \in Nat /\ wal[i].len \in Nat
    BY WalParts, ChangeParts
  <2>2. i * RecordSize \in Nat
    BY SMTT(300), <2>1, CaptureAssumption
  <2> QED
    BY SMTT(300), <2>1, <2>2 DEF Version, LSN
<1> DEFINE e == ChangeEvent(i)
<1>2. /\ e.table = wal[i].id[1] /\ e.key = wal[i].id[2] /\ e.ver = Version(i, wal[i].len)
      /\ e.op = wal[i].op /\ e.fields = wal[i].fields /\ e.at = i
  BY SMTT(300) DEF ChangeEvent
<1>3. e \in Events
  BY <1>1, ChangeParts DEF Events, ChangeEvent
<1> HIDE DEF e
<1> QED
  BY <1>2, <1>3, ChangeParts DEF IdOf, EventID, e

LEMMA SentParts ==
  ASSUME Types, NEW c \in DOMAIN wal
  PROVE  /\ SentOf(c) \in SUBSET Nat /\ IsFiniteSet(SentOf(c))
         /\ \A i \in SentOf(c) : /\ i \in DOMAIN wal /\ i <= c /\ wal[i].kind = "change"
                                 /\ wal[i].tx = wal[c].tx
<1>1. c \in 1..Len(wal) /\ Len(wal) \in Nat /\ DOMAIN wal = 1..Len(wal)
  BY WalParts
<1>2. 1..c \in SUBSET Nat /\ IsFiniteSet(1..c) /\ \A i \in 1..c : i \in 1..Len(wal) /\ i <= c
  <2> DEFINE N == Len(wal)
  <2>0. c \in 1..N /\ N \in Nat
    BY <1>1
  <2> HIDE DEF N
  <2>1. c \in Int /\ 1 \in Int /\ 1..c \in SUBSET Nat /\ \A i \in 1..c : i \in 1..N /\ i <= c
    BY SMTT(300), <2>0
  <2>2. IsFiniteSet(1..c)
    BY <2>1, FS_Interval
  <2> QED
    BY <2>1, <2>2 DEF N
<1>3. SentOf(c) \in SUBSET (1..c)
  BY DEF SentOf
<1>4. IsFiniteSet(SentOf(c))
  BY <1>2, <1>3, FS_Subset
<1> QED
  BY ZenonT(300), <1>1, <1>2, <1>3, <1>4 DEF SentOf

\* The events of a commit are the sent changes of its transaction, in the order of the WAL.
LEMMA EventsAre ==
  ASSUME Types, NEW c \in DOMAIN wal
  PROVE  /\ EventsOf(c) \in Seq(Events) /\ Len(EventsOf(c)) = Cardinality(SentOf(c))
         /\ Len(EventsOf(c)) \in Nat /\ DOMAIN EventsOf(c) = 1..Len(EventsOf(c))
         /\ \A n \in 1..Len(EventsOf(c)) : /\ EventsOf(c)[n].at \in SentOf(c)
                                           /\ EventsOf(c)[n] = ChangeEvent(EventsOf(c)[n].at)
         /\ \A m, n \in 1..Len(EventsOf(c)) : m < n => EventsOf(c)[m].at < EventsOf(c)[n].at
         /\ Range(EventsOf(c)) = {ChangeEvent(i) : i \in SentOf(c)}
<1> DEFINE S == SentOf(c)
           s == InOrder(S, <)
           N == Cardinality(S)
           ev == [n \in 1..N |-> ChangeEvent(s[n])]
<1>1. S \in SUBSET Nat /\ IsFiniteSet(S)
  BY SentParts
<1>2. \A i \in S : ChangeEvent(i) \in Events /\ ChangeEvent(i).at = i
  BY ZenonT(300), SentParts, EventParts
<1> HIDE DEF S
<1>3. /\ N \in Nat /\ s \in [1..N -> S]
      /\ \A m, n \in 1..N : m < n => s[m] < s[n]
      /\ \A i \in S : \E n \in 1..N : s[n] = i
  BY <1>1, InOrderIs
<1>4. EventsOf(c) = ev
  <2>1. DOMAIN s = 1..N
    BY <1>3
  <2> QED
    BY <2>1 DEF EventsOf, S
<1> HIDE DEF s, N
<1>5. \A n \in 1..N : s[n] \in S /\ ev[n] = ChangeEvent(s[n])
  BY <1>3
<1>6. \A n \in 1..N : ev[n] \in Events /\ ev[n].at = s[n]
  BY <1>2, <1>5
<1>7. ev \in Seq(Events) /\ Len(ev) = N /\ DOMAIN ev = 1..N
  <2>1. ev \in [1..N -> Events]
    BY <1>6
  <2> HIDE DEF ev
  <2> QED
    BY SMTT(300), <1>3, <2>1
<1>8. Range(ev) = {ChangeEvent(i) : i \in S}
  <2> HIDE DEF ev
  <2>1. Range(ev) = {ev[n] : n \in 1..N}
    BY <1>7 DEF Range
  <2>2. \A n \in 1..N : ev[n] \in {ChangeEvent(i) : i \in S}
    BY <1>5
  <2>3. \A i \in S : \E n \in 1..N : ev[n] = ChangeEvent(i)
    BY <1>3, <1>5
  <2>4. \A i \in S : ChangeEvent(i) \in {ev[n] : n \in 1..N}
    BY <2>3
  <2> QED
    BY <2>1, <2>2, <2>4
<1>9. \A n \in 1..N : ev[n].at \in S /\ ev[n] = ChangeEvent(ev[n].at)
  BY <1>5, <1>6
<1>10. \A m, n \in 1..N : m < n => ev[m].at < ev[n].at
  BY <1>3, <1>6
<1> HIDE DEF ev
<1> QED
  BY <1>3, <1>4, <1>7, <1>8, <1>9, <1>10 DEF S, N

-----------------------------------------------------------------------------
(* The WAL only grows, and what it held stays what it was.                  *)

LEMMA WalGrows ==
  ASSUME Types, NEW r, wal' = Append(wal, r)
  PROVE  /\ Len(wal)' = Len(wal) + 1 /\ DOMAIN wal' = 1..(Len(wal) + 1) /\ wal'[Len(wal) + 1] = r
         /\ DOMAIN wal \subseteq DOMAIN wal' /\ Len(wal) + 1 \notin DOMAIN wal
         /\ \A i \in DOMAIN wal' : i \in DOMAIN wal \/ i = Len(wal) + 1
         /\ \A i \in DOMAIN wal : wal'[i] = wal[i] /\ i < Len(wal) + 1
         /\ Commits' = IF r.kind = "commit" THEN Commits \cup {Len(wal) + 1} ELSE Commits
<1>1. /\ Len(wal') = Len(wal) + 1 /\ DOMAIN wal' = 1..(Len(wal) + 1) /\ wal'[Len(wal) + 1] = r
      /\ \A i \in DOMAIN wal : wal'[i] = wal[i]
  <2> DEFINE R == Changes \cup CommitRecords
  <2> HIDE DEF R
  <2>1. wal \in Seq(R)
    BY DEF Types, R
  <2> QED
    BY SMTT(300), <2>1
<1>2. /\ DOMAIN wal \subseteq 1..(Len(wal) + 1) /\ Len(wal) + 1 \notin DOMAIN wal
      /\ Len(wal) + 1 \in 1..(Len(wal) + 1)
      /\ \A i \in 1..(Len(wal) + 1) : i \in DOMAIN wal \/ i = Len(wal) + 1
      /\ \A i \in DOMAIN wal : i < Len(wal) + 1
  BY SMTT(300), WalParts
<1>3. Commits' = {i \in DOMAIN wal' : wal'[i].kind = "commit"}
  BY DEF Commits
<1>4. CASE r.kind = "commit"
  <2>1. Commits' = Commits \cup {Len(wal) + 1}
    BY ZenonT(300), <1>1, <1>2, <1>3, <1>4 DEF Commits
  <2> QED
    BY <1>1, <1>2, <1>4, <2>1
<1>5. CASE r.kind # "commit"
  <2>1. Commits' = Commits
    BY ZenonT(300), <1>1, <1>2, <1>3, <1>5 DEF Commits
  <2> QED
    BY <1>1, <1>2, <1>5, <2>1
<1> QED
  BY <1>4, <1>5

LEMMA WalKeeps ==
  ASSUME Types, \/ UNCHANGED wal
                \/ \E r : wal' = Append(wal, r)
  PROVE  /\ DOMAIN wal \subseteq DOMAIN wal' /\ Commits \subseteq Commits'
         /\ \A c \in Commits' : c \in Commits \/ c = Len(wal) + 1
         /\ \A i \in DOMAIN wal : wal'[i] = wal[i] /\ ChangeEvent(i)' = ChangeEvent(i)
         /\ \A c \in DOMAIN wal : SentOf(c)' = SentOf(c) /\ EventsOf(c)' = EventsOf(c)
<1>1. /\ DOMAIN wal \subseteq DOMAIN wal' /\ Commits \subseteq Commits'
      /\ \A c \in Commits' : c \in Commits \/ c = Len(wal) + 1
      /\ \A i \in DOMAIN wal : wal'[i] = wal[i]
  <2>1. CASE UNCHANGED wal
    BY <2>1 DEF Commits
  <2>2. CASE \E r : wal' = Append(wal, r)
    <3>1. PICK r : wal' = Append(wal, r)
      BY <2>2
    <3> QED
      BY <3>1, WalGrows
  <2> QED
    BY <2>1, <2>2
<1>2. \A i \in DOMAIN wal : ChangeEvent(i)' = ChangeEvent(i)
  BY <1>1 DEF ChangeEvent
<1>3. ASSUME NEW c \in DOMAIN wal
      PROVE  SentOf(c)' = SentOf(c) /\ EventsOf(c)' = EventsOf(c)
  <2>1. \A i \in 1..c : i \in DOMAIN wal
    BY SMTT(300), WalParts
  <2>2. SentOf(c)' = {i \in 1..c : /\ wal'[i].tx = wal'[c].tx /\ wal'[i].kind = "change"
                                   /\ wal'[i].owner = Local /\ Allowed(BroadcastMode, wal'[i].op)}
    BY DEF SentOf, IsLocal
  <2>3. SentOf(c) = {i \in 1..c : /\ wal[i].tx = wal[c].tx /\ wal[i].kind = "change"
                                  /\ wal[i].owner = Local /\ Allowed(BroadcastMode, wal[i].op)}
    BY DEF SentOf, IsLocal
  <2>4. SentOf(c)' = SentOf(c)
    BY ZenonT(300), <1>1, <2>1, <2>2, <2>3
  <2> DEFINE o == InOrder(SentOf(c), <)
  <2>5. DOMAIN o = 1..Cardinality(SentOf(c)) /\ \A n \in DOMAIN o : o[n] \in DOMAIN wal
    <3> DEFINE S == SentOf(c)
    <3>1. S \in SUBSET Nat /\ IsFiniteSet(S) /\ \A i \in S : i \in DOMAIN wal
      BY SentParts
    <3> HIDE DEF S
    <3>2. InOrder(S, <) \in [1..Cardinality(S) -> S]
      BY <3>1, InOrderIs
    <3> QED
      BY <3>1, <3>2 DEF S
  <2>6. EventsOf(c) = [n \in DOMAIN o |-> ChangeEvent(o[n])]
    BY DEF EventsOf
  <2> DEFINE Now(i) == [table |-> wal'[i].id[1], key |-> wal'[i].id[2], ver |-> Version(i, wal'[i].len),
                        op |-> wal'[i].op, fields |-> wal'[i].fields, at |-> i]
  <2>7. EventsOf(c)' = [n \in DOMAIN o |-> Now(o[n])]
    BY <2>4 DEF EventsOf, ChangeEvent, InOrder
  <2>8. \A i \in DOMAIN wal : Now(i) = ChangeEvent(i)
    BY <1>1 DEF ChangeEvent
  <2> HIDE DEF o, Now
  <2>9. EventsOf(c)' = EventsOf(c)
    BY <2>5, <2>6, <2>7, <2>8
  <2> QED
    BY <2>4, <2>9
<1> QED
  BY <1>1, <1>2, <1>3

\* What a step of the source writes.
LEMMA SourceWrites ==
  ASSUME Source
  PROVE  /\ \E r : wal' = Append(wal, r)
         /\ UNCHANGED <<conf, slot, session, outbox, peer, history, faults>>
<1> DEFINE G == /\ \E r : wal' = Append(wal, r)
                /\ UNCHANGED <<conf, slot, session, outbox, peer, history, faults>>
<1>1. ASSUME NEW t, NEW op, NEW old, NEW id, NEW owner, NEW cols, Write(t, op, old, id, owner, cols) PROVE G
  BY <1>1 DEF Write
<1>2. ASSUME NEW t, SourceCommit(t) PROVE G
  BY <1>2 DEF SourceCommit
<1> HIDE DEF G
<1>3. G
  BY <1>1, <1>2 DEF Source, SourceInsert, SourceUpdate, SourceDelete
<1> QED
  BY <1>3 DEF G

LEMMA OthersReadTheWal ==
  ASSUME Producer \/ (\E p \in Peers : PeerApply(p)) \/ UNCHANGED vars
  PROVE  UNCHANGED source
BY ZenonT(300) DEF Producer, StartSession, DecodeEmpty, DecodeTransaction, DecodeError, FinishBatch, ConfirmSlot,
   SessionFails, EnqueueChunk, PeerApply, vars

LEMMA StepKeepsWal ==
  ASSUME Types, [Next]_vars
  PROVE  /\ DOMAIN wal \subseteq DOMAIN wal' /\ Commits \subseteq Commits'
         /\ \A c \in Commits' : c \in Commits \/ c = Len(wal) + 1
         /\ \A i \in DOMAIN wal : wal'[i] = wal[i] /\ ChangeEvent(i)' = ChangeEvent(i)
         /\ \A c \in DOMAIN wal : SentOf(c)' = SentOf(c) /\ EventsOf(c)' = EventsOf(c)
<1>1. UNCHANGED wal \/ \E r : wal' = Append(wal, r)
  BY SourceWrites, OthersReadTheWal DEF Next, source
<1> QED
  BY <1>1, WalKeeps

-----------------------------------------------------------------------------
(* The source: what it writes, and how long its WAL gets.                   *)

LEMMA CommitsAreFew ==
  ASSUME Types, WalIsOrdered
  PROVE  /\ IsFiniteSet(Commits) /\ Cardinality(Commits) \in 0..MaxTx
         /\ Len(wal) \in 0..(MaxTx + MaxChanges)
         /\ \A c, d \in Commits : wal[c].tx = wal[d].tx => c = d
<1>1. /\ \A c \in Commits : c \in DOMAIN wal /\ c \in Nat /\ wal[c].tx \in 1..MaxTx
      /\ Len(wal) \in Nat
  BY WalParts DEF Commits
<1>2. ASSUME NEW c \in Commits, NEW d \in Commits, wal[c].tx = wal[d].tx PROVE c = d
  <2>1. c <= d /\ d <= c
    BY <1>1, <1>2 DEF WalIsOrdered
  <2> QED
    BY SMTT(300), <1>1, <2>1
<1> DEFINE f == [c \in Commits |-> wal[c].tx]
<1>3. f \in Injection(Commits, 1..MaxTx)
  <2>1. f \in [Commits -> 1..MaxTx]
    BY <1>1
  <2>2. IsInjective(f)
    BY <1>2 DEF IsInjective
  <2> HIDE DEF f
  <2> QED
    BY <2>1, <2>2 DEF Injection
<1>4. IsFiniteSet(1..MaxTx) /\ Cardinality(1..MaxTx) = MaxTx
  BY SMTT(300), FS_Interval, CaptureAssumption
<1> HIDE DEF f
<1>5. IsFiniteSet(Commits) /\ Cardinality(Commits) <= MaxTx
  <2>1. IsFiniteSet(Commits) /\ Cardinality(Commits) <= Cardinality(1..MaxTx)
    <3> HIDE DEF Commits
    <3> QED
      BY SMTT(300), <1>3, <1>4, FS_Injection
  <2> QED
    BY <1>4, <2>1
<1>6. Cardinality(Commits) \in Nat
  BY <1>5, FS_CardinalityType
<1>7. Len(wal) - Cardinality(Commits) <= MaxChanges
  BY DEF WalIsOrdered
<1>8. Cardinality(Commits) \in 0..MaxTx /\ Len(wal) \in 0..(MaxTx + MaxChanges)
  BY SMTT(300), <1>1, <1>5, <1>6, <1>7, CaptureAssumption
<1> QED
  BY <1>2, <1>5, <1>8

\* What a write adds to the WAL.
Fits(r) ==
  /\ r \in Changes /\ ~IsCommitted(r.tx)
  /\ Len(wal) - Cardinality(Commits) < MaxChanges
  /\ \A u \in (1..MaxTx) \ {r.tx} : r.id \notin LockedBy(u)

LEMMA WriteAdds ==
  ASSUME Types, WalIsOrdered, NEW t \in 1..MaxTx, NEW op \in WriteOps, NEW old \in Ids, NEW id \in Ids,
         NEW owner \in Owners, NEW cols \in SUBSET Cols, Write(t, op, old, id, owner, cols)
  PROVE  /\ \E r : Fits(r) /\ wal' = Append(wal, r)
         /\ src' \in [Ids -> RowType({Local, "elsewhere"})]
<1> DEFINE now == Len(wal) + 1
           fields == [c \in cols |-> now]
           full == op = "update" /\ ~conf.updateDiff
           given == op = "update" /\ owner # src[old].owner
           vals == Overwritten(src[old].vals, fields)
           row == [owner |-> owner, vals |-> vals]
<1>1. PICK len \in MsgLens[op], toast \in IF full THEN BOOLEAN ELSE {FALSE} :
        wal' = Append(wal, [kind |-> "change", tx |-> t, op |-> op, id |-> id, old |-> old,
                            owner |-> owner, rehomed |-> given, len |-> len, toast |-> toast,
                            fields |-> IF full THEN row.vals ELSE fields])
  BY DEF Write
<1>2. /\ MayWrite(t, id)
      /\ src' = [src EXCEPT ![old] = NoRow, ![id] = IF op = "delete" THEN NoRow ELSE row]
  BY DEF Write
<1>3. now \in 0..MaxValue
  <2>1. Cardinality(Commits) \in 0..MaxTx /\ Len(wal) \in 0..(MaxTx + MaxChanges)
    BY CommitsAreFew
  <2>2. Len(wal) - Cardinality(Commits) < MaxChanges
    BY <1>2 DEF MayWrite
  <2> QED
    BY SMTT(300), <2>1, <2>2, CaptureAssumption
<1> HIDE DEF now
<1>4. fields \in Fields
  <2>1. fields \in [cols -> 0..MaxValue]
    BY <1>3
  <2> HIDE DEF fields
  <2> QED
    BY <2>1 DEF Fields
<1>5. vals \in [Cols -> 0..MaxValue]
  <2>1. MaxValue \in Nat
    BY SMTT(300), CaptureAssumption
  <2>2. src[old].vals \in [Cols -> 0..MaxValue]
    BY <2>1, RowParts DEF Types
  <2> HIDE DEF fields
  <2> QED
    BY <1>4, <2>2, OverwrittenType
<1>6. vals \in Fields
  <2> HIDE DEF vals
  <2> QED
    BY ZenonT(300), <1>5 DEF Fields
<1> HIDE DEF fields, vals
<1>7. row.vals = vals /\ row \in RowType({Local, "elsewhere"})
  BY SMTT(300), <1>5 DEF RowType, Owners
<1> DEFINE r == [kind |-> "change", tx |-> t, op |-> op, id |-> id, old |-> old,
                 owner |-> owner, rehomed |-> given, len |-> len, toast |-> toast,
                 fields |-> IF full THEN row.vals ELSE fields]
<1>8. len \in Nat /\ toast \in BOOLEAN
  <2>1. MsgLens[op] \in SUBSET Nat
    BY CaptureAssumption DEF WriteOps
  <2>2. (IF full THEN BOOLEAN ELSE {FALSE}) \in SUBSET BOOLEAN
    OBVIOUS
  <2> QED
    BY <2>1, <2>2
<1>9. (IF full THEN row.vals ELSE fields) \in Fields
  BY <1>4, <1>6, <1>7
<1>10. r \in Changes /\ r.tx = t /\ r.id = id
  <2>1. given \in BOOLEAN
    OBVIOUS
  <2> HIDE DEF row, full, given
  <2> QED
    BY <1>8, <1>9, <2>1 DEF Changes
<1>11. wal' = Append(wal, r)
  BY <1>1
<1> HIDE DEF r, row
<1>12. Fits(r)
  BY <1>2, <1>10 DEF Fits, MayWrite
<1>13. src' \in [Ids -> RowType({Local, "elsewhere"})]
  <2>1. NoRow \in RowType({Local, "elsewhere"})
    BY DEF RowType
  <2> DEFINE T == RowType({Local, "elsewhere"})
             new == IF op = "delete" THEN NoRow ELSE row
  <2>2. new \in T /\ NoRow \in T /\ src \in [Ids -> T]
    BY <1>7, <2>1 DEF Types
  <2>3. src' = [src EXCEPT ![old] = NoRow, ![id] = new]
    BY <1>2
  <2> HIDE DEF T, new
  <2>4. src' \in [Ids -> T]
    BY SMTT(300), <2>2, <2>3
  <2> QED
    BY <2>4 DEF T
<1> QED
  BY <1>11, <1>12, <1>13

LEMMA SourceAdds ==
  ASSUME Types, WalIsOrdered, Source
  PROVE  /\ src' \in [Ids -> RowType({Local, "elsewhere"})]
         /\ \E r : /\ wal' = Append(wal, r)
                   /\ \/ Fits(r)
                      \/ r \in CommitRecords /\ ~IsCommitted(r.tx)
<1> DEFINE G == /\ src' \in [Ids -> RowType({Local, "elsewhere"})]
                /\ \E r : /\ wal' = Append(wal, r)
                          /\ \/ Fits(r)
                             \/ r \in CommitRecords /\ ~IsCommitted(r.tx)
<1>1. ASSUME NEW t \in 1..MaxTx, NEW op \in WriteOps, NEW old \in Ids, NEW id \in Ids,
             NEW owner \in Owners, NEW cols \in SUBSET Cols, Write(t, op, old, id, owner, cols)
      PROVE  G
  BY <1>1, WriteAdds
<1>2. ASSUME NEW t \in 1..MaxTx, SourceCommit(t) PROVE G
  <2>1. [kind |-> "commit", tx |-> t] \in CommitRecords
    BY DEF CommitRecords
  <2>2. [kind |-> "commit", tx |-> t].tx = t
    OBVIOUS
  <2> QED
    BY <1>2, <2>1, <2>2 DEF SourceCommit, Types
<1> HIDE DEF G
<1>3. ASSUME NEW t \in 1..MaxTx, NEW id \in Ids, SourceInsert(t, id) PROVE G
  BY <1>1, <1>3 DEF SourceInsert, WriteOps, Owners
<1>4. ASSUME NEW id \in Ids, src[id] # NoRow PROVE src[id].owner \in Owners
  <2>1. MaxValue \in Nat
    BY SMTT(300), CaptureAssumption
  <2>2. src[id].owner \in {Local, "elsewhere"} \cup {"null"}
    BY <1>4, <2>1, RowParts DEF Types
  <2> QED
    BY <2>2 DEF Owners
<1>5. ASSUME NEW t \in 1..MaxTx, NEW id \in Ids, SourceDelete(t, id) PROVE G
  <2>1. {} \in SUBSET Cols /\ "delete" \in WriteOps
    BY DEF WriteOps
  <2>2. src[id].owner \in Owners /\ Write(t, "delete", id, id, src[id].owner, {})
    BY <1>4, <1>5 DEF SourceDelete
  <2> QED
    BY <1>1, <2>1, <2>2
<1>6. ASSUME NEW t \in 1..MaxTx, NEW old \in Ids, NEW id \in Ids, SourceUpdate(t, old, id) PROVE G
  <2>1. PICK c \in Cols, owner \in {Local, "elsewhere"} : Write(t, "update", old, id, owner, {c})
    BY <1>6 DEF SourceUpdate
  <2>2. {c} \in SUBSET Cols /\ "update" \in WriteOps /\ owner \in Owners
    BY DEF WriteOps, Owners
  <2> QED
    BY <1>1, <2>1, <2>2
<1>7. G
  BY <1>2, <1>3, <1>5, <1>6 DEF Source
<1> QED
  BY <1>7 DEF G

LEMMA WalOrderStep ==
  ASSUME Types, WalIsOrdered, [Next]_vars
  PROVE  WalIsOrdered'
<1>1. CASE UNCHANGED source
  BY <1>1 DEF source, WalIsOrdered, Commits
<1>2. ASSUME Source PROVE WalIsOrdered'
  <2>1. PICK r : wal' = Append(wal, r) /\ (Fits(r) \/ (r \in CommitRecords /\ ~IsCommitted(r.tx)))
    BY <1>2, SourceAdds
  <2>2. ~IsCommitted(r.tx)
    BY <2>1 DEF Fits
  <2>3. /\ Len(wal)' = Len(wal) + 1 /\ wal'[Len(wal) + 1] = r /\ Len(wal) + 1 \notin DOMAIN wal
        /\ \A i \in DOMAIN wal' : i \in DOMAIN wal \/ i = Len(wal) + 1
        /\ \A i \in DOMAIN wal : wal'[i] = wal[i] /\ i < Len(wal) + 1
        /\ Commits' = IF r.kind = "commit" THEN Commits \cup {Len(wal) + 1} ELSE Commits
    BY <2>1, WalGrows
  <2>4. /\ IsFiniteSet(Commits) /\ Cardinality(Commits) \in Nat /\ Len(wal) \in Nat
        /\ Commits \subseteq DOMAIN wal /\ \A i \in DOMAIN wal : i \in Nat
    <3>1. Cardinality(Commits) \in Nat
      BY CommitsAreFew, FS_CardinalityType
    <3> QED
      BY <3>1, CommitsAreFew, WalParts DEF Commits
  <2>5. \A i \in DOMAIN wal : i <= Len(wal) + 1
    BY SMTT(300), <2>3, <2>4
  <2>6. Len(wal) + 1 <= Len(wal) + 1
    BY SMTT(300), <2>4
  <2>7. ASSUME NEW c \in Commits', NEW i \in DOMAIN wal', wal'[i].tx = wal'[c].tx PROVE i <= c
    <3>1. CASE c = Len(wal) + 1
      BY <2>3, <2>5, <2>6, <3>1
    <3>2. CASE c # Len(wal) + 1
      <4>1. c \in Commits /\ c \in DOMAIN wal /\ wal'[c] = wal[c]
        BY <2>3, <2>4, <2>7, <3>2
      <4>2. i # Len(wal) + 1
        BY <2>2, <2>3, <2>7, <4>1 DEF IsCommitted
      <4>3. i \in DOMAIN wal /\ wal'[i] = wal[i]
        BY <2>3, <4>2
      <4> QED
        BY <2>7, <4>1, <4>3 DEF WalIsOrdered
    <3> QED
      BY <3>1, <3>2
  <2>10. Len(wal)' - Cardinality(Commits)' <= MaxChanges
    <3>0. Len(wal) - Cardinality(Commits) <= MaxChanges /\ MaxChanges \in Nat
      BY CaptureAssumption DEF WalIsOrdered
    <3>1. CASE r.kind = "commit"
      <4>1. Cardinality(Commits') = Cardinality(Commits) + 1
        <5>1. Commits' = Commits \cup {Len(wal) + 1} /\ Len(wal) + 1 \notin Commits
          BY <2>3, <2>4, <3>1
        <5> HIDE DEF Commits
        <5>2. Cardinality(Commits \cup {Len(wal) + 1}) = Cardinality(Commits) + 1
          BY SMTT(300), <2>4, <5>1, FS_AddElement
        <5> QED
          BY <5>1, <5>2
      <4> QED
        BY SMTT(300), <2>3, <2>4, <3>0, <4>1
    <3>2. CASE r.kind # "commit"
      <4>1. Cardinality(Commits)' = Cardinality(Commits)
        BY <2>3, <3>2
      <4>2. Len(wal) - Cardinality(Commits) < MaxChanges
        BY <2>1, <3>2 DEF Fits, CommitRecords
      <4> QED
        BY SMTT(300), <2>3, <2>4, <3>0, <4>1, <4>2
    <3> QED
      BY <3>1, <3>2
  <2> QED
    BY <2>7, <2>10 DEF WalIsOrdered
<1> QED
  BY <1>1, <1>2, OthersReadTheWal DEF Next

LEMMA RowLocksStep ==
  ASSUME Types, WalIsOrdered, RowsAreLocked, [Next]_vars
  PROVE  RowsAreLocked'
<1>1. CASE UNCHANGED source
  <2>1. UNCHANGED wal /\ Commits' = Commits
    BY <1>1 DEF source, Commits
  <2> HIDE DEF Commits
  <2> QED
    BY SMTT(300), <2>1 DEF RowsAreLocked
<1>2. ASSUME Source PROVE RowsAreLocked'
  <2>1. PICK r : wal' = Append(wal, r) /\ (Fits(r) \/ (r \in CommitRecords /\ ~IsCommitted(r.tx)))
    BY <1>2, SourceAdds
  <2>2. /\ wal'[Len(wal) + 1] = r /\ Commits \subseteq Commits'
        /\ \A i \in DOMAIN wal' : i \in DOMAIN wal \/ i = Len(wal) + 1
        /\ \A i \in DOMAIN wal : wal'[i] = wal[i] /\ i < Len(wal) + 1
    BY <2>1, WalGrows, WalKeeps
  <2>3. r.kind = "change" => \A u \in (1..MaxTx) \ {r.tx} : r.id \notin LockedBy(u)
    BY <2>1 DEF Fits, CommitRecords
  <2> SUFFICES ASSUME NEW i \in DOMAIN wal', NEW j \in DOMAIN wal', i < j,
                      wal'[i].kind = "change", wal'[j].kind = "change", wal'[i].id = wal'[j].id,
                      wal'[i].tx # wal'[j].tx
               PROVE  \E c \in Commits' : c < j /\ wal'[c].tx = wal'[i].tx
    BY DEF RowsAreLocked
  <2>4. i \in DOMAIN wal /\ wal'[i] = wal[i]
    <3>1. \A k \in DOMAIN wal' : k <= Len(wal) + 1 /\ k \in Int
      BY SMTT(300), <2>1, WalGrows, WalParts
    <3>2. i # Len(wal) + 1
      BY SMTT(300), <3>1
    <3> QED
      BY <2>2, <3>2
  <2>5. CASE j \in DOMAIN wal
    <3>0. /\ wal[i].kind = "change" /\ wal[j].kind = "change" /\ wal[i].id = wal[j].id
          /\ wal[i].tx # wal[j].tx
      BY <2>2, <2>4, <2>5
    <3>1. PICK c \in Commits : c < j /\ wal[c].tx = wal[i].tx
      BY <2>4, <2>5, <3>0 DEF RowsAreLocked
    <3> QED
      BY <2>2, <2>4, <3>1 DEF Commits
  <2>6. CASE j = Len(wal) + 1
    <3>1. wal[i].tx \in (1..MaxTx) \ {r.tx} /\ r.id = wal[i].id /\ r.kind = "change"
      BY <2>2, <2>4, <2>6, WalParts
    <3>2. wal[i].id \notin LockedBy(wal[i].tx)
      BY <2>3, <3>1
    <3>3. i \in ChangesOf(wal[i].tx)
      BY <2>4 DEF ChangesOf
    <3>4. IsCommitted(wal[i].tx)
      <4> DEFINE u == wal[i].tx
      <4>1. u = wal[i].tx
        OBVIOUS
      <4> HIDE DEF u
      <4>2. ~IsCommitted(u) => LockedBy(u) = UNION {{wal[k].id, wal[k].old} : k \in ChangesOf(u)}
        BY DEF LockedBy
      <4>3. wal[i].id \in {wal[i].id, wal[i].old} /\ i \in ChangesOf(u)
        BY <3>3, <4>1
      <4>4. wal[i].id \in UNION {{wal[k].id, wal[k].old} : k \in ChangesOf(u)}
        BY <4>3
      <4> QED
        BY <3>2, <4>1, <4>2, <4>4
    <3>5. PICK c \in Commits : wal[c].tx = wal[i].tx
      BY <3>4 DEF IsCommitted
    <3> QED
      BY <2>2, <2>4, <2>6, <3>5 DEF Commits
  <2> QED
    BY <2>2, <2>5, <2>6
<1> QED
  BY <1>1, <1>2, OthersReadTheWal DEF Next

-----------------------------------------------------------------------------
(* Chunks, and what a peer does with one.                                   *)

LEMMA ConfIs ==
  ASSUME Types
  PROVE  conf.maxEvents \in Nat \ {0}
BY CaptureAssumption DEF Types

End(c, s) == Min({s + conf.maxEvents, Len(EventsOf(c))})

LEMMA PartIs ==
  ASSUME Types, NEW c \in Commits, NEW s \in 0..Len(EventsOf(c))
  PROVE  /\ End(c, s) \in s..Len(EventsOf(c))
         /\ End(c, s) = s + conf.maxEvents \/ End(c, s) = Len(EventsOf(c))
         /\ End(c, s) <= s + conf.maxEvents
         /\ Part(c, s) \in Seq(Events) /\ Len(Part(c, s)) = End(c, s) - s
         /\ DOMAIN Part(c, s) = 1..(End(c, s) - s)
         /\ \A k \in 1..(End(c, s) - s) : Part(c, s)[k] = EventsOf(c)[s + k]
         /\ Range(Part(c, s)) = {EventsOf(c)[n] : n \in (s + 1)..End(c, s)}
         /\ Part(c, s) = <<>> <=> s = Len(EventsOf(c))
<1> DEFINE E == EventsOf(c)
           M == conf.maxEvents
<1>1. E \in Seq(Events)
  BY EventsAre DEF Commits
<1>2. M \in Nat \ {0} /\ s \in 0..Len(E)
  BY ConfIs
<1>3. End(c, s) = Min({s + M, Len(E)}) /\ Part(c, s) = SubSeq(E, s + 1, End(c, s))
  BY DEF End, Part
<1> HIDE DEF E, M
<1>4. Len(E) \in Nat
  BY SMTT(300), <1>1
<1>5. End(c, s) \in s..Len(E) /\ (End(c, s) = s + M \/ End(c, s) = Len(E)) /\ End(c, s) <= s + M
  BY <1>2, <1>3, <1>4, EndIs
<1>6. s = End(c, s) <=> s = Len(E)
  BY SMTT(300), <1>2, <1>4, <1>5
<1> DEFINE e == End(c, s)
<1>7. e \in s..Len(E) /\ Part(c, s) = SubSeq(E, s + 1, e)
  BY <1>3, <1>5
<1> HIDE DEF e
<1>8. IsSlice(Part(c, s), Events, E, s, e)
  BY <1>1, <1>2, <1>7, SliceIs
<1> QED
  BY <1>5, <1>6, <1>8 DEF E, M, e, IsSlice

LEMMA EventFields ==
  ASSUME NEW e \in Events
  PROVE  /\ IsPlaced(e) /\ Position(e) \in CursorValues /\ e.table \in Tables /\ e.fields \in Fields
         /\ e.op \in WriteOps /\ e.at \in Nat /\ IdOf(e) \in Ids
<1>1. /\ e.table \in Tables /\ e.key \in Keys /\ e.ver \in Nat /\ e.fields \in Fields
      /\ e.op \in WriteOps /\ e.at \in Nat
  BY DEF Events
<1>2. e.key \in Nat /\ e.key \in Keys \cup {0}
  BY <1>1, ApplyAssumption
<1>3. Position(e) \in CursorValues /\ Position(e) \in Positions
  BY <1>1, <1>2 DEF Position, CursorValues, Positions
<1>4. IdOf(e) \in Ids
  BY SMTT(300), <1>1 DEF IdOf, Ids
<1> QED
  BY <1>1, <1>3, <1>4 DEF IsPlaced

LEMMA CursorValuesArePositions == CursorValues \subseteq Positions
<1>1. Keys \cup {0} \subseteq Nat
  BY SMTT(300), ApplyAssumption
<1> QED
  BY <1>1 DEF CursorValues, Positions

LEMMA PeerParts ==
  ASSUME Types, NEW p \in Peers
  PROVE  /\ peer[p].rows \in [Ids -> RowType(Peers \cup {Local})]
         /\ peer[p].cursors \in [Tables -> CursorValues] /\ peer[p].cursors \in [Tables -> Positions]
         /\ outbox[p] \in Seq(Seq(Events))
<1>1. peer[p] \in PeerStates /\ outbox[p] \in Seq(Seq(Events))
  BY DEF Types
<1>2. /\ peer[p].rows \in [Ids -> RowType(Peers \cup {Local})]
      /\ peer[p].cursors \in [Tables -> CursorValues]
  BY <1>1 DEF PeerStates
<1>3. peer[p].cursors \in [Tables -> Positions]
  BY <1>2, CursorValuesArePositions
<1> QED
  BY <1>1, <1>2, <1>3

After(p, batch) == Commit(peer[p], batch, Local, ApplyMode, FALSE)

\* What the transaction that applies a batch keeps of it, and where it leaves the cursors.
LEMMA BatchIsApplied ==
  ASSUME Types, NEW p \in Peers, NEW batch \in Seq(Events)
  PROVE  /\ After(p, batch) \in PeerStates
         /\ Range(Prepared(batch, ApplyMode, FALSE)) = {e \in Range(batch) : Allowed(ApplyMode, e.op)}
         /\ Kept(p, batch) \in Seq(Events)
         /\ Range(Kept(p, batch)) \subseteq Range(Prepared(batch, ApplyMode, FALSE))
         /\ \A e \in Range(Kept(p, batch)) : Before(peer[p].cursors[e.table], Position(e))
         /\ \A e \in Range(Prepared(batch, ApplyMode, FALSE)) : Stale(e, After(p, batch).cursors[e.table])
         /\ \A t \in Tables : ~Before(After(p, batch).cursors[t], peer[p].cursors[t])
<1> DEFINE pr == Prepared(batch, ApplyMode, FALSE)
           cs == peer[p].cursors
           r == FilterStale(cs, pr)
           rows == ApplyEvents(peer[p].rows, r.kept, Local, ApplyMode)
<1>1. \A e \in Events : Position(e) \in Positions
  BY ZenonT(300), EventFields DEF IsPlaced
<1>2. pr \in Seq(Events) /\ Range(pr) = {e \in Range(batch) : Allowed(ApplyMode, e.op)}
  BY <1>1, PreparedIs
<1>3. After(p, batch) = [rows |-> rows, cursors |-> r.cursors] /\ Kept(p, batch) = r.kept
  BY DEF After, Commit, Kept
<1>4. cs \in [Tables -> Positions] /\ cs \in [Tables -> CursorValues]
  BY PeerParts
<1>5. \A e \in Events : IsPlaced(e) /\ Position(e) \in CursorValues
  BY ZenonT(300), EventFields
<1> HIDE DEF pr, cs
<1>6. /\ r.kept \in Seq(Events) /\ r.cursors \in [Tables -> Positions]
      /\ Range(r.kept) \subseteq Range(pr)
      /\ \A e \in Range(r.kept) : Before(cs[e.table], Position(e))
      /\ \A e \in Range(pr) : Stale(e, r.cursors[e.table])
      /\ \A t \in Tables : /\ ~Before(r.cursors[t], cs[t])
                           /\ r.cursors[t] \in {cs[t]} \cup {Position(e) : e \in Range(pr)}
  <2> HIDE DEF Events, Positions, IsPlaced
  <2> QED
    BY SMTT(300), <1>2, <1>4, <1>5, FilterAre
<1> HIDE DEF r
<1>7. \A e \in Range(pr) : e \in Events
  BY ZenonT(300), <1>2, MembersAre
<1>8. r.cursors \in [Tables -> CursorValues]
  <2>1. \A t \in Tables : r.cursors[t] \in CursorValues
    BY <1>4, <1>5, <1>6, <1>7
  <2> HIDE DEF CursorValues, Positions
  <2> QED
    BY SMTT(300), <1>6, <2>1
<1>9. rows \in [Ids -> RowType(Peers \cup {Local})]
  <2> DEFINE old == peer[p].rows
  <2>1. old \in [Ids -> RowType(Peers \cup {Local})] /\ Local \in Peers \cup {Local}
    BY PeerParts
  <2>2. \A e \in Range(r.kept) : e \in Events
    BY <1>6, <1>7
  <2>3. \A e \in Events : e.fields \in Fields
    BY EventFields
  <2>4. MaxValue \in Nat
    BY SMTT(300), CaptureAssumption
  <2> HIDE DEF old
  <2>5. ApplyEvents(old, r.kept, Local, ApplyMode) \in [Ids -> RowType(Peers \cup {Local})]
    BY <1>6, <2>1, <2>2, <2>3, <2>4, AppliedType
  <2> QED
    BY <2>5 DEF old
<1> HIDE DEF rows
<1> DEFINE new == [rows |-> rows, cursors |-> r.cursors]
<1>10. new \in PeerStates /\ new.cursors = r.cursors
  BY <1>8, <1>9 DEF PeerStates
<1>11. After(p, batch) = new
  BY <1>3
<1> HIDE DEF new
<1>12. After(p, batch) \in PeerStates /\ After(p, batch).cursors = r.cursors
  BY <1>10, <1>11
<1> QED
  BY <1>2, <1>3, <1>6, <1>12 DEF pr, cs

\* What a peer's step does to the state of each peer.
LEMMA PeerStep ==
  ASSUME Types, NEW p \in Peers, PeerApply(p), NEW batch, batch = Head(outbox[p])
  PROVE  /\ batch \in Seq(Events) /\ 1 \in DOMAIN outbox[p] /\ batch = outbox[p][1]
         /\ peer' \in [Peers -> PeerStates] /\ peer'[p] = After(p, batch)
         /\ applied' \in [Peers -> SUBSET Nat]
         /\ applied'[p] = applied[p] \cup {e.at : e \in Range(Kept(p, batch))}
         /\ passed' \in [Peers -> SUBSET Ids] /\ passed[p] \subseteq passed'[p]
         /\ \A e \in StaleIn(p, batch) : e.at \notin applied[p] => IdOf(e) \in passed'[p]
         /\ Collapsed(peer[p].rows, Kept(p, batch), Local, ApplyMode) \subseteq passed'[p]
         /\ outbox' \in [Peers -> Seq(Seq(Events))]
         /\ outbox'[p] = outbox[p] \/ outbox'[p] = Tail(outbox[p])
         /\ \A q \in Peers : q # p => /\ peer'[q] = peer[q] /\ applied'[q] = applied[q]
                                      /\ passed'[q] = passed[q] /\ outbox'[q] = outbox[q]
         /\ faults' \in 0..MaxFaults /\ UNCHANGED <<source, conf, slot, session, handled, shadowed>>
<1> DEFINE B == Seq(Events)
<1>1. outbox \in [Peers -> Seq(B)] /\ outbox[p] \in Seq(B)
  BY DEF Types
<1>2. batch \in B /\ 1 \in DOMAIN outbox[p] /\ batch = outbox[p][1] /\ Tail(outbox[p]) \in Seq(B)
  <2>1. outbox[p] # <<>>
    BY DEF PeerApply
  <2> HIDE DEF B
  <2> QED
    BY SMTT(300), <1>1, <2>1
<1> DEFINE Ks == Range(Kept(p, batch))
           St == StaleIn(p, batch)
           gone == {IdOf(e) : e \in {f \in St : f.at \notin applied[p]}}
           coll == Collapsed(peer[p].rows, Kept(p, batch), Local, ApplyMode)
<1>3. /\ peer' = [peer EXCEPT ![p] = After(p, batch)]
      /\ applied' = [applied EXCEPT ![p] = applied[p] \cup {e.at : e \in Ks}]
      /\ passed' = [passed EXCEPT ![p] = passed[p] \cup gone \cup coll]
      /\ \/ outbox' = [outbox EXCEPT ![p] = Tail(outbox[p])] /\ UNCHANGED faults
         \/ Fail /\ UNCHANGED outbox
      /\ UNCHANGED <<source, conf, slot, session, handled, shadowed>>
  BY DEF PeerApply, After
<1>4. /\ After(p, batch) \in PeerStates
      /\ Range(Prepared(batch, ApplyMode, FALSE)) = {e \in Range(batch) : Allowed(ApplyMode, e.op)}
      /\ Ks \subseteq Range(Prepared(batch, ApplyMode, FALSE))
  BY <1>2, BatchIsApplied
<1>5. \A e \in Range(batch) : e \in Events
  BY <1>2, MembersAre
<1>6. \A e \in Ks : e.at \in Nat
  BY <1>4, <1>5, EventFields
<1>7. \A e \in St : IdOf(e) \in Ids
  BY <1>4, <1>5, EventFields DEF StaleIn
<1>8. gone \in SUBSET Ids
  BY <1>7
<1>9. coll \in SUBSET Ids
  <2>1. DOMAIN peer[p].rows = Ids
    BY PeerParts
  <2> QED
    BY <2>1 DEF Collapsed
<1>10. \A e \in St : e.at \notin applied[p] => IdOf(e) \in gone
  OBVIOUS
<1> DEFINE ats == {e.at : e \in Ks}
<1>11. ats \in SUBSET Nat
  BY <1>6
<1> HIDE DEF B, Ks, St, gone, coll, ats
<1>12. applied' = [applied EXCEPT ![p] = applied[p] \cup ats]
  BY <1>3 DEF ats
<1>13. /\ applied \in [Peers -> SUBSET Nat] /\ passed \in [Peers -> SUBSET Ids] /\ peer \in [Peers -> PeerStates]
       /\ faults \in 0..MaxFaults /\ MaxFaults \in Nat
  BY ZenonT(300), CaptureAssumption DEF Types
<1>14. /\ peer' \in [Peers -> PeerStates] /\ peer'[p] = After(p, batch)
       /\ \A q \in Peers : q # p => peer'[q] = peer[q]
  <2> HIDE DEF PeerStates
  <2> QED
    BY SMTT(300), <1>3, <1>4, <1>13
<1>15. /\ applied' \in [Peers -> SUBSET Nat] /\ applied'[p] = applied[p] \cup ats
       /\ \A q \in Peers : q # p => applied'[q] = applied[q]
  <2> DEFINE N == SUBSET Nat
             v == applied[p] \cup ats
  <2>1. applied \in [Peers -> N] /\ applied' = [applied EXCEPT ![p] = v]
    BY <1>12, <1>13
  <2>2. v \in N
    BY <1>11, <1>13
  <2> HIDE DEF N, v
  <2>3. applied' \in [Peers -> N] /\ applied'[p] = v /\ \A q \in Peers : q # p => applied'[q] = applied[q]
    BY SMTT(300), <2>1, <2>2
  <2> QED
    BY <2>3 DEF N, v
<1>16. /\ passed' \in [Peers -> SUBSET Ids] /\ passed'[p] = passed[p] \cup gone \cup coll
       /\ \A q \in Peers : q # p => passed'[q] = passed[q]
  <2> HIDE DEF Ids
  <2> QED
    BY SMTT(300), <1>3, <1>8, <1>9, <1>13
<1>17. /\ outbox' \in [Peers -> Seq(B)] /\ (outbox'[p] = outbox[p] \/ outbox'[p] = Tail(outbox[p]))
       /\ \A q \in Peers : q # p => outbox'[q] = outbox[q]
  <2> DEFINE S == Seq(B)
             v == Tail(outbox[p])
  <2>1. outbox \in [Peers -> S] /\ v \in S /\ (outbox' = [outbox EXCEPT ![p] = v] \/ outbox' = outbox)
    BY <1>1, <1>2, <1>3
  <2> HIDE DEF S, v
  <2>2. /\ outbox' \in [Peers -> S] /\ (outbox'[p] = outbox[p] \/ outbox'[p] = v)
        /\ \A q \in Peers : q # p => outbox'[q] = outbox[q]
    BY SMTT(300), <2>1
  <2> QED
    BY <2>2 DEF S, v
<1>18. faults' \in 0..MaxFaults
  BY SMTT(300), <1>3, <1>13 DEF Fail
<1> QED
  BY <1>2, <1>3, <1>10, <1>14, <1>15, <1>16, <1>17, <1>18 DEF B, St, Ks, ats, coll

LEMMA ChunkIs ==
  ASSUME NEW p
  PROVE  Chunk(p) = Part(handling, staged[p])
BY DEF Chunk, Part

LEMMA CommitNumbers ==
  ASSUME Types, NEW c \in Commits
  PROVE  c \in DOMAIN wal /\ c \in Nat \ {0} /\ LSN(c) \in Nat /\ CommitNext(c) \in Nat
<1>1. c \in DOMAIN wal /\ c \in 1..Len(wal) /\ Len(wal) \in Nat
  BY WalParts DEF Commits
<1>2. c \in Nat \ {0}
  BY SMTT(300), <1>1
<1>3. c * RecordSize \in Nat /\ (c + 1) * RecordSize \in Nat
  BY SMTT(300), <1>2, CaptureAssumption
<1> QED
  BY SMTT(300), <1>1, <1>2, <1>3, CaptureAssumption DEF LSN, CommitNext

LEMMA DecodedMin ==
  ASSUME Types, Decoded # {}
  PROVE  /\ Min(Decoded) \in Decoded /\ Min(Decoded) \in Commits /\ \A c \in Decoded : Min(Decoded) <= c
<1>1. Decoded \in SUBSET Nat
  BY CommitNumbers DEF Decoded
<1>2. Min(Decoded) \in Decoded /\ \A c \in Decoded : Min(Decoded) <= c
  <2> HIDE DEF Decoded
  <2> QED
    BY <1>1, MinOf
<1> QED
  BY <1>2 DEF Decoded

\* The events of a chunk.
LEMMA ChunkEvents ==
  ASSUME Types, NEW p, handling \in Commits, staged[p] \in 0..Len(EventsOf(handling)), NEW f \in Range(Chunk(p))
  PROVE  /\ f.at \in SentOf(handling) /\ f = ChangeEvent(f.at)
         /\ \E k \in 1..Len(EventsOf(handling)) : f = EventsOf(handling)[k]
<1> DEFINE h == handling
           s == staged[p]
           L == Len(EventsOf(h))
           x == End(h, s)
<1>1. /\ Range(Part(h, s)) = {EventsOf(h)[k] : k \in (s + 1)..x} /\ x \in s..L
      /\ s \in 0..L /\ L \in Nat
  BY PartIs, EventsAre DEF Commits
<1>2. f \in Range(Part(h, s))
  BY ChunkIs
<1>3. PICK k \in (s + 1)..x : f = EventsOf(h)[k]
  BY <1>1, <1>2
<1>4. k \in 1..L
  <2> HIDE DEF s, L, x
  <2> QED
    BY SMTT(300), <1>1, <1>3
<1> QED
  BY <1>3, <1>4, EventsAre DEF Commits

-----------------------------------------------------------------------------
(* The types.                                                               *)

LEMMA TypesStep ==
  ASSUME Types, WalIsOrdered, SessionIsOrdered, StagedInChunks, [Next]_vars
  PROVE  Types'
<1>1. ASSUME Source PROVE Types'
  <2>1. PICK r : wal' = Append(wal, r) /\ (Fits(r) \/ (r \in CommitRecords /\ ~IsCommitted(r.tx)))
    BY <1>1, SourceAdds
  <2>2. src' \in [Ids -> RowType({Local, "elsewhere"})]
    BY <1>1, SourceAdds
  <2>3. wal' \in Seq(Changes \cup CommitRecords)
    <3> DEFINE R == Changes \cup CommitRecords
    <3>1. r \in R /\ wal \in Seq(R)
      BY ZenonT(300), <2>1 DEF Fits, Types
    <3> HIDE DEF R
    <3>2. wal' \in Seq(R)
      BY SMTT(300), <2>1, <3>1
    <3> QED
      BY <3>2 DEF R
  <2>4. UNCHANGED <<conf, slot, session, outbox, peer, history, faults>>
    BY <1>1, SourceWrites
  <2>5. shadowed' \in [Peers -> SUBSET DOMAIN wal']
    <3>1. DOMAIN wal \subseteq DOMAIN wal' /\ shadowed' = shadowed
      BY <2>1, <2>4, WalGrows DEF history
    <3> DEFINE D == DOMAIN wal
               E == DOMAIN wal'
    <3>2. D \subseteq E /\ shadowed \in [Peers -> SUBSET D]
      BY <3>1 DEF Types
    <3> HIDE DEF D, E
    <3>3. shadowed \in [Peers -> SUBSET E]
      BY SMTT(300), <3>2
    <3> QED
      BY <3>1, <3>3 DEF E
  <2> QED
    BY <2>2, <2>3, <2>4, <2>5 DEF Types, session, history
<1>2. ASSUME NEW p \in Peers, PeerApply(p) PROVE Types'
  <2>1. /\ peer' \in [Peers -> PeerStates] /\ applied' \in [Peers -> SUBSET Nat]
        /\ passed' \in [Peers -> SUBSET Ids] /\ outbox' \in [Peers -> Seq(Seq(Events))]
        /\ faults' \in 0..MaxFaults /\ UNCHANGED <<source, conf, slot, session, handled, shadowed>>
    BY <1>2, PeerStep
  <2> QED
    BY <2>1 DEF Types, source, session
<1>3. CASE UNCHANGED vars
  BY <1>3 DEF vars, source, session, history, Types
<1>0. [p \in Peers |-> 0] \in [Peers -> Nat] /\ 0 \in Nat
  BY SMTT(300)
<1>4. CASE StartSession
  BY <1>0, <1>4 DEF StartSession, source, history, Types
<1>5. CASE DecodeEmpty
  <2>1. Min(Decoded) \in Nat /\ CommitNext(Min(Decoded)) \in Nat
    BY <1>5, DecodedMin, CommitNumbers DEF DecodeEmpty
  <2> QED
    BY <1>5, <2>1 DEF DecodeEmpty, Finish, source, Types
<1>6. CASE DecodeTransaction
  <2>1. Min(Decoded) \in Nat
    BY <1>6, DecodedMin, CommitNumbers DEF DecodeTransaction
  <2> QED
    BY <1>6, <2>1 DEF DecodeTransaction, source, history, Types
<1>7. CASE DecodeError
  BY <1>0, <1>7 DEF DecodeError, EndSession, source, history, Types
<1>8. CASE FinishBatch
  <2>1. handling \in Nat /\ CommitNext(handling) \in Nat
    BY <1>8, CommitNumbers DEF FinishBatch, SessionIsOrdered, Decoded
  <2> QED
    BY <1>0, <1>8, <2>1 DEF FinishBatch, Finish, source, Types
<1>9. CASE ConfirmSlot
  BY <1>9 DEF ConfirmSlot, source, session, history, Types
<1>10. CASE SessionFails
  <2>1. faults' \in 0..MaxFaults
    BY SMTT(300), <1>10, CaptureAssumption DEF SessionFails, Fail, Types
  <2> QED
    BY <1>0, <1>10, <2>1 DEF SessionFails, EndSession, source, history, Types
<1>11. ASSUME NEW p \in Peers, EnqueueChunk(p) PROVE Types'
  <2>1. handling \in Commits /\ staged[p] \in 0..Len(EventsOf(handling))
    BY <1>11 DEF EnqueueChunk, SessionIsOrdered, Decoded, StagedInChunks, IsBoundary
  <2>2. Chunk(p) \in Seq(Events)
    BY <2>1, ChunkIs, PartIs
  <2> DEFINE ch == Chunk(p)
             B == Seq(Events)
  <2>3. /\ outbox' = IF IsPending(p, ch) THEN outbox ELSE [outbox EXCEPT ![p] = Append(outbox[p], ch)]
        /\ staged' = [staged EXCEPT ![p] = staged[p] + Len(ch)]
    BY <1>11 DEF EnqueueChunk
  <2>4. ch \in B /\ outbox \in [Peers -> Seq(B)] /\ staged \in [Peers -> Nat]
    BY ZenonT(300), <2>2 DEF Types
  <2>5. Len(ch) \in Nat
    BY SMTT(300), <2>2
  <2> HIDE DEF ch, B
  <2>6. staged' \in [Peers -> Nat]
    BY SMTT(300), <2>3, <2>4, <2>5
  <2>7. outbox' \in [Peers -> Seq(B)]
    <3> DEFINE v == Append(outbox[p], ch)
               S == Seq(B)
    <3>1. v \in S
      BY SMTT(300), <2>4
    <3>2. outbox \in [Peers -> S] /\ (outbox' = outbox \/ outbox' = [outbox EXCEPT ![p] = v])
      BY <2>3, <2>4
    <3> HIDE DEF v, S
    <3>3. outbox' \in [Peers -> S]
      BY SMTT(300), <3>1, <3>2
    <3> QED
      BY <3>3 DEF S
  <2>8. UNCHANGED <<source, conf, slot, on, start, durable, last, handling, peer, handled, applied, passed, faults>>
    BY <1>11 DEF EnqueueChunk
  <2>9. shadowed' \in [Peers -> SUBSET DOMAIN wal]
    <3> DEFINE D == DOMAIN wal
               v == shadowed[p] \cup ({e.at : e \in Range(Chunk(p))} \ applied[p])
    <3>1. \A e \in Range(Chunk(p)) : e.at \in D
      BY <2>1, ChunkEvents, SentParts DEF Commits
    <3>2. shadowed \in [Peers -> SUBSET D]
      BY DEF Types
    <3>3. v \in SUBSET D
      BY <3>1, <3>2
    <3>4. shadowed' = shadowed \/ shadowed' = [shadowed EXCEPT ![p] = v]
      BY <1>11 DEF EnqueueChunk
    <3> HIDE DEF D, v
    <3>5. shadowed' \in [Peers -> SUBSET D]
      BY SMTT(300), <3>2, <3>3, <3>4
    <3> QED
      BY <3>5 DEF D
  <2> QED
    BY <2>6, <2>7, <2>8, <2>9 DEF source, Types, B
<1> QED
  BY <1>1, <1>2, <1>3, <1>4, <1>5, <1>6, <1>7, <1>8, <1>9, <1>10, <1>11 DEF Next, Producer

-----------------------------------------------------------------------------
(* The session.                                                             *)

LEMMA HandledGrows ==
  ASSUME [Next]_vars
  PROVE  handled \subseteq handled'
<1>1. Source => UNCHANGED handled
  BY SourceWrites DEF history
<1>2. CASE ~Source
  BY <1>2 DEF Next, Producer, StartSession, DecodeEmpty, DecodeTransaction, DecodeError, FinishBatch,
     Finish, ConfirmSlot, SessionFails, EnqueueChunk, PeerApply, vars, history
<1> QED
  BY <1>1, <1>2

LEMMA StopsStay ==
  ASSUME [Next]_vars, NEW x, IsStop(x)
  PROVE  \/ x = LSN(1)
         \/ \E c \in handled' : x = CommitNext(c)
BY HandledGrows DEF IsStop

LEMMA SessionStep ==
  ASSUME Types, SessionIsOrdered, [Next]_vars
  PROVE  SessionIsOrdered'
<1> DEFINE Stop(x) == x = LSN(1) \/ \E c \in handled' : x = CommitNext(c)
<1>1. /\ Stop(slot) /\ (on => Stop(start) /\ Stop(durable)) /\ \A c \in handled' : Stop(CommitNext(c))
      /\ Commits \subseteq Commits'
  BY StopsStay, StepKeepsWal DEF SessionIsOrdered
<1>2. SessionIsOrdered' <=>
        /\ Stop(slot') /\ (on' => Stop(start') /\ Stop(durable') /\ start' <= slot')
        /\ ~on' => handling' = 0 /\ last' = 0
        /\ handling' = 0 => staged' = [p \in Peers |-> 0]
        /\ last' \in Commits' \cup {0} /\ handled' \subseteq Commits'
        /\ handling' # 0 => handling' \in Decoded' /\ \A c \in Decoded' : handling' <= c
  BY DEF SessionIsOrdered, IsStop
<1>3. /\ (on => start <= slot)
      /\ ~on => handling = 0 /\ last = 0
      /\ handling = 0 => staged = [p \in Peers |-> 0]
      /\ last \in Commits \cup {0} /\ handled \subseteq Commits
      /\ handling # 0 => handling \in Decoded /\ \A c \in Decoded : handling <= c
  BY DEF SessionIsOrdered
<1> HIDE DEF Stop
<1>4. ASSUME UNCHANGED <<last, start, wal>> PROVE Decoded' = Decoded /\ Commits' = Commits
  BY <1>4 DEF Decoded, Commits
<1>5. ASSUME Source PROVE SessionIsOrdered'
  <2>1. UNCHANGED <<conf, slot, session, outbox, peer, history, faults>>
    BY <1>5, SourceWrites
  <2>2. Decoded' = {c \in Commits' : c > last /\ LSN(c) >= start}
    BY <2>1 DEF Decoded, session
  <2>3. ASSUME handling # 0 PROVE handling \in Decoded' /\ \A c \in Decoded' : handling <= c
    <3>1. handling \in Decoded'
      BY <1>1, <1>3, <2>2, <2>3 DEF Decoded
    <3>2. ASSUME NEW c \in Decoded' PROVE handling <= c
      <4>1. CASE c \in Commits
        BY <1>3, <2>2, <2>3, <4>1 DEF Decoded
      <4>2. CASE c = Len(wal) + 1
        <5>1. handling \in 1..Len(wal) /\ Len(wal) \in Nat
          BY <1>3, <2>3, WalParts DEF Decoded, Commits
        <5> QED
          BY SMTT(300), <4>2, <5>1
      <4> QED
        BY <2>2, <4>1, <4>2, StepKeepsWal
    <3> QED
      BY <3>1, <3>2
  <2> QED
    BY <1>1, <1>2, <1>3, <2>1, <2>3 DEF session, history
<1>6. ASSUME NEW p \in Peers, PeerApply(p) PROVE SessionIsOrdered'
  <2>1. UNCHANGED <<source, conf, slot, session, handled, shadowed>>
    BY ZenonT(300), <1>6 DEF PeerApply
  <2>2. UNCHANGED <<wal, slot, on, start, durable, last, handling, staged, handled>>
    BY ZenonT(300), <2>1 DEF source, session
  <2> QED
    BY <1>1, <1>2, <1>3, <1>4, <2>2
<1>7. CASE UNCHANGED vars
  BY <1>1, <1>2, <1>3, <1>4, <1>7 DEF vars, source, session, history
<1>8. CASE StartSession
  <2>1. slot <= slot
    BY SMTT(300) DEF Types
  <2>2. /\ on' = TRUE /\ start' = slot /\ durable' = slot /\ last' = 0 /\ ~on
        /\ UNCHANGED <<wal, slot, handling, staged, handled>>
    BY <1>8 DEF StartSession, source, history
  <2> QED
    BY <1>1, <1>2, <1>3, <2>1, <2>2
<1>9. CASE DecodeEmpty
  <2>1. Min(Decoded) \in Commits
    BY <1>9, DecodedMin DEF DecodeEmpty
  <2>2. /\ on /\ handling = 0 /\ handled' = handled \cup {Min(Decoded)} /\ last' = Min(Decoded)
        /\ durable' = CommitNext(Min(Decoded))
        /\ UNCHANGED <<slot, on, start, handling, staged>>
    BY <1>9 DEF DecodeEmpty, Finish
  <2> DEFINE m == Min(Decoded)
  <2>3. m \in Commits' /\ Stop(CommitNext(m))
    BY <1>1, <2>1, <2>2
  <2>4. /\ on /\ handling = 0 /\ handled' = handled \cup {m} /\ last' = m /\ durable' = CommitNext(m)
    BY <2>2
  <2> HIDE DEF m
  <2>5. handled' \subseteq Commits'
    BY <1>1, <1>3, <2>3, <2>4
  <2> QED
    BY <1>1, <1>2, <1>3, <2>2, <2>3, <2>4, <2>5
<1>10. CASE DecodeTransaction
  <2>1. Min(Decoded) \in Decoded /\ \A c \in Decoded : Min(Decoded) <= c
    BY <1>10, DecodedMin DEF DecodeTransaction
  <2>2. /\ on /\ handling = 0 /\ handling' = Min(Decoded)
        /\ UNCHANGED <<wal, slot, on, start, durable, last, staged, handled>>
    BY <1>10 DEF DecodeTransaction, source, history
  <2>3. Decoded' = Decoded /\ Commits' = Commits
    BY <1>4, <2>2
  <2>4. handling' \in Decoded' /\ \A c \in Decoded' : handling' <= c
    BY <2>1, <2>2, <2>3
  <2> HIDE DEF Decoded, Commits
  <2> QED
    BY <1>1, <1>2, <1>3, <2>2, <2>3, <2>4
<1>11. ASSUME EndSession, UNCHANGED <<source, slot, handled>> PROVE SessionIsOrdered'
  BY <1>1, <1>2, <1>3, <1>11 DEF EndSession
<1>12. CASE FinishBatch
  <2>1. handling \in Commits
    BY <1>3, <1>12 DEF FinishBatch, Decoded
  <2>2. /\ handled' = handled \cup {handling} /\ last' = handling /\ durable' = CommitNext(handling)
        /\ handling # 0 /\ handling' = 0 /\ staged' = [p \in Peers |-> 0]
        /\ UNCHANGED <<slot, on, start>>
    BY <1>12 DEF FinishBatch, Finish
  <2> QED
    BY <1>1, <1>2, <1>3, <2>1, <2>2
<1>13. CASE ConfirmSlot
  <2>1. on /\ slot' = durable /\ durable > slot /\ UNCHANGED <<source, session, history>>
    BY <1>13 DEF ConfirmSlot
  <2>2. start' <= slot'
    BY SMTT(300), <1>3, <2>1 DEF Types, session
  <2>3. UNCHANGED <<wal, on, start, durable, last, handling, staged, handled>>
    BY <2>1 DEF source, session, history
  <2> QED
    BY <1>1, <1>2, <1>3, <1>4, <2>1, <2>2, <2>3
<1>14. ASSUME NEW p \in Peers, EnqueueChunk(p) PROVE SessionIsOrdered'
  <2>1. handling # 0 /\ UNCHANGED <<wal, slot, on, start, durable, last, handling, handled>>
    BY <1>14 DEF EnqueueChunk, source
  <2> QED
    BY <1>1, <1>2, <1>3, <1>4, <2>1
<1>15. DecodeError \/ SessionFails => EndSession /\ UNCHANGED <<source, slot, handled>>
  BY DEF DecodeError, SessionFails, history
<1> QED
  BY <1>5, <1>6, <1>7, <1>8, <1>9, <1>10, <1>11, <1>12, <1>13, <1>14, <1>15 DEF Next, Producer

-----------------------------------------------------------------------------
(* The batches in the outboxes.                                             *)

LEMMA PartsStay ==
  ASSUME Types, [Next]_vars
  PROVE  /\ UNCHANGED conf
         /\ \A c \in Commits : /\ c \in Commits' /\ EventsOf(c)' = EventsOf(c)
                               /\ \A s : Part(c, s)' = Part(c, s) /\ IsBoundary(c, s)' = IsBoundary(c, s)
<1>1. UNCHANGED conf
  BY SourceWrites DEF Next, Producer, StartSession, DecodeEmpty, DecodeTransaction, DecodeError,
     FinishBatch, ConfirmSlot, SessionFails, EnqueueChunk, PeerApply, vars
<1>2. ASSUME NEW c \in Commits PROVE c \in Commits' /\ EventsOf(c)' = EventsOf(c)
  BY StepKeepsWal DEF Commits
<1>3. ASSUME NEW c \in Commits, NEW s
      PROVE  Part(c, s)' = Part(c, s) /\ IsBoundary(c, s)' = IsBoundary(c, s)
  BY <1>1, <1>2 DEF Part, IsBoundary
<1> QED
  BY <1>1, <1>2, <1>3

\* What a step can do to an outbox.
LEMMA OutboxStep ==
  ASSUME Types, [Next]_vars, NEW p \in Peers
  PROVE  \/ outbox'[p] = outbox[p]
         \/ PeerApply(p) /\ outbox'[p] = Tail(outbox[p])
         \/ EnqueueChunk(p) /\ ~IsPending(p, Chunk(p)) /\ outbox'[p] = Append(outbox[p], Chunk(p))
<1>1. ASSUME NEW q \in Peers, PeerApply(q) PROVE outbox'[p] = outbox[p] \/ (q = p /\ outbox'[p] = Tail(outbox[p]))
  BY <1>1, PeerStep
<1>2. ASSUME NEW q \in Peers, EnqueueChunk(q)
      PROVE  outbox'[p] = outbox[p] \/ (q = p /\ ~IsPending(p, Chunk(p)) /\ outbox'[p] = Append(outbox[p], Chunk(p)))
  <2>1. outbox' = IF IsPending(q, Chunk(q)) THEN outbox ELSE [outbox EXCEPT ![q] = Append(outbox[q], Chunk(q))]
    BY <1>2 DEF EnqueueChunk
  <2>2. outbox \in [Peers -> Seq(Seq(Events))]
    BY DEF Types
  <2> QED
    BY <2>1, <2>2
<1>3. Source \/ UNCHANGED vars => outbox' = outbox
  BY SourceWrites DEF vars
<1>4. ASSUME Producer, \A q \in Peers : ~EnqueueChunk(q) PROVE outbox' = outbox
  BY <1>4 DEF Producer, StartSession, DecodeEmpty, DecodeTransaction, DecodeError,
     FinishBatch, ConfirmSlot, SessionFails
<1> QED
  BY <1>1, <1>2, <1>3, <1>4 DEF Next

LEMMA ShadowsStay ==
  ASSUME Types, [Next]_vars, NEW p \in Peers
  PROVE  shadowed[p] \subseteq shadowed'[p]
<1>1. ASSUME NEW q \in Peers, EnqueueChunk(q) PROVE shadowed[p] \subseteq shadowed'[p]
  <2> DEFINE v == shadowed[q] \cup ({e.at : e \in Range(Chunk(q))} \ applied[q])
             D == DOMAIN wal
  <2>1. shadowed' = shadowed \/ shadowed' = [shadowed EXCEPT ![q] = v]
    BY <1>1 DEF EnqueueChunk
  <2>2. shadowed[q] \subseteq v /\ shadowed \in [Peers -> SUBSET D]
    BY DEF Types
  <2> HIDE DEF v, D
  <2> QED
    BY SMTT(300), <2>1, <2>2
<1>2. ASSUME \A q \in Peers : ~EnqueueChunk(q) PROVE shadowed' = shadowed
  <2>1. Source => shadowed' = shadowed
    BY SourceWrites DEF history
  <2>2. CASE ~Source
    BY <1>2, <2>2 DEF Next, Producer, StartSession, DecodeEmpty, DecodeTransaction, DecodeError, FinishBatch,
       ConfirmSlot, SessionFails, PeerApply, vars, history
  <2> QED
    BY <2>1, <2>2
<1> QED
  BY <1>1, <1>2

LEMMA OutboxIs ==
  ASSUME Types, NEW p \in Peers
  PROVE  /\ Len(outbox[p]) \in Nat /\ DOMAIN outbox[p] = 1..Len(outbox[p])
         /\ \A n \in DOMAIN outbox[p] : n \in Nat /\ outbox[p][n] \in Seq(Events)
<1> DEFINE o == outbox[p]
           B == Seq(Events)
<1>1. o \in Seq(B)
  BY DEF Types
<1> HIDE DEF o, B
<1>2. Len(o) \in Nat /\ DOMAIN o = 1..Len(o) /\ \A n \in DOMAIN o : n \in Nat /\ o[n] \in B
  BY SMTT(300), <1>1
<1> QED
  BY <1>2 DEF o, B

\* The outbox of a peer after a batch was enqueued, and after its first batch was acked.
LEMMA OutboxAfterEnqueue ==
  ASSUME Types, NEW p \in Peers, Chunk(p) \in Seq(Events), outbox'[p] = Append(outbox[p], Chunk(p))
  PROVE  /\ Len(outbox[p]) + 1 \in DOMAIN outbox'[p] /\ outbox'[p][Len(outbox[p]) + 1] = Chunk(p)
         /\ \A n \in DOMAIN outbox'[p] : n \in DOMAIN outbox[p] \/ n = Len(outbox[p]) + 1
         /\ \A n \in DOMAIN outbox[p] : /\ n \in DOMAIN outbox'[p] /\ outbox'[p][n] = outbox[p][n]
                                        /\ n \in 1..(Len(outbox[p]) + 1)
<1> DEFINE o == outbox[p]
           new == outbox'[p]
           ch == Chunk(p)
           B == Seq(Events)
<1>1. o \in Seq(B) /\ ch \in B /\ new = Append(o, ch)
  BY DEF Types
<1> HIDE DEF o, new, ch, B
<1>2. /\ Len(o) + 1 \in DOMAIN new /\ new[Len(o) + 1] = ch
      /\ \A n \in DOMAIN new : n \in DOMAIN o \/ n = Len(o) + 1
      /\ \A n \in DOMAIN o : n \in DOMAIN new /\ new[n] = o[n] /\ n \in 1..(Len(o) + 1)
  BY SMTT(300), <1>1, AppendIs
<1> QED
  BY <1>2 DEF o, new, ch

LEMMA OutboxAfterAck ==
  ASSUME Types, NEW p \in Peers, PeerApply(p), outbox'[p] = Tail(outbox[p])
  PROVE  /\ 1 \in DOMAIN outbox[p] /\ Head(outbox[p]) = outbox[p][1]
         /\ \A n \in DOMAIN outbox'[p] : n \in Nat /\ n + 1 \in DOMAIN outbox[p] /\ outbox'[p][n] = outbox[p][n + 1]
         /\ \A n \in DOMAIN outbox[p] : n # 1 => n - 1 \in DOMAIN outbox'[p] /\ outbox'[p][n - 1] = outbox[p][n]
<1> DEFINE o == outbox[p]
           new == outbox'[p]
           B == Seq(Events)
<1>1. o \in Seq(B) /\ o # <<>> /\ new = Tail(o)
  BY DEF Types, PeerApply
<1> HIDE DEF o, new, B
<1>2. /\ 1 \in DOMAIN o /\ Head(o) = o[1]
      /\ \A n \in DOMAIN new : n \in Nat /\ n + 1 \in DOMAIN o /\ new[n] = o[n + 1]
      /\ \A n \in DOMAIN o : n # 1 => n - 1 \in DOMAIN new /\ new[n - 1] = o[n]
  BY SMTT(300), <1>1, TailIs
<1> QED
  BY <1>2 DEF o, new

LEMMA ChunksStep ==
  ASSUME Types, SessionIsOrdered, StagedInChunks, BatchesAreChunks, [Next]_vars
  PROVE  BatchesAreChunks'
<1> DEFINE Whole(b) == \E c \in Commits : \E s \in 0..Len(EventsOf(c)) :
                         IsBoundary(c, s) /\ s < Len(EventsOf(c)) /\ b = Part(c, s)
           Now(b) == \E c \in Commits' : \E s \in 0..Len(EventsOf(c)') :
                       IsBoundary(c, s)' /\ s < Len(EventsOf(c)') /\ b = Part(c, s)'
<1>1. ASSUME NEW b, Whole(b) PROVE Now(b)
  <2>0. PICK c \in Commits : \E s \in 0..Len(EventsOf(c)) :
          IsBoundary(c, s) /\ s < Len(EventsOf(c)) /\ b = Part(c, s)
    BY <1>1
  <2>1. PICK s \in 0..Len(EventsOf(c)) :
          IsBoundary(c, s) /\ s < Len(EventsOf(c)) /\ b = Part(c, s)
    BY <2>0
  <2>2. /\ c \in Commits' /\ EventsOf(c)' = EventsOf(c) /\ Part(c, s)' = Part(c, s)
        /\ IsBoundary(c, s)' = IsBoundary(c, s)
    BY PartsStay
  <2> QED
    BY <2>1, <2>2
<1>2. \A p \in Peers : \A n \in DOMAIN outbox[p] : Whole(outbox[p][n])
  BY DEF BatchesAreChunks
<1>3. SUFFICES ASSUME NEW p \in Peers, NEW n \in DOMAIN outbox'[p] PROVE Now(outbox'[p][n])
  BY DEF BatchesAreChunks
<1> HIDE DEF Whole, Now
<1>5. CASE outbox'[p] = outbox[p]
  BY <1>1, <1>2, <1>5
<1>6. CASE PeerApply(p) /\ outbox'[p] = Tail(outbox[p])
  <2>1. n + 1 \in DOMAIN outbox[p] /\ outbox'[p][n] = outbox[p][n + 1]
    BY <1>6, OutboxAfterAck
  <2> QED
    BY <1>1, <1>2, <2>1
<1>7. CASE EnqueueChunk(p) /\ outbox'[p] = Append(outbox[p], Chunk(p))
  <2>1. /\ handling \in Commits /\ staged[p] \in 0..Len(EventsOf(handling)) /\ Chunk(p) # <<>>
        /\ IsBoundary(handling, staged[p])
    BY <1>7 DEF EnqueueChunk, SessionIsOrdered, Decoded, StagedInChunks, IsBoundary
  <2>2. Chunk(p) = Part(handling, staged[p])
    BY ChunkIs
  <2>3. staged[p] # Len(EventsOf(handling)) /\ Chunk(p) \in Seq(Events)
    BY <2>1, <2>2, PartIs
  <2>4. Len(EventsOf(handling)) \in Nat
    BY <2>1, EventsAre DEF Commits
  <2>5. staged[p] < Len(EventsOf(handling))
    BY SMTT(300), <2>1, <2>3, <2>4
  <2>6. Whole(Chunk(p))
    BY <2>1, <2>2, <2>5 DEF Whole
  <2>7. (n \in DOMAIN outbox[p] /\ outbox'[p][n] = outbox[p][n]) \/ outbox'[p][n] = Chunk(p)
    BY <1>7, <2>3, OutboxAfterEnqueue
  <2> QED
    BY <1>1, <1>2, <2>6, <2>7
<1> QED
  BY <1>5, <1>6, <1>7, OutboxStep

\* A multiple of M that is larger is larger by M.
LEMMA NextMultiple ==
  ASSUME NEW M \in Nat \ {0}, NEW k \in Nat, NEW l \in Nat
  PROVE  /\ (k + 1) * M = k * M + M /\ k * M \in Nat
         /\ k * M < l * M => k * M + M <= l * M
<1>1. k * M \in Nat /\ l * M \in Nat /\ (k + 1) * M = k * M + M
  BY SMTT(300)
<1>2. CASE k + 1 <= l
  <2>1. PICK d \in Nat : l = (k + 1) + d
    <3>1. l - (k + 1) \in Nat /\ l = (k + 1) + (l - (k + 1))
      BY SMTT(300), <1>2
    <3> QED
      BY <3>1
  <2>2. l * M = (k + 1) * M + d * M /\ d * M \in Nat /\ (k + 1) * M \in Nat
    BY SMTT(300), <2>1
  <2> QED
    BY SMTT(300), <1>1, <2>2
<1>3. CASE l <= k
  <2>1. PICK d \in Nat : k = l + d
    <3>1. k - l \in Nat /\ k = l + (k - l)
      BY SMTT(300), <1>3
    <3> QED
      BY <3>1
  <2>2. k * M = l * M + d * M /\ d * M \in Nat
    BY SMTT(300), <2>1
  <2> QED
    BY SMTT(300), <1>1, <2>2
<1> QED
  BY SMTT(300), <1>2, <1>3

\* Chunks of one transaction that end together are the same.
LEMMA ChunksAlign ==
  ASSUME Types, NEW c \in Commits, NEW s, NEW t, IsBoundary(c, s), IsBoundary(c, t),
         s < Len(EventsOf(c)), t < Len(EventsOf(c)), End(c, s) = End(c, t)
  PROVE  s = t
<1>0. Len(EventsOf(c)) \in Nat
  BY EventsAre DEF Commits
<1>1. s \in 0..Len(EventsOf(c)) /\ t \in 0..Len(EventsOf(c))
  BY DEF IsBoundary
<1>2. /\ End(c, s) \in s..Len(EventsOf(c)) /\ End(c, s) <= s + conf.maxEvents
      /\ End(c, s) = s + conf.maxEvents \/ End(c, s) = Len(EventsOf(c))
  BY <1>1, PartIs
<1>3. /\ End(c, t) \in t..Len(EventsOf(c)) /\ End(c, t) <= t + conf.maxEvents
      /\ End(c, t) = t + conf.maxEvents \/ End(c, t) = Len(EventsOf(c))
  BY <1>1, PartIs
<1>4. conf.maxEvents \in Nat \ {0}
  BY ConfIs
<1> DEFINE L == Len(EventsOf(c))
           M == conf.maxEvents
           e == End(c, s)
<1>5. s # L /\ t # L
  BY SMTT(300), <1>0, <1>1
<1>6. PICK k \in 0..s : s = k * M
  BY <1>5 DEF IsBoundary
<1>7. PICK l \in 0..t : t = l * M
  BY <1>5 DEF IsBoundary
<1>8. k \in Nat /\ l \in Nat
  BY SMTT(300), <1>1, <1>6, <1>7
<1>9. (s < t => s + M <= t) /\ (t < s => t + M <= s)
  <2>1. (k * M < l * M => k * M + M <= l * M) /\ (l * M < k * M => l * M + M <= k * M)
    BY <1>4, <1>8, NextMultiple
  <2> QED
    BY <1>6, <1>7, <2>1
<1>10. /\ e \in s..L /\ e <= s + M /\ (e = s + M \/ e = L) /\ e \in t..L /\ e <= t + M /\ (e = t + M \/ e = L)
       /\ s \in 0..L /\ t \in 0..L /\ s < L /\ t < L /\ L \in Nat /\ M \in Nat \ {0}
  BY <1>0, <1>1, <1>2, <1>3, <1>4
<1> HIDE DEF L, M, e
<1> QED
  BY SMTT(300), <1>9, <1>10

\* The last event of a chunk.
LEMMA LastOfPart ==
  ASSUME Types, NEW c \in Commits, NEW s \in 0..Len(EventsOf(c)), s < Len(EventsOf(c))
  PROVE  /\ End(c, s) \in 1..Len(EventsOf(c)) /\ s < End(c, s)
         /\ Part(c, s)[Len(Part(c, s))] = EventsOf(c)[End(c, s)]
<1>1. /\ End(c, s) \in s..Len(EventsOf(c)) /\ Len(Part(c, s)) = End(c, s) - s
      /\ End(c, s) = s + conf.maxEvents \/ End(c, s) = Len(EventsOf(c))
      /\ \A k \in 1..(End(c, s) - s) : Part(c, s)[k] = EventsOf(c)[s + k]
  BY PartIs
<1>2. Len(EventsOf(c)) \in Nat /\ conf.maxEvents \in Nat \ {0}
  BY EventsAre, ConfIs DEF Commits
<1> DEFINE L == Len(EventsOf(c))
           M == conf.maxEvents
           e == End(c, s)
<1>3. L \in Nat /\ M \in Nat \ {0} /\ e \in s..L /\ (e = s + M \/ e = L) /\ s \in 0..L /\ s < L
  BY <1>1, <1>2
<1> HIDE DEF L, M, e
<1>4. e \in 1..L /\ s < e /\ e - s \in 1..(e - s) /\ s + (e - s) = e
  BY SMTT(300), <1>3
<1>5. Part(c, s)[e - s] = EventsOf(c)[e]
  BY <1>1, <1>4 DEF e
<1>6. Part(c, s)[Len(Part(c, s))] = Part(c, s)[e - s]
  BY <1>1 DEF e
<1> QED
  BY <1>4, <1>5, <1>6 DEF e, L

\* A batch that ends with the last change of the chunk is the chunk: what a restarted session
\* finds pending it has not to stage again.
LEMMA PendingIsChunk ==
  ASSUME Types, WalIsOrdered, SessionIsOrdered, StagedInChunks, BatchesAreChunks,
         NEW p \in Peers, EnqueueChunk(p), NEW n \in DOMAIN outbox[p], LastChange(outbox[p][n]) = LastChange(Chunk(p))
  PROVE  outbox[p][n] = Chunk(p)
<1>2. PICK c \in Commits : \E s \in 0..Len(EventsOf(c)) :
        IsBoundary(c, s) /\ s < Len(EventsOf(c)) /\ outbox[p][n] = Part(c, s)
  BY DEF BatchesAreChunks
<1>3. PICK s \in 0..Len(EventsOf(c)) : IsBoundary(c, s) /\ s < Len(EventsOf(c)) /\ outbox[p][n] = Part(c, s)
  BY <1>2
<1> DEFINE h == handling
           t == staged[p]
<1>4. /\ h \in Commits /\ t \in 0..Len(EventsOf(h)) /\ Chunk(p) # <<>>
      /\ IsBoundary(h, t) /\ Chunk(p) = Part(h, t)
  BY ChunkIs DEF EnqueueChunk, SessionIsOrdered, Decoded, StagedInChunks, IsBoundary
<1>5. t < Len(EventsOf(h))
  <2>1. t # Len(EventsOf(h))
    BY <1>4, PartIs
  <2>2. Len(EventsOf(h)) \in Nat
    BY <1>4, EventsAre DEF Commits
  <2> QED
    BY SMTT(300), <1>4, <2>1, <2>2
<1> HIDE DEF h, t
<1> DEFINE a == EventsOf(c)[End(c, s)]
           b == EventsOf(h)[End(h, t)]
<1>6. a.at = b.at
  BY <1>3, <1>4, <1>5, LastOfPart DEF LastChange
<1>7. c \in DOMAIN wal /\ h \in DOMAIN wal
  BY <1>4 DEF Commits
<1>8. a.at \in SentOf(c) /\ a = ChangeEvent(a.at)
  BY <1>3, <1>7, LastOfPart, EventsAre
<1>9. b.at \in SentOf(h) /\ b = ChangeEvent(b.at)
  BY <1>4, <1>5, <1>7, LastOfPart, EventsAre
<1> DEFINE i == a.at
           j == b.at
<1>10. i \in SentOf(c) /\ j \in SentOf(h) /\ a = ChangeEvent(i) /\ b = ChangeEvent(j)
  BY <1>8, <1>9
<1>16. i = j
  BY <1>6
<1> HIDE DEF i, j, a, b
<1>11. /\ i \in DOMAIN wal /\ wal[i].kind = "change" /\ wal[i].tx = wal[c].tx
       /\ j \in DOMAIN wal /\ wal[j].kind = "change" /\ wal[j].tx = wal[h].tx
  BY <1>7, <1>10, SentParts
<1>17. c = h
  BY <1>4, <1>11, <1>16, CommitsAreFew
<1>18. End(c, s) = End(c, t)
  <2> DEFINE x == End(c, s)
             y == End(c, t)
             E == EventsOf(c)
  <2>1. x \in 1..Len(E) /\ y \in 1..Len(E)
    BY <1>3, <1>4, <1>5, <1>17, LastOfPart
  <2>2. \A m, k \in 1..Len(E) : m < k => E[m].at < E[k].at
    BY <1>7, EventsAre
  <2>3. E[x].at = i /\ E[y].at = i
    BY <1>16, <1>17 DEF i, j, a, b
  <2>4. i \in Nat /\ Len(E) \in Nat
    BY <1>7, <1>11, WalParts, EventsAre
  <2> HIDE DEF x, y, E
  <2>5. ~(i < i)
    BY SMTT(300), <2>4
  <2>6. ~(x < y) /\ ~(y < x)
    BY <2>1, <2>2, <2>3, <2>5
  <2>7. x = y
    BY SMTT(300), <2>1, <2>4, <2>6
  <2> QED
    BY <2>7 DEF x, y
<1>19. s = t
  BY <1>3, <1>4, <1>5, <1>17, <1>18, ChunksAlign
<1> QED
  BY <1>3, <1>4, <1>17, <1>19

-----------------------------------------------------------------------------
(* What a peer has reached stays reached.                                   *)

LEMMA PeersMoveOn ==
  ASSUME Types, [Next]_vars, NEW p \in Peers
  PROVE  /\ applied[p] \subseteq applied'[p] /\ passed[p] \subseteq passed'[p]
         /\ PeerApply(p) \/ UNCHANGED <<applied[p], passed[p], peer[p]>>
         /\ \A t \in Tables : ~Before(peer'[p].cursors[t], peer[p].cursors[t])
         /\ peer'[p].cursors \in [Tables -> Positions]
<1>0. /\ peer[p].cursors \in [Tables -> Positions]
      /\ \A a \in Positions : ~Before(a, a)
  BY PeerParts, PositionsAreOrdered
<1>1. ASSUME UNCHANGED <<applied[p], passed[p], peer[p]>>
      PROVE  /\ applied[p] \subseteq applied'[p] /\ passed[p] \subseteq passed'[p]
             /\ \A t \in Tables : ~Before(peer'[p].cursors[t], peer[p].cursors[t])
             /\ peer'[p].cursors \in [Tables -> Positions]
  BY <1>0, <1>1
<1>2. ASSUME PeerApply(p)
      PROVE  /\ applied[p] \subseteq applied'[p] /\ passed[p] \subseteq passed'[p]
             /\ \A t \in Tables : ~Before(peer'[p].cursors[t], peer[p].cursors[t])
             /\ peer'[p].cursors \in [Tables -> Positions]
  <2> DEFINE batch == Head(outbox[p])
  <2>1. /\ batch \in Seq(Events) /\ peer'[p] = After(p, batch) /\ passed[p] \subseteq passed'[p]
        /\ applied'[p] = applied[p] \cup {e.at : e \in Range(Kept(p, batch))}
    BY <1>2, PeerStep
  <2>2. After(p, batch) \in PeerStates /\ \A t \in Tables : ~Before(After(p, batch).cursors[t], peer[p].cursors[t])
    BY <2>1, BatchIsApplied
  <2>3. After(p, batch).cursors \in [Tables -> CursorValues]
    BY <2>2 DEF PeerStates
  <2>4. After(p, batch).cursors \in [Tables -> Positions]
    BY <2>3, CursorValuesArePositions
  <2> QED
    BY <2>1, <2>2, <2>4
<1>3. PeerApply(p) \/ UNCHANGED <<applied[p], passed[p], peer[p]>>
  <2>1. ASSUME NEW q \in Peers, PeerApply(q), q # p PROVE UNCHANGED <<applied[p], passed[p], peer[p]>>
    BY <2>1, PeerStep
  <2>2. ASSUME Source \/ Producer \/ UNCHANGED vars PROVE UNCHANGED <<applied[p], passed[p], peer[p]>>
    <3>1. UNCHANGED <<applied, passed, peer>>
      BY <2>2, SourceWrites DEF Producer, StartSession, DecodeEmpty, DecodeTransaction, DecodeError,
         FinishBatch, Finish, ConfirmSlot, SessionFails, EnqueueChunk, vars, history
    <3> QED
      BY <3>1
  <2> QED
    BY <2>1, <2>2 DEF Next
<1> QED
  BY <1>1, <1>2, <1>3

LEMMA StaleStays ==
  ASSUME Types, [Next]_vars, NEW p \in Peers, NEW e, IsPlaced(e), Stale(e, peer[p].cursors[e.table])
  PROVE  Stale(e, peer'[p].cursors[e.table])
<1> DEFINE a == Position(e)
           b == peer[p].cursors[e.table]
           c == peer'[p].cursors[e.table]
<1>1. a \in Positions /\ b \in Positions /\ c \in Positions
  BY PeersMoveOn, PeerParts DEF IsPlaced
<1>2. ~Before(b, a) /\ ~Before(c, b)
  BY PeersMoveOn DEF Stale, IsPlaced
<1> HIDE DEF a, b, c
<1>3. ~Before(c, a)
  BY <1>1, <1>2, PositionsAreOrdered
<1> QED
  BY <1>3 DEF Stale, a, c

\* What the peer does with an event of the batch it applies.
LEMMA AppliedOrPassed ==
  ASSUME Types, [Next]_vars, NEW p \in Peers, PeerApply(p), NEW e \in Range(Head(outbox[p])), Allowed(ApplyMode, e.op)
  PROVE  /\ e.at \in applied'[p] \/ IdOf(e) \in passed'[p]
         /\ Stale(e, peer'[p].cursors[e.table])
<1> DEFINE batch == Head(outbox[p])
<1>1. /\ batch \in Seq(Events) /\ peer'[p] = After(p, batch)
      /\ applied'[p] = applied[p] \cup {f.at : f \in Range(Kept(p, batch))}
      /\ \A f \in StaleIn(p, batch) : f.at \notin applied[p] => IdOf(f) \in passed'[p]
  BY PeerStep
<1>2. e \in Range(Prepared(batch, ApplyMode, FALSE))
  <2>1. Range(Prepared(batch, ApplyMode, FALSE)) = {f \in Range(batch) : Allowed(ApplyMode, f.op)}
    BY <1>1, BatchIsApplied
  <2> HIDE DEF Prepared
  <2> QED
    BY <2>1
<1>3. Stale(e, After(p, batch).cursors[e.table])
  BY <1>1, <1>2, BatchIsApplied
<1>4. e \in Range(Kept(p, batch)) \/ e \in StaleIn(p, batch)
  BY <1>2 DEF StaleIn
<1> HIDE DEF batch
<1> QED
  BY <1>1, <1>3, <1>4

LEMMA ReachedStays ==
  ASSUME Types, SessionIsOrdered, StagedInChunks, [Next]_vars, NEW p \in Peers, NEW e \in Events, Reached(p, e)
  PROVE  Reached(p, e)'
<1>1. CASE ~Allowed(ApplyMode, e.op) \/ e.at \in shadowed[p]
  BY <1>1, ShadowsStay DEF Reached
<1>2. CASE (e.at \in applied[p] \/ IdOf(e) \in passed[p]) /\ Stale(e, peer[p].cursors[e.table])
  <2>1. Stale(e, peer'[p].cursors[e.table])
    BY <1>2, StaleStays, EventFields
  <2>2. e.at \in applied'[p] \/ IdOf(e) \in passed'[p]
    BY <1>2, PeersMoveOn
  <2> QED
    BY <2>1, <2>2 DEF Reached
<1>3. ASSUME Allowed(ApplyMode, e.op), NEW n \in DOMAIN outbox[p], e \in Range(outbox[p][n])
      PROVE  Reached(p, e)'
  <2>1. CASE outbox'[p] = outbox[p]
    BY <1>3, <2>1 DEF Reached
  <2>2. CASE PeerApply(p) /\ outbox'[p] = Tail(outbox[p])
    <3>0. /\ Head(outbox[p]) = outbox[p][1]
          /\ \A m \in DOMAIN outbox[p] : m # 1 => m - 1 \in DOMAIN outbox'[p] /\ outbox'[p][m - 1] = outbox[p][m]
      BY <2>2, OutboxAfterAck
    <3>1. /\ Head(outbox[p]) = outbox[p][1]
          /\ n # 1 => n - 1 \in DOMAIN outbox'[p] /\ outbox'[p][n - 1] = outbox[p][n]
      BY <3>0
    <3>2. CASE n # 1
      BY <1>3, <3>1, <3>2 DEF Reached
    <3>3. CASE n = 1
      <4>1. e \in Range(Head(outbox[p]))
        BY <1>3, <3>1, <3>3
      <4>2. (e.at \in applied'[p] \/ IdOf(e) \in passed'[p]) /\ Stale(e, peer'[p].cursors[e.table])
        BY <1>3, <2>2, <4>1, AppliedOrPassed
      <4> QED
        BY <4>2 DEF Reached
    <3> QED
      BY <3>2, <3>3
  <2>3. CASE EnqueueChunk(p) /\ outbox'[p] = Append(outbox[p], Chunk(p))
    <3>1. handling \in Commits /\ staged[p] \in 0..Len(EventsOf(handling))
      BY <2>3 DEF EnqueueChunk, SessionIsOrdered, Decoded, StagedInChunks, IsBoundary
    <3>2. Chunk(p) \in Seq(Events)
      BY <3>1, ChunkIs, PartIs
    <3>3. n \in DOMAIN outbox'[p] /\ outbox'[p][n] = outbox[p][n]
      BY <2>3, <3>2, OutboxAfterEnqueue
    <3> QED
      BY <1>3, <3>3 DEF Reached
  <2> QED
    BY <2>1, <2>2, <2>3, OutboxStep
<1> QED
  BY <1>1, <1>2, <1>3 DEF Reached

-----------------------------------------------------------------------------
(* What is staged of the batch at hand.                                     *)

LEMMA Staging ==
  ASSUME Types, SessionIsOrdered, StagedInChunks, NEW p \in Peers, handling # 0
  PROVE  /\ handling \in Commits /\ IsBoundary(handling, staged[p]) /\ Chunk(p) = Part(handling, staged[p])
         /\ staged[p] \in 0..Len(EventsOf(handling)) /\ Len(EventsOf(handling)) \in Nat
         /\ Chunk(p) \in Seq(Events)
         /\ \A n \in 1..Len(EventsOf(handling)) : EventsOf(handling)[n] \in Events
<1>1. /\ handling \in Commits /\ IsBoundary(handling, staged[p]) /\ staged[p] \in 0..Len(EventsOf(handling))
  BY DEF SessionIsOrdered, Decoded, StagedInChunks, IsBoundary
<1>2. EventsOf(handling) \in Seq(Events) /\ Len(EventsOf(handling)) \in Nat
  BY <1>1, EventsAre DEF Commits
<1>3. \A n \in 1..Len(EventsOf(handling)) : EventsOf(handling)[n] \in Events
  <2> DEFINE E == EventsOf(handling)
  <2> HIDE DEF E, Events
  <2>1. E \in Seq(Events)
    BY <1>2 DEF E
  <2>2. \A n \in 1..Len(E) : E[n] \in Events
    BY SMTT(300), <2>1
  <2> QED
    BY <2>2 DEF E
<1> QED
  BY <1>1, <1>2, <1>3, ChunkIs, PartIs

LEMMA BoundaryAfter ==
  ASSUME Types, NEW c \in Commits, NEW s, IsBoundary(c, s)
  PROVE  IsBoundary(c, End(c, s)) /\ IsBoundary(c, 0)
<1> DEFINE L == Len(EventsOf(c))
           M == conf.maxEvents
           e == End(c, s)
<1>1. /\ L \in Nat /\ M \in Nat \ {0} /\ s \in 0..L
      /\ s = L \/ \E k \in 0..s : s = k * M
  BY EventsAre, ConfIs DEF Commits, IsBoundary
<1>2. e \in s..L /\ (e = s + M \/ e = L)
  BY <1>1, PartIs
<1> HIDE DEF L, M, e
<1>3. 0 \in 0..L /\ 0 \in 0..0 /\ 0 = 0 * M
  BY SMTT(300), <1>1
<1>4. e \in 0..L
  BY SMTT(300), <1>1, <1>2
<1>5. ASSUME e # L PROVE \E k \in 0..e : e = k * M
  <2>1. s # L /\ e = s + M
    BY SMTT(300), <1>1, <1>2, <1>5
  <2>2. PICK k \in 0..s : s = k * M
    BY <1>1, <2>1
  <2>3. k \in Nat /\ k + 1 \in 0..e
    BY SMTT(300), <1>1, <2>1, <2>2
  <2>4. (k + 1) * M = k * M + M
    BY <1>1, <2>3, NextMultiple
  <2>5. e = (k + 1) * M
    BY <2>1, <2>2, <2>4
  <2> QED
    BY <2>3, <2>5
<1> QED
  BY <1>3, <1>4, <1>5 DEF IsBoundary, L, M, e

LEMMA StagedChunksStep ==
  ASSUME Types, SessionIsOrdered, StagedInChunks, [Next]_vars
  PROVE  StagedInChunks'
<1> SUFFICES ASSUME handling' # 0, NEW p \in Peers
             PROVE  IsBoundary(handling, staged[p])'
  BY DEF StagedInChunks
<1>1. CASE UNCHANGED <<handling, staged[p]>>
  <2> DEFINE h == handling
             s == staged[p]
  <2>1. h \in Commits /\ IsBoundary(h, s)
    BY <1>1, Staging
  <2>2. EventsOf(h)' = EventsOf(h) /\ conf' = conf
    BY <1>1, <2>1, PartsStay
  <2> QED
    BY <1>1, <2>1, <2>2 DEF IsBoundary
<1>2. CASE DecodeTransaction
  <2>1. staged'[p] = 0
    BY <1>2 DEF DecodeTransaction, SessionIsOrdered
  <2>2. PICK c \in Commits : handling' = c
    BY <1>2, DecodedMin DEF DecodeTransaction
  <2>3. IsBoundary(c, 0)'
    <3>1. IsBoundary(c, 0)
      <4>1. IsBoundary(c, Len(EventsOf(c)))
        <5>1. Len(EventsOf(c)) \in Nat
          BY EventsAre DEF Commits
        <5>2. Len(EventsOf(c)) \in 0..Len(EventsOf(c))
          BY SMTT(300), <5>1
        <5> QED
          BY <5>2 DEF IsBoundary
      <4> QED
        BY <4>1, BoundaryAfter
    <3> QED
      BY <3>1, PartsStay
  <2> QED
    BY <2>1, <2>2, <2>3 DEF IsBoundary
<1>3. CASE EnqueueChunk(p)
  <2> DEFINE h == handling
             s == staged[p]
             e == End(h, s)
  <2>1. /\ h \in Commits /\ IsBoundary(h, s) /\ s \in 0..Len(EventsOf(h)) /\ Len(EventsOf(h)) \in Nat
        /\ Chunk(p) = Part(h, s) /\ Chunk(p) \in Seq(Events) /\ h' = h
        /\ \A n \in 1..Len(EventsOf(h)) : EventsOf(h)[n] \in Events
    BY <1>3, Staging DEF EnqueueChunk
  <2>2. /\ e \in s..Len(EventsOf(h)) /\ Len(Chunk(p)) = e - s
        /\ Range(Chunk(p)) = {EventsOf(h)[n] : n \in (s + 1)..e}
    <3> HIDE DEF h, s
    <3>1. /\ e \in s..Len(EventsOf(h)) /\ Len(Part(h, s)) = e - s
          /\ Range(Part(h, s)) = {EventsOf(h)[n] : n \in (s + 1)..e}
      BY <2>1, PartIs
    <3> HIDE DEF e
    <3> QED
      BY <2>1, <3>1
  <2>3. staged'[p] = e
    <3>1. staged'[p] = staged[p] + Len(Chunk(p))
      BY <1>3 DEF EnqueueChunk, Types
    <3>2. staged'[p] = s + (e - s)
      BY <2>2, <3>1
    <3> HIDE DEF s, e
    <3> QED
      BY SMTT(300), <2>1, <2>2, <3>2
  <2>4. EventsOf(h)' = EventsOf(h) /\ conf' = conf
    BY <2>1, PartsStay
  <2>5. IsBoundary(h, e)
    BY <2>1, BoundaryAfter
  <2> HIDE DEF e
  <2> QED
    BY <2>1, <2>3, <2>4, <2>5 DEF IsBoundary
<1>4. ASSUME NEW q \in Peers, EnqueueChunk(q), q # p PROVE UNCHANGED <<handling, staged[p]>>
  BY <1>4 DEF EnqueueChunk, Types
<1>5. Source \/ UNCHANGED vars \/ ConfirmSlot \/ StartSession \/ (\E q \in Peers : PeerApply(q)) => UNCHANGED <<handling, staged[p]>>
  BY SourceWrites DEF ConfirmSlot, StartSession, PeerApply, vars, session
<1>6. ~DecodeEmpty /\ ~DecodeError /\ ~FinishBatch /\ ~SessionFails
  BY DEF DecodeEmpty, DecodeError, FinishBatch, SessionFails, EndSession
<1> QED
  BY <1>1, <1>2, <1>3, <1>4, <1>5, <1>6 DEF Next, Producer

\* What a peer has applied it has reached.
LEMMA AppliedIsReached ==
  ASSUME Types, AppliedIsBehind, NEW p \in Peers, NEW c \in Commits, NEW n \in 1..Len(EventsOf(c)),
         EventsOf(c)[n].at \in applied[p]
  PROVE  Reached(p, EventsOf(c)[n])
<1> DEFINE e == EventsOf(c)[n]
           i == e.at
<1>1. i \in SentOf(c) /\ e = ChangeEvent(i) /\ i \in applied[p]
  BY EventsAre DEF Commits
<1> HIDE DEF i
<1>2. i \in DOMAIN wal /\ wal[i].kind = "change"
  BY <1>1, SentParts DEF Commits
<1>3. ChangeEvent(i).table = wal[i].id[1] /\ ChangeEvent(i).at = i
  BY <1>2, EventParts
<1>4. Stale(ChangeEvent(i), peer[p].cursors[wal[i].id[1]])
  BY <1>1 DEF AppliedIsBehind
<1>5. e.at \in applied[p] /\ Stale(e, peer[p].cursors[e.table])
  BY <1>1, <1>3, <1>4
<1> HIDE DEF e
<1>6. Reached(p, e)
  BY <1>5 DEF Reached
<1> QED
  BY <1>6 DEF e

LEMMA StagedStep ==
  ASSUME Types, WalIsOrdered, SessionIsOrdered, StagedInChunks, StagedIsReached, BatchesAreChunks, AppliedIsBehind, [Next]_vars
  PROVE  StagedIsReached'
<1> SUFFICES ASSUME handling' # 0, NEW p \in Peers
             PROVE  \A n \in 1..staged'[p] : Reached(p, EventsOf(handling)[n])'
  BY DEF StagedIsReached
<1>1. CASE UNCHANGED <<handling, staged[p]>>
  <2> DEFINE h == handling
             s == staged[p]
  <2>1. h \in Commits /\ IsBoundary(h, s) /\ s \in 0..Len(EventsOf(h)) /\ Len(EventsOf(h)) \in Nat
    BY <1>1, Staging
  <2>2. \A n \in 1..s : EventsOf(h)[n] \in Events /\ Reached(p, EventsOf(h)[n])
    <3>1. \A n \in 1..s : n \in 1..Len(EventsOf(h))
      BY SMTT(300), <2>1
    <3>2. \A n \in 1..s : Reached(p, EventsOf(h)[n])
      BY <1>1 DEF StagedIsReached
    <3> QED
      BY <1>1, <3>1, <3>2, Staging
  <2>3. EventsOf(h)' = EventsOf(h) /\ conf' = conf
    BY <1>1, <2>1, PartsStay
  <2>5. ASSUME NEW n \in 1..s PROVE Reached(p, EventsOf(h)[n])'
    <3>1. PICK e \in Events : e = EventsOf(h)[n] /\ Reached(p, e)
      BY <2>2
    <3>2. Reached(p, e)'
      BY <3>1, ReachedStays
    <3>3. (EventsOf(h)[n])' = e
      BY <2>3, <3>1
    <3> QED
      BY <3>2, <3>3 DEF Reached
  <2> QED
    BY <1>1, <2>5
<1>2. CASE DecodeTransaction
  <2>1. staged'[p] = 0
    BY <1>2 DEF DecodeTransaction, SessionIsOrdered
  <2>2. ~ \E n \in 1..0 : TRUE
    BY SMTT(300)
  <2> QED
    BY <2>1, <2>2
<1>3. CASE EnqueueChunk(p)
  <2> DEFINE h == handling
             s == staged[p]
             e == End(h, s)
  <2>1. /\ h \in Commits /\ IsBoundary(h, s) /\ s \in 0..Len(EventsOf(h)) /\ Len(EventsOf(h)) \in Nat
        /\ Chunk(p) = Part(h, s) /\ Chunk(p) \in Seq(Events) /\ h' = h
        /\ \A n \in 1..Len(EventsOf(h)) : EventsOf(h)[n] \in Events
    BY <1>3, Staging DEF EnqueueChunk
  <2>2. /\ e \in s..Len(EventsOf(h)) /\ Len(Chunk(p)) = e - s
        /\ Range(Chunk(p)) = {EventsOf(h)[n] : n \in (s + 1)..e}
    <3> HIDE DEF h, s
    <3>1. /\ e \in s..Len(EventsOf(h)) /\ Len(Part(h, s)) = e - s
          /\ Range(Part(h, s)) = {EventsOf(h)[n] : n \in (s + 1)..e}
      BY <2>1, PartIs
    <3> HIDE DEF e
    <3> QED
      BY <2>1, <3>1
  <2>3. staged'[p] = e
    <3>1. staged'[p] = staged[p] + Len(Chunk(p))
      BY <1>3 DEF EnqueueChunk, Types
    <3>2. staged'[p] = s + (e - s)
      BY <2>2, <3>1
    <3> HIDE DEF s, e
    <3> QED
      BY SMTT(300), <2>1, <2>2, <3>2
  <2>4. EventsOf(h)' = EventsOf(h) /\ conf' = conf
    BY <2>1, PartsStay
  <2>7. \A n \in 1..e : n \in 1..Len(EventsOf(h)) /\ (n \in 1..s \/ n \in (s + 1)..e)
    <3> DEFINE L == Len(EventsOf(h))
    <3> HIDE DEF L, e, s
    <3> QED
      BY SMTT(300), <2>1, <2>2 DEF L
  <2>8. \/ \E n \in DOMAIN outbox'[p] : outbox'[p][n] = Chunk(p)
        \/ \A f \in Range(Chunk(p)) : f.at \in shadowed'[p] \cup applied[p]
    <3>1. CASE IsPending(p, Chunk(p)) /\ ~IsShadowed(p, Chunk(p))
      <4>1. PICK n \in DOMAIN outbox[p] : LastChange(outbox[p][n]) = LastChange(Chunk(p))
        BY <3>1 DEF IsShadowed
      <4>2. outbox[p][n] = Chunk(p)
        BY <1>3, <4>1, PendingIsChunk
      <4>3. outbox' = outbox
        BY <1>3, <3>1 DEF EnqueueChunk
      <4> QED
        BY <4>2, <4>3
    <3>2. CASE ~IsPending(p, Chunk(p))
      <4>1. outbox'[p] = Append(outbox[p], Chunk(p))
        BY <1>3, <3>2 DEF EnqueueChunk, Types
      <4> QED
        BY <2>1, <4>1, OutboxAfterEnqueue
    <3>3. CASE IsShadowed(p, Chunk(p))
      <4>1. shadowed'[p] = shadowed[p] \cup ({f.at : f \in Range(Chunk(p))} \ applied[p])
        BY <1>3, <3>3 DEF EnqueueChunk, Types
      <4> QED
        BY <4>1
    <3> QED
      BY <3>1, <3>2, <3>3
  <2>9. ASSUME NEW n \in 1..e PROVE Reached(p, EventsOf(h)[n])'
    <3>1. PICK f \in Events : f = EventsOf(h)[n]
      BY <2>1, <2>7
    <3>2. Reached(p, f)'
      <4>1. CASE n \in 1..s
        <5>1. Reached(p, f)
          BY <1>3, <3>1, <4>1 DEF StagedIsReached, EnqueueChunk
        <5> QED
          BY <5>1, ReachedStays
      <4>2. CASE n \in (s + 1)..e
        <5>1. f \in Range(Chunk(p))
          BY <2>2, <3>1, <4>2
        <5>2. CASE f.at \in applied[p]
          <6>1. Reached(p, f)
            BY <2>1, <2>7, <3>1, <5>2, AppliedIsReached
          <6> QED
            BY <6>1, ReachedStays
        <5> QED
          BY <2>8, <5>1, <5>2 DEF Reached
      <4> QED
        BY <2>7, <4>1, <4>2
    <3>3. (EventsOf(h)[n])' = f
      BY <2>1, <2>4, <3>1
    <3> QED
      BY <3>2, <3>3 DEF Reached
  <2> QED
    BY <2>1, <2>3, <2>9
<1>4. ASSUME NEW q \in Peers, EnqueueChunk(q), q # p PROVE UNCHANGED <<handling, staged[p]>>
  BY <1>4 DEF EnqueueChunk, Types
<1>5. Source \/ UNCHANGED vars \/ ConfirmSlot \/ StartSession \/ (\E q \in Peers : PeerApply(q)) => UNCHANGED <<handling, staged[p]>>
  BY SourceWrites DEF ConfirmSlot, StartSession, PeerApply, vars, session
<1>6. ~DecodeEmpty /\ ~DecodeError /\ ~FinishBatch /\ ~SessionFails
  BY DEF DecodeEmpty, DecodeError, FinishBatch, SessionFails, EndSession
<1> QED
  BY <1>1, <1>2, <1>3, <1>4, <1>5, <1>6 DEF Next, Producer

-----------------------------------------------------------------------------
(* The slot.                                                                *)

\* The end of a commit is below the start of the record after the next.
LEMMA CloseStop ==
  ASSUME NEW c \in Nat \ {0}, NEW d \in Nat \ {0}
  PROVE  /\ LSN(c) >= LSN(1) /\ LSN(c) \in Nat /\ CommitNext(d) \in Nat
         /\ LSN(c) < CommitNext(d) => c <= d + 1
<1>0. RecordSize \in Nat \ {0} /\ CommitLen \in 1..RecordSize
  BY CaptureAssumption
<1>1. /\ c * RecordSize \in Nat /\ (d + 1) * RecordSize \in Nat
      /\ (d + 2) * RecordSize = (d + 1) * RecordSize + RecordSize /\ 1 * RecordSize = RecordSize
  BY SMTT(300), <1>0
<1>2. c * RecordSize >= RecordSize
  <2>1. PICK k \in Nat : c = 1 + k
    <3>1. c - 1 \in Nat /\ c = 1 + (c - 1)
      BY SMTT(300)
    <3> QED
      BY <3>1
  <2>2. c * RecordSize = RecordSize + k * RecordSize /\ k * RecordSize \in Nat
    BY SMTT(300), <1>0, <2>1
  <2> QED
    BY SMTT(300), <1>0, <2>2
<1>3. ASSUME d + 2 <= c PROVE c * RecordSize >= (d + 2) * RecordSize
  <2>1. PICK k \in Nat : c = (d + 2) + k
    <3>1. c - (d + 2) \in Nat /\ c = (d + 2) + (c - (d + 2))
      BY SMTT(300), <1>3
    <3> QED
      BY <3>1
  <2>2. c * RecordSize = (d + 2) * RecordSize + k * RecordSize /\ k * RecordSize \in Nat
        /\ (d + 2) * RecordSize \in Nat
    BY SMTT(300), <1>0, <2>1
  <2> QED
    BY SMTT(300), <2>2
<1>4. LSN(c) = c * RecordSize /\ LSN(1) = 1 * RecordSize /\ CommitNext(d) = (d + 1) * RecordSize + CommitLen
  BY DEF LSN, CommitNext
<1> DEFINE a == c * RecordSize
           b == (d + 1) * RecordSize
           g == (d + 2) * RecordSize
<1>5. /\ a \in Nat /\ b \in Nat /\ g = b + RecordSize /\ a >= RecordSize /\ (d + 2 <= c => a >= g)
      /\ LSN(c) = a /\ LSN(1) = RecordSize /\ CommitNext(d) = b + CommitLen
  BY <1>1, <1>2, <1>3, <1>4
<1> HIDE DEF a, b, g
<1> QED
  BY SMTT(300), <1>0, <1>5

LEMMA SafeStays ==
  ASSUME Types, SessionIsOrdered, StagedInChunks, [Next]_vars, NEW c \in Commits
  PROVE  /\ ReachedByAll(c) => ReachedByAll(c)'
         /\ Safe(c) => Safe(c)'
<1>1. EventsOf(c)' = EventsOf(c) /\ Commits \subseteq Commits'
  BY StepKeepsWal DEF Commits
<1>2. \A e \in Range(EventsOf(c)) : e \in Events
  BY EventsAre, MembersAre DEF Commits
<1>3. ASSUME ReachedByAll(c) PROVE ReachedByAll(c)'
  <2>1. ASSUME NEW p \in Peers, NEW e \in Range(EventsOf(c)) PROVE Reached(p, e)'
    BY <1>2, <1>3, ReachedStays DEF ReachedByAll
  <2> QED
    BY <1>1, <2>1 DEF ReachedByAll
<1> QED
  BY <1>3, HandledGrows DEF Safe

LEMMA NewIsSafe ==
  ASSUME Types, SessionIsOrdered, [Next]_vars, NEW c \in Commits', c \notin Commits, NEW x, IsStop(x)
  PROVE  /\ LSN(c) < x => c - 1 \in handled
         /\ ~(c <= last)
<1>1. c = Len(wal) + 1 /\ Len(wal) \in Nat
  BY StepKeepsWal, WalParts
<1>2. \A d \in Commits : d \in Nat \ {0} /\ d \in 1..Len(wal)
  BY CommitNumbers, WalParts
<1>3. c \in Nat \ {0}
  BY SMTT(300), <1>1
<1>4. ASSUME LSN(c) < x PROVE c - 1 \in handled
  <2>1. CASE x = LSN(1)
    <3>1. LSN(c) >= x /\ LSN(c) \in Nat /\ x \in Nat
      <4>1. 1 \in Nat \ {0}
        BY SMTT(300)
      <4> QED
        BY <1>3, <2>1, <4>1, CloseStop
    <3> QED
      BY SMTT(300), <1>4, <3>1
  <2>2. ASSUME NEW d \in handled, x = CommitNext(d) PROVE c - 1 \in handled
    <3>0. d \in Commits
      BY DEF SessionIsOrdered
    <3>1. c <= d + 1
      BY <3>0, <1>2, <1>3, <1>4, <2>2, CloseStop
    <3>2. d \in 1..Len(wal)
      BY <1>2, <3>0
    <3>3. c - 1 = d
      BY SMTT(300), <1>1, <3>1, <3>2
    <3> QED
      BY <3>3
  <2> QED
    BY <2>1, <2>2 DEF IsStop
<1>5. ~(c <= last)
  <2>1. last = 0 \/ last \in 1..Len(wal)
    BY <1>2 DEF SessionIsOrdered
  <2> QED
    BY SMTT(300), <1>1, <2>1
<1> QED
  BY <1>4, <1>5

\* What the end of a transaction covers, when all of it has reached the peers.
LEMMA FinishCovers ==
  ASSUME Types, SessionIsOrdered, StagedIsSafe, on, NEW m \in Decoded, \A c \in Decoded : m <= c,
         ReachedByAll(m), NEW c \in Commits
  PROVE  /\ LSN(c) < CommitNext(m) => Safe(c) \/ c - 1 = m
         /\ c <= m /\ LSN(c) >= start => ReachedByAll(c)
<1>1. m \in Commits
  BY DEF Decoded
<1>2. m \in Nat \ {0} /\ c \in Nat \ {0} /\ LSN(c) \in Nat
  BY <1>1, CommitNumbers
<1>3. start \in Nat /\ slot \in Nat /\ last \in Nat /\ start <= slot
  BY DEF Types, SessionIsOrdered
<1>4. ASSUME c <= m, LSN(c) >= start PROVE ReachedByAll(c)
  <2>1. CASE c = m
    BY <2>1
  <2>2. CASE c # m
    <3>1. ~(m <= c)
      BY SMTT(300), <1>2, <1>4, <2>2
    <3>2. ~(c > last)
      BY <1>4, <3>1 DEF Decoded
    <3>3. c <= last
      BY SMTT(300), <1>2, <1>3, <3>2
    <3> QED
      BY <1>4, <3>3 DEF StagedIsSafe
  <2> QED
    BY <2>1, <2>2
<1>5. ASSUME LSN(c) < CommitNext(m) PROVE Safe(c) \/ c - 1 = m
  <2>1. c <= m + 1
    BY <1>2, <1>5, CloseStop
  <2>2. CASE c = m + 1
    BY SMTT(300), <1>2, <2>2
  <2>3. CASE c # m + 1 /\ LSN(c) >= start
    <3>1. c <= m
      BY SMTT(300), <1>2, <2>1, <2>3
    <3> QED
      BY <1>4, <2>3, <3>1 DEF Safe
  <2>4. CASE ~(LSN(c) >= start)
    <3>1. LSN(c) < slot
      BY SMTT(300), <1>2, <1>3, <2>4
    <3> QED
      BY <3>1 DEF StagedIsSafe
  <2> QED
    BY <2>2, <2>3, <2>4
<1> QED
  BY <1>4, <1>5

\* A transaction that is finished has reached every peer.
LEMMA FinishedIsReached ==
  ASSUME Types, SessionIsOrdered, StagedInChunks, StagedIsReached, DecodeEmpty \/ FinishBatch
  PROVE  \E m \in Decoded : /\ \A d \in Decoded : m <= d
                            /\ ReachedByAll(m) /\ on /\ Finish(m) /\ UNCHANGED <<source, slot, on, start>>
<1>1. CASE DecodeEmpty
  <2>1. Min(Decoded) \in Decoded /\ \A d \in Decoded : Min(Decoded) <= d
    BY <1>1, DecodedMin DEF DecodeEmpty
  <2>2. EventsOf(Min(Decoded)) = <<>> /\ on /\ Finish(Min(Decoded)) /\ UNCHANGED <<source, slot, on, start>>
    BY <1>1 DEF DecodeEmpty
  <2>3. Range(<<>>) = {}
    BY SMTT(300) DEF Range
  <2>4. ReachedByAll(Min(Decoded))
    BY <2>2, <2>3 DEF ReachedByAll
  <2> QED
    BY <2>1, <2>2, <2>4
<1>2. CASE FinishBatch
  <2>1. handling # 0 /\ on /\ handling \in Decoded /\ \A d \in Decoded : handling <= d
    BY <1>2 DEF FinishBatch, SessionIsOrdered
  <2>2. Finish(handling) /\ UNCHANGED <<source, slot, on, start>>
    BY <1>2 DEF FinishBatch
  <2>3. ASSUME NEW p \in Peers, NEW e \in Range(EventsOf(handling)) PROVE Reached(p, e)
    <3>1. staged[p] = Len(EventsOf(handling))
      <4>1. /\ Chunk(p) = Part(handling, staged[p]) /\ handling \in Commits
            /\ staged[p] \in 0..Len(EventsOf(handling))
        BY <2>1, Staging
      <4>2. Chunk(p) = <<>>
        BY <1>2 DEF FinishBatch
      <4>3. Part(handling, staged[p]) = <<>>
        BY <4>1, <4>2
      <4> QED
        BY <4>1, <4>3, PartIs
    <3>2. PICK n \in 1..Len(EventsOf(handling)) : e = EventsOf(handling)[n]
      <4>1. DOMAIN EventsOf(handling) = 1..Len(EventsOf(handling))
        BY <2>1, EventsAre DEF Decoded, Commits
      <4> QED
        BY <4>1 DEF Range
    <3>3. \A k \in 1..staged[p] : Reached(p, EventsOf(handling)[k])
      BY <2>1 DEF StagedIsReached
    <3> QED
      BY <3>1, <3>2, <3>3
  <2>4. ReachedByAll(handling)
    BY <2>3 DEF ReachedByAll
  <2> QED
    BY <2>1, <2>2, <2>4
<1> QED
  BY <1>1, <1>2

LEMMA SafeStep ==
  ASSUME Types, SessionIsOrdered, StagedInChunks, StagedIsReached, StagedIsSafe, [Next]_vars
  PROVE  StagedIsSafe'
<1> SUFFICES ASSUME NEW c \in Commits'
             PROVE  /\ LSN(c) < slot' \/ (on' /\ LSN(c) < durable') => Safe(c)'
                    /\ c <= last' /\ LSN(c) >= start' => ReachedByAll(c)'
  BY DEF StagedIsSafe
<1> DEFINE S == LSN(c) < slot \/ (on /\ LSN(c) < durable)
           R == c <= last /\ LSN(c) >= start
<1>1. (S => Safe(c)') /\ (R => ReachedByAll(c)')
  <2>1. CASE c \in Commits
    BY <2>1, SafeStays DEF StagedIsSafe
  <2>2. CASE c \notin Commits
    <3>1. IsStop(slot) /\ (on => IsStop(durable))
      BY DEF SessionIsOrdered
    <3>2. (S => c - 1 \in handled) /\ ~R
      BY <2>2, <3>1, NewIsSafe
    <3> QED
      BY <3>2, HandledGrows DEF Safe
  <2> QED
    BY <2>1, <2>2
<1>2. ~(c <= 0)
  <2>1. c \in Commits => c \in Nat \ {0}
    BY CommitNumbers
  <2>2. c \notin Commits => c = Len(wal) + 1 /\ Len(wal) \in Nat
    BY StepKeepsWal, WalParts
  <2> QED
    BY SMTT(300), <2>1, <2>2
<1>3. CASE UNCHANGED <<slot, on, start, durable, last>>
  BY <1>1, <1>3
<1>4. ASSUME NEW m \in Decoded, \A d \in Decoded : m <= d, ReachedByAll(m), on, Finish(m),
             UNCHANGED <<source, slot, on, start>>
      PROVE  /\ LSN(c) < slot' \/ (on' /\ LSN(c) < durable') => Safe(c)'
             /\ c <= last' /\ LSN(c) >= start' => ReachedByAll(c)'
  <2>1. c \in Commits /\ durable' = CommitNext(m) /\ last' = m /\ m \in handled'
    BY <1>4 DEF Finish, source, Commits
  <2>2. /\ LSN(c) < CommitNext(m) => Safe(c) \/ c - 1 = m
        /\ c <= m /\ LSN(c) >= start => ReachedByAll(c)
    BY <1>4, <2>1, FinishCovers
  <2>3. (Safe(c) => Safe(c)') /\ (ReachedByAll(c) => ReachedByAll(c)')
    BY <2>1, SafeStays
  <2>4. c - 1 = m => Safe(c)'
    BY <2>1 DEF Safe
  <2> QED
    BY <1>1, <1>4, <2>1, <2>2, <2>3, <2>4
<1>5. CASE DecodeEmpty \/ FinishBatch
  <2>1. PICK m \in Decoded : /\ \A d \in Decoded : m <= d
                             /\ ReachedByAll(m) /\ on /\ Finish(m) /\ UNCHANGED <<source, slot, on, start>>
    BY <1>5, FinishedIsReached
  <2> QED
    BY <1>4, <2>1
<1>6. CASE StartSession
  BY <1>1, <1>2, <1>6 DEF StartSession
<1>7. CASE DecodeError \/ SessionFails
  <2>1. on' = FALSE /\ last' = 0 /\ slot' = slot
    BY <1>7 DEF DecodeError, SessionFails, EndSession
  <2> QED
    BY <1>1, <1>2, <2>1
<1>8. CASE ConfirmSlot
  <2>1. on /\ slot' = durable /\ UNCHANGED <<on, start, durable, last>>
    BY <1>8 DEF ConfirmSlot, session
  <2> QED
    BY <1>1, <2>1
<1>9. Source \/ UNCHANGED vars \/ DecodeTransaction \/ (\E p \in Peers : PeerApply(p) \/ EnqueueChunk(p)) =>
         UNCHANGED <<slot, on, start, durable, last>>
  BY SourceWrites DEF DecodeTransaction, PeerApply, EnqueueChunk, vars, session
<1> QED
  BY <1>3, <1>5, <1>6, <1>7, <1>8, <1>9 DEF Next, Producer

LEMMA HandledStep ==
  ASSUME Types, SessionIsOrdered, StagedInChunks, StagedIsReached, HandledIsReached, [Next]_vars
  PROVE  HandledIsReached'
<1>0. handled \subseteq Commits
  BY DEF SessionIsOrdered
<1>1. \A c \in Commits : ReachedByAll(c) => ReachedByAll(c)'
  BY SafeStays
<1>2. CASE DecodeEmpty \/ FinishBatch
  <2>1. PICK m \in Decoded : ReachedByAll(m) /\ Finish(m)
    BY <1>2, FinishedIsReached
  <2> QED
    BY <1>0, <1>1, <2>1 DEF HandledIsReached, Finish, Decoded
<1>3. CASE ~(DecodeEmpty \/ FinishBatch)
  <2>1. UNCHANGED handled
    <3>1. CASE Source
      BY <3>1, SourceWrites DEF history
    <3>2. CASE ~Source
      BY ZenonT(300), <1>3, <3>2 DEF Next, Producer, StartSession, DecodeTransaction, DecodeError, ConfirmSlot,
         SessionFails, EnqueueChunk, PeerApply, vars, history
    <3> QED
      BY <3>1, <3>2
  <2> QED
    BY <1>0, <1>1, <2>1 DEF HandledIsReached
<1> QED
  BY <1>2, <1>3

-----------------------------------------------------------------------------
(* The order of the changes of a key.                                       *)

\* Where the events of the outboxes come from.
LEMMA StagedEvent ==
  ASSUME Types, BatchesAreChunks, NEW p \in Peers, NEW n \in DOMAIN outbox[p], NEW e \in Range(outbox[p][n])
  PROVE  /\ e \in Events
         /\ \E c \in Commits : e.at \in SentOf(c) /\ e = ChangeEvent(e.at)
<1>1. PICK c \in Commits : \E s \in 0..Len(EventsOf(c)) :
        IsBoundary(c, s) /\ s < Len(EventsOf(c)) /\ outbox[p][n] = Part(c, s)
  BY DEF BatchesAreChunks
<1>2. PICK s \in 0..Len(EventsOf(c)) : outbox[p][n] = Part(c, s)
  BY <1>1
<1>3. Range(Part(c, s)) = {EventsOf(c)[k] : k \in (s + 1)..End(c, s)} /\ End(c, s) \in s..Len(EventsOf(c))
  BY PartIs
<1>4. e \in Range(Part(c, s))
  BY <1>2
<1>5. PICK k \in (s + 1)..End(c, s) : e = EventsOf(c)[k]
  BY <1>3, <1>4
<1>6. Len(EventsOf(c)) \in Nat
  BY EventsAre DEF Commits
<1>7. k \in 1..Len(EventsOf(c))
  <2> DEFINE L == Len(EventsOf(c))
             x == End(c, s)
  <2>1. x \in s..L /\ L \in Nat /\ s \in 0..L /\ k \in (s + 1)..x
    BY <1>3, <1>6
  <2> HIDE DEF L, x
  <2>2. k \in 1..L
    BY SMTT(300), <2>1
  <2> QED
    BY <2>2 DEF L
<1>8. e.at \in SentOf(c) /\ e = ChangeEvent(e.at)
  BY <1>5, <1>7, EventsAre DEF Commits
<1>9. outbox[p][n] \in Seq(Events)
  BY OutboxIs
<1> QED
  BY <1>8, <1>9, MembersAre

\* A change that is sent, as an event.
LEMMA SentEvent ==
  ASSUME Types, NEW c \in Commits, NEW i \in SentOf(c)
  PROVE  /\ i \in DOMAIN wal /\ i \in Nat /\ i <= c /\ wal[i].kind = "change" /\ wal[i].tx = wal[c].tx
         /\ ChangeEvent(i) \in Events /\ ChangeEvent(i) \in Range(EventsOf(c)) /\ IsPlaced(ChangeEvent(i))
         /\ ChangeEvent(i).at = i /\ ChangeEvent(i).op = wal[i].op /\ ChangeEvent(i).table = wal[i].id[1]
         /\ IdOf(ChangeEvent(i)) = wal[i].id
<1>1. c \in DOMAIN wal
  BY DEF Commits
<1>2. i \in DOMAIN wal /\ i \in Nat /\ i <= c /\ wal[i].kind = "change" /\ wal[i].tx = wal[c].tx
  BY <1>1, SentParts
<1>3. /\ ChangeEvent(i) \in Events /\ ChangeEvent(i).at = i /\ ChangeEvent(i).op = wal[i].op
      /\ ChangeEvent(i).table = wal[i].id[1] /\ IdOf(ChangeEvent(i)) = wal[i].id
  BY <1>2, EventParts
<1>4. ChangeEvent(i) \in Range(EventsOf(c))
  BY <1>1, EventsAre
<1> QED
  BY <1>2, <1>3, <1>4, EventFields

LEMMA ProcessedStays ==
  ASSUME Types, [Next]_vars, NEW p \in Peers, NEW c \in Commits, NEW i \in SentOf(c), Processed(p, i)
  PROVE  Processed(p, i)'
<1>1. /\ i \in DOMAIN wal /\ IsPlaced(ChangeEvent(i)) /\ ChangeEvent(i).table = wal[i].id[1]
  BY SentEvent
<1>2. ChangeEvent(i)' = ChangeEvent(i) /\ wal'[i] = wal[i]
  BY <1>1, StepKeepsWal
<1>3. Stale(ChangeEvent(i), peer[p].cursors[ChangeEvent(i).table])
  BY <1>1 DEF Processed
<1> DEFINE e == ChangeEvent(i)
<1>4. IsPlaced(e) /\ Stale(e, peer[p].cursors[e.table])
  BY <1>1, <1>3
<1>5. e' = e /\ wal'[i].id[1] = e.table
  BY <1>1, <1>2
<1> HIDE DEF e
<1>6. Stale(e, peer'[p].cursors[e.table])
  BY <1>4, StaleStays
<1> QED
  BY <1>5, <1>6 DEF Processed, Stale, e

\* An allowed event of the batch that a peer applies is processed.
LEMMA HeadIsProcessed ==
  ASSUME Types, [Next]_vars, NEW p \in Peers, PeerApply(p), NEW c \in Commits, NEW i \in SentOf(c),
         Allowed(ApplyMode, wal[i].op), ChangeEvent(i) \in Range(Head(outbox[p]))
  PROVE  Processed(p, i)'
<1>1. i \in DOMAIN wal /\ ChangeEvent(i).table = wal[i].id[1] /\ ChangeEvent(i).op = wal[i].op
  BY SentEvent
<1>2. ChangeEvent(i)' = ChangeEvent(i) /\ wal'[i] = wal[i]
  BY <1>1, StepKeepsWal
<1> DEFINE e == ChangeEvent(i)
<1>3. e \in Range(Head(outbox[p])) /\ Allowed(ApplyMode, e.op) /\ e' = e /\ wal'[i].id[1] = e.table
  BY <1>1, <1>2
<1> HIDE DEF e
<1>4. Stale(e, peer'[p].cursors[e.table])
  BY <1>3, AppliedOrPassed
<1> QED
  BY <1>3, <1>4 DEF Processed, Stale, e

\* A reached event that the peer wants is staged or processed.
LEMMA ReachedIsStagedOrProcessed ==
  ASSUME Types, NEW p \in Peers, NEW c \in Commits, NEW i \in SentOf(c), Allowed(ApplyMode, wal[i].op),
         i \notin shadowed[p], Reached(p, ChangeEvent(i))
  PROVE  IsStaged(p, i) \/ Processed(p, i)
<1>1. ChangeEvent(i).table = wal[i].id[1] /\ ChangeEvent(i).op = wal[i].op /\ ChangeEvent(i).at = i
  BY SentEvent
<1> QED
  BY <1>1 DEF Reached, IsStaged, Processed

LEMMA PastStays ==
  ASSUME Types, SessionIsOrdered, [Next]_vars, NEW c \in Commits, IsPast(c)
  PROVE  IsPast(c)'
<1>0. /\ LSN(c) \in Nat /\ c \in Nat /\ slot \in Nat /\ durable \in Nat /\ last \in Nat /\ start \in Nat
      /\ LSN(c) < slot
  BY CommitNumbers DEF Types, IsPast
<1>1. CASE UNCHANGED <<slot, on, start, last>>
  <2>1. c \in Decoded' => c \in Decoded
    BY <1>1 DEF Decoded
  <2> QED
    BY <1>1, <2>1 DEF IsPast
<1>2. CASE StartSession
  <2>1. start' = slot /\ slot' = slot
    BY <1>2 DEF StartSession
  <2>2. ~(LSN(c) >= start')
    BY SMTT(300), <1>0, <2>1
  <2> QED
    BY <1>0, <2>1, <2>2 DEF IsPast, Decoded
<1>3. CASE DecodeError \/ SessionFails
  <2>1. on' = FALSE /\ slot' = slot
    BY <1>3 DEF DecodeError, SessionFails, EndSession
  <2> QED
    BY <1>0, <2>1 DEF IsPast
<1>4. CASE ConfirmSlot
  <2>1. slot' = durable /\ durable > slot /\ UNCHANGED <<source, on, start, last>>
    BY <1>4 DEF ConfirmSlot, session
  <2>2. LSN(c) < slot'
    BY SMTT(300), <1>0, <2>1
  <2>3. c \in Decoded' => c \in Decoded
    BY <2>1 DEF Decoded
  <2> QED
    BY <2>1, <2>2, <2>3 DEF IsPast
<1>5. CASE DecodeEmpty \/ FinishBatch
  <2>1. PICK m \in Decoded : last' = m /\ on /\ UNCHANGED <<slot, on, start>>
    <3>1. DecodeEmpty => Min(Decoded) \in Decoded /\ last' = Min(Decoded) /\ on /\ UNCHANGED <<slot, on, start>>
      BY DecodedMin DEF DecodeEmpty, Finish
    <3>2. FinishBatch => handling \in Decoded /\ last' = handling /\ on /\ UNCHANGED <<slot, on, start>>
      BY DEF FinishBatch, Finish, SessionIsOrdered
    <3> QED
      BY <1>5, <3>1, <3>2
  <2>2. m > last /\ m \in Nat
    BY CommitNumbers DEF Decoded
  <2>3. c > last' => c > last
    BY SMTT(300), <1>0, <2>1, <2>2
  <2>4. c \in Decoded' => c \in Decoded
    BY <2>1, <2>3 DEF Decoded
  <2> QED
    BY <2>1, <2>4 DEF IsPast
<1>6. Source \/ UNCHANGED vars \/ DecodeTransaction \/ (\E p \in Peers : PeerApply(p) \/ EnqueueChunk(p)) =>
         UNCHANGED <<slot, on, start, last>>
  BY SourceWrites DEF DecodeTransaction, PeerApply, EnqueueChunk, vars, session
<1> QED
  BY <1>1, <1>2, <1>3, <1>4, <1>5, <1>6 DEF Next, Producer

LEMMA OverStays ==
  ASSUME Types, WalIsOrdered, SessionIsOrdered, StagedInChunks, [Next]_vars,
         NEW p \in Peers, NEW c \in Commits, NEW i \in SentOf(c), IsOver(p, c, i)
  PROVE  IsOver(p, c, i)'
<1>1. CASE Processed(p, i)
  BY <1>1, ProcessedStays DEF IsOver
<1>2. CASE IsPast(c) /\ ~IsStaged(p, i)
  <2>1. IsPast(c)'
    BY <1>2, PastStays
  <2>2. i \in DOMAIN wal /\ ChangeEvent(i) = ChangeEvent(i)' /\ wal[i].tx = wal[c].tx /\ ChangeEvent(i).at = i
    BY SentEvent, StepKeepsWal
  <2>3. ASSUME IsStaged(p, i)' PROVE FALSE
    <3> DEFINE f == ChangeEvent(i)
    <3>1. f' = f /\ f.at = i /\ \A n \in DOMAIN outbox[p] : f \notin Range(outbox[p][n])
      BY <1>2, <2>2 DEF IsStaged
    <3>2. PICK n \in DOMAIN outbox'[p] : f' \in Range(outbox'[p][n])
      BY <2>3 DEF IsStaged
    <3> HIDE DEF f
    <3>3. f \in Range(outbox'[p][n])
      BY <3>1, <3>2
    <3>4. CASE outbox'[p] = outbox[p]
      BY <3>1, <3>3, <3>4
    <3>5. CASE PeerApply(p) /\ outbox'[p] = Tail(outbox[p])
      <4>1. n + 1 \in DOMAIN outbox[p] /\ outbox'[p][n] = outbox[p][n + 1]
        BY <3>5, OutboxAfterAck
      <4> QED
        BY <3>1, <3>3, <4>1
    <3>6. CASE EnqueueChunk(p) /\ outbox'[p] = Append(outbox[p], Chunk(p))
      <4>1. handling # 0
        BY <3>6 DEF EnqueueChunk
      <4>2. /\ handling \in Commits /\ Chunk(p) = Part(handling, staged[p]) /\ Chunk(p) \in Seq(Events)
            /\ staged[p] \in 0..Len(EventsOf(handling)) /\ Len(EventsOf(handling)) \in Nat
        BY <4>1, Staging
      <4>3. handling \in Decoded /\ on
        BY <4>1 DEF SessionIsOrdered
      <4>4. f \in Range(Chunk(p))
        <5>1. (n \in DOMAIN outbox[p] /\ outbox'[p][n] = outbox[p][n]) \/ outbox'[p][n] = Chunk(p)
          BY <3>6, <4>2, OutboxAfterEnqueue
        <5> QED
          BY <3>1, <3>3, <5>1
      <4>5. f.at \in SentOf(handling)
        BY <4>2, <4>4, ChunkEvents
      <4>6. wal[handling].tx = wal[c].tx
        BY <2>2, <3>1, <4>2, <4>5, SentEvent
      <4>7. c = handling
        BY <4>2, <4>6, CommitsAreFew
      <4> QED
        BY <1>2, <4>3, <4>7 DEF IsPast
    <3> QED
      BY <3>4, <3>5, <3>6, OutboxStep
  <2> QED
    BY <2>1, <2>3 DEF IsOver
<1> QED
  BY <1>1, <1>2 DEF IsOver

\* What a step adds to the applied changes comes from the first batch of the outbox.
LEMMA AppliedAdds ==
  ASSUME Types, BatchesAreChunks, [Next]_vars, NEW p \in Peers, NEW j \in applied'[p], j \notin applied[p]
  PROVE  /\ PeerApply(p) /\ 1 \in DOMAIN outbox[p] /\ Head(outbox[p]) = outbox[p][1]
         /\ ChangeEvent(j) \in Range(outbox[p][1]) /\ ChangeEvent(j).at = j
         /\ \E c \in Commits : j \in SentOf(c) /\ Allowed(ApplyMode, wal[j].op)
<1>1. PeerApply(p)
  BY PeersMoveOn
<1> DEFINE batch == Head(outbox[p])
<1>2. /\ batch \in Seq(Events) /\ 1 \in DOMAIN outbox[p] /\ batch = outbox[p][1]
      /\ applied'[p] = applied[p] \cup {e.at : e \in Range(Kept(p, batch))}
  BY <1>1, PeerStep
<1>3. PICK e \in Range(Kept(p, batch)) : j = e.at
  BY <1>2
<1>4. /\ Range(Prepared(batch, ApplyMode, FALSE)) = {f \in Range(batch) : Allowed(ApplyMode, f.op)}
      /\ Range(Kept(p, batch)) \subseteq Range(Prepared(batch, ApplyMode, FALSE))
  BY <1>2, BatchIsApplied
<1>5. e \in Range(batch) /\ Allowed(ApplyMode, e.op)
  <2> HIDE DEF Prepared, batch
  <2> QED
    BY <1>3, <1>4
<1>6. PICK c \in Commits : e.at \in SentOf(c) /\ e = ChangeEvent(e.at)
  BY <1>2, <1>5, StagedEvent
<1>7. j \in SentOf(c) /\ e = ChangeEvent(j)
  BY <1>3, <1>6
<1>8. ChangeEvent(j).op = wal[j].op
  BY <1>7, SentEvent
<1> QED
  BY <1>1, <1>2, <1>3, <1>5, <1>7, <1>8

LEMMA AppliedStep ==
  ASSUME Types, BatchesAreChunks, AppliedIsBehind, [Next]_vars
  PROVE  AppliedIsBehind'
<1> SUFFICES ASSUME NEW p \in Peers, NEW j \in applied'[p]
             PROVE  (\E c \in Commits' : j \in SentOf(c)') /\ Processed(p, j)'
  BY DEF AppliedIsBehind, Processed
<1>1. ASSUME NEW c \in Commits, j \in SentOf(c) PROVE \E d \in Commits' : j \in SentOf(d)'
  BY <1>1, StepKeepsWal DEF Commits
<1>2. CASE j \in applied[p]
  <2>1. PICK c \in Commits : j \in SentOf(c)
    BY <1>2 DEF AppliedIsBehind
  <2>2. Processed(p, j)
    BY <1>2 DEF AppliedIsBehind, Processed
  <2>3. Processed(p, j)'
    BY <2>1, <2>2, ProcessedStays
  <2> QED
    BY <1>1, <2>1, <2>3
<1>3. CASE j \notin applied[p]
  <2>1. PICK c \in Commits : j \in SentOf(c) /\ Allowed(ApplyMode, wal[j].op)
    BY <1>3, AppliedAdds
  <2>2. Processed(p, j)'
    BY <1>3, <2>1, AppliedAdds, HeadIsProcessed
  <2> QED
    BY <1>1, <2>1, <2>2
<1> QED
  BY <1>2, <1>3

\* A transaction that commits now has no change before a sent one of the same key.
LEMMA NewComesAfter ==
  ASSUME Types, WalIsOrdered, RowsAreLocked, [Next]_vars, NEW c \in Commits', NEW i \in SentOf(c)',
         NEW d \in Commits, NEW j \in SentOf(d), i < j, wal'[i].id = wal[j].id
  PROVE  c \in Commits /\ i \in SentOf(c) /\ wal'[i] = wal[i] /\ ChangeEvent(i)' = ChangeEvent(i)
<1>1. j \in DOMAIN wal /\ j \in 1..Len(wal) /\ Len(wal) \in Nat /\ wal[j].kind = "change" /\ wal[j].tx = wal[d].tx
  BY SentEvent, WalParts
<1>2. i \in 1..c /\ wal'[i].tx = wal'[c].tx /\ wal'[i].kind = "change"
  BY DEF SentOf
<1>3. i \in DOMAIN wal
  <2>1. i \in 1..Len(wal)
    BY SMTT(300), <1>1, <1>2
  <2> QED
    BY <2>1, WalParts
<1>4. wal'[i] = wal[i] /\ ChangeEvent(i)' = ChangeEvent(i)
  BY <1>3, StepKeepsWal
<1>5. \E b \in Commits : wal[b].tx = wal[i].tx
  BY <1>1, <1>2, <1>3, <1>4 DEF RowsAreLocked
<1>6. c \in Commits
  <2>1. SUFFICES ASSUME c \notin Commits PROVE FALSE
    OBVIOUS
  <2>2. Source
    <3>1. UNCHANGED source => Commits' = Commits
      BY DEF source, Commits
    <3> QED
      BY <2>1, <3>1, OthersReadTheWal DEF Next
  <2>3. PICK r : wal' = Append(wal, r) /\ (Fits(r) \/ (r \in CommitRecords /\ ~IsCommitted(r.tx)))
    BY <2>2, SourceAdds
  <2>4. c = Len(wal) + 1 /\ wal'[Len(wal) + 1] = r
    BY <2>1, <2>3, StepKeepsWal, WalGrows
  <2>5. ~IsCommitted(r.tx) /\ r.tx = wal[i].tx
    BY <1>2, <1>4, <2>3, <2>4 DEF Fits
  <2> QED
    BY <1>5, <2>5 DEF IsCommitted
<1>7. i \in SentOf(c)
  BY <1>6, StepKeepsWal DEF Commits
<1> QED
  BY <1>4, <1>6, <1>7

\* What is enqueued comes after the earlier changes of its keys.
LEMMA EnqueuedInOrder ==
  ASSUME Types, WalIsOrdered, RowsAreLocked, SessionIsOrdered, StagedInChunks, StagedIsReached, StagedIsSafe,
         NEW p \in Peers, handling # 0, NEW c \in Commits, NEW i \in SentOf(c), Allowed(ApplyMode, wal[i].op),
         i \notin shadowed[p], NEW e \in Range(Chunk(p)), i < e.at, wal[i].id = IdOf(e)
  PROVE  IsOver(p, c, i) \/ IsStaged(p, i) \/ ChangeEvent(i) \in Range(Chunk(p))
<1> DEFINE h == handling
           s == staged[p]
           E == EventsOf(h)
           L == Len(E)
           x == End(h, s)
<1>1. /\ h \in Commits /\ h \in DOMAIN wal /\ Chunk(p) = Part(h, s) /\ s \in 0..L /\ L \in Nat
      /\ on /\ h \in Decoded /\ \A d \in Decoded : h <= d
  BY Staging DEF SessionIsOrdered, Commits
<1>2. Range(Chunk(p)) = {E[k] : k \in (s + 1)..x} /\ x \in s..L
  <2> HIDE DEF h, s
  <2>1. Range(Part(h, s)) = {E[k] : k \in (s + 1)..x} /\ x \in s..L
    BY <1>1, PartIs
  <2> HIDE DEF E, x, L
  <2> QED
    BY <1>1, <2>1
<1>3. PICK k \in (s + 1)..x : e = E[k]
  BY <1>2
<1>4. k \in 1..L
  <2> HIDE DEF s, L, x
  <2> QED
    BY SMTT(300), <1>1, <1>2
<1>5. /\ E[k].at \in SentOf(h) /\ E[k] = ChangeEvent(E[k].at)
      /\ \A m, n \in 1..L : m < n => E[m].at < E[n].at
  BY <1>1, <1>4, EventsAre
<1>6. e.at \in SentOf(h) /\ e = ChangeEvent(e.at)
  BY <1>3, <1>5
<1>7. /\ i \in DOMAIN wal /\ wal[i].kind = "change" /\ wal[i].tx = wal[c].tx /\ i \in Nat
      /\ ChangeEvent(i) \in Range(EventsOf(c)) /\ ChangeEvent(i).at = i
  BY SentEvent
<1>8. /\ e.at \in DOMAIN wal /\ wal[e.at].kind = "change" /\ wal[e.at].tx = wal[h].tx /\ e.at \in Nat /\ e.at <= h
      /\ IdOf(e) = wal[e.at].id
  BY <1>1, <1>6, SentEvent
<1>9. wal[i].tx = wal[e.at].tx \/ \E d \in Commits : d < e.at /\ wal[d].tx = wal[i].tx
  BY <1>7, <1>8 DEF RowsAreLocked
<1>10. ASSUME Reached(p, ChangeEvent(i)) PROVE IsOver(p, c, i) \/ IsStaged(p, i)
  BY <1>10, ReachedIsStagedOrProcessed DEF IsOver
<1>11. CASE wal[i].tx = wal[e.at].tx
  <2>1. c = h
    BY <1>1, <1>7, <1>8, <1>11, CommitsAreFew
  <2>2. PICK y \in 1..L : E[y] = ChangeEvent(i)
    <3>1. DOMAIN E = 1..L
      BY <1>1, EventsAre
    <3> QED
      BY <1>7, <2>1, <3>1 DEF Range
  <2>3. E[y].at = i /\ E[k].at = e.at
    BY <1>3, <1>7, <2>2
  <2>4. y < k
    <3>1. ~(k < y) /\ k # y
      <4>1. ~(e.at < i) /\ e.at # i
        BY SMTT(300), <1>7, <1>8
      <4>2. k < y => e.at < i
        BY <1>4, <1>5, <2>2, <2>3
      <4> QED
        BY ZenonT(300), <2>3, <4>1, <4>2
    <3> HIDE DEF L
    <3> QED
      BY SMTT(300), <1>1, <1>4, <3>1
  <2>5. CASE y \in 1..s
    <3>1. Reached(p, E[y])
      BY <2>5 DEF StagedIsReached
    <3> QED
      BY <1>10, <2>2, <3>1
  <2>6. CASE y \notin 1..s
    <3>1. y \in (s + 1)..x
      <4> HIDE DEF s, L, x
      <4> QED
        BY SMTT(300), <1>1, <1>2, <2>2, <2>4, <2>6
    <3> QED
      BY <1>2, <2>2, <3>1
  <2> QED
    BY <2>5, <2>6
<1>12. ASSUME NEW d \in Commits, d < e.at, wal[d].tx = wal[i].tx
       PROVE  IsOver(p, c, i) \/ IsStaged(p, i)
  <2>1. d = c
    BY <1>7, <1>12, CommitsAreFew
  <2>2. c \in Nat /\ LSN(c) \in Nat /\ h \in Nat /\ start \in Nat /\ slot \in Nat /\ last \in Nat /\ start <= slot
    BY <1>1, CommitNumbers DEF Types, SessionIsOrdered
  <2>3. ~(h <= c)
    <3>1. c < e.at
      BY <1>12, <2>1
    <3> QED
      BY SMTT(300), <1>8, <2>2, <3>1
  <2>4. c \notin Decoded
    BY <1>1, <2>3
  <2>5. CASE LSN(c) >= start
    <3>1. ~(c > last)
      BY <2>4, <2>5 DEF Decoded
    <3>2. c <= last
      BY SMTT(300), <2>2, <3>1
    <3>3. Reached(p, ChangeEvent(i))
      BY <1>7, <2>5, <3>2 DEF StagedIsSafe, ReachedByAll
    <3> QED
      BY <1>10, <3>3
  <2>6. CASE ~(LSN(c) >= start)
    <3>1. LSN(c) < slot
      BY SMTT(300), <2>2, <2>6
    <3> QED
      BY <2>4, <3>1 DEF IsPast, IsOver
  <2> QED
    BY <2>5, <2>6
<1> QED
  BY <1>9, <1>11, <1>12
=============================================================================
