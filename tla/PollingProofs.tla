---------------------------- MODULE PollingProofs ----------------------------
(***************************************************************************)
(* Proofs about Polling, for any number of peers and keys, any order of    *)
(* the keys in the database, and any sizes of pages and batches.           *)
(*                                                                         *)
(* A row is passed over only if it becomes visible at or before the        *)
(* furthest position polling has read (reach) or a baseline finds it, and  *)
(* such a row is in missed or rebased.  So what lies behind a cursor is    *)
(* staged for a peer or one of those (SessionIsSafe), what lies behind the *)
(* end of a page is that or on the page (PageIsSafe), and of what lies     *)
(* behind an event that waits for a peer nothing can still arrive after it *)
(* (Delivered).                                                            *)
(***************************************************************************)
EXTENDS Polling, ApplyProofs

\* Leaves without a backend of their own are Zenon's.
USE ZenonT(300)

\* s comes after the cursor c if the database orders the keys by d.
After(d, c, s) == s.ver > c.ver \/ (c.key # 0 /\ s.ver = c.ver /\ d[s.key] > d[c.key])

EventFor(k, v) == [table |-> Table, key |-> k, ver |-> v, op |-> "upsert", fields |-> [c \in Cols |-> v]]
RowFor(v) == [owner |-> Local, vals |-> [c \in Cols |-> v]]
Drawn == [key : Keys, ver : 1..MaxClock]
PolledEvents == {EventFor(s.key, s.ver) : s \in Drawn}
Writers == [keys : SUBSET Keys, ver : 1..MaxClock, owner : {Local, "elsewhere"}]
PeerStates == [rows : [Ids -> RowType({Local})], cursors : [Tables -> Cursors]]

Types ==
  /\ dbRank \in DbRanks
  /\ rows \in [Keys -> [owner : {"absent", Local, "elsewhere"}, ver : 0..MaxClock]]
  /\ writing \subseteq Writers /\ clock \in 1..MaxClock
  /\ saved \in [source : {"", "cdc", "polling"}, ver : 0..MaxClock, key : Keys \cup {0}]
  /\ on \in BOOLEAN /\ stopped \in BOOLEAN /\ mem \in Cursors /\ reach \in Cursors
  /\ page \in Seq(PolledEvents) /\ staged \in [Peers -> Nat]
  /\ outbox \in [Peers -> Seq(Seq(PolledEvents))] /\ peer \in [Peers -> PeerStates]
  /\ drawn \subseteq Drawn /\ missed \subseteq Drawn
  /\ sent \in [Peers -> SUBSET Drawn] /\ rebased \in [Peers -> SUBSET Drawn]
  /\ faults \in 0..MaxFaults

\* A row is written by one transaction at a time, at a later version than it has.
WritersAreApart ==
  /\ \A k \in Keys : rows[k].owner = Local => Stamp(k) \in drawn
  /\ \A w \in writing : \A k \in w.keys : rows[k].ver < w.ver /\ [key |-> k, ver |-> w.ver] \in drawn
  /\ \A w, x \in writing : w # x => w.keys \cap x.keys = {}

\* What was read: a version the row had, not behind the furthest position.
Seen(s) ==
  /\ [key |-> s.key, ver |-> s.ver] \in drawn /\ s.ver <= rows[s.key].ver
  /\ ~After(dbRank, reach, s)

EventsAreSeen ==
  /\ \A e \in Range(page) : Seen(e)
  /\ \A p \in Peers : \A n \in DOMAIN outbox[p] : \A e \in Range(outbox[p][n]) : Seen(e)
  /\ \A p \in Peers : peer[p].cursors[Table] = ZeroCursor \/ Seen(peer[p].cursors[Table])
  /\ \A p \in Peers : \A s \in sent[p] : Seen(s)

\* Everything at or before c is at or before reach.
IsReached(c) == \A s \in Drawn : After(dbRank, reach, s) => After(dbRank, c, s)
\* Unless the mode keeps polling from sending anything, what is at or before c is staged
\* for the peer or passed over.
Sends == Allowed(BroadcastMode, "upsert")
Handled(p) == sent[p] \cup missed \cup rebased[p]
IsSafe(c) ==
  Sends => \A p \in Peers, k \in Keys :
    rows[k].owner = Local /\ ~After(dbRank, c, Stamp(k)) => Stamp(k) \in Handled(p)

SessionIsSafe ==
  /\ on => IsSafe(mem) /\ IsReached(mem)
  /\ saved.ver # 0 => Sends /\ IsSafe(saved) /\ IsReached(saved)

PageIsSafe ==
  /\ Len(page) <= PageSize /\ (page # <<>> => on)
  /\ page = <<>> => staged = [p \in Peers |-> 0]
  /\ \A p \in Peers : staged[p] <= Len(page)
  /\ \A i, j \in DOMAIN page : i < j => After(dbRank, page[i], page[j])
  /\ \A e, f \in Range(page) : e.key = f.key => e = f
  /\ page # <<>> /\ Sends => \A p \in Peers, k \in Keys :
       rows[k].owner = Local /\ ~After(dbRank, LastRow, Stamp(k)) =>
         Stamp(k) \in Handled(p) \/ ChangeOf(k) \in Range(page)

StagedIsSent ==
  \A p \in Peers : \A i \in DOMAIN page : i <= staged[p] => StampOf(page[i]) \in sent[p]

BatchesAreChunks ==
  \A p \in Peers : \A n \in DOMAIN outbox[p] :
    /\ Len(outbox[p][n]) \in 1..MaxEvents
    /\ \A e, f \in Range(outbox[p][n]) : e.key = f.key => e = f

Basics ==
  /\ Types /\ WritersAreApart /\ EventsAreSeen /\ SessionIsSafe /\ PageIsSafe /\ StagedIsSent /\ BatchesAreChunks

-----------------------------------------------------------------------------
\* A current row, visible in time and not passed over for the peer, whose order database
\* and peers agree on.
Timely(p, k) == rows[k].owner = Local /\ Stamp(k) \notin missed \cup rebased[p] /\ ~Collated(k)

IsDone(state, k, v) ==
  Stale(EventFor(k, v), state.cursors[Table]) /\ state.rows[<<Table, k>>] = RowFor(v)
IsComing(batches, e) == \E n \in DOMAIN batches : e \in Range(batches[n])

\* The row is at the peer or on its way.
IsSent(p, k) == IsDone(peer[p], k, rows[k].ver) \/ IsComing(outbox[p], ChangeOf(k))

\* Of the timely rows none comes later than an event it should come before: not one the
\* peer's cursor has passed, not one that waits in the outbox.
AppliedInTime ==
  \A p \in Peers : \A k \in Keys :
    Timely(p, k) /\ Stale(ChangeOf(k), peer[p].cursors[Table]) => IsDone(peer[p], k, rows[k].ver)
QueuedInTime ==
  \A p \in Peers : \A k \in Keys : \A n \in DOMAIN outbox[p] : \A e \in Range(outbox[p][n]) :
    Timely(p, k) /\ ~After(dbRank, e, Stamp(k)) =>
      \/ IsDone(peer[p], k, rows[k].ver)
      \/ \E m \in DOMAIN outbox[p] : m <= n /\ ChangeOf(k) \in Range(outbox[p][m])
SentArrives ==
  \A p \in Peers : \A k \in Keys : Timely(p, k) /\ Stamp(k) \in sent[p] => IsSent(p, k)

Delivered == AppliedInTime /\ QueuedInTime /\ SentArrives

-----------------------------------------------------------------------------
(* The state.                                                               *)

LEMMA EventParts ==
  ASSUME NEW e \in PolledEvents
  PROVE  /\ e = EventFor(e.key, e.ver) /\ e.key \in Keys /\ e.ver \in 1..MaxClock /\ e.ver \in Nat
         /\ e.table = Table /\ e.op = "upsert" /\ e.fields = [c \in Cols |-> e.ver] /\ e.fields \in Fields
         /\ IsPlaced(e) /\ Position(e) \in Cursors /\ Position(e) \in Positions
         /\ Position(e).key = e.key /\ Position(e).ver = e.ver /\ StampOf(e) \in Drawn
         /\ IdOf(e) = <<Table, e.key>>
<1>1. PICK k \in Keys, v \in 1..MaxClock : e = EventFor(k, v)
  <2>1. PICK s \in Drawn : e = EventFor(s.key, s.ver)
    BY DEF PolledEvents
  <2>2. s.key \in Keys /\ s.ver \in 1..MaxClock
    BY DEF Drawn
  <2> QED
    BY <2>1, <2>2
<1>2. /\ e.table = Table /\ e.key = k /\ e.ver = v /\ e.op = "upsert" /\ e.fields = [c \in Cols |-> v]
  BY <1>1 DEF EventFor
<1>3. v \in Nat /\ v \in 0..MaxClock /\ v \in 0..MaxValue /\ k \in Nat /\ Table \in Tables
  BY SMTT(300), PollingAssumption, ApplyAssumption
<1>4. [c \in Cols |-> v] \in Fields
  <2>1. [c \in Cols |-> v] \in [Cols -> 0..MaxValue]
    BY <1>3
  <2> QED
    BY <2>1 DEF Fields
<1>5. Position(e) = [ver |-> v, key |-> k]
  BY <1>2 DEF Position
<1>6. Position(e) \in Cursors /\ Position(e) \in Positions /\ Position(e).key = k /\ Position(e).ver = v
  BY SMTT(300), <1>3, <1>5 DEF Cursors, Positions
<1>7. StampOf(e) \in Drawn
  BY <1>2 DEF StampOf, Drawn
<1> QED
  BY <1>1, <1>2, <1>3, <1>4, <1>6, <1>7 DEF IsPlaced, IdOf

LEMMA EventForIs ==
  ASSUME NEW k \in Keys, NEW v \in 1..MaxClock
  PROVE  EventFor(k, v) \in PolledEvents /\ EventFor(k, v).key = k /\ EventFor(k, v).ver = v
<1> DEFINE s == [key |-> k, ver |-> v]
<1>1. s \in Drawn /\ s.key = k /\ s.ver = v
  BY DEF Drawn
<1> HIDE DEF s
<1>2. EventFor(k, v) \in PolledEvents
  BY <1>1 DEF PolledEvents
<1> QED
  BY <1>2 DEF EventFor

\* A local row has a version that some write drew.
LEMMA RowIs ==
  ASSUME Types, NEW k \in Keys
  PROVE  /\ rows[k].ver \in Nat /\ rows[k].ver \in 0..MaxClock /\ ChangeOf(k) = EventFor(k, rows[k].ver)
         /\ Stamp(k).key = k /\ Stamp(k).ver = rows[k].ver
         /\ ChangeOf(k).key = k /\ ChangeOf(k).ver = rows[k].ver
         /\ WritersAreApart /\ rows[k].owner = Local =>
              Stamp(k) \in drawn /\ Stamp(k) \in Drawn /\ ChangeOf(k) \in PolledEvents
<1>1. rows[k].ver \in 0..MaxClock
  BY DEF Types
<1>2. rows[k].ver \in Nat
  BY SMTT(300), <1>1, PollingAssumption
<1>3. ChangeOf(k) = EventFor(k, rows[k].ver)
  BY DEF ChangeOf, EventFor
<1>4. /\ Stamp(k).key = k /\ Stamp(k).ver = rows[k].ver
      /\ ChangeOf(k).key = k /\ ChangeOf(k).ver = rows[k].ver
  BY DEF Stamp, ChangeOf
<1>5. ASSUME WritersAreApart, rows[k].owner = Local
      PROVE  Stamp(k) \in drawn /\ Stamp(k) \in Drawn /\ ChangeOf(k) \in PolledEvents
  <2>1. Stamp(k) \in drawn /\ Stamp(k) \in Drawn
    BY <1>5 DEF WritersAreApart, Types
  <2>2. rows[k].ver \in 1..MaxClock
    BY <1>4, <2>1 DEF Drawn
  <2> QED
    BY <1>3, <2>1, <2>2, EventForIs
<1> QED
  BY <1>1, <1>2, <1>3, <1>4, <1>5

LEMMA RankIs ==
  ASSUME Types
  PROVE  dbRank \in [Keys -> Nat] /\ IsInjective(dbRank)
BY PollingAssumption DEF Types

\* The order of the database.
LEMMA AfterIs ==
  ASSUME NEW d \in [Keys -> Nat], NEW a, NEW b, NEW c, a.ver \in Nat, b.ver \in Nat, c.ver \in Nat,
         a.key \in Keys, b.key \in Keys, c.key \in Keys \cup {0}
  PROVE  /\ ~After(d, a, a)
         /\ ~After(d, c, a) /\ ~After(d, a, b) => ~After(d, c, b)
         /\ After(d, c, a) /\ After(d, a, b) => After(d, c, b)
         /\ After(d, a, b) => ~After(d, b, a)
         /\ After(d, c, a) /\ ~After(d, b, a) => After(d, c, b)
<1>1. a.key # 0 /\ b.key # 0
  BY ApplyAssumption
<1>2. d[a.key] \in Nat /\ d[b.key] \in Nat /\ (c.key # 0 => d[c.key] \in Nat)
  OBVIOUS
<1> QED
  BY SMTT(300), <1>1, <1>2 DEF After

\* Positions are total in the order of the database.
LEMMA AfterIsTotal ==
  ASSUME NEW d \in [Keys -> Nat], IsInjective(d),
         NEW a, NEW b, a.ver \in Nat, b.ver \in Nat, a.key \in Keys, b.key \in Keys,
         ~After(d, a, b), ~After(d, b, a)
  PROVE  a.ver = b.ver /\ a.key = b.key
<1>1. a.key # 0 /\ b.key # 0
  BY ApplyAssumption
<1>2. d[a.key] \in Nat /\ d[b.key] \in Nat
  OBVIOUS
<1>3. a.ver = b.ver /\ d[a.key] = d[b.key]
  BY SMTT(300), <1>1, <1>2 DEF After
<1> QED
  BY <1>3 DEF IsInjective

\* IsAfter is the WHERE clause.
LEMMA IsAfterIs ==
  ASSUME NEW c, NEW k
  PROVE  IsAfter(c, k) <=> rows[k].owner = Local /\ After(dbRank, c, Stamp(k))
<1>1. Stamp(k).key = k /\ Stamp(k).ver = rows[k].ver
  BY DEF Stamp
<1> QED
  BY <1>1 DEF IsAfter, After

-----------------------------------------------------------------------------
(* Pages, chunks and batches.                                               *)

\* A page holds rows from behind the cursor, in the order of the database, and every one
\* that comes no later than its last.
IsPage(pg, cursor) ==
  /\ pg \in Seq(PolledEvents) /\ Len(pg) \in 1..PageSize /\ DOMAIN pg = 1..Len(pg)
  /\ \A e \in Range(pg) : e.key \in Keys /\ IsAfter(cursor, e.key) /\ e = ChangeOf(e.key)
  /\ \A i, j \in DOMAIN pg : i < j => After(dbRank, pg[i], pg[j])
  /\ \A k \in Keys : IsAfter(cursor, k) => ChangeOf(k) \in Range(pg) \/ After(dbRank, pg[Len(pg)], Stamp(k))

LEMMA PageIs ==
  ASSUME Types, WritersAreApart, NEW cursor, \E k \in Keys : IsAfter(cursor, k)
  PROVE  IsPage(ListTableChanges(cursor), cursor)
<1> DEFINE S == {k \in Keys : IsAfter(cursor, k)}
           R == {ss \in S \X S : PageOrder(ss[1], ss[2])}
           N == Cardinality(S)
           o == ChangedKeys(cursor)
           M == Min({PageSize, Len(o)})
           pg == [n \in 1..M |-> ChangeOf(o[n])]
<1>1. IsFiniteSet(S) /\ N \in Nat /\ S # {}
  <2>1. IsFiniteSet(Keys) /\ S \subseteq Keys /\ S # {}
    BY PollingAssumption
  <2> HIDE DEF S
  <2> QED
    BY <2>1, FS_Subset, FS_CardinalityType
<1>2. \A k \in S : k \in Keys /\ IsAfter(cursor, k) /\ rows[k].owner = Local
  BY DEF IsAfter
<1>3. \A k \in S : /\ ChangeOf(k) \in PolledEvents /\ ChangeOf(k).key = k /\ ChangeOf(k).ver = rows[k].ver
                   /\ rows[k].ver \in Nat /\ Stamp(k).key = k /\ Stamp(k).ver = rows[k].ver
  BY <1>2, RowIs
<1>4. \A k \in Keys : IsAfter(cursor, k) => k \in S
  OBVIOUS
<1>5. o = CHOOSE s \in [1..N -> S] : \A m, n \in DOMAIN s : m < n => PageOrder(s[m], s[n])
  BY DEF ChangedKeys, InOrder
<1> HIDE DEF S
<1>6. \A j, k \in S : <<j, k>> \in R <=> PageOrder(j, k)
  OBVIOUS
<1>7. \A j, k \in S : PageOrder(j, k) <=> After(dbRank, ChangeOf(j), ChangeOf(k))
  <2>1. \A j, k \in S : PageOrder(j, k) <=> rows[k].ver > rows[j].ver \/ (rows[k].ver = rows[j].ver /\ dbRank[k] > dbRank[j])
    <3>1. \A j, k \in S : rows[j].ver \in Nat /\ dbRank[j] \in Nat
      BY <1>2, <1>3, RankIs
    <3> QED
      BY SMTT(300), <3>1 DEF PageOrder
  <2>2. \A j \in S : j # 0
    BY <1>2, ApplyAssumption
  <2>3. ASSUME NEW j \in S, NEW k \in S
        PROVE  PageOrder(j, k) <=> After(dbRank, ChangeOf(j), ChangeOf(k))
    <3>1. /\ ChangeOf(j).key = j /\ ChangeOf(j).ver = rows[j].ver
          /\ ChangeOf(k).key = k /\ ChangeOf(k).ver = rows[k].ver /\ j # 0
      BY <1>3, <2>2
    <3> QED
      BY SMTT(300), <2>1, <3>1 DEF After
  <2> QED
    BY <2>3
<1> HIDE DEF R
<1>8. IsOrder(S, R)
  <2>1. ASSUME NEW i \in S, NEW j \in S, NEW k \in S
        PROVE  /\ ~PageOrder(i, i) /\ (i # j => PageOrder(i, j) \/ PageOrder(j, i))
               /\ (PageOrder(i, j) /\ PageOrder(j, k) => PageOrder(i, k))
    <3> DEFINE a == ChangeOf(i)
               b == ChangeOf(j)
               c == ChangeOf(k)
    <3>1. /\ a.ver \in Nat /\ b.ver \in Nat /\ c.ver \in Nat
          /\ a.key \in Keys /\ b.key \in Keys /\ c.key \in Keys /\ c.key \in Keys \cup {0}
          /\ a.key \in Keys \cup {0} /\ a.key = i /\ b.key = j
      BY <1>2, <1>3
    <3>2. /\ PageOrder(i, i) <=> After(dbRank, a, a)
          /\ PageOrder(i, j) <=> After(dbRank, a, b)
          /\ PageOrder(j, i) <=> After(dbRank, b, a)
          /\ PageOrder(j, k) <=> After(dbRank, b, c)
          /\ PageOrder(i, k) <=> After(dbRank, a, c)
      BY <1>7
    <3> HIDE DEF a, b, c
    <3>3. ~After(dbRank, a, a) /\ (After(dbRank, a, b) /\ After(dbRank, b, c) => After(dbRank, a, c))
      BY <3>1, RankIs, AfterIs
    <3>4. ASSUME ~After(dbRank, a, b), ~After(dbRank, b, a)
          PROVE  a.key = b.key
      BY <3>1, <3>4, RankIs, AfterIsTotal
    <3> QED
      BY <3>1, <3>2, <3>3, <3>4
  <2> QED
    BY <1>6, <2>1 DEF IsOrder
<1>9. o \in [1..N -> S] /\ \A m, n \in DOMAIN o : m < n => PageOrder(o[m], o[n])
  <2>1. PICK q \in [1..N -> S] : \A m, n \in DOMAIN q : m < n => <<q[m], q[n]>> \in R
    BY <1>1, <1>8, Ranks
  <2>2. \A m, n \in DOMAIN q : m < n => PageOrder(q[m], q[n])
    BY <1>6, <2>1
  <2> HIDE DEF o
  <2> QED
    BY <1>5, <2>2
<1> HIDE DEF o, N
<1>10. DOMAIN o = 1..N /\ Len(o) = N /\ \A n \in 1..N : o[n] \in S
  <2>1. o \in [1..N -> S]
    BY <1>9
  <2>2. Len(o) = N
    BY SMTT(300), <1>1, <2>1
  <2> QED
    BY <2>1, <2>2
<1>11. \A m, n \in 1..N : m < n => o[m] # o[n]
  BY <1>6, <1>8, <1>9, <1>10 DEF IsOrder
<1>12. \A k \in S : \E n \in 1..N : o[n] = k
  BY <1>1, <1>9, <1>11, AllAreIn DEF N
<1>13. N # 0
  <2>1. N = 0 => 1..N = {}
    BY SMTT(300)
  <2> QED
    BY <1>1, <1>12, <2>1
<1>14. M \in 1..PageSize /\ M <= N /\ (M = PageSize \/ M = N)
  <2> DEFINE T == {PageSize, N}
  <2>1. T \in SUBSET Nat /\ T # {} /\ PageSize \in T /\ N \in T /\ 0 \notin T /\ M = Min(T)
    BY SMTT(300), <1>1, <1>10, <1>13, PollingAssumption
  <2> HIDE DEF T, M
  <2>2. M \in T /\ M <= PageSize /\ M <= N
    BY <2>1, MinOf
  <2>3. M = PageSize \/ M = N
    BY <2>2 DEF T
  <2>4. M \in Nat /\ M # 0
    BY <2>1, <2>2
  <2> QED
    BY SMTT(300), <2>2, <2>3, <2>4, PollingAssumption
<1>15. ListTableChanges(cursor) = pg
  BY DEF ListTableChanges, o
<1> HIDE DEF M
<1>16. M \in Nat /\ \A n \in 1..M : n \in 1..N /\ n \in Nat
  BY SMTT(300), <1>1, <1>14, PollingAssumption
<1>17. \A n \in 1..M : pg[n] = ChangeOf(o[n]) /\ o[n] \in S /\ pg[n] \in PolledEvents /\ pg[n].key = o[n]
  BY <1>3, <1>10, <1>16
<1>18. pg \in Seq(PolledEvents) /\ Len(pg) = M /\ DOMAIN pg = 1..M
  <2>1. pg \in [1..M -> PolledEvents]
    BY <1>17
  <2> HIDE DEF pg, PolledEvents
  <2> QED
    BY SMTT(300), <1>16, <2>1
<1> HIDE DEF pg
<1>19. \A e \in Range(pg) : e.key \in Keys /\ IsAfter(cursor, e.key) /\ e = ChangeOf(e.key)
  BY <1>2, <1>17, <1>18 DEF Range
<1>20. \A i, j \in 1..M : i < j => After(dbRank, pg[i], pg[j])
  BY <1>7, <1>9, <1>10, <1>16, <1>17
<1>21. ASSUME NEW k \in Keys, IsAfter(cursor, k), ChangeOf(k) \notin Range(pg)
       PROVE  After(dbRank, pg[M], Stamp(k))
  <2>1. k \in S
    BY <1>4, <1>21
  <2>2. PICK n \in 1..N : o[n] = k
    BY <1>12, <2>1
  <2>3. n \notin 1..M
    BY <1>17, <1>18, <1>21, <2>2 DEF Range
  <2>4. M < n /\ M \in 1..M
    BY SMTT(300), <1>1, <1>14, <1>16, <2>3, PollingAssumption
  <2>5. PageOrder(o[M], k) /\ o[M] \in S /\ pg[M] = ChangeOf(o[M])
    BY <1>9, <1>10, <1>16, <1>17, <2>2, <2>4
  <2>6. After(dbRank, pg[M], ChangeOf(k))
    BY <1>7, <2>1, <2>5
  <2> QED
    BY <1>3, <2>1, <2>6 DEF After
<1>22. IsPage(pg, cursor)
  BY <1>14, <1>18, <1>19, <1>20, <1>21 DEF IsPage
<1> QED
  BY <1>15, <1>22

LEMMA EventsAre ==
  ASSUME Types
  PROVE  /\ Allowed(BroadcastMode, "upsert") => Events = page
         /\ Events # <<>> => Events = page /\ Allowed(BroadcastMode, "upsert")
         /\ page \in Seq(PolledEvents) /\ Len(page) \in Nat /\ DOMAIN page = 1..Len(page)
         /\ page = <<>> <=> Len(page) = 0
         /\ \A e \in Range(page) : e \in PolledEvents
<1>1. page \in Seq(PolledEvents)
  BY DEF Types
<1>2. Len(page) \in Nat /\ DOMAIN page = 1..Len(page) /\ (page = <<>> <=> Len(page) = 0)
  BY SMTT(300), <1>1
<1> QED
  BY <1>1, <1>2, MembersAre DEF Events

\* The chunk that is next for a peer goes on where the last one ended, as far as the size of
\* a batch allows; there is none only when the page is at its end.
IsChunk(p, end) ==
  /\ end \in (staged[p] + 1)..Len(page) /\ end \in Nat /\ end - staged[p] \in 1..MaxEvents
  /\ staged[p] \in Nat /\ staged[p] < end /\ end <= Len(page)
  /\ IsSlice(Chunk(p), PolledEvents, page, staged[p], end)

LEMMA ChunkIs ==
  ASSUME Types, PageIsSafe, NEW p \in Peers
  PROVE  /\ Events # <<>> /\ Chunk(p) = <<>> => staged[p] = Len(page)
         /\ Chunk(p) # <<>> => Allowed(BroadcastMode, "upsert") /\ page # <<>> /\ \E end : IsChunk(p, end)
<1> DEFINE s == staged[p]
           E == Events
           end == Min({s + MaxEvents, Len(E)})
<1>1. s \in Nat /\ s <= Len(page) /\ MaxEvents \in Nat \ {0}
  BY PollingAssumption DEF Types, PageIsSafe
<1>2. Chunk(p) = SubSeq(E, s + 1, end)
  BY DEF Chunk
<1>3. Events = <<>> => Chunk(p) = <<>>
  <2> SUFFICES ASSUME Events = <<>> PROVE Chunk(p) = <<>>
    OBVIOUS
  <2> DEFINE S == {s + MaxEvents, Len(E)}
  <2>1. S \in SUBSET Nat /\ S # {} /\ 0 \in S
    BY SMTT(300), <1>1
  <2> HIDE DEF S
  <2>2. Min(S) \in Nat /\ Min(S) <= 0
    BY <2>1, MinOf
  <2>3. end = 0
    BY SMTT(300), <2>2 DEF S
  <2> HIDE DEF end
  <2>4. SubSeq(<<>>, s + 1, 0) = <<>>
    BY SMTT(300), <1>1
  <2> QED
    BY <1>2, <2>3, <2>4
<1>4. CASE Events # <<>>
  <2>1. E = page /\ Allowed(BroadcastMode, "upsert") /\ page # <<>> /\ Len(page) \in Nat /\ page \in Seq(PolledEvents)
    BY <1>4, EventsAre
  <2>2. s \in 0..Len(page)
    BY SMTT(300), <1>1, <2>1
  <2>3. end \in s..Len(page) /\ (end = s + MaxEvents \/ end = Len(page)) /\ end <= s + MaxEvents
    <3> HIDE DEF s
    <3>1. LET e == Min({s + MaxEvents, Len(page)}) IN
            e \in s..Len(page) /\ (e = s + MaxEvents \/ e = Len(page)) /\ e <= s + MaxEvents
      BY <1>1, <2>1, <2>2, EndIs
    <3> QED
      BY <2>1, <3>1
  <2> HIDE DEF end
  <2>4. IsSlice(Chunk(p), PolledEvents, page, s, end)
    <3> HIDE DEF s, E
    <3>1. IsSlice(SubSeq(page, s + 1, end), PolledEvents, page, s, end)
      BY <2>1, <2>2, <2>3, SliceIs
    <3> QED
      BY <1>2, <2>1, <3>1
  <2>5. Chunk(p) = <<>> <=> s = end
    BY <2>4 DEF IsSlice
  <2>6. s = end => s = Len(page)
    BY SMTT(300), <1>1, <2>1, <2>3
  <2>7. s # end => end \in (s + 1)..Len(page) /\ end - s \in 1..MaxEvents /\ end \in Nat /\ s < end /\ end <= Len(page)
    BY SMTT(300), <1>1, <2>1, <2>3
  <2> QED
    BY <1>1, <2>1, <2>4, <2>5, <2>6, <2>7 DEF IsChunk
<1> QED
  BY <1>3, <1>4

\* The state of a peer after a batch of one event per key.
IsApplied(old, new, batch) ==
  /\ new \in PeerStates
  /\ new.cursors[Table] \in {old.cursors[Table]} \cup {Position(e) : e \in Range(batch)}
  /\ ~Before(new.cursors[Table], old.cursors[Table])
  /\ \A k \in Keys : \/ new.rows[<<Table, k>>] = old.rows[<<Table, k>>]
                     \/ \E e \in Range(batch) : e.key = k /\ ~Stale(e, old.cursors[Table])
  /\ Allowed(ApplyMode, "upsert") =>
       \A e \in Range(batch) :
         /\ Stale(e, new.cursors[Table])
         /\ ~Stale(e, old.cursors[Table]) => new.rows[<<Table, e.key>>] = RowFor(e.ver)

LEMMA BatchIsApplied ==
  ASSUME NEW old \in PeerStates, NEW batch \in Seq(PolledEvents),
         \A e, f \in Range(batch) : e.key = f.key => e = f
  PROVE  IsApplied(old, Commit(old, batch, Local, ApplyMode, TRUE), batch)
<1> DEFINE pr == Prepared(batch, ApplyMode, TRUE)
           cs == old.cursors
           r == FilterStale(cs, pr)
           new == Commit(old, batch, Local, ApplyMode, TRUE)
           E == PolledEvents
<1>1. \A e \in E : /\ Position(e) \in Positions /\ IsPlaced(e) /\ Position(e) \in Cursors
                   /\ e.fields \in Fields /\ e.table = Table /\ e.op = "upsert" /\ e.key \in Keys
                   /\ e.fields = [c \in Cols |-> e.ver] /\ IdOf(e) = <<Table, e.key>>
  BY EventParts
<1>2. Table \in Tables /\ Tables = {Table} /\ MaxValue \in Nat /\ Cursors \subseteq Positions
  <2>1. 0..MaxClock \subseteq Nat /\ Keys \cup {0} \subseteq Nat
    BY SMTT(300), ApplyAssumption
  <2>2. Cursors \subseteq Positions
    BY SMTT(300), <2>1 DEF Cursors, Positions
  <2> QED
    BY <2>2, PollingAssumption
<1>3. /\ cs \in [Tables -> Cursors] /\ cs \in [Tables -> Positions]
      /\ old.rows \in [Ids -> RowType({Local})]
  BY <1>2 DEF PeerStates
<1> HIDE DEF E
<1>4. /\ pr \in Seq(E) /\ Range(pr) = {e \in Range(batch) : Allowed(ApplyMode, e.op)}
      /\ \A m, n \in DOMAIN pr : m < n => ~Before(Position(pr[n]), Position(pr[m]))
  <2>1. batch \in Seq(E)
    BY DEF E
  <2>2. \A e \in E : Position(e) \in Positions
    BY <1>1
  <2>3. TRUE \in BOOLEAN
    OBVIOUS
  <2>4. LET q == Prepared(batch, ApplyMode, TRUE) IN
        /\ q \in Seq(E)
        /\ Range(q) = {e \in Range(batch) : Allowed(ApplyMode, e.op)}
        /\ TRUE => \A m, n \in DOMAIN q : m < n => ~Before(Position(q[n]), Position(q[m]))
        /\ ~TRUE => KeepsOrder(q, batch)
    BY <2>1, <2>2, <2>3, PreparedIs
  <2> QED
    BY <2>4
<1>5. new = [rows |-> ApplyEvents(old.rows, r.kept, Local, ApplyMode), cursors |-> r.cursors]
  BY DEF Commit
<1>6. \A e \in Range(batch) : e \in E
  BY MembersAre DEF E
<1> HIDE DEF pr, cs, new
<1>7. /\ r.kept \in Seq(E) /\ r.cursors \in [Tables -> Positions]
      /\ Range(r.kept) \subseteq Range(pr)
      /\ \A e \in Range(r.kept) : Before(cs[e.table], Position(e))
      /\ \A e \in Range(pr) : Stale(e, r.cursors[e.table])
      /\ \A t \in Tables : /\ ~Before(r.cursors[t], cs[t])
                           /\ r.cursors[t] \in {cs[t]} \cup {Position(e) : e \in Range(pr)}
  <2>1. \A e \in E : IsPlaced(e)
    BY <1>1
  <2> HIDE DEF Positions, IsPlaced
  <2> QED
    BY SMTT(300), <1>3, <1>4, <2>1, FilterAre
<1>8. \A e \in Range(pr) : Before(cs[e.table], Position(e)) => e \in Range(r.kept)
  <2>1. \A e \in E : IsPlaced(e)
    BY <1>1
  <2>2. \A e \in Range(pr) : e \in Range(batch)
    BY <1>4
  <2>3. \A e, g \in Range(pr) : IdOf(e) = IdOf(g) => e = g
    <3>1. ASSUME NEW e \in Range(pr), NEW g \in Range(pr), IdOf(e) = IdOf(g)
          PROVE  e.key = g.key
      <4>1. <<Table, e.key>> = <<Table, g.key>>
        BY <1>1, <1>6, <2>2, <3>1
      <4> QED
        BY <4>1
    <3> QED
      BY <2>2, <3>1
  <2> HIDE DEF r
  <2> QED
    BY ZenonT(300), <1>3, <1>4, <2>1, <2>3, FilterSorted DEF r
<1>9. r.cursors[Table] \in {cs[Table]} \cup {Position(e) : e \in Range(batch)}
  BY <1>2, <1>4, <1>7
<1>10. r.cursors \in [Tables -> Cursors]
  <2>1. \A t \in Tables : r.cursors[t] \in Cursors
    <3>1. cs[Table] \in Cursors
      BY <1>2, <1>3
    <3>2. \A e \in Range(batch) : Position(e) \in Cursors
      BY <1>1, <1>6
    <3> HIDE DEF Cursors, r
    <3> QED
      BY <1>2, <1>9, <3>1, <3>2
  <2> HIDE DEF Cursors, Positions, r
  <2> QED
    BY SMTT(300), <1>7, <2>1
<1> DEFINE kept == r.kept
           to == ApplyEvents(old.rows, kept, Local, ApplyMode)
<1>11. \A e \in Range(kept) : e \in Range(batch) /\ e \in E /\ e.table = Table /\ Before(cs[Table], Position(e))
  BY <1>1, <1>4, <1>6, <1>7
<1> HIDE DEF r
<1>12. to \in [Ids -> RowType({Local})]
  <2>1. Local \in {Local}
    OBVIOUS
  <2>2. \A e \in E : e.fields \in Fields
    BY <1>1
  <2>3. \A e \in Range(kept) : e \in E
    BY <1>11
  <2>4. kept \in Seq(E)
    BY <1>7
  <2> HIDE DEF kept
  <2> DEFINE from == old.rows
  <2>5. from \in [Ids -> RowType({Local})]
    BY <1>3
  <2> HIDE DEF from
  <2>6. ApplyEvents(from, kept, Local, ApplyMode) \in [Ids -> RowType({Local})]
    BY <1>2, <2>1, <2>2, <2>3, <2>4, <2>5, AppliedType
  <2> QED
    BY <2>6 DEF from
<1> HIDE DEF to, kept
<1>13. new.rows = to /\ new.cursors = r.cursors /\ new \in PeerStates
  <2> DEFINE made == [rows |-> to, cursors |-> r.cursors]
  <2>1. made.rows = to /\ made.cursors = r.cursors /\ made \in PeerStates
    BY <1>10, <1>12 DEF PeerStates
  <2>2. new = made
    BY <1>5 DEF to, kept
  <2> QED
    BY <2>1, <2>2
<1>14. ASSUME NEW k \in Keys
       PROVE  /\ \/ to[<<Table, k>>] = old.rows[<<Table, k>>]
                 \/ \E e \in Range(kept) : e.key = k
              /\ \A e \in Range(kept) : e.key = k /\ ApplyMode # "insert_only" => to[<<Table, k>>] = RowFor(e.ver)
  <2> DEFINE id == <<Table, k>>
             row == old.rows[id]
             i == LastFor(id, kept)
  <2>1. id \in Ids /\ kept \in Seq(E)
    BY <1>2, <1>7 DEF Ids, kept
  <2>2. to[id] = IF i = 0 THEN row ELSE Effect(row, kept[i], Local, ApplyMode)
    BY <1>3, <2>1 DEF to, ApplyEvents
  <2>3. row \in RowType({Local})
    BY <1>3, <2>1
  <2> HIDE DEF id
  <2>4. /\ i # 0 => kept[i] \in Range(kept) /\ IdOf(kept[i]) = id
        /\ \A e \in Range(kept) : IdOf(e) = id => i # 0
    BY <2>1, LastForIs
  <2>5. \A e \in Range(kept) : IdOf(e) = id <=> e.key = k
    <3>1. \A e \in Range(kept) : IdOf(e) = <<Table, e.key>>
      BY <1>1, <1>11
    <3>2. \A j : <<Table, j>> = <<Table, k>> <=> j = k
      OBVIOUS
    <3> QED
      BY <3>1, <3>2 DEF id
  <2> HIDE DEF i, row
  <2>6. CASE i = 0
    BY <2>2, <2>4, <2>5, <2>6 DEF id, row
  <2>7. CASE i # 0
    <3> DEFINE e == kept[i]
    <3>1. e \in Range(kept) /\ e.key = k /\ e.op = "upsert" /\ e.fields = [c \in Cols |-> e.ver]
      BY <1>1, <1>11, <2>4, <2>5, <2>7
    <3> HIDE DEF e
    <3>2. \A f \in Range(kept) : f.key = k => f = e
      BY <1>11, <3>1
    <3>3. to[id] = Effect(row, e, Local, ApplyMode)
      BY <2>2, <2>7 DEF e
    <3>4. ASSUME ApplyMode # "insert_only" PROVE Effect(row, e, Local, ApplyMode) = RowFor(e.ver)
      <4>1. Effect(row, e, Local, ApplyMode) = Upserted(row, e, Local, ApplyMode)
        BY SMTT(300), <3>1 DEF Effect
      <4>2. row = NoRow \/ Owned(row, Local)
        <5>1. row # NoRow => row.owner \in {Local} \cup {"null"}
          BY <1>2, <2>3, RowParts
        <5> QED
          BY <5>1 DEF Owned
      <4>3. Upserted(row, e, Local, ApplyMode) = Written(row, e, Local)
        BY <3>4, <4>2 DEF Upserted
      <4>4. Overwritten(row.vals, e.fields) = [c \in Cols |-> e.ver]
        BY <3>1 DEF Overwritten
      <4> QED
        BY <4>1, <4>3, <4>4 DEF Written, RowFor
    <3> QED
      BY <3>1, <3>2, <3>3, <3>4 DEF id
  <2> QED
    BY <2>6, <2>7
<1>15. Allowed(ApplyMode, "upsert") => ApplyMode # "insert_only" /\ Range(pr) = Range(batch)
  <2>1. Allowed(ApplyMode, "upsert") => ApplyMode # "insert_only"
    BY SMTT(300) DEF Allowed
  <2> QED
    BY <1>1, <1>4, <1>6, <2>1
<1>16. \A e : ~Stale(e, cs[Table]) <=> Before(cs[Table], Position(e))
  BY DEF Stale
<1>17. \A k \in Keys : \/ new.rows[<<Table, k>>] = old.rows[<<Table, k>>]
                       \/ \E e \in Range(batch) : e.key = k /\ ~Stale(e, cs[Table])
  BY <1>11, <1>13, <1>14, <1>16
<1>18. ASSUME Allowed(ApplyMode, "upsert"), NEW e \in Range(batch)
       PROVE  /\ Stale(e, new.cursors[Table])
              /\ ~Stale(e, cs[Table]) => new.rows[<<Table, e.key>>] = RowFor(e.ver)
  <2>1. e \in Range(pr) /\ e.table = Table /\ e.key \in Keys
    BY <1>1, <1>6, <1>15, <1>18
  <2>2. Stale(e, new.cursors[Table])
    BY <1>7, <1>13, <2>1
  <2>3. ~Stale(e, cs[Table]) => e \in Range(kept)
    BY <1>8, <1>16, <2>1 DEF kept
  <2> QED
    BY <1>13, <1>14, <1>15, <1>18, <2>1, <2>2, <2>3
<1>19. IsApplied(old, new, batch)
  BY <1>2, <1>7, <1>9, <1>13, <1>17, <1>18 DEF IsApplied, cs
<1> QED
  BY <1>19 DEF new

-----------------------------------------------------------------------------
(* What every step does to the rows, the history and the furthest position. *)

\* A row that becomes visible at or before the furthest position is missed.
Advances ==
  /\ dbRank' = dbRank /\ missed \subseteq missed' /\ drawn \subseteq drawn'
  /\ \A p \in Peers : sent[p] \subseteq sent'[p] /\ rebased[p] \subseteq rebased'[p]
  /\ \A s \in Drawn : After(dbRank, reach', s) => After(dbRank, reach, s)
  /\ \A k \in Keys : rows[k].ver <= rows'[k].ver
  /\ \A k \in Keys : rows'[k].owner = Local =>
       \/ rows'[k] = rows[k]
       \/ /\ rows[k].ver < rows'[k].ver
          /\ After(dbRank, reach, Stamp(k)') \/ Stamp(k)' \in missed'

LEMMA OrderIs ==
  ASSUME Types
  PROVE  \A k \in Keys : rows[k].ver <= rows[k].ver
<1>1. \A k \in Keys : rows[k].ver \in Nat
  BY RowIs
<1> QED
  BY SMTT(300), <1>1

LEMMA Rests ==
  ASSUME Types, UNCHANGED <<dbRank, rows>>, missed \subseteq missed', drawn \subseteq drawn',
         \A p \in Peers : sent[p] \subseteq sent'[p] /\ rebased[p] \subseteq rebased'[p],
         \A s \in Drawn : After(dbRank, reach', s) => After(dbRank, reach, s)
  PROVE  Advances
BY OrderIs DEF Advances

LEMMA BeginWriteStep ==
  ASSUME Types, NEW keys \in SUBSET Keys, NEW owner \in {Local, "elsewhere"}, BeginWrite(keys, owner)
  PROVE  Types' /\ Advances
<1>1. PICK ver \in {clock, clock + 1} :
        /\ ver <= MaxClock /\ clock' = ver
        /\ writing' = writing \cup {[keys |-> keys, ver |-> ver, owner |-> owner]}
  BY DEF BeginWrite
<1>2. ver \in 1..MaxClock
  <2>1. clock \in 1..MaxClock
    BY DEF Types
  <2> QED
    BY SMTT(300), <1>1, <2>1
<1>3. [keys |-> keys, ver |-> ver, owner |-> owner] \in Writers
  BY <1>2 DEF Writers
<1>4. drawn' = drawn \cup {[key |-> k, ver |-> ver] : k \in keys}
  BY <1>1 DEF BeginWrite
<1>5. \A k \in keys : [key |-> k, ver |-> ver] \in Drawn
  BY <1>2 DEF Drawn
<1>6. UNCHANGED <<dbRank, rows, saved, on, stopped, mem, page, staged, outbox, peer, reach, sent, missed, rebased, faults>>
  BY DEF BeginWrite, session, history
<1>7. Types'
  BY <1>1, <1>2, <1>3, <1>4, <1>5, <1>6 DEF Types
<1> QED
  BY <1>4, <1>6, <1>7, Rests

LEMMA CommitWriteStep ==
  ASSUME Types, WritersAreApart, NEW w \in writing, CommitWrite(w)
  PROVE  Types' /\ Advances
<1>1. w \in Writers /\ w.keys \in SUBSET Keys /\ w.ver \in 1..MaxClock /\ w.owner \in {Local, "elsewhere"}
  BY DEF Types, Writers
<1>2. \A k \in Keys : rows'[k] = IF k \in w.keys THEN [owner |-> w.owner, ver |-> w.ver] ELSE rows[k]
  BY DEF CommitWrite
<1>3. UNCHANGED <<dbRank, clock, drawn, saved, on, stopped, mem, page, staged, outbox, peer, reach, sent, rebased, faults>>
  BY DEF CommitWrite, session
<1>4. rows' \in [Keys -> [owner : {"absent", Local, "elsewhere"}, ver : 0..MaxClock]]
  <2>1. w.ver \in 0..MaxClock
    BY SMTT(300), <1>1
  <2>2. [owner |-> w.owner, ver |-> w.ver] \in [owner : {"absent", Local, "elsewhere"}, ver : 0..MaxClock]
    BY <1>1, <2>1
  <2>3. \A k \in Keys : rows[k] \in [owner : {"absent", Local, "elsewhere"}, ver : 0..MaxClock]
    BY DEF Types
  <2> QED
    BY <2>2, <2>3 DEF CommitWrite
<1>5. missed' = missed \cup Behind(w.keys, reach)'
  BY DEF CommitWrite
<1>6. \A k \in w.keys : /\ Stamp(k)' = [key |-> k, ver |-> w.ver] /\ Stamp(k)' \in Drawn
                        /\ Stamp(k)'.key = k /\ Stamp(k)'.ver = w.ver
  <2>1. ASSUME NEW k \in w.keys
        PROVE  /\ Stamp(k)' = [key |-> k, ver |-> w.ver] /\ [key |-> k, ver |-> w.ver] \in Drawn
               /\ Stamp(k)'.key = k /\ Stamp(k)'.ver = w.ver
    <3>1. k \in Keys /\ rows'[k] = [owner |-> w.owner, ver |-> w.ver]
      BY <1>1, <1>2
    <3>2. rows'[k].ver = w.ver
      BY SMTT(300), <3>1
    <3> QED
      BY <1>1, <3>1, <3>2 DEF Stamp, Drawn
  <2> QED
    BY <2>1
<1>7. Behind(w.keys, reach)' = {Stamp(k)' : k \in {j \in w.keys : rows'[j].owner = Local /\ ~IsAfter(reach, j)'}}
  BY DEF Behind
<1>8. missed' \subseteq Drawn
  <2>1. \A s \in Behind(w.keys, reach)' : s \in Drawn
    BY <1>6, <1>7
  <2> QED
    BY <1>5, <2>1 DEF Types
<1>9. Types'
  BY <1>3, <1>4, <1>8 DEF Types, CommitWrite
<1>10. \A k \in w.keys : /\ k \in Keys /\ rows[k].ver < w.ver /\ rows'[k].ver = w.ver /\ rows'[k].owner = w.owner
                         /\ rows[k].ver \in Nat /\ w.ver \in Nat
  <2>1. w.ver \in Nat
    BY SMTT(300), <1>1
  <2>2. ASSUME NEW k \in w.keys
        PROVE  k \in Keys /\ rows[k].ver < w.ver /\ rows'[k].ver = w.ver /\ rows'[k].owner = w.owner
    <3>1. k \in Keys /\ rows'[k] = [owner |-> w.owner, ver |-> w.ver]
      BY <1>1, <1>2
    <3>2. rows[k].ver < w.ver
      BY DEF WritersAreApart
    <3> QED
      BY SMTT(300), <3>1, <3>2
  <2> QED
    BY <2>1, <2>2, RowIs
<1>11. ASSUME NEW k \in w.keys, rows'[k].owner = Local
       PROVE  After(dbRank, reach, Stamp(k)') \/ Stamp(k)' \in missed'
  <2>1. IsAfter(reach, k)' <=> rows'[k].owner = Local /\ After(dbRank', reach', Stamp(k)')
    <3>1. Stamp(k)'.key = k /\ Stamp(k)'.ver = rows'[k].ver
      BY DEF Stamp
    <3> QED
      BY <3>1 DEF IsAfter, After
  <2>2. ~IsAfter(reach, k)' => Stamp(k)' \in Behind(w.keys, reach)'
    BY <1>3, <1>7, <1>11
  <2> QED
    BY <1>3, <1>5, <1>11, <2>1, <2>2
<1>12. \A k \in Keys : rows[k].ver <= rows'[k].ver
  <2>1. \A k \in w.keys : rows[k].ver <= rows'[k].ver
    BY SMTT(300), <1>10
  <2> QED
    BY <1>2, <2>1, OrderIs
<1>13. \A k \in Keys : k \notin w.keys => rows'[k] = rows[k]
  BY <1>2
<1>14. Advances
  BY <1>3, <1>5, <1>10, <1>11, <1>12, <1>13 DEF Advances
<1> QED
  BY <1>9, <1>14

LEMMA DeleteRowStep ==
  ASSUME Types, NEW k \in Keys, DeleteRow(k)
  PROVE  Types' /\ Advances
<1> DEFINE R == [owner : {"absent", Local, "elsewhere"}, ver : 0..MaxClock]
<1>1. rows' = [rows EXCEPT ![k].owner = "absent"] /\ rows \in [Keys -> R]
  BY DEF DeleteRow, Types
<1>2. rows'[k].ver = rows[k].ver /\ rows'[k].owner = "absent" /\ rows'[k] \in R
  BY <1>1
<1>3. \A j \in Keys : j # k => rows'[j] = rows[j]
  BY <1>1
<1>4. UNCHANGED <<dbRank, writing, clock, drawn, saved, on, stopped, mem, page, staged, outbox, peer, reach, sent, missed, rebased, faults>>
  BY DEF DeleteRow, session, history
<1>5. rows' \in [Keys -> R]
  <2>1. \A j \in Keys : rows'[j] \in R
    BY <1>1, <1>2, <1>3
  <2> HIDE DEF R
  <2> QED
    BY <1>1, <2>1
<1>6. Types'
  BY <1>4, <1>5 DEF Types
<1>7. \A j \in Keys : rows[j].ver <= rows'[j].ver
  BY <1>2, <1>3, OrderIs
<1>8. Local # "absent"
  BY PollingAssumption
<1>9. Advances
  BY <1>2, <1>3, <1>4, <1>7, <1>8 DEF Advances
<1> QED
  BY <1>6, <1>9

LEMMA SourceMismatchStep ==
  ASSUME Types, SourceMismatch
  PROVE  Types' /\ Advances
<1>1. /\ stopped' = TRUE
      /\ UNCHANGED <<dbRank, rows, writing, clock, drawn, saved, on, mem, page, staged, outbox, peer, reach, sent, missed, rebased, faults>>
  BY DEF SourceMismatch, source, history
<1>2. Types'
  BY <1>1 DEF Types
<1> QED
  BY <1>1, <1>2, Rests

\* The baseline is at or after the furthest position, or it is not taken.
LEMMA StartSessionStep ==
  ASSUME Types, WritersAreApart, StartSession
  PROVE  Types' /\ Advances
<1> DEFINE S == {0} \cup {rows[k].ver : k \in {j \in Keys : rows[j].owner = Local}}
<1>1. /\ saved' = [saved EXCEPT !.source = "polling"] /\ on' = TRUE
      /\ mem' = IF saved.ver = 0 THEN [ver |-> CurrentMaxVersion, key |-> 0]
                ELSE [ver |-> saved.ver, key |-> saved.key]
      /\ missed' = missed \cup IF saved.source = "" THEN Behind(Keys, mem') ELSE {}
      /\ rebased' = [p \in Peers |-> rebased[p] \cup
                       IF saved.source # "" /\ saved.ver = 0 THEN Behind(Keys, mem') \ sent[p] ELSE {}]
      /\ reach' = IF saved.ver = 0 /\ mem'.ver >= reach.ver THEN mem' ELSE reach
      /\ UNCHANGED <<dbRank, rows, writing, clock, drawn, stopped, page, staged, outbox, peer, sent, faults>>
  BY DEF StartSession, PassOver, source
<1>2. CurrentMaxVersion \in 0..MaxClock
  <2>1. MaxClock \in Nat /\ 0 \in 0..MaxClock
    BY SMTT(300), PollingAssumption
  <2>2. S \in SUBSET (0..MaxClock) /\ S # {}
    BY <2>1, RowIs
  <2>3. CurrentMaxVersion = Max(S)
    BY DEF CurrentMaxVersion
  <2> HIDE DEF S
  <2> QED
    BY <2>1, <2>2, <2>3, MaxOf
<1>3. saved.ver \in 0..MaxClock /\ saved.key \in Keys \cup {0}
  BY DEF Types
<1>4. mem' \in Cursors
  BY <1>1, <1>2, <1>3 DEF Cursors
<1>5. reach \in Cursors /\ reach' \in Cursors
  BY <1>1, <1>4 DEF Types
<1>6. saved' \in [source : {"", "cdc", "polling"}, ver : 0..MaxClock, key : Keys \cup {0}]
  BY <1>1 DEF Types
<1>7. missed' \subseteq Drawn /\ rebased' \in [Peers -> SUBSET Drawn]
  <2>1. \A s \in Behind(Keys, mem') : s \in Drawn
    BY RowIs DEF Behind
  <2>2. missed \subseteq Drawn /\ \A p \in Peers : rebased[p] \subseteq Drawn
    BY DEF Types
  <2> QED
    BY <1>1, <2>1, <2>2
<1>8. Types'
  BY <1>1, <1>4, <1>5, <1>6, <1>7 DEF Types
<1>9. ASSUME NEW s \in Drawn, After(dbRank, reach', s)
      PROVE  After(dbRank, reach, s)
  <2>1. CASE reach' = reach
    BY <1>9, <2>1
  <2>2. CASE reach' # reach
    <3>1. saved.ver = 0 /\ mem'.ver >= reach.ver /\ reach' = mem'
      BY <1>1, <2>2
    <3>2. mem'.key = 0
      BY <1>1, <3>1
    <3>3. s.ver \in Nat /\ reach.ver \in Nat /\ mem'.ver \in Nat
      <4>1. s.ver \in 1..MaxClock /\ reach.ver \in 0..MaxClock /\ mem'.ver \in 0..MaxClock
        BY <1>4, <1>5 DEF Drawn, Cursors
      <4> QED
        BY SMTT(300), <4>1
    <3>4. s.ver > mem'.ver
      BY <1>9, <3>1, <3>2 DEF After
    <3>5. s.ver > reach.ver
      BY SMTT(300), <3>1, <3>3, <3>4
    <3> QED
      BY <3>5 DEF After
  <2> QED
    BY <2>1, <2>2
<1> QED
  BY <1>1, <1>8, <1>9, Rests

\* The furthest position moves to the end of the page if that is further.
LEMMA PollStep ==
  ASSUME Types, WritersAreApart, Poll
  PROVE  Types' /\ Advances /\ IsPage(page', mem) /\ ~After(dbRank, reach', LastRow')
<1>1. /\ on /\ page = <<>> /\ page' = ListTableChanges(mem)
      /\ reach' = IF IsAfter(reach, LastRow'.key) THEN Position(LastRow') ELSE reach
      /\ UNCHANGED <<dbRank, rows, writing, clock, drawn, saved, on, stopped, mem, staged, outbox, peer, sent, missed, rebased, faults>>
  BY DEF Poll, source
<1>2. IsPage(page', mem)
  BY <1>1, PageIs DEF Poll
<1> DEFINE e == LastRow'
<1>3. e \in Range(page')
  <2>1. e = page'[Len(page')]
    BY DEF LastRow
  <2>2. Len(page') \in 1..PageSize /\ DOMAIN page' = 1..Len(page')
    BY <1>2 DEF IsPage
  <2>3. Len(page') \in DOMAIN page'
    <3> DEFINE n == Len(page')
    <3> HIDE DEF n
    <3>1. n \in 1..PageSize => n \in 1..n
      BY SMTT(300), PollingAssumption
    <3> QED
      BY <2>2, <3>1 DEF n
  <2> QED
    BY <2>1, <2>3 DEF Range
<1>4. page' \in Seq(PolledEvents) /\ e.key \in Keys /\ e = ChangeOf(e.key) /\ IsAfter(mem, e.key)
  BY <1>2, <1>3 DEF IsPage
<1>5. e \in PolledEvents
  BY <1>3, <1>4, MembersAre
<1> HIDE DEF e
<1>6. Position(e) \in Cursors /\ e.ver \in Nat /\ Position(e).key = e.key /\ Position(e).ver = e.ver
  BY <1>5, EventParts
<1>7. reach' = (IF IsAfter(reach, e.key) THEN Position(e) ELSE reach)
  BY <1>1 DEF e
<1>8. reach' \in Cursors
  BY <1>6, <1>7 DEF Types
<1>9. Types'
  BY <1>1, <1>4, <1>8 DEF Types
<1>10. IsAfter(reach, e.key) <=> After(dbRank, reach, e)
  <2>1. rows[e.key].owner = Local
    BY <1>4 DEF IsAfter
  <2>2. Stamp(e.key).key = e.key /\ Stamp(e.key).ver = e.ver
    BY <1>4, RowIs
  <2>3. IsAfter(reach, e.key) <=> After(dbRank, reach, Stamp(e.key))
    BY <2>1, IsAfterIs
  <2> QED
    BY <2>2, <2>3 DEF After
<1>11. reach.ver \in Nat /\ reach.key \in Keys \cup {0}
  <2>1. reach.ver \in 0..MaxClock /\ reach.key \in Keys \cup {0}
    BY DEF Types, Cursors
  <2> QED
    BY SMTT(300), <2>1
<1>12. ASSUME NEW s \in Drawn, After(dbRank, reach', s)
       PROVE  After(dbRank, reach, s)
  <2>1. CASE ~IsAfter(reach, e.key)
    BY <1>7, <1>12, <2>1
  <2>2. CASE IsAfter(reach, e.key)
    <3>1. After(dbRank, e, s)
      BY <1>6, <1>7, <1>12, <2>2 DEF After
    <3>2. After(dbRank, reach, e)
      BY <1>10, <2>2
    <3>3. s.key \in Keys /\ s.ver \in Nat
      <4>1. s.key \in Keys /\ s.ver \in 1..MaxClock
        BY DEF Drawn
      <4> QED
        BY SMTT(300), <4>1
    <3> QED
      BY <1>4, <1>6, <1>11, <3>1, <3>2, <3>3, RankIs, AfterIs
  <2> QED
    BY <2>1, <2>2
<1>13. ~After(dbRank, reach', e)
  <2>1. CASE ~IsAfter(reach, e.key)
    BY <1>7, <1>10, <2>1
  <2>2. CASE IsAfter(reach, e.key)
    <3>1. ~After(dbRank, e, e)
      BY <1>4, <1>6, RankIs, AfterIs
    <3> QED
      BY <1>6, <1>7, <2>2, <3>1 DEF After
  <2> QED
    BY <2>1, <2>2
<1> QED
  BY <1>1, <1>2, <1>9, <1>12, <1>13, Rests DEF e

LEMMA LastRowIs ==
  ASSUME Types, page # <<>>
  PROVE  LastRow \in Range(page) /\ LastRow \in PolledEvents /\ Len(page) \in DOMAIN page /\ Len(page) \in Nat
<1>1. page \in Seq(PolledEvents)
  BY DEF Types
<1>2. Len(page) \in DOMAIN page /\ Len(page) \in Nat
  BY SMTT(300), <1>1
<1>3. LastRow \in Range(page)
  BY <1>2 DEF LastRow, Range
<1> QED
  BY <1>1, <1>2, <1>3, MembersAre

LEMMA EmptyIs ==
  /\ <<>> \in Seq(PolledEvents) /\ [p \in Peers |-> 0] \in [Peers -> Nat]
  /\ Range(<<>>) = {} /\ Len(<<>>) = 0 /\ DOMAIN <<>> = {}
<1>1. <<>> \in Seq(PolledEvents) /\ 0 \in Nat /\ Len(<<>>) = 0
  BY SMTT(300)
<1>2. DOMAIN <<>> = {}
  BY SMTT(300)
<1>3. Range(<<>>) = {}
  BY <1>2 DEF Range
<1> QED
  BY <1>1, <1>2, <1>3

LEMMA FinishPageStep ==
  ASSUME Types, FinishPage
  PROVE  Types' /\ Advances
<1>1. /\ page # <<>> /\ mem' = Position(LastRow)
      /\ saved' = IF Events = <<>> THEN saved ELSE [saved EXCEPT !.ver = LastRow.ver, !.key = LastRow.key]
      /\ page' = <<>> /\ staged' = [p \in Peers |-> 0]
      /\ UNCHANGED <<dbRank, rows, writing, clock, drawn, on, stopped, outbox, peer, reach, sent, missed, rebased, faults>>
  BY DEF FinishPage, SaveCursor, source, history
<1>2. /\ LastRow \in PolledEvents /\ Position(LastRow) \in Cursors
      /\ LastRow.key \in Keys \cup {0} /\ LastRow.ver \in 1..MaxClock
  BY <1>1, LastRowIs, EventParts
<1>3. saved' \in [source : {"", "cdc", "polling"}, ver : 0..MaxClock, key : Keys \cup {0}]
  <2> DEFINE C == [source : {"", "cdc", "polling"}, ver : 0..MaxClock, key : Keys \cup {0}]
             v == LastRow.ver
             k == LastRow.key
  <2>1. v \in 1..MaxClock /\ k \in Keys \cup {0} /\ saved \in C
    BY <1>2 DEF Types
  <2> HIDE DEF v, k
  <2>2. v \in 0..MaxClock
    <3>1. 1..MaxClock \subseteq 0..MaxClock
      BY SMTT(300)
    <3> QED
      BY <2>1, <3>1
  <2>3. [saved EXCEPT !.ver = v, !.key = k] \in C
    BY <2>1, <2>2
  <2> QED
    BY <1>1, <2>1, <2>3 DEF v, k
<1>4. Types'
  BY <1>1, <1>2, <1>3, EmptyIs DEF Types
<1> QED
  BY <1>1, <1>4, Rests

LEMMA SessionFailsStep ==
  ASSUME Types, SessionFails
  PROVE  Types' /\ Advances
<1>1. /\ faults < MaxFaults /\ faults' = faults + 1 /\ on' = FALSE /\ mem' = ZeroCursor
      /\ page' = <<>> /\ staged' = [p \in Peers |-> 0]
      /\ UNCHANGED <<dbRank, rows, writing, clock, drawn, saved, stopped, outbox, peer, reach, sent, missed, rebased>>
  BY DEF SessionFails, Fail, source, history
<1>2. faults' \in 0..MaxFaults
  <2>1. faults \in 0..MaxFaults /\ MaxFaults \in Nat
    BY PollingAssumption DEF Types
  <2> QED
    BY SMTT(300), <1>1, <2>1
<1>3. ZeroCursor \in Cursors
  BY SMTT(300), PollingAssumption DEF ZeroCursor, Cursors
<1>4. Types'
  BY <1>1, <1>2, <1>3, EmptyIs DEF Types
<1> QED
  BY <1>1, <1>4, Rests

\* The batch is put at the end of the outbox unless one with its LastEventID is there.
LEMMA EnqueueChunkStep ==
  ASSUME Types, PageIsSafe, NEW p \in Peers, EnqueueChunk(p)
  PROVE  Types' /\ Advances
<1> DEFINE c == Chunk(p)
<1>1. /\ c # <<>>
      /\ outbox' = IF IsPending(p, c) THEN outbox ELSE [outbox EXCEPT ![p] = Append(@, c)]
      /\ staged' = [staged EXCEPT ![p] = @ + Len(c)]
      /\ sent' = [sent EXCEPT ![p] = @ \cup {StampOf(e) : e \in Range(c)}]
      /\ UNCHANGED <<dbRank, rows, writing, clock, drawn, saved, on, stopped, mem, page, peer, reach, missed, rebased, faults>>
  BY DEF EnqueueChunk, source
<1>2. c \in Seq(PolledEvents)
  BY <1>1, ChunkIs DEF IsChunk, IsSlice
<1> HIDE DEF c
<1>3. outbox \in [Peers -> Seq(Seq(PolledEvents))] /\ staged \in [Peers -> Nat]
  BY DEF Types
<1>4. staged' \in [Peers -> Nat]
  <2>1. staged[p] + Len(c) \in Nat
    BY SMTT(300), <1>2, <1>3
  <2> QED
    BY <1>1, <1>3, <2>1
<1>5. outbox' \in [Peers -> Seq(Seq(PolledEvents))]
  <2>1. Append(outbox[p], c) \in Seq(Seq(PolledEvents))
    <3> DEFINE Q == Seq(PolledEvents)
    <3>1. outbox[p] \in Seq(Q) /\ c \in Q
      BY <1>2, <1>3
    <3> HIDE DEF Q
    <3>2. Append(outbox[p], c) \in Seq(Q)
      BY SMTT(300), <3>1
    <3> QED
      BY <3>2 DEF Q
  <2> QED
    BY <1>1, <1>3, <2>1
<1>6. sent' \in [Peers -> SUBSET Drawn] /\ \A q \in Peers : sent[q] \subseteq sent'[q]
  <2>1. sent \in [Peers -> SUBSET Drawn]
    BY DEF Types
  <2>2. \A e \in Range(c) : StampOf(e) \in Drawn
    BY <1>2, MembersAre, EventParts
  <2>3. sent[p] \cup {StampOf(e) : e \in Range(c)} \in SUBSET Drawn
    BY <2>1, <2>2
  <2> QED
    BY <1>1, <2>1, <2>3
<1>7. Types'
  BY <1>1, <1>4, <1>5, <1>6 DEF Types
<1> QED
  BY <1>1, <1>6, <1>7, Rests

LEMMA PeerApplyStep ==
  ASSUME Types, BatchesAreChunks, NEW p \in Peers, PeerApply(p)
  PROVE  /\ Types' /\ Advances /\ outbox[p] # <<>> /\ 1 \in DOMAIN outbox[p]
         /\ IsApplied(peer[p], peer'[p], outbox[p][1])
         /\ outbox[p][1] \in Seq(PolledEvents)
         /\ \A q \in Peers : q # p => peer'[q] = peer[q] /\ outbox'[q] = outbox[q]
         /\ outbox'[p] = outbox[p] \/ outbox'[p] = Tail(outbox[p])
<1>1. /\ outbox[p] # <<>> /\ peer' = [peer EXCEPT ![p] = Commit(@, Head(outbox[p]), Local, ApplyMode, TRUE)]
      /\ \/ outbox' = [outbox EXCEPT ![p] = Tail(@)] /\ UNCHANGED faults
         \/ faults < MaxFaults /\ faults' = faults + 1 /\ UNCHANGED outbox
      /\ UNCHANGED <<dbRank, rows, writing, clock, drawn, saved, on, stopped, mem, page, staged, reach, sent, missed, rebased>>
  BY DEF PeerApply, source, session, history, Fail
<1>2. outbox \in [Peers -> Seq(Seq(PolledEvents))] /\ peer \in [Peers -> PeerStates]
  BY DEF Types
<1> DEFINE b == outbox[p][1]
<1>3. 1 \in DOMAIN outbox[p] /\ Head(outbox[p]) = b /\ b \in Seq(PolledEvents) /\ Tail(outbox[p]) \in Seq(Seq(PolledEvents))
  <2> DEFINE Q == Seq(PolledEvents)
  <2>1. outbox[p] \in Seq(Q)
    BY <1>2
  <2> HIDE DEF Q
  <2>2. 1 \in DOMAIN outbox[p] /\ Head(outbox[p]) = b /\ b \in Q /\ Tail(outbox[p]) \in Seq(Q)
    BY SMTT(300), <1>1, <2>1
  <2> QED
    BY <2>2 DEF Q
<1>4. \A e, f \in Range(b) : e.key = f.key => e = f
  BY <1>3 DEF BatchesAreChunks
<1>5. peer[p] \in PeerStates
  BY <1>2
<1> HIDE DEF b
<1>6. IsApplied(peer[p], Commit(peer[p], b, Local, ApplyMode, TRUE), b)
  BY <1>3, <1>4, <1>5, BatchIsApplied
<1>7. peer'[p] = Commit(peer[p], b, Local, ApplyMode, TRUE) /\ \A q \in Peers : q # p => peer'[q] = peer[q]
  BY <1>1, <1>2, <1>3
<1>8. IsApplied(peer[p], peer'[p], b)
  BY <1>6, <1>7
<1>9. peer' \in [Peers -> PeerStates]
  <2>1. Commit(peer[p], b, Local, ApplyMode, TRUE) \in PeerStates
    BY <1>6 DEF IsApplied
  <2> QED
    BY <1>1, <1>2, <1>3, <2>1
<1>10. outbox' \in [Peers -> Seq(Seq(PolledEvents))]
  BY <1>1, <1>2, <1>3
<1>11. \A q \in Peers : q # p => outbox'[q] = outbox[q]
  BY <1>1, <1>2
<1>12. outbox'[p] = outbox[p] \/ outbox'[p] = Tail(outbox[p])
  BY <1>1, <1>2
<1>13. faults' \in 0..MaxFaults
  <2>1. faults \in 0..MaxFaults /\ MaxFaults \in Nat
    BY PollingAssumption DEF Types
  <2> QED
    BY SMTT(300), <1>1, <2>1
<1>14. Types'
  BY <1>1, <1>9, <1>10, <1>13 DEF Types
<1>15. Advances
  BY <1>1, Rests
<1> QED
  BY <1>1, <1>3, <1>7, <1>8, <1>11, <1>12, <1>14, <1>15 DEF b

-----------------------------------------------------------------------------
(* What such a step keeps.                                                  *)

LEMMA DrawnIs ==
  ASSUME NEW s \in Drawn
  PROVE  s.key \in Keys /\ s.ver \in Nat /\ s.ver \in 1..MaxClock
<1>1. s.key \in Keys /\ s.ver \in 1..MaxClock
  BY DEF Drawn
<1> QED
  BY SMTT(300), <1>1

LEMMA SeenStays ==
  ASSUME Types, Types', Advances, NEW s, Seen(s)
  PROVE  Seen(s)'
<1> DEFINE d == [key |-> s.key, ver |-> s.ver]
<1>1. d \in drawn /\ d \in Drawn /\ d.key = s.key /\ d.ver = s.ver
  BY DEF Seen, Types
<1> HIDE DEF d
<1>2. d.key \in Keys /\ d.ver \in Nat
  BY <1>1, DrawnIs
<1>3. rows[s.key].ver <= rows'[s.key].ver /\ s.ver <= rows[s.key].ver
  BY <1>1, <1>2 DEF Advances, Seen
<1>4. s.ver <= rows'[s.key].ver
  <2>1. rows[s.key].ver \in 0..MaxClock /\ rows'[s.key].ver \in 0..MaxClock /\ s.ver \in Nat
    BY <1>1, <1>2 DEF Types
  <2> QED
    BY SMTT(300), <1>3, <2>1
<1>5. ~After(dbRank, reach, d)
  BY <1>1 DEF Seen, After
<1>6. ~After(dbRank, reach', d)
  BY <1>1, <1>5 DEF Advances
<1>7. ~After(dbRank, reach', s)
  BY <1>1, <1>6 DEF After
<1> QED
  BY <1>1, <1>4, <1>7 DEF Seen, Advances, d

\* What was seen is at or before the furthest position.
LEMMA SeenIsReached ==
  ASSUME Types, NEW s, Seen(s)
  PROVE  IsReached(s)
<1>1. s.key \in Keys /\ s.ver \in Nat
  <2> DEFINE d == [key |-> s.key, ver |-> s.ver]
  <2>1. d \in Drawn /\ d.key = s.key /\ d.ver = s.ver
    BY DEF Seen, Types
  <2> HIDE DEF d
  <2> QED
    BY <2>1, DrawnIs
<1>2. reach.ver \in Nat /\ reach.key \in Keys \cup {0}
  <2>1. reach.ver \in 0..MaxClock /\ reach.key \in Keys \cup {0}
    BY DEF Types, Cursors
  <2> QED
    BY SMTT(300), <2>1
<1>3. ASSUME NEW x \in Drawn, After(dbRank, reach, x)
      PROVE  After(dbRank, s, x)
  <2>1. x.key \in Keys /\ x.ver \in Nat
    BY DrawnIs
  <2>2. ~After(dbRank, reach, s)
    BY DEF Seen
  <2>3. After(dbRank, reach, x) /\ ~After(dbRank, s, x) => After(dbRank, reach, s)
    BY <1>1, <1>2, <2>1, RankIs, AfterIs
  <2> QED
    BY <1>3, <2>2, <2>3
<1> QED
  BY <1>3 DEF IsReached

LEMMA ReachedStays ==
  ASSUME Advances, NEW c, IsReached(c)
  PROVE  IsReached(c)'
BY DEF Advances, IsReached

\* The rows that are not new since the step.
LEMMA NewRowIs ==
  ASSUME Types, Types', WritersAreApart', Advances, NEW k \in Keys, rows'[k].owner = Local, NEW c, IsReached(c),
         ~After(dbRank, c, Stamp(k)'), Stamp(k)' \notin missed'
  PROVE  /\ rows'[k] = rows[k] /\ rows[k].owner = Local /\ Stamp(k)' = Stamp(k) /\ ChangeOf(k)' = ChangeOf(k)
         /\ Stamp(k) \notin missed /\ ~After(dbRank, c, Stamp(k))
<1>1. Stamp(k)' \in Drawn
  BY DEF WritersAreApart, Types
<1>2. ~After(dbRank, reach, Stamp(k)')
  BY <1>1 DEF IsReached
<1>3. rows'[k] = rows[k]
  BY <1>2 DEF Advances
<1> QED
  BY <1>3 DEF Stamp, ChangeOf, Advances

LEMMA SafeStays ==
  ASSUME Types, Types', WritersAreApart', Advances, NEW c, IsReached(c), IsSafe(c)
  PROVE  IsSafe(c)'
<1>1. ASSUME Sends, NEW p \in Peers, NEW k \in Keys, rows'[k].owner = Local, ~After(dbRank', c, Stamp(k)')
      PROVE  Stamp(k)' \in Handled(p)'
  <2> SUFFICES ASSUME Stamp(k)' \notin missed' PROVE Stamp(k)' \in Handled(p)'
    BY DEF Handled
  <2>1. ~After(dbRank, c, Stamp(k)')
    BY <1>1 DEF Advances
  <2>2. rows[k].owner = Local /\ Stamp(k)' = Stamp(k) /\ Stamp(k) \notin missed /\ ~After(dbRank, c, Stamp(k))
    BY <1>1, <2>1, NewRowIs
  <2> QED
    BY <1>1, <2>2 DEF IsSafe, Handled, Advances
<1> QED
  BY <1>1 DEF IsSafe

-----------------------------------------------------------------------------
(* The invariant that does not speak of the peers' rows.                    *)

LEMMA TypesStep ==
  ASSUME Basics, [Next]_vars
  PROVE  Types' /\ Advances
<1>1. Types /\ WritersAreApart /\ EventsAreSeen /\ PageIsSafe /\ BatchesAreChunks
  BY DEF Basics
<1>2. CASE Source
  <2>1. ASSUME NEW keys \in SUBSET Keys, NEW owner \in {Local, "elsewhere"}, BeginWrite(keys, owner)
        PROVE  Types' /\ Advances
    BY <1>1, <2>1, BeginWriteStep
  <2>2. ASSUME NEW w \in writing, CommitWrite(w) PROVE Types' /\ Advances
    BY <1>1, <2>2, CommitWriteStep
  <2>3. ASSUME NEW k \in Keys, DeleteRow(k) PROVE Types' /\ Advances
    BY <1>1, <2>3, DeleteRowStep
  <2> QED
    BY <1>2, <2>1, <2>2, <2>3 DEF Source
<1>3. CASE Work
  <2>1. ASSUME NEW p \in Peers, EnqueueChunk(p) PROVE Types' /\ Advances
    BY <1>1, <2>1, EnqueueChunkStep
  <2>2. ASSUME NEW p \in Peers, PeerApply(p) PROVE Types' /\ Advances
    BY <1>1, <2>2, PeerApplyStep
  <2> QED
    BY <1>1, <1>3, <2>1, <2>2, SourceMismatchStep, StartSessionStep, PollStep, FinishPageStep DEF Work
<1>4. CASE SessionFails
  BY <1>1, <1>4, SessionFailsStep
<1>5. CASE UNCHANGED vars
  <2>1. UNCHANGED <<dbRank, rows, writing, clock, drawn, saved, on, stopped, mem, page, staged, outbox, peer, reach, sent, missed, rebased, faults>>
    BY <1>5 DEF vars, source, session, history
  <2>2. Types'
    BY <1>1, <2>1 DEF Types
  <2> QED
    BY <1>1, <2>1, <2>2, Rests
<1> QED
  BY <1>2, <1>3, <1>4, <1>5 DEF Next

\* Who changes what.
LEMMA UnchangedRows ==
  ASSUME [Next]_vars, ~Source
  PROVE  UNCHANGED <<rows, writing, drawn>>
BY DEF Next, Work, SourceMismatch, StartSession, Poll, FinishPage, SessionFails, EnqueueChunk, PeerApply, vars, source

LEMMA UnchangedSession ==
  ASSUME [Next]_vars,
         ~StartSession, ~Poll, ~FinishPage, ~SessionFails, \A p \in Peers : ~EnqueueChunk(p)
  PROVE  UNCHANGED <<saved, on, mem, page, staged, sent, rebased>>
BY DEF Next, Source, Work, SourceMismatch, BeginWrite, CommitWrite, DeleteRow, PeerApply, vars, session, history

LEMMA UnchangedPeers ==
  ASSUME [Next]_vars, \A p \in Peers : ~EnqueueChunk(p) /\ ~PeerApply(p)
  PROVE  UNCHANGED <<outbox, peer>>
BY DEF Next, Source, Work, SourceMismatch, StartSession, Poll, FinishPage, SessionFails, BeginWrite, CommitWrite,
       DeleteRow, vars

LEMMA WritersStep ==
  ASSUME Basics, [Next]_vars
  PROVE  WritersAreApart'
<1>1. Types /\ WritersAreApart /\ Types'
  BY TypesStep DEF Basics
<1>2. CASE ~Source
  BY <1>1, <1>2, UnchangedRows DEF WritersAreApart, Stamp
<1>3. ASSUME NEW keys \in SUBSET Keys, NEW owner \in {Local, "elsewhere"}, BeginWrite(keys, owner)
      PROVE  WritersAreApart'
  <2>1. PICK ver \in {clock, clock + 1} :
          /\ clock' = ver /\ \A k \in keys : rows[k].ver < ver
          /\ writing' = writing \cup {[keys |-> keys, ver |-> ver, owner |-> owner]}
    BY <1>3 DEF BeginWrite
  <2> DEFINE n == [keys |-> keys, ver |-> ver, owner |-> owner]
  <2>2. n.keys = keys /\ n.ver = ver
    OBVIOUS
  <2>3. rows' = rows /\ drawn' = drawn \cup {[key |-> k, ver |-> ver] : k \in keys} /\ keys \cap Locked = {}
    BY <1>3, <2>1 DEF BeginWrite
  <2>4. \A w \in writing : w.keys \cap keys = {}
    BY <2>3 DEF Locked
  <2>5. writing' = writing \cup {n}
    BY <2>1
  <2> HIDE DEF n
  <2>6. \A k \in Keys : rows'[k].owner = Local => Stamp(k)' \in drawn'
    BY <1>1, <2>3 DEF WritersAreApart, Stamp
  <2>7. \A w \in writing' : \A k \in w.keys : rows'[k].ver < w.ver /\ [key |-> k, ver |-> w.ver] \in drawn'
    <3>1. \A k \in n.keys : rows'[k].ver < n.ver /\ [key |-> k, ver |-> n.ver] \in drawn'
      BY <2>1, <2>2, <2>3
    <3>2. \A w \in writing : \A k \in w.keys : rows'[k].ver < w.ver /\ [key |-> k, ver |-> w.ver] \in drawn'
      BY <1>1, <2>3 DEF WritersAreApart
    <3> QED
      BY <2>5, <3>1, <3>2
  <2>8. \A w, x \in writing' : w # x => w.keys \cap x.keys = {}
    <3>1. ASSUME NEW w \in writing', NEW x \in writing', w # x PROVE w.keys \cap x.keys = {}
      <4>1. CASE w \in writing /\ x \in writing
        BY <1>1, <3>1, <4>1 DEF WritersAreApart
      <4>2. CASE w = n
        BY <2>2, <2>4, <2>5, <3>1, <4>2
      <4>3. CASE x = n
        BY <2>2, <2>4, <2>5, <3>1, <4>3
      <4> QED
        BY <2>5, <4>1, <4>2, <4>3
    <3> QED
      BY <3>1
  <2> QED
    BY <2>6, <2>7, <2>8 DEF WritersAreApart
<1>4. ASSUME NEW w \in writing, CommitWrite(w) PROVE WritersAreApart'
  <2>1. /\ rows' = [k \in Keys |-> IF k \in w.keys THEN [owner |-> w.owner, ver |-> w.ver] ELSE rows[k]]
        /\ writing' = writing \ {w} /\ drawn' = drawn
    BY <1>4 DEF CommitWrite
  <2>2. \A k \in Keys : k \in w.keys => rows'[k].ver = w.ver
    <3>1. \A k \in Keys : k \in w.keys => rows'[k] = [owner |-> w.owner, ver |-> w.ver]
      BY <2>1
    <3> QED
      BY SMTT(300), <3>1
  <2>3. \A k \in Keys : k \notin w.keys => rows'[k] = rows[k]
    BY <2>1
  <2>4. ASSUME NEW k \in Keys, rows'[k].owner = Local PROVE Stamp(k)' \in drawn'
    <3>1. CASE k \in w.keys
      <4>1. [key |-> k, ver |-> w.ver] \in drawn'
        BY <1>1, <2>1, <3>1 DEF WritersAreApart
      <4> QED
        BY <2>2, <3>1, <4>1 DEF Stamp
    <3>2. CASE k \notin w.keys
      BY <1>1, <2>1, <2>3, <2>4, <3>2 DEF WritersAreApart, Stamp
    <3> QED
      BY <3>1, <3>2
  <2>5. ASSUME NEW x \in writing', NEW k \in x.keys PROVE rows'[k].ver < x.ver /\ [key |-> k, ver |-> x.ver] \in drawn'
    <3>1. x \in writing /\ x # w /\ k \notin w.keys
      BY <1>1, <2>1 DEF WritersAreApart
    <3>2. k \in Keys
      BY <1>1, <3>1 DEF Types, Writers
    <3> QED
      BY <1>1, <2>1, <2>3, <3>1, <3>2 DEF WritersAreApart
  <2> QED
    BY <1>1, <2>1, <2>4, <2>5 DEF WritersAreApart
<1>5. ASSUME NEW k \in Keys, DeleteRow(k) PROVE WritersAreApart'
  <2>1. rows' = [rows EXCEPT ![k].owner = "absent"] /\ UNCHANGED <<writing, drawn>> /\ Local # "absent" /\ k \notin Locked
    BY <1>5, PollingAssumption DEF DeleteRow
  <2>2. rows'[k].owner # Local /\ \A j \in Keys : j # k => rows'[j] = rows[j]
    <3>1. rows \in [Keys -> [owner : {"absent", Local, "elsewhere"}, ver : 0..MaxClock]]
      BY <1>1 DEF Types
    <3> QED
      BY <2>1, <3>1
  <2>3. \A w \in writing : \A j \in w.keys : j \in Keys /\ j # k
    <3>1. ASSUME NEW w \in writing, NEW j \in w.keys PROVE j \in Keys /\ j # k
      <4>1. w \in Writers
        BY <1>1 DEF Types
      <4>2. j \in Keys
        BY <4>1 DEF Writers
      <4>3. j \in Locked
        BY DEF Locked
      <4> QED
        BY <2>1, <4>2, <4>3
    <3> QED
      BY <3>1
  <2>4. ASSUME NEW j \in Keys, rows'[j].owner = Local PROVE Stamp(j)' \in drawn'
    <3>1. rows'[j] = rows[j]
      BY <2>2, <2>4
    <3>2. Stamp(j)' = Stamp(j) /\ rows[j].owner = Local
      BY <2>4, <3>1 DEF Stamp
    <3> QED
      BY <1>1, <2>1, <3>2 DEF WritersAreApart
  <2> QED
    BY <1>1, <2>1, <2>2, <2>3, <2>4 DEF WritersAreApart
<1> QED
  BY <1>2, <1>3, <1>4, <1>5 DEF Source

\* The events of a chunk, by their places on the page.
LEMMA ChunkHas ==
  ASSUME Types, NEW p \in Peers, NEW end, IsChunk(p, end)
  PROVE  /\ \A e \in Range(Chunk(p)) : e \in Range(page) /\ \E i \in DOMAIN page : staged[p] < i /\ i <= end /\ e = page[i]
         /\ \A i \in DOMAIN page : staged[p] < i /\ i <= end => page[i] \in Range(Chunk(p))
         /\ Chunk(p) \in Seq(PolledEvents) /\ Len(Chunk(p)) = end - staged[p] /\ Len(Chunk(p)) \in 1..MaxEvents
         /\ Chunk(p)[Len(Chunk(p))] = page[end] /\ end \in DOMAIN page
         /\ staged[p] + Len(Chunk(p)) = end
<1> DEFINE s == staged[p]
           c == Chunk(p)
<1>1. /\ c \in Seq(PolledEvents) /\ Len(c) = end - s /\ Range(c) = {page[n] : n \in (s + 1)..end}
      /\ \A k \in 1..(end - s) : c[k] = page[s + k]
      /\ end \in Nat /\ s \in Nat /\ s < end /\ end <= Len(page) /\ end - s \in 1..MaxEvents
  BY DEF IsChunk, IsSlice
<1>2. Len(page) \in Nat /\ DOMAIN page = 1..Len(page)
  BY EventsAre
<1> HIDE DEF s, c
<1>3. \A i \in DOMAIN page : i \in (s + 1)..end <=> s < i /\ i <= end
  BY SMTT(300), <1>1, <1>2
<1>4. \A i \in (s + 1)..end : i \in DOMAIN page
  BY SMTT(300), <1>1, <1>2
<1>5. end \in DOMAIN page /\ end - s \in 1..(end - s) /\ s + (end - s) = end
  BY SMTT(300), <1>1, <1>2
<1>6. c[Len(c)] = page[end]
  <2>1. c[end - s] = page[s + (end - s)]
    BY <1>1, <1>5
  <2> QED
    BY <1>1, <1>5, <2>1
<1>7. \A e \in Range(c) : e \in Range(page) /\ \E i \in DOMAIN page : s < i /\ i <= end /\ e = page[i]
  BY <1>1, <1>3, <1>4 DEF Range
<1>8. \A i \in DOMAIN page : s < i /\ i <= end => page[i] \in Range(c)
  BY <1>1, <1>3
<1> QED
  BY <1>1, <1>5, <1>6, <1>7, <1>8 DEF s, c

\* A batch was there before or is the chunk just enqueued.
LEMMA BatchIsFrom ==
  ASSUME Basics, [Next]_vars, NEW p \in Peers, NEW n \in DOMAIN outbox'[p]
  PROVE  \/ \E m \in DOMAIN outbox[p] : outbox'[p][n] = outbox[p][m]
         \/ EnqueueChunk(p) /\ outbox'[p][n] = Chunk(p)
<1>1. Types /\ PageIsSafe /\ BatchesAreChunks
  BY DEF Basics
<1>2. outbox \in [Peers -> Seq(Seq(PolledEvents))]
  BY <1>1 DEF Types
<1> DEFINE Q == Seq(PolledEvents)
<1>3. outbox[p] \in Seq(Q)
  BY <1>2
<1> HIDE DEF Q
<1>4. ASSUME NEW q \in Peers, EnqueueChunk(q)
      PROVE  \/ \E m \in DOMAIN outbox[p] : outbox'[p][n] = outbox[p][m]
             \/ EnqueueChunk(p) /\ outbox'[p][n] = Chunk(p)
  <2>1. CASE q # p \/ IsPending(p, Chunk(p))
    <3>1. outbox'[p] = outbox[p]
      BY <1>2, <1>4, <2>1 DEF EnqueueChunk
    <3> QED
      BY <3>1
  <2>2. CASE q = p /\ ~IsPending(p, Chunk(p))
    <3> DEFINE c == Chunk(p)
    <3>1. outbox'[p] = Append(outbox[p], c) /\ c # <<>>
      BY <1>2, <1>4, <2>2 DEF EnqueueChunk
    <3>2. c \in Q
      BY <1>1, <3>1, ChunkIs DEF IsChunk, IsSlice, Q
    <3> DEFINE o == outbox[p]
    <3>3. o \in Seq(Q)
      BY <1>3
    <3> HIDE DEF c, o
    <3>4. /\ Append(o, c)[Len(o) + 1] = c
          /\ \A i \in DOMAIN Append(o, c) : i \in DOMAIN o \/ i = Len(o) + 1
          /\ \A i \in DOMAIN o : Append(o, c)[i] = o[i]
      BY SMTT(300), <3>2, <3>3, AppendIs
    <3> QED
      BY <1>4, <2>2, <3>1, <3>4 DEF c, o
  <2> QED
    BY <2>1, <2>2
<1>5. ASSUME NEW q \in Peers, PeerApply(q)
      PROVE  \E m \in DOMAIN outbox[p] : outbox'[p][n] = outbox[p][m]
  <2>1. \/ outbox'[p] = outbox[p]
        \/ outbox'[p] = Tail(outbox[p]) /\ outbox[p] # <<>>
    BY <1>1, <1>5, PeerApplyStep
  <2>2. CASE outbox'[p] = outbox[p]
    BY <2>2
  <2>3. CASE outbox'[p] = Tail(outbox[p]) /\ outbox[p] # <<>>
    <3> DEFINE o == outbox[p]
    <3>1. o \in Seq(Q) /\ o # <<>>
      BY <1>3, <2>3
    <3> HIDE DEF o
    <3>2. \A i \in DOMAIN Tail(o) : i + 1 \in DOMAIN o /\ Tail(o)[i] = o[i + 1]
      BY SMTT(300), <3>1, TailIs
    <3> QED
      BY <2>3, <3>2 DEF o
  <2> QED
    BY <2>1, <2>2, <2>3
<1>6. CASE \A q \in Peers : ~EnqueueChunk(q) /\ ~PeerApply(q)
  <2>1. outbox' = outbox
    BY <1>6, UnchangedPeers
  <2> QED
    BY <2>1
<1> QED
  BY <1>4, <1>5, <1>6

LEMMA BatchesStep ==
  ASSUME Basics, [Next]_vars
  PROVE  BatchesAreChunks'
<1>1. Types /\ PageIsSafe /\ BatchesAreChunks
  BY DEF Basics
<1>2. ASSUME NEW p \in Peers, NEW n \in DOMAIN outbox'[p]
      PROVE  /\ Len(outbox'[p][n]) \in 1..MaxEvents
             /\ \A e, f \in Range(outbox'[p][n]) : e.key = f.key => e = f
  <2>1. CASE \E m \in DOMAIN outbox[p] : outbox'[p][n] = outbox[p][m]
    BY <1>1, <2>1 DEF BatchesAreChunks
  <2>2. CASE EnqueueChunk(p) /\ outbox'[p][n] = Chunk(p)
    <3>1. Chunk(p) # <<>>
      BY <2>2 DEF EnqueueChunk
    <3>2. PICK end : IsChunk(p, end)
      BY <1>1, <3>1, ChunkIs
    <3>3. Len(Chunk(p)) \in 1..MaxEvents /\ \A e \in Range(Chunk(p)) : e \in Range(page)
      BY <1>1, <3>2, ChunkHas
    <3>4. \A e, f \in Range(page) : e.key = f.key => e = f
      BY <1>1 DEF PageIsSafe
    <3> QED
      BY <2>2, <3>3, <3>4
  <2> QED
    BY <2>1, <2>2, BatchIsFrom
<1> QED
  BY <1>2 DEF BatchesAreChunks

LEMMA PageIsSeen ==
  ASSUME Basics, Poll
  PROVE  \A e \in Range(page') : Seen(e)'
<1>1. Types /\ WritersAreApart
  BY DEF Basics
<1>2. Types' /\ IsPage(page', mem) /\ ~After(dbRank, reach', LastRow')
  BY <1>1, PollStep
<1>3. UNCHANGED <<dbRank, rows, drawn>>
  BY DEF Poll, source
<1> DEFINE L == Len(page')
           z == page'[L]
<1>4. /\ page' \in Seq(PolledEvents) /\ L \in 1..PageSize /\ DOMAIN page' = 1..L
      /\ \A e \in Range(page') : e.key \in Keys /\ IsAfter(mem, e.key) /\ e = ChangeOf(e.key)
      /\ \A i, j \in DOMAIN page' : i < j => After(dbRank, page'[i], page'[j])
  BY <1>2 DEF IsPage
<1>5. ~After(dbRank, reach', z)
  BY <1>2 DEF LastRow
<1>6. \A e \in Range(page') : e \in PolledEvents /\ e.ver \in Nat
  BY <1>4, MembersAre, EventParts
<1>7. reach'.ver \in Nat /\ reach'.key \in Keys \cup {0}
  <2>1. reach'.ver \in 0..MaxClock /\ reach'.key \in Keys \cup {0}
    BY <1>2 DEF Types, Cursors
  <2> QED
    BY SMTT(300), <2>1
<1> HIDE DEF L
<1>8. L \in DOMAIN page' /\ z \in Range(page') /\ \A i \in DOMAIN page' : i = L \/ i < L
  <2>1. L \in 1..L /\ \A i \in 1..L : i = L \/ i < L
    BY SMTT(300), <1>4, PollingAssumption
  <2> QED
    BY <1>4, <2>1 DEF Range
<1> HIDE DEF z
<1>9. ASSUME NEW e \in Range(page') PROVE Seen(e)'
  <2>1. rows[e.key].owner = Local /\ e.key \in Keys /\ e = ChangeOf(e.key)
    BY <1>4 DEF IsAfter
  <2>2. e.ver = rows[e.key].ver /\ Stamp(e.key) \in drawn /\ Stamp(e.key) = [key |-> e.key, ver |-> e.ver]
    BY <1>1, <2>1, RowIs DEF Stamp
  <2>3. e = z \/ After(dbRank, e, z)
    BY <1>4, <1>8 DEF Range, z
  <2>4. ~After(dbRank, reach', e)
    <3>1. After(dbRank, reach', e) /\ After(dbRank, e, z) => After(dbRank, reach', z)
      BY <1>1, <1>4, <1>6, <1>7, <1>8, RankIs, AfterIs
    <3> QED
      BY <1>5, <2>3, <3>1
  <2>5. e.ver <= rows[e.key].ver
    BY <1>1, <2>1, <2>2, OrderIs
  <2> QED
    BY <1>3, <2>2, <2>4, <2>5 DEF Seen
<1> QED
  BY <1>9

\* Only a chunk of the page is added to what is staged.
LEMMA SentIsFrom ==
  ASSUME Types, PageIsSafe, [Next]_vars, NEW p \in Peers, NEW s \in sent'[p]
  PROVE  s \in sent[p] \/ \E e \in Range(page) : s = StampOf(e)
<1>1. ASSUME NEW q \in Peers, EnqueueChunk(q) PROVE s \in sent[p] \/ \E e \in Range(page) : s = StampOf(e)
  <2>1. Chunk(q) # <<>> /\ sent' = [sent EXCEPT ![q] = @ \cup {StampOf(e) : e \in Range(Chunk(q))}]
    BY <1>1 DEF EnqueueChunk
  <2>2. \A e \in Range(Chunk(q)) : e \in Range(page)
    BY <2>1, ChunkIs, ChunkHas
  <2>3. sent \in [Peers -> SUBSET Drawn]
    BY DEF Types
  <2> QED
    BY <2>1, <2>2, <2>3
<1>2. StartSession \/ Poll \/ FinishPage \/ SessionFails => sent' = sent
  BY DEF StartSession, Poll, FinishPage, SessionFails, history
<1> QED
  BY <1>1, <1>2, UnchangedSession

LEMMA SeenStep ==
  ASSUME Basics, [Next]_vars
  PROVE  EventsAreSeen'
<1>1. Types /\ Types' /\ Advances /\ WritersAreApart /\ EventsAreSeen /\ PageIsSafe /\ BatchesAreChunks
  BY TypesStep DEF Basics
<1>2. \A s : Seen(s) => Seen(s)'
  BY <1>1, SeenStays
<1>3. \A e \in Range(page') : Seen(e)'
  <2>1. CASE Poll
    BY <2>1, PageIsSeen
  <2>2. CASE FinishPage \/ SessionFails
    <3>1. page' = <<>>
      BY <2>2 DEF FinishPage, SessionFails
    <3> QED
      BY <3>1, EmptyIs
  <2>3. CASE page' = page
    BY <1>1, <1>2, <2>3 DEF EventsAreSeen
  <2>4. StartSession \/ (\E p \in Peers : EnqueueChunk(p)) => page' = page
    BY DEF StartSession, EnqueueChunk
  <2> QED
    BY <2>1, <2>2, <2>3, <2>4, UnchangedSession
<1>4. ASSUME NEW p \in Peers, NEW n \in DOMAIN outbox'[p], NEW e \in Range(outbox'[p][n])
      PROVE  Seen(e)'
  <2>1. CASE \E m \in DOMAIN outbox[p] : outbox'[p][n] = outbox[p][m]
    BY <1>1, <1>2, <2>1 DEF EventsAreSeen
  <2>2. CASE EnqueueChunk(p) /\ outbox'[p][n] = Chunk(p)
    <3>1. Chunk(p) # <<>>
      BY <2>2 DEF EnqueueChunk
    <3>2. e \in Range(page)
      BY <1>1, <2>2, <3>1, ChunkIs, ChunkHas
    <3> QED
      BY <1>1, <1>2, <3>2 DEF EventsAreSeen
  <2> QED
    BY <2>1, <2>2, BatchIsFrom
<1>5. ASSUME NEW p \in Peers
      PROVE  LET c == peer'[p].cursors[Table] IN
             \/ c = ZeroCursor
             \/ [key |-> c.key, ver |-> c.ver] \in drawn' /\ c.ver <= rows'[c.key].ver /\ ~After(dbRank', reach', c)
  <2> DEFINE c == peer'[p].cursors[Table]
  <2>1. \/ c = peer[p].cursors[Table]
        \/ \E e \in Range(outbox[p][1]) : c = Position(e) /\ e \in PolledEvents /\ Seen(e)
    <3>1. CASE PeerApply(p)
      <4>1. 1 \in DOMAIN outbox[p] /\ IsApplied(peer[p], peer'[p], outbox[p][1]) /\ outbox[p][1] \in Seq(PolledEvents)
        BY <1>1, <3>1, PeerApplyStep
      <4>2. c \in {peer[p].cursors[Table]} \cup {Position(e) : e \in Range(outbox[p][1])}
        BY <4>1 DEF IsApplied
      <4>3. \A e \in Range(outbox[p][1]) : e \in PolledEvents /\ Seen(e)
        BY <1>1, <4>1, MembersAre DEF EventsAreSeen
      <4> QED
        BY <4>2, <4>3
    <3>2. CASE ~PeerApply(p)
      <4>1. peer'[p] = peer[p]
        <5>1. ASSUME NEW q \in Peers, PeerApply(q) PROVE peer'[p] = peer[p]
          BY <1>1, <3>2, <5>1, PeerApplyStep
        <5>2. (\E q \in Peers : EnqueueChunk(q)) => peer' = peer
          BY DEF EnqueueChunk
        <5> QED
          BY <5>1, <5>2, UnchangedPeers
      <4> QED
        BY <4>1
    <3> QED
      BY <3>1, <3>2
  <2>2. c = ZeroCursor \/ Seen(c)
    <3>1. ASSUME NEW e \in PolledEvents, c = Position(e), Seen(e) PROVE Seen(c)
      <4>1. c.key = e.key /\ c.ver = e.ver
        BY <3>1, EventParts
      <4> QED
        BY <3>1, <4>1 DEF Seen, After
    <3> QED
      BY <1>1, <2>1, <3>1 DEF EventsAreSeen
  <2> HIDE DEF c
  <2>3. c = ZeroCursor \/ ([key |-> c.key, ver |-> c.ver] \in drawn' /\ c.ver <= rows'[c.key].ver /\ ~After(dbRank', reach', c))
    BY <1>2, <2>2 DEF Seen
  <2> QED
    BY <2>3 DEF c
<1>6. ASSUME NEW p \in Peers, NEW s \in sent'[p] PROVE Seen(s)'
  <2>1. s \in sent[p] \/ \E e \in Range(page) : s = StampOf(e)
    BY <1>1, SentIsFrom
  <2>2. Seen(s)
    <3>1. ASSUME NEW e \in Range(page), s = StampOf(e) PROVE Seen(s)
      <4>1. s.key = e.key /\ s.ver = e.ver /\ Seen(e)
        BY <1>1, <3>1 DEF StampOf, EventsAreSeen
      <4> QED
        BY <4>1 DEF Seen, After
    <3> QED
      BY <1>1, <2>1, <3>1 DEF EventsAreSeen
  <2> QED
    BY <1>2, <2>2
<1>7. \A p \in Peers : (peer[p].cursors[Table] = ZeroCursor \/ Seen(peer[p].cursors[Table]))'
  BY <1>5 DEF Seen
<1> QED
  BY <1>3, <1>4, <1>6, <1>7 DEF EventsAreSeen

\* The baseline leaves behind only what is handled.
LEMMA BaselineIsSafe ==
  ASSUME Types, WritersAreApart, StartSession, saved.ver = 0
  PROVE  IsSafe(mem)' /\ IsReached(mem)'
<1>1. /\ mem' = [ver |-> CurrentMaxVersion, key |-> 0]
      /\ saved.source = "" => missed' = missed \cup Behind(Keys, mem')
      /\ saved.source # "" => rebased' = [p \in Peers |-> rebased[p] \cup (Behind(Keys, mem') \ sent[p])]
      /\ reach' = IF mem'.ver >= reach.ver THEN mem' ELSE reach
      /\ UNCHANGED <<dbRank, rows, sent>>
  BY DEF StartSession, PassOver, source
<1>2. mem'.key = 0
  BY <1>1
<1>3. ASSUME NEW p \in Peers, NEW k \in Keys, rows[k].owner = Local, ~After(dbRank, mem', Stamp(k))
      PROVE  Stamp(k) \in Handled(p)'
  <2>1. ~IsAfter(mem', k)
    BY <1>3, IsAfterIs
  <2>2. Stamp(k) \in Behind(Keys, mem')
    BY <1>3, <2>1 DEF Behind
  <2>3. CASE saved.source = ""
    BY <1>1, <2>2, <2>3 DEF Handled
  <2>4. CASE saved.source # ""
    BY <1>1, <2>2, <2>4 DEF Handled
  <2> QED
    BY <2>3, <2>4
<1>4. IsSafe(mem)'
  BY <1>1, <1>3 DEF IsSafe, Stamp
<1>5. ASSUME NEW s \in Drawn, After(dbRank, reach', s) PROVE After(dbRank, mem', s)
  <2>1. CASE reach' = mem'
    BY <1>5, <2>1
  <2>2. CASE reach' # mem'
    <3>1. reach' = reach /\ ~(mem'.ver >= reach.ver)
      BY <1>1, <2>2
    <3>2. s.ver \in Nat /\ reach.ver \in Nat /\ mem'.ver \in Nat
      <4>1. Types'
        BY StartSessionStep
      <4>2. reach.ver \in 0..MaxClock /\ mem'.ver \in 0..MaxClock
        BY <4>1 DEF Types, Cursors
      <4> QED
        BY SMTT(300), <4>2, DrawnIs
    <3>3. s.ver > reach.ver \/ s.ver = reach.ver
      BY <1>5, <3>1 DEF After
    <3>4. s.ver > mem'.ver
      BY SMTT(300), <3>1, <3>2, <3>3
    <3> QED
      BY <3>4 DEF After
  <2> QED
    BY <2>1, <2>2
<1>6. IsReached(mem)'
  BY <1>1, <1>5 DEF IsReached
<1> QED
  BY <1>4, <1>6

LEMMA SamePlace ==
  ASSUME NEW a, NEW b, a.ver = b.ver, a.key = b.key
  PROVE  \A d, s : After(d, a, s) <=> After(d, b, s)
BY DEF After

\* A page that is finished is staged for every peer.
LEMMA FinishedIsStaged ==
  ASSUME Types, PageIsSafe, StagedIsSent, FinishPage, Sends, NEW p \in Peers, NEW e \in Range(page)
  PROVE  StampOf(e) \in sent[p]
<1>1. PICK i \in DOMAIN page : e = page[i]
  BY DEF Range
<1>2. page # <<>> /\ Chunk(p) = <<>>
  BY DEF FinishPage
<1>3. Events = page
  BY EventsAre DEF Sends
<1>4. staged[p] = Len(page)
  BY <1>2, <1>3, ChunkIs
<1>5. DOMAIN page = 1..Len(page) /\ Len(page) \in Nat
  BY EventsAre
<1>6. i <= Len(page)
  BY SMTT(300), <1>5
<1> QED
  BY <1>1, <1>4, <1>6 DEF StagedIsSent

\* Its end leaves behind only what is handled.
LEMMA PageEndIsSafe ==
  ASSUME Types, EventsAreSeen, PageIsSafe, StagedIsSent, FinishPage, NEW c, c.ver = LastRow.ver, c.key = LastRow.key
  PROVE  IsSafe(c)' /\ IsReached(c)'
<1>1. page # <<>> /\ UNCHANGED <<dbRank, rows, reach, sent, missed, rebased>>
  BY DEF FinishPage, source, history
<1>2. \A d, s : After(d, c, s) <=> After(d, LastRow, s)
  BY SamePlace
<1>3. ASSUME Sends, NEW p \in Peers, NEW k \in Keys, rows[k].owner = Local, ~After(dbRank, c, Stamp(k))
      PROVE  Stamp(k) \in Handled(p)
  <2>1. Stamp(k) \in Handled(p) \/ ChangeOf(k) \in Range(page)
    BY <1>1, <1>2, <1>3 DEF PageIsSafe
  <2>2. StampOf(ChangeOf(k)) = Stamp(k)
    BY RowIs DEF StampOf, Stamp
  <2>3. CASE ChangeOf(k) \in Range(page)
    BY <1>3, <2>2, <2>3, FinishedIsStaged DEF Handled
  <2> QED
    BY <2>1, <2>3
<1>4. IsSafe(c)'
  BY <1>1, <1>3 DEF IsSafe, Stamp, Handled
<1>5. Seen(LastRow)
  BY <1>1, LastRowIs DEF EventsAreSeen
<1>6. IsReached(LastRow)
  BY <1>5, SeenIsReached
<1>7. IsReached(c)'
  BY <1>1, <1>2, <1>6 DEF IsReached
<1> QED
  BY <1>4, <1>7

LEMMA SessionStep ==
  ASSUME Basics, [Next]_vars
  PROVE  SessionIsSafe'
<1>1. /\ Types /\ Types' /\ Advances /\ WritersAreApart' /\ WritersAreApart /\ EventsAreSeen /\ SessionIsSafe /\ PageIsSafe
      /\ StagedIsSent
  BY TypesStep, WritersStep DEF Basics
<1>2. \A c : IsSafe(c) /\ IsReached(c) => IsSafe(c)' /\ IsReached(c)'
  BY <1>1, SafeStays, ReachedStays
<1>3. ASSUME NEW c, IsSafe(c)', IsReached(c)', mem'.ver = c.ver, mem'.key = c.key
      PROVE  IsSafe(mem)' /\ IsReached(mem)'
  BY <1>3, SamePlace DEF IsSafe, IsReached
<1>4. ASSUME NEW c, IsSafe(c)', IsReached(c)', saved'.ver = c.ver, saved'.key = c.key
      PROVE  IsSafe(saved)' /\ IsReached(saved)'
  BY <1>4, SamePlace DEF IsSafe, IsReached
<1>5. PICK c : c = saved
  OBVIOUS
<1>6. PICK m : m = mem
  OBVIOUS
<1>7. saved.ver # 0 => Sends /\ IsSafe(c)' /\ IsReached(c)'
  <2>1. saved.ver # 0 => Sends /\ IsSafe(c) /\ IsReached(c)
    BY <1>1, <1>5 DEF SessionIsSafe
  <2> QED
    BY <1>2, <2>1
<1>8. on => IsSafe(m)' /\ IsReached(m)'
  <2>1. on => IsSafe(m) /\ IsReached(m)
    BY <1>1, <1>6 DEF SessionIsSafe
  <2> QED
    BY <1>2, <2>1
<1>9. saved'.ver = saved.ver /\ saved'.key = saved.key /\ saved'.ver # 0 => Sends /\ IsSafe(saved)' /\ IsReached(saved)'
  BY <1>4, <1>5, <1>7
<1>10. mem' = mem /\ on => IsSafe(mem)' /\ IsReached(mem)'
  BY <1>3, <1>6, <1>8
<1>11. CASE StartSession
  <2>1. /\ saved' = [saved EXCEPT !.source = "polling"]
        /\ saved.ver # 0 => mem' = [ver |-> saved.ver, key |-> saved.key]
    BY <1>11 DEF StartSession
  <2>2. saved'.ver = saved.ver /\ saved'.key = saved.key
    <3>1. saved \in [source : {"", "cdc", "polling"}, ver : 0..MaxClock, key : Keys \cup {0}]
      BY <1>1 DEF Types
    <3> QED
      BY <2>1, <3>1
  <2>3. saved.ver # 0 => IsSafe(mem)' /\ IsReached(mem)'
    <3>1. saved.ver # 0 => mem'.ver = saved.ver /\ mem'.key = saved.key
      BY SMTT(300), <2>1
    <3> QED
      BY <1>3, <1>5, <1>7, <3>1
  <2>4. IsSafe(mem)' /\ IsReached(mem)'
    BY <1>1, <1>11, <2>3, BaselineIsSafe
  <2> QED
    BY <1>9, <2>2, <2>4 DEF SessionIsSafe
<1>12. CASE FinishPage
  <2>1. /\ mem' = Position(LastRow) /\ page # <<>>
        /\ saved' = IF Events = <<>> THEN saved ELSE [saved EXCEPT !.ver = LastRow.ver, !.key = LastRow.key]
    BY <1>12 DEF FinishPage, SaveCursor
  <2>2. PICK z : z = LastRow
    OBVIOUS
  <2>3. IsSafe(z)' /\ IsReached(z)'
    BY <1>1, <1>12, <2>2, PageEndIsSafe
  <2>4. mem'.ver = z.ver /\ mem'.key = z.key
    BY <2>1, <2>2 DEF Position
  <2>5. IsSafe(mem)' /\ IsReached(mem)'
    BY <1>3, <2>3, <2>4
  <2>6. CASE Events = <<>>
    BY <1>9, <2>1, <2>5, <2>6 DEF SessionIsSafe
  <2>7. CASE Events # <<>>
    <3>1. saved' = [saved EXCEPT !.ver = z.ver, !.key = z.key]
      BY <2>1, <2>2, <2>7
    <3>2. saved'.ver = z.ver /\ saved'.key = z.key
      <4>1. saved \in [source : {"", "cdc", "polling"}, ver : 0..MaxClock, key : Keys \cup {0}]
        BY <1>1 DEF Types
      <4> QED
        BY <3>1, <4>1
    <3>3. IsSafe(saved)' /\ IsReached(saved)'
      BY <1>4, <2>3, <3>2
    <3>4. Sends
      BY <2>7 DEF Events, Sends
    <3> QED
      BY <2>5, <3>3, <3>4 DEF SessionIsSafe
  <2> QED
    BY <2>6, <2>7
<1>13. CASE SessionFails
  <2>1. on' = FALSE /\ saved' = saved
    BY <1>13 DEF SessionFails
  <2> QED
    BY <1>9, <2>1 DEF SessionIsSafe
<1>14. CASE UNCHANGED <<saved, on, mem>>
  BY <1>9, <1>10, <1>14 DEF SessionIsSafe
<1>15. Poll \/ (\E p \in Peers : EnqueueChunk(p)) => UNCHANGED <<saved, on, mem>>
  BY DEF Poll, EnqueueChunk
<1> QED
  BY <1>11, <1>12, <1>13, <1>14, <1>15, UnchangedSession

LEMMA PageStep ==
  ASSUME Basics, [Next]_vars
  PROVE  PageIsSafe'
<1>1. Types /\ Types' /\ Advances /\ WritersAreApart' /\ WritersAreApart /\ EventsAreSeen /\ SessionIsSafe /\ PageIsSafe
  BY TypesStep, WritersStep DEF Basics
<1>2. CASE Poll
  <2>1. IsPage(page', mem)
    BY <1>1, <1>2, PollStep
  <2>2. on /\ page = <<>> /\ UNCHANGED <<dbRank, rows, on, staged, sent, missed, rebased>>
    BY <1>2 DEF Poll, source
  <2>3. /\ Len(page') \in 1..PageSize
        /\ \A e \in Range(page') : e.key \in Keys /\ IsAfter(mem, e.key) /\ e = ChangeOf(e.key)
        /\ \A i, j \in DOMAIN page' : i < j => After(dbRank, page'[i], page'[j])
        /\ \A k \in Keys : IsAfter(mem, k) => ChangeOf(k) \in Range(page') \/ After(dbRank, page'[Len(page')], Stamp(k))
    BY <2>1 DEF IsPage
  <2>4. Len(page') <= PageSize /\ page' # <<>> /\ Len(page') \in Nat /\ 0 <= Len(page')
    <3> DEFINE n == Len(page')
    <3> HIDE DEF n
    <3>1. n \in 1..PageSize => n <= PageSize /\ n # 0 /\ n \in Nat /\ 0 <= n
      BY SMTT(300), PollingAssumption
    <3> QED
      BY <2>3, <3>1, EmptyIs DEF n
  <2>5. \A p \in Peers : staged'[p] <= Len(page')
    BY <1>1, <2>2, <2>4 DEF PageIsSafe
  <2>6. Sends => \A p \in Peers, k \in Keys : rows'[k].owner = Local /\ ~After(dbRank', page'[Len(page')], Stamp(k)') =>
          Stamp(k)' \in Handled(p)' \/ ChangeOf(k)' \in Range(page')
    <3>1. ASSUME Sends, NEW p \in Peers, NEW k \in Keys, rows[k].owner = Local, ~After(dbRank, page'[Len(page')], Stamp(k))
          PROVE  Stamp(k) \in Handled(p) \/ ChangeOf(k) \in Range(page')
      <4>1. CASE IsAfter(mem, k)
        BY <2>3, <3>1, <4>1
      <4>2. CASE ~IsAfter(mem, k)
        <5>1. ~After(dbRank, mem, Stamp(k))
          BY <3>1, <4>2, IsAfterIs
        <5> QED
          BY <1>1, <2>2, <3>1, <5>1 DEF SessionIsSafe, IsSafe
      <4> QED
        BY <4>1, <4>2
    <3> QED
      BY <2>2, <3>1 DEF Stamp, ChangeOf, Handled
  <2> QED
    BY <2>2, <2>3, <2>4, <2>5, <2>6 DEF PageIsSafe, LastRow
<1>3. CASE FinishPage \/ SessionFails
  <2>1. page' = <<>> /\ staged' = [p \in Peers |-> 0]
    BY <1>3 DEF FinishPage, SessionFails
  <2>2. \A p \in Peers : staged'[p] <= Len(page')
    <3>1. 0 <= 0
      BY SMTT(300)
    <3> QED
      BY <2>1, <3>1, EmptyIs
  <2>3. Len(page') <= PageSize
    BY SMTT(300), <2>1, PollingAssumption
  <2> QED
    BY <2>1, <2>2, <2>3, EmptyIs DEF PageIsSafe
<1>4. ASSUME page' = page, on => on'
      PROVE  /\ Len(page') <= PageSize /\ (page' # <<>> => on')
             /\ \A i, j \in DOMAIN page' : i < j => After(dbRank', page'[i], page'[j])
             /\ \A e, f \in Range(page') : e.key = f.key => e = f
             /\ page' # <<>> /\ Sends => \A p \in Peers, k \in Keys :
                  rows'[k].owner = Local /\ ~After(dbRank', LastRow', Stamp(k)') =>
                    Stamp(k)' \in Handled(p)' \/ ChangeOf(k)' \in Range(page')
  <2>1. LastRow' = LastRow
    BY <1>4 DEF LastRow
  <2>2. ASSUME page # <<>>, Sends, NEW p \in Peers, NEW k \in Keys, rows'[k].owner = Local,
               ~After(dbRank, LastRow, Stamp(k)'), Stamp(k)' \notin missed'
        PROVE  Stamp(k)' \in Handled(p)' \/ ChangeOf(k)' \in Range(page)
    <3>1. PICK z : z = LastRow
      OBVIOUS
    <3>2. Seen(z)
      BY <1>1, <2>2, <3>1, LastRowIs DEF EventsAreSeen
    <3>3. IsReached(z)
      BY <1>1, <3>2, SeenIsReached
    <3>4. /\ rows[k].owner = Local /\ Stamp(k)' = Stamp(k) /\ ChangeOf(k)' = ChangeOf(k)
          /\ Stamp(k) \notin missed /\ ~After(dbRank, z, Stamp(k))
      BY <1>1, <2>2, <3>1, <3>3, NewRowIs
    <3> QED
      BY <1>1, <2>2, <3>1, <3>4 DEF PageIsSafe, Handled, Advances
  <2>3. \A p \in Peers : missed' \subseteq Handled(p)'
    BY DEF Handled
  <2> QED
    BY <1>1, <1>4, <2>1, <2>2, <2>3 DEF PageIsSafe, Advances
<1>5. ASSUME NEW p \in Peers, EnqueueChunk(p) PROVE PageIsSafe'
  <2>1. Chunk(p) # <<>> /\ page # <<>> /\ staged' = [staged EXCEPT ![p] = @ + Len(Chunk(p))] /\ UNCHANGED <<page, on>>
    BY <1>5 DEF EnqueueChunk
  <2>2. PICK end : IsChunk(p, end)
    BY <1>1, <2>1, ChunkIs
  <2>3. staged[p] + Len(Chunk(p)) = end /\ end <= Len(page)
    BY <1>1, <2>2, ChunkHas DEF IsChunk
  <2>4. \A q \in Peers : staged'[q] <= Len(page')
    <3>1. staged \in [Peers -> Nat]
      BY <1>1 DEF Types
    <3>2. staged'[p] = end /\ \A q \in Peers : q # p => staged'[q] = staged[q]
      BY <2>1, <2>3, <3>1
    <3> QED
      BY <1>1, <2>1, <2>3, <3>2 DEF PageIsSafe
  <2> QED
    BY <1>4, <2>1, <2>4 DEF PageIsSafe
<1>6. CASE page' = page /\ staged' = staged /\ (on => on')
  <2>1. (page = <<>> => staged = [p \in Peers |-> 0]) /\ \A p \in Peers : staged[p] <= Len(page)
    BY <1>1 DEF PageIsSafe
  <2> QED
    BY <1>4, <1>6, <2>1 DEF PageIsSafe
<1>7. StartSession => page' = page /\ staged' = staged /\ on'
  BY DEF StartSession
<1> QED
  BY <1>2, <1>3, <1>5, <1>6, <1>7, UnchangedSession

LEMMA StagedStep ==
  ASSUME Basics, [Next]_vars
  PROVE  StagedIsSent'
<1>1. Types /\ Types' /\ Advances /\ PageIsSafe /\ StagedIsSent
  BY TypesStep DEF Basics
<1>2. CASE page' = <<>>
  BY <1>2, EmptyIs DEF StagedIsSent
<1>3. CASE page' = page /\ staged' = staged
  BY <1>1, <1>3 DEF StagedIsSent, StampOf, Advances
<1>4. CASE Poll
  <2>1. page = <<>> /\ staged' = staged
    BY <1>4 DEF Poll
  <2>2. \A p \in Peers : staged'[p] = 0
    BY <1>1, <2>1 DEF PageIsSafe
  <2>3. \A i \in DOMAIN page' : ~(i <= 0)
    <3>1. page' \in Seq(PolledEvents)
      BY <1>1 DEF Types
    <3> QED
      BY SMTT(300), <3>1
  <2> QED
    BY <2>2, <2>3 DEF StagedIsSent
<1>5. ASSUME NEW p \in Peers, EnqueueChunk(p) PROVE StagedIsSent'
  <2>1. /\ Chunk(p) # <<>> /\ staged' = [staged EXCEPT ![p] = @ + Len(Chunk(p))] /\ page' = page
        /\ sent' = [sent EXCEPT ![p] = @ \cup {StampOf(e) : e \in Range(Chunk(p))}]
    BY <1>5 DEF EnqueueChunk
  <2>2. PICK end : IsChunk(p, end)
    BY <1>1, <2>1, ChunkIs
  <2>3. /\ \A i \in DOMAIN page : staged[p] < i /\ i <= end => page[i] \in Range(Chunk(p))
        /\ staged[p] + Len(Chunk(p)) = end /\ end \in DOMAIN page
    BY <1>1, <2>2, ChunkHas
  <2>4. staged \in [Peers -> Nat] /\ sent \in [Peers -> SUBSET Drawn] /\ DOMAIN page = 1..Len(page) /\ Len(page) \in Nat
    BY <1>1, EventsAre DEF Types
  <2>5. staged'[p] = end /\ \A q \in Peers : q # p => staged'[q] = staged[q]
    BY <2>1, <2>3, <2>4
  <2>6. /\ sent'[p] = sent[p] \cup {StampOf(e) : e \in Range(Chunk(p))}
        /\ \A q \in Peers : q # p => sent'[q] = sent[q]
    BY <2>1, <2>4
  <2>7. ASSUME NEW i \in DOMAIN page, i <= end PROVE StampOf(page[i]) \in sent'[p]
    <3>1. i <= staged[p] \/ staged[p] < i
      BY SMTT(300), <2>4
    <3>2. CASE i <= staged[p]
      BY <1>1, <2>6, <3>2 DEF StagedIsSent
    <3>3. CASE staged[p] < i
      BY <2>3, <2>6, <2>7, <3>3
    <3> QED
      BY <3>1, <3>2, <3>3
  <2>8. \A q \in Peers : \A i \in DOMAIN page : i <= staged'[q] => StampOf(page[i]) \in sent'[q]
    BY <1>1, <2>5, <2>6, <2>7 DEF StagedIsSent
  <2> QED
    BY <2>1, <2>8 DEF StagedIsSent, StampOf
<1>6. /\ FinishPage \/ SessionFails => page' = <<>>
      /\ StartSession => page' = page /\ staged' = staged
  BY DEF FinishPage, SessionFails, StartSession
<1> QED
  BY <1>2, <1>3, <1>4, <1>5, <1>6, UnchangedSession

LEMMA BasicsInit ==
  ASSUME Init
  PROVE  Basics
<1>1. /\ dbRank \in DbRanks
      /\ rows = [k \in Keys |-> IF k \in Initial THEN [owner |-> Local, ver |-> 1] ELSE [owner |-> "absent", ver |-> 0]]
      /\ writing = {} /\ clock = 1 /\ drawn = {Stamp(k) : k \in Initial}
      /\ saved \in [source : {"", "cdc"}, ver : {0}, key : {0}]
      /\ on = FALSE /\ stopped = FALSE /\ mem = ZeroCursor /\ page = <<>> /\ staged = [p \in Peers |-> 0]
      /\ outbox = [p \in Peers |-> <<>>]
      /\ peer = [p \in Peers |-> [rows |-> [id \in Ids |-> NoRow], cursors |-> [t \in Tables |-> ZeroCursor]]]
      /\ reach = ZeroCursor /\ missed = {} /\ faults = 0
      /\ sent = [p \in Peers |-> {}] /\ rebased = [p \in Peers |-> {}]
  BY DEF Init
<1>2. 1 \in 1..MaxClock /\ 0 \in 0..MaxClock /\ 1 \in 0..MaxClock /\ 0 \in 0..MaxFaults /\ MaxValue \in Nat
  BY SMTT(300), PollingAssumption
<1>3. ASSUME NEW k \in Keys
      PROVE  /\ rows[k] \in [owner : {"absent", Local, "elsewhere"}, ver : 0..MaxClock]
             /\ k \in Initial => rows[k].ver = 1
             /\ k \notin Initial => rows[k].owner = "absent"
  <2>1. CASE k \in Initial
    <3>1. rows[k] = [owner |-> Local, ver |-> 1]
      BY <1>1, <2>1
    <3> QED
      BY SMTT(300), <1>2, <2>1, <3>1
  <2>2. CASE k \notin Initial
    <3>1. rows[k] = [owner |-> "absent", ver |-> 0]
      BY <1>1, <2>2
    <3> QED
      BY SMTT(300), <1>2, <2>2, <3>1
  <2> QED
    BY <2>1, <2>2
<1>4. rows \in [Keys -> [owner : {"absent", Local, "elsewhere"}, ver : 0..MaxClock]]
  <2> DEFINE R == [owner : {"absent", Local, "elsewhere"}, ver : 0..MaxClock]
             f(k) == IF k \in Initial THEN [owner |-> Local, ver |-> 1] ELSE [owner |-> "absent", ver |-> 0]
  <2>1. rows = [k \in Keys |-> f(k)]
    BY <1>1
  <2>2. \A k \in Keys : rows[k] \in R
    BY <1>3
  <2> HIDE DEF R, f
  <2> QED
    BY <2>1, <2>2 DEF R
<1>5. ZeroCursor \in Cursors
  BY <1>2 DEF ZeroCursor, Cursors
<1>6. drawn \subseteq Drawn
  <2>1. \A k \in Initial : Stamp(k) \in Drawn
    BY <1>2, <1>3, PollingAssumption DEF Stamp, Drawn
  <2> QED
    BY <1>1, <2>1
<1>7. saved \in [source : {"", "cdc", "polling"}, ver : 0..MaxClock, key : Keys \cup {0}] /\ saved.ver = 0
  BY <1>1, <1>2
<1>8. peer \in [Peers -> PeerStates]
  <2>1. [rows |-> [id \in Ids |-> NoRow], cursors |-> [t \in Tables |-> ZeroCursor]] \in PeerStates
    BY <1>5 DEF PeerStates, RowType
  <2> QED
    BY <1>1, <2>1
<1>9. outbox \in [Peers -> Seq(Seq(PolledEvents))] /\ \A p \in Peers : DOMAIN outbox[p] = {}
  <2>1. <<>> \in Seq(Seq(PolledEvents))
    BY SMTT(300)
  <2> QED
    BY <1>1, <2>1, EmptyIs
<1>10. Types
  BY <1>1, <1>2, <1>4, <1>5, <1>6, <1>7, <1>8, <1>9, EmptyIs DEF Types
<1>11. WritersAreApart
  BY <1>1, <1>3, PollingAssumption DEF WritersAreApart
<1>12. \A p \in Peers : peer[p].cursors[Table] = ZeroCursor
  <2>1. Table \in Tables
    BY PollingAssumption
  <2> QED
    BY <1>1, <2>1
<1>13. EventsAreSeen
  BY <1>1, <1>9, <1>12, EmptyIs DEF EventsAreSeen
<1>14. SessionIsSafe
  BY <1>1, <1>7 DEF SessionIsSafe
<1>15. PageIsSafe
  <2>1. 0 <= 0 /\ 0 <= PageSize
    BY SMTT(300), PollingAssumption
  <2>2. Len(page) <= PageSize /\ \A p \in Peers : staged[p] <= Len(page)
    BY <1>1, <2>1, EmptyIs
  <2> QED
    BY <1>1, <2>2, EmptyIs DEF PageIsSafe
<1>16. BatchesAreChunks
  BY <1>9 DEF BatchesAreChunks
<1>17. StagedIsSent
  BY <1>1, EmptyIs DEF StagedIsSent
<1> QED
  BY <1>10, <1>11, <1>13, <1>14, <1>15, <1>16, <1>17 DEF Basics

LEMMA BasicsStep ==
  ASSUME Basics, [Next]_vars
  PROVE  Basics'
BY TypesStep, WritersStep, SeenStep, SessionStep, PageStep, StagedStep, BatchesStep DEF Basics

LEMMA BasicsAlways == Spec => []Basics
<1>1. Init => Basics
  BY BasicsInit
<1>2. Basics /\ [Next]_vars => Basics'
  BY BasicsStep
<1> QED
  BY <1>1, <1>2, PTL DEF Spec

\* Rows, cursors, pages and batches keep their types, pages their limit and batches theirs
\* (ChangefeedPollingListTableChanges, HandleBatch, CommitStateAppliedTransaction).
THEOREM TypeCorrect == Spec => []TypeOK
<1>1. Basics => TypeOK
  <2> SUFFICES ASSUME Basics PROVE TypeOK
    OBVIOUS
  <2>1. Types /\ PageIsSafe /\ BatchesAreChunks
    BY DEF Basics
  <2>2. 1..MaxClock \subseteq 0..MaxClock
    BY SMTT(300)
  <2>3. Drawn \subseteq Stamps /\ Writers \subseteq [keys : SUBSET Keys, ver : 0..MaxClock, owner : {Local, "elsewhere"}]
    BY <2>2 DEF Drawn, Stamps, Writers
  <2>4. saved.source \in {"", "cdc", "polling"} /\ Position(saved) \in Cursors
    BY <2>1 DEF Types, Position, Cursors
  <2>5. staged \in [Peers -> 0..PageSize] /\ Len(page) <= PageSize
    <3>1. \A p \in Peers : staged[p] \in Nat /\ staged[p] <= Len(page) /\ Len(page) <= PageSize /\ Len(page) \in Nat
      BY <2>1, EventsAre DEF Types, PageIsSafe
    <3>2. \A p \in Peers : staged[p] \in 0..PageSize
      BY SMTT(300), <3>1, PollingAssumption
    <3> QED
      BY <2>1, <3>2 DEF Types, PageIsSafe
  <2>6. \A p \in Peers : peer[p].rows \in [Ids -> RowType({Local})] /\ peer[p].cursors \in [Tables -> Cursors]
    BY <2>1 DEF Types, PeerStates
  <2> QED
    BY <2>1, <2>3, <2>4, <2>5, <2>6 DEF TypeOK, Types, BatchesAreChunks
<1> QED
  BY <1>1, BasicsAlways, PTL

\* The next session reads on from a cursor that has passed no row unless it is staged for
\* every peer, came too late or was passed over by a baseline before the first page was saved,
\* whatever sessions failed in between (saveCursor after the errgroup, restoreCursors).
THEOREM CursorCoversStaged == Spec => []SavedCursorCoversStaged
<1>1. Basics => SavedCursorCoversStaged
  <2> SUFFICES ASSUME Basics, NEW p \in Peers, NEW k \in Keys, rows[k].owner = Local, saved.ver # 0, ~IsAfter(saved, k)
               PROVE  Stamp(k) \in sent[p] \cup missed \cup rebased[p]
    BY DEF SavedCursorCoversStaged
  <2>1. ~After(dbRank, saved, Stamp(k))
    BY IsAfterIs
  <2> QED
    BY <2>1 DEF Basics, SessionIsSafe, IsSafe, Handled
<1> QED
  BY <1>1, BasicsAlways, PTL

-----------------------------------------------------------------------------
(* Delivery.  Both modes must allow upserts: else polling sends nothing, or the peers apply *)
(* nothing.                                                                  *)
Replicates == Sends /\ Allowed(ApplyMode, "upsert")

\* A row that is stale at c and not collated does not come after c in the database either.
LEMMA OrdersAgree ==
  ASSUME NEW d \in [Keys -> Nat], NEW D, NEW k \in Keys, NEW v \in Nat, NEW c, c.ver \in Nat, c.key \in Keys,
         [key |-> c.key, ver |-> c.ver] \in D, ~\E s \in D : s.ver = v /\ s.key > k /\ d[s.key] < d[k],
         Stale(EventFor(k, v), c), NEW x, x.key = k, x.ver = v
  PROVE  ~After(d, c, x)
<1> SUFFICES ASSUME After(d, c, x) PROVE FALSE
  OBVIOUS
<1>1. Position(EventFor(k, v)).ver = v /\ Position(EventFor(k, v)).key = k
  BY DEF Position, EventFor
<1>2. ~(c.ver < v \/ (c.ver = v /\ c.key < k))
  BY <1>1 DEF Stale, Before
<1>3. v > c.ver \/ (v = c.ver /\ d[k] > d[c.key])
  BY DEF After
<1>4. k \in Nat /\ c.key \in Nat /\ d[k] \in Nat /\ d[c.key] \in Nat
  BY ApplyAssumption
<1>5. d[k] # d[c.key] => k # c.key
  OBVIOUS
<1>6. v = c.ver /\ c.key > k /\ d[c.key] < d[k]
  BY SMTT(300), <1>2, <1>3, <1>4, <1>5
<1> DEFINE s == [key |-> c.key, ver |-> c.ver]
<1>7. s \in D /\ s.key = c.key /\ s.ver = c.ver
  OBVIOUS
<1> HIDE DEF s
<1> QED
  BY <1>6, <1>7

LEMMA TimelyStays ==
  ASSUME Types, Types', WritersAreApart', Advances, NEW p \in Peers, NEW k \in Keys, Timely(p, k)'
  PROVE  \/ Timely(p, k) /\ rows'[k] = rows[k] /\ ChangeOf(k)' = ChangeOf(k) /\ Stamp(k)' = Stamp(k)
         \/ rows[k].ver < rows'[k].ver /\ After(dbRank, reach, Stamp(k)')
<1>1. rows'[k].owner = Local /\ Stamp(k)' \notin missed' \cup rebased'[p] /\ ~Collated(k)'
  BY DEF Timely
<1>2. CASE rows'[k] = rows[k]
  <2>1. Stamp(k)' = Stamp(k) /\ ChangeOf(k)' = ChangeOf(k)
    BY <1>2 DEF Stamp, ChangeOf
  <2>2. ~Collated(k)
    BY <1>1, <1>2 DEF Collated, Advances
  <2> QED
    BY <1>1, <1>2, <2>1, <2>2 DEF Timely, Advances
<1>3. CASE rows'[k] # rows[k]
  BY <1>1, <1>3 DEF Advances
<1> QED
  BY <1>2, <1>3

\* A write that commits in time comes after everything that was read.
LEMMA SourceDelivers ==
  ASSUME Basics, Delivered, Source
  PROVE  Delivered'
<1>1. /\ Types /\ Types' /\ Advances /\ WritersAreApart' /\ EventsAreSeen /\ EventsAreSeen'
  BY TypesStep, WritersStep, SeenStep DEF Basics, Next
<1>2. UNCHANGED <<page, staged, outbox, peer, sent, reach, dbRank>>
  BY DEF Source, BeginWrite, CommitWrite, DeleteRow, session, history
<1>3. \A p \in Peers, k \in Keys : Timely(p, k)' =>
        \/ Timely(p, k) /\ rows'[k] = rows[k] /\ ChangeOf(k)' = ChangeOf(k) /\ Stamp(k)' = Stamp(k)
        \/ rows[k].ver < rows'[k].ver /\ After(dbRank, reach, Stamp(k)')
  BY <1>1, TimelyStays
<1>4. \A k \in Keys : /\ rows[k].ver \in Nat /\ rows'[k].ver \in Nat /\ Stamp(k)'.key = k /\ Stamp(k)'.ver = rows'[k].ver
                      /\ ChangeOf(k)' = EventFor(k, rows'[k].ver)
  <2>1. \A k \in Keys : rows[k].ver \in 0..MaxClock /\ rows'[k].ver \in 0..MaxClock
    BY <1>1 DEF Types
  <2>2. \A k \in Keys : rows[k].ver \in Nat /\ rows'[k].ver \in Nat
    BY SMTT(300), <2>1
  <2> QED
    BY <2>2 DEF Stamp, ChangeOf, EventFor
\* No version of the row that was read is as late as this one.
<1>5. ASSUME NEW k \in Keys, rows[k].ver < rows'[k].ver, NEW s, Seen(s), s.key = k
      PROVE  s.ver # rows'[k].ver
  <2>1. s.ver <= rows[k].ver
    BY <1>5 DEF Seen
  <2> QED
    BY SMTT(300), <1>4, <1>5, <2>1
<1>6. ASSUME NEW p \in Peers, NEW k \in Keys, Timely(p, k)', After(dbRank, reach, Stamp(k)'), NEW s, Seen(s)
      PROVE  After(dbRank, s, Stamp(k)')
  <2>1. Stamp(k)' \in Drawn
    BY <1>1, <1>6 DEF Timely, WritersAreApart, Types
  <2>2. IsReached(s)
    BY <1>1, <1>6, SeenIsReached
  <2> QED
    BY <1>6, <2>1, <2>2 DEF IsReached
<1>7. ASSUME NEW p \in Peers, NEW k \in Keys, Timely(p, k)', Stale(ChangeOf(k)', peer'[p].cursors[Table])
      PROVE  IsDone(peer'[p], k, rows'[k].ver)
  <2>1. CASE Timely(p, k) /\ rows'[k] = rows[k] /\ ChangeOf(k)' = ChangeOf(k)
    BY <1>2, <1>7, <2>1 DEF Delivered, AppliedInTime
  <2>2. CASE After(dbRank, reach, Stamp(k)')
    <3> DEFINE c == peer[p].cursors[Table]
               v == rows'[k].ver
    <3>1. c = ZeroCursor \/ Seen(c)
      BY <1>1 DEF EventsAreSeen
    <3>2. Stale(EventFor(k, v), c) /\ v \in Nat /\ v # 0
      <4>1. Stamp(k)' \in Drawn /\ Stamp(k)'.ver = v
        BY <1>1, <1>4, <1>7 DEF Timely, WritersAreApart, Types
      <4>2. v \in 1..MaxClock
        BY <4>1, DrawnIs
      <4>3. v # 0
        BY SMTT(300), <4>2
      <4> QED
        BY <1>2, <1>4, <1>7, <4>3
    <3>3. c # ZeroCursor
      <4>1. ~Stale(EventFor(k, v), ZeroCursor)
        <5>1. Position(EventFor(k, v)).ver = v /\ ZeroCursor.ver = 0
          BY DEF Position, EventFor, ZeroCursor
        <5>2. ZeroCursor.ver < Position(EventFor(k, v)).ver
          BY SMTT(300), <3>2, <5>1
        <5> QED
          BY <5>2 DEF Stale, Before
      <4> QED
        BY <3>2, <4>1
    <3>4. After(dbRank, c, Stamp(k)')
      BY <1>6, <1>7, <2>2, <3>1, <3>3
    <3>5. [key |-> c.key, ver |-> c.ver] \in drawn' /\ c.key \in Keys /\ c.ver \in Nat
      <4> DEFINE x == [key |-> c.key, ver |-> c.ver]
      <4>1. x \in drawn /\ x \in Drawn /\ x.key = c.key /\ x.ver = c.ver
        BY <1>1, <3>1, <3>3 DEF Seen, Types
      <4> HIDE DEF x
      <4>2. x.key \in Keys /\ x.ver \in Nat /\ x \in drawn'
        BY <1>1, <4>1, DrawnIs DEF Advances
      <4> QED
        BY <4>1, <4>2 DEF x
    <3>6. ~\E s \in drawn' : s.ver = v /\ s.key > k /\ dbRank[s.key] < dbRank[k]
      BY <1>2, <1>7 DEF Timely, Collated
    <3>7. dbRank \in [Keys -> Nat]
      BY <1>1, RankIs
    <3>8. Stamp(k)'.key = k /\ Stamp(k)'.ver = v
      BY <1>4
    <3> HIDE DEF c, v
    <3>9. ~After(dbRank, c, Stamp(k)')
      BY <3>2, <3>5, <3>6, <3>7, <3>8, OrdersAgree
    <3> QED
      BY <3>4, <3>9
  <2> QED
    BY <1>3, <1>7, <2>1, <2>2
<1>8. ASSUME NEW p \in Peers, NEW k \in Keys, NEW n \in DOMAIN outbox'[p], NEW e \in Range(outbox'[p][n]),
             Timely(p, k)', ~After(dbRank', e, Stamp(k)')
      PROVE  \/ IsDone(peer'[p], k, rows'[k].ver)
             \/ \E m \in DOMAIN outbox'[p] : m <= n /\ ChangeOf(k)' \in Range(outbox'[p][m])
  <2>1. Seen(e)
    BY <1>1, <1>2 DEF EventsAreSeen
  <2>2. Timely(p, k) /\ rows'[k] = rows[k] /\ ChangeOf(k)' = ChangeOf(k) /\ Stamp(k)' = Stamp(k)
    BY <1>2, <1>3, <1>6, <1>8, <2>1
  <2> QED
    BY <1>2, <1>8, <2>2 DEF Delivered, QueuedInTime
<1>9. ASSUME NEW p \in Peers, NEW k \in Keys, Timely(p, k)', Stamp(k)' \in sent'[p] PROVE IsSent(p, k)'
  <2>1. Seen(Stamp(k)')
    BY <1>1, <1>2, <1>9 DEF EventsAreSeen
  <2>2. Timely(p, k) /\ rows'[k] = rows[k] /\ ChangeOf(k)' = ChangeOf(k) /\ Stamp(k)' = Stamp(k)
    BY <1>3, <1>4, <1>5, <1>9, <2>1
  <2> QED
    BY <1>2, <1>9, <2>2 DEF Delivered, SentArrives, IsSent
<1> QED
  BY <1>7, <1>8, <1>9 DEF Delivered, AppliedInTime, QueuedInTime, SentArrives

\* The steps of the work leave the rows as they are.
LEMMA TimelyNow ==
  ASSUME Basics, [Next]_vars, ~Source
  PROVE  /\ UNCHANGED <<rows, dbRank>> /\ \A p \in Peers, k \in Keys : Timely(p, k)' => Timely(p, k)
         /\ \A k : ChangeOf(k)' = ChangeOf(k) /\ Stamp(k)' = Stamp(k)
<1>1. Advances
  BY TypesStep
<1>2. rows' = rows /\ drawn' = drawn /\ dbRank' = dbRank
  BY <1>1, UnchangedRows DEF Advances
<1>3. \A k : ChangeOf(k)' = ChangeOf(k) /\ Stamp(k)' = Stamp(k)
  BY <1>2 DEF ChangeOf, Stamp
<1> QED
  BY <1>1, <1>2, <1>3 DEF Timely, Collated, Advances

\* The session itself changes neither what is staged nor what the peers have.
LEMMA SessionDelivers ==
  ASSUME Basics, Delivered, [Next]_vars, ~Source, \A p \in Peers : ~EnqueueChunk(p) /\ ~PeerApply(p)
  PROVE  Delivered'
<1>1. /\ UNCHANGED <<rows, dbRank, outbox, peer>> /\ \A p \in Peers, k \in Keys : Timely(p, k)' => Timely(p, k)
      /\ \A k : ChangeOf(k)' = ChangeOf(k) /\ Stamp(k)' = Stamp(k)
  BY TimelyNow, UnchangedPeers
<1>2. sent' = sent
  <2>1. StartSession \/ Poll \/ FinishPage \/ SessionFails => sent' = sent
    BY DEF StartSession, Poll, FinishPage, SessionFails, history
  <2> QED
    BY <2>1, UnchangedSession
<1>3. AppliedInTime' /\ QueuedInTime'
  BY <1>1 DEF Delivered, AppliedInTime, QueuedInTime
<1>4. \A p \in Peers, k \in Keys : IsSent(p, k)' <=> IsSent(p, k)
  BY <1>1 DEF IsSent
<1>5. SentArrives'
  BY <1>1, <1>2, <1>4 DEF Delivered, SentArrives
<1> QED
  BY <1>3, <1>5 DEF Delivered

\* The outbox after a chunk was enqueued.
IsGrown(p) ==
  /\ \A q \in Peers : \A n \in DOMAIN outbox[q] : n \in DOMAIN outbox'[q] /\ outbox'[q][n] = outbox[q][n]
  /\ \A q \in Peers : \A n \in DOMAIN outbox'[q] :
       \/ n \in DOMAIN outbox[q]
       \/ q = p /\ outbox'[q][n] = Chunk(q) /\ n <= n /\ \A m \in DOMAIN outbox[q] : m <= n
  /\ IsPending(p, Chunk(p)) \/ \E n \in DOMAIN outbox'[p] : outbox'[p][n] = Chunk(p)

LEMMA OutboxGrows ==
  ASSUME Types, PageIsSafe, NEW p \in Peers, EnqueueChunk(p)
  PROVE  IsGrown(p)
<1> DEFINE c == Chunk(p)
           Q == Seq(PolledEvents)
<1>1. outbox \in [Peers -> Seq(Q)]
  BY DEF Types
<1>2. c # <<>> /\ outbox' = IF IsPending(p, c) THEN outbox ELSE [outbox EXCEPT ![p] = Append(@, c)]
  BY DEF EnqueueChunk
<1>3. c \in Q
  BY <1>2, ChunkIs DEF IsChunk, IsSlice
<1> HIDE DEF c, Q
<1>4. CASE IsPending(p, c)
  <2>1. outbox' = outbox
    BY <1>2, <1>4
  <2> QED
    BY <1>4, <2>1 DEF IsGrown, c
<1>5. CASE ~IsPending(p, c)
  <2> DEFINE o == outbox[p]
             L == Len(o) + 1
  <2>1. outbox'[p] = Append(o, c) /\ \A q \in Peers : q # p => outbox'[q] = outbox[q]
    BY <1>1, <1>2, <1>5
  <2>2. o \in Seq(Q)
    BY <1>1
  <2> HIDE DEF o
  <2>3. /\ Len(o) \in Nat /\ L \in DOMAIN Append(o, c) /\ Append(o, c)[L] = c
        /\ \A n \in DOMAIN Append(o, c) : n \in DOMAIN o \/ n = L
        /\ \A n \in DOMAIN o : n \in DOMAIN Append(o, c) /\ Append(o, c)[n] = o[n] /\ n \in 1..L
    BY SMTT(300), <1>3, <2>2, AppendIs
  <2>4. L <= L /\ \A n \in DOMAIN o : n <= L
    BY SMTT(300), <2>3
  <2> HIDE DEF L
  <2>5. \A q \in Peers : \A n \in DOMAIN outbox[q] : n \in DOMAIN outbox'[q] /\ outbox'[q][n] = outbox[q][n]
    BY <2>1, <2>3 DEF o
  <2>6. \A q \in Peers : \A n \in DOMAIN outbox'[q] :
          \/ n \in DOMAIN outbox[q]
          \/ q = p /\ outbox'[q][n] = Chunk(q) /\ n <= n /\ \A m \in DOMAIN outbox[q] : m <= n
    BY <2>1, <2>3, <2>4 DEF o, c
  <2> QED
    BY <2>1, <2>3, <2>5, <2>6 DEF IsGrown, c
<1> QED
  BY <1>4, <1>5

\* Before an event on the page come only rows that are staged, passed over or on the page
\* before it.
LEMMA BeforeOnPage ==
  ASSUME Basics, Sends, NEW p \in Peers, NEW k \in Keys, Timely(p, k), NEW i \in DOMAIN page, ~After(dbRank, page[i], Stamp(k))
  PROVE  Stamp(k) \in sent[p] \/ \E j \in DOMAIN page : j <= i /\ page[j] = ChangeOf(k)
<1>1. Types /\ PageIsSafe
  BY DEF Basics
<1> DEFINE e == page[i]
           s == Stamp(k)
           z == LastRow
           L == Len(page)
<1>2. page # <<>> /\ e \in Range(page)
  BY EmptyIs DEF Range
<1>3. /\ e \in PolledEvents /\ z \in PolledEvents /\ L \in DOMAIN page /\ L \in Nat /\ DOMAIN page = 1..L
      /\ \A x \in Range(page) : x \in PolledEvents
  BY <1>1, <1>2, EventsAre, LastRowIs
<1>4. /\ e.key \in Keys /\ e.ver \in Nat /\ z.key \in Keys /\ z.ver \in Nat
  BY <1>3, EventParts
<1>5. s.key \in Keys /\ s.ver \in Nat /\ s.key = ChangeOf(k).key /\ s.ver = ChangeOf(k).ver
  BY <1>1, RowIs
<1>6. i = L \/ i < L
  <2> HIDE DEF L
  <2>1. i \in 1..L /\ L \in Nat
    BY <1>3
  <2> QED
    BY SMTT(300), <2>1
<1>7. e = z \/ After(dbRank, e, z)
  BY <1>1, <1>3, <1>6 DEF PageIsSafe, LastRow
<1>8. ~After(dbRank, z, s)
  <2>1. After(dbRank, e, z) /\ After(dbRank, z, s) => After(dbRank, e, s)
    <3>1. e.key \in Keys \cup {0}
      BY <1>4
    <3> HIDE DEF e, z, s
    <3> QED
      BY <1>1, <1>4, <1>5, <3>1, RankIs, AfterIs
  <2> QED
    BY <1>7, <2>1
<1>9. s \in sent[p] \/ ChangeOf(k) \in Range(page)
  BY <1>1, <1>2, <1>8 DEF PageIsSafe, Timely, Handled
<1>10. ASSUME NEW j \in DOMAIN page, page[j] = ChangeOf(k) PROVE j <= i
  <2>1. ~After(dbRank, e, page[j])
    BY <1>5, <1>10 DEF After
  <2>2. ~(i < j)
    BY <1>1, <2>1 DEF PageIsSafe
  <2>3. i \in 1..L /\ j \in 1..L /\ L \in Nat
    BY <1>3
  <2> HIDE DEF L
  <2> QED
    BY SMTT(300), <2>2, <2>3
<1> QED
  BY <1>9, <1>10 DEF Range

LEMMA BatchHas ==
  ASSUME Types, NEW p \in Peers, NEW n \in DOMAIN outbox[p]
  PROVE  outbox[p][n] \in Seq(PolledEvents) /\ \A e \in Range(outbox[p][n]) : e \in PolledEvents
<1> DEFINE Q == Seq(PolledEvents)
<1>1. outbox[p] \in Seq(Q)
  BY DEF Types
<1> HIDE DEF Q
<1>2. outbox[p][n] \in Q
  BY SMTT(300), <1>1
<1> QED
  BY <1>2, MembersAre DEF Q

LEMMA EnqueueIsWork ==
  ASSUME Types, NEW p \in Peers, EnqueueChunk(p) \/ PeerApply(p)
  PROVE  Next /\ UNCHANGED <<rows, dbRank, drawn, missed, rebased>>
BY DEF Next, Work, EnqueueChunk, PeerApply, source, history

\* A chunk that is not enqueued because its LastEventID is pending was enqueued before: every
\* timely row up to that event is done or waits.
LEMMA EnqueueDelivers ==
  ASSUME Basics, Delivered, Sends, NEW p \in Peers, EnqueueChunk(p)
  PROVE  Delivered'
<1>1. Types /\ PageIsSafe /\ StagedIsSent /\ IsGrown(p)
  BY OutboxGrows DEF Basics
<1>2. /\ Chunk(p) # <<>> /\ staged' = [staged EXCEPT ![p] = @ + Len(Chunk(p))]
      /\ sent' = [sent EXCEPT ![p] = @ \cup {StampOf(e) : e \in Range(Chunk(p))}]
      /\ UNCHANGED <<page, peer, rows, dbRank, drawn, missed, rebased>>
  BY <1>1, EnqueueIsWork DEF EnqueueChunk
<1>3. \A k : ChangeOf(k)' = ChangeOf(k) /\ Stamp(k)' = Stamp(k) /\ \A q : Timely(q, k)' <=> Timely(q, k)
  BY <1>2 DEF ChangeOf, Stamp, Timely, Collated
<1>4. PICK end : IsChunk(p, end)
  BY <1>1, <1>2, ChunkIs
<1>5. /\ \A e \in Range(Chunk(p)) : \E i \in DOMAIN page : i <= end /\ e = page[i]
      /\ \A i \in DOMAIN page : staged[p] < i /\ i <= end => page[i] \in Range(Chunk(p))
      /\ Chunk(p) \in Seq(PolledEvents) /\ Len(Chunk(p)) \in 1..MaxEvents
      /\ Chunk(p)[Len(Chunk(p))] = page[end] /\ end \in DOMAIN page /\ staged[p] + Len(Chunk(p)) = end
  BY <1>1, <1>4, ChunkHas
<1>6. \A q \in Peers, k \in Keys : IsSent(q, k) => IsSent(q, k)'
  BY <1>1, <1>2, <1>3 DEF IsSent, IsComing, IsGrown
<1>7. AppliedInTime'
  BY <1>2, <1>3 DEF Delivered, AppliedInTime
\* What is on the page up to the chunk is staged.
<1>8. ASSUME NEW k \in Keys, Timely(p, k), NEW j \in DOMAIN page, j <= staged[p], page[j] = ChangeOf(k)
      PROVE  IsSent(p, k)
  <2>1. StampOf(ChangeOf(k)) = Stamp(k)
    BY <1>1, RowIs DEF StampOf, Stamp
  <2> QED
    BY <1>1, <1>8, <2>1 DEF StagedIsSent, Delivered, SentArrives
<1>9. DOMAIN page = 1..Len(page) /\ Len(page) \in Nat /\ staged[p] \in Nat /\ end \in Nat
  BY <1>1, <1>4, EventsAre DEF IsChunk
<1>10. ASSUME NEW k \in Keys, Timely(p, k), NEW e \in Range(Chunk(p)), ~After(dbRank, e, Stamp(k))
       PROVE  IsSent(p, k) \/ ChangeOf(k) \in Range(Chunk(p))
  <2>1. PICK i \in DOMAIN page : i <= end /\ e = page[i]
    BY <1>5
  <2>2. CASE Stamp(k) \in sent[p]
    BY <1>10, <2>2 DEF Delivered, SentArrives
  <2>3. ASSUME NEW j \in DOMAIN page, j <= i, page[j] = ChangeOf(k) PROVE IsSent(p, k) \/ ChangeOf(k) \in Range(Chunk(p))
    <3>1. j <= staged[p] \/ (staged[p] < j /\ j <= end)
      BY SMTT(300), <1>9, <2>1, <2>3
    <3> QED
      BY <1>5, <1>8, <1>10, <2>3, <3>1
  <2> QED
    BY <1>10, <2>1, <2>2, <2>3, BeforeOnPage
<1>11. ASSUME NEW q \in Peers, NEW k \in Keys, NEW n \in DOMAIN outbox'[q], NEW e \in Range(outbox'[q][n]),
              Timely(q, k), ~After(dbRank, e, Stamp(k))
       PROVE  \/ IsDone(peer[q], k, rows[k].ver)
              \/ \E m \in DOMAIN outbox'[q] : m <= n /\ ChangeOf(k) \in Range(outbox'[q][m])
  <2>1. CASE n \in DOMAIN outbox[q]
    <3>1. e \in Range(outbox[q][n])
      BY <1>1, <2>1 DEF IsGrown
    <3>2. IsDone(peer[q], k, rows[k].ver) \/ \E m \in DOMAIN outbox[q] : m <= n /\ ChangeOf(k) \in Range(outbox[q][m])
      BY <1>11, <2>1, <3>1 DEF Delivered, QueuedInTime
    <3> QED
      BY <1>1, <3>2 DEF IsGrown
  <2>2. CASE n \notin DOMAIN outbox[q]
    <3>1. q = p /\ outbox'[p][n] = Chunk(p) /\ n <= n /\ \A m \in DOMAIN outbox[p] : m <= n
      BY <1>1, <2>2 DEF IsGrown
    <3>2. IsSent(p, k) \/ ChangeOf(k) \in Range(Chunk(p))
      BY <1>10, <1>11, <3>1
    <3>3. CASE ChangeOf(k) \in Range(Chunk(p))
      BY <3>1, <3>3
    <3>4. CASE \E m \in DOMAIN outbox[p] : ChangeOf(k) \in Range(outbox[p][m])
      BY <1>1, <3>1, <3>4 DEF IsGrown
    <3> QED
      BY <3>1, <3>2, <3>3, <3>4 DEF IsSent, IsComing
  <2> QED
    BY <2>1, <2>2
<1>12. QueuedInTime'
  BY <1>2, <1>3, <1>11 DEF QueuedInTime
<1>13. ASSUME NEW k \in Keys, Timely(p, k), NEW i \in DOMAIN page, i <= end, page[i] = ChangeOf(k)
       PROVE  IsSent(p, k)'
  <2>1. CASE i <= staged[p]
    BY <1>6, <1>8, <1>13, <2>1
  <2>2. CASE ~(i <= staged[p])
    <3>1. staged[p] < i
      BY SMTT(300), <1>9, <2>2
    <3>2. ChangeOf(k) \in Range(Chunk(p))
      BY <1>5, <1>13, <3>1
    <3>3. CASE \E n \in DOMAIN outbox'[p] : outbox'[p][n] = Chunk(p)
      BY <1>3, <3>2, <3>3 DEF IsSent, IsComing
    <3>4. CASE IsPending(p, Chunk(p))
      <4>1. PICK n \in DOMAIN outbox[p] : LastEventID(outbox[p][n]) = LastEventID(Chunk(p))
        BY <3>4 DEF IsPending
      <4> DEFINE b == outbox[p][n]
                 f == b[Len(b)]
                 e == page[end]
      <4>2. b \in Seq(PolledEvents) /\ Len(b) \in 1..MaxEvents /\ \A x \in Range(b) : x \in PolledEvents
        BY <1>1, BatchHas DEF Basics, BatchesAreChunks
      <4>3. f \in Range(b) /\ f \in PolledEvents
        <5> HIDE DEF b
        <5>1. Len(b) \in DOMAIN b
          BY SMTT(300), <4>2, PollingAssumption
        <5>2. f \in Range(b)
          BY <5>1 DEF Range
        <5> QED
          BY <4>2, <5>2
      <4>4. e \in PolledEvents
        BY <1>1, <1>5, EventsAre DEF Range
      <4>5. EventID(f) = EventID(e)
        BY <1>5, <4>1 DEF LastEventID
      <4> HIDE DEF f, e
      <4>6. f = e
        <5>1. f.key = e.key /\ f.ver = e.ver
          BY <4>5 DEF EventID
        <5>2. f = EventFor(f.key, f.ver) /\ e = EventFor(e.key, e.ver)
          BY <4>3, <4>4, EventParts
        <5> QED
          BY <5>1, <5>2
      <4>7. ~After(dbRank, e, Stamp(k))
        <5> DEFINE a == page[i]
        <5>1. a = e \/ After(dbRank, a, e)
          <6>1. i = end \/ i < end
            BY SMTT(300), <1>9, <1>13
          <6> QED
            BY <1>1, <1>5, <6>1 DEF PageIsSafe, e
        <5>2. a \in PolledEvents
          BY <1>1, EventsAre DEF Range
        <5>3. a.key \in Keys /\ a.ver \in Nat /\ e.key \in Keys /\ e.ver \in Nat /\ a.key \in Keys \cup {0}
          BY <4>4, <5>2, EventParts
        <5>4. a.key = Stamp(k).key /\ a.ver = Stamp(k).ver
          BY <1>1, <1>13, RowIs
        <5> HIDE DEF a
        <5>5. ~After(dbRank, a, a) /\ (After(dbRank, a, e) => ~After(dbRank, e, a))
          BY <1>1, <5>3, RankIs, AfterIs
        <5>6. ~After(dbRank, e, a)
          BY <5>1, <5>5
        <5> QED
          BY <5>4, <5>6 DEF After
      <4>8. IsSent(p, k)
        BY <1>13, <4>3, <4>6, <4>7 DEF Delivered, QueuedInTime, IsSent, IsComing
      <4> QED
        BY <1>6, <4>8
    <3> QED
      BY <1>1, <3>3, <3>4 DEF IsGrown
  <2> QED
    BY <2>1, <2>2
<1>14. SentArrives'
  <2>1. sent \in [Peers -> SUBSET Drawn]
    BY <1>1 DEF Types
  <2>2. /\ sent'[p] = sent[p] \cup {StampOf(e) : e \in Range(Chunk(p))}
        /\ \A q \in Peers : q # p => sent'[q] = sent[q]
    BY <1>2, <2>1
  <2>3. ASSUME NEW q \in Peers, NEW k \in Keys, Timely(q, k), Stamp(k) \in sent'[q]
        PROVE  IsSent(q, k)'
    <3>1. CASE Stamp(k) \in sent[q]
      BY <1>6, <2>3, <3>1 DEF Delivered, SentArrives
    <3>2. CASE Stamp(k) \notin sent[q]
      <4>1. q = p /\ \E e \in Range(Chunk(p)) : Stamp(k) = StampOf(e)
        BY <2>2, <2>3, <3>2
      <4>2. PICK i \in DOMAIN page : i <= end /\ Stamp(k) = StampOf(page[i])
        BY <1>5, <4>1
      <4>3. page[i] = ChangeOf(k)
        <5> DEFINE e == page[i]
        <5>1. e = EventFor(e.key, e.ver)
          BY <1>1, EventsAre, EventParts DEF Range
        <5>2. Stamp(k).key = e.key /\ Stamp(k).ver = e.ver
          <6>1. StampOf(e).key = e.key /\ StampOf(e).ver = e.ver
            BY DEF StampOf
          <6> QED
            BY <4>2, <6>1
        <5>3. ChangeOf(k) = EventFor(k, rows[k].ver) /\ Stamp(k).key = k /\ Stamp(k).ver = rows[k].ver
          BY <1>1, RowIs
        <5> HIDE DEF e
        <5>4. e = ChangeOf(k)
          BY <5>1, <5>2, <5>3
        <5> QED
          BY <5>4 DEF e
      <4> QED
        BY <1>13, <2>3, <4>1, <4>2, <4>3
    <3> QED
      BY <3>1, <3>2
  <2> QED
    BY <1>3, <2>3 DEF SentArrives
<1> QED
  BY <1>7, <1>12, <1>14 DEF Delivered

\* Positions in the order of the peers.
LEMMA StaleIs ==
  ASSUME NEW k \in Keys, NEW v \in Nat, NEW u \in Nat, NEW c \in Cursors, NEW b \in Cursors
  PROVE  /\ Stale(EventFor(k, v), c) /\ ~Before(b, c) => Stale(EventFor(k, v), b)
         /\ Stale(EventFor(k, v), c) /\ u <= v => Stale(EventFor(k, u), c)
<1>1. \A w : Position(EventFor(k, w)).ver = w /\ Position(EventFor(k, w)).key = k
  BY DEF Position, EventFor
<1>2. c.ver \in 0..MaxClock /\ c.key \in Keys \cup {0} /\ b.ver \in 0..MaxClock /\ b.key \in Keys \cup {0}
  BY DEF Cursors
<1>3. c.ver \in Nat /\ c.key \in Nat /\ b.ver \in Nat /\ b.key \in Nat /\ k \in Nat
  <2>1. 0..MaxClock \subseteq Nat /\ Keys \cup {0} \subseteq Nat
    BY SMTT(300), ApplyAssumption
  <2> QED
    BY <1>2, <2>1
<1>4. \A w, d : Stale(EventFor(k, w), d) <=> ~(d.ver < w \/ (d.ver = w /\ d.key < k))
  BY <1>1 DEF Stale, Before
<1>5. Stale(EventFor(k, v), c) /\ ~Before(b, c) => Stale(EventFor(k, v), b)
  <2>1. ~Before(b, c) <=> ~(b.ver < c.ver \/ (b.ver = c.ver /\ b.key < c.key))
    BY DEF Before
  <2>2. /\ Stale(EventFor(k, v), c) <=> ~(c.ver < v \/ (c.ver = v /\ c.key < k))
        /\ Stale(EventFor(k, v), b) <=> ~(b.ver < v \/ (b.ver = v /\ b.key < k))
    BY <1>4
  <2> QED
    BY SMTT(300), <1>3, <2>1, <2>2
<1>6. Stale(EventFor(k, v), c) /\ u <= v => Stale(EventFor(k, u), c)
  <2>1. /\ Stale(EventFor(k, v), c) <=> ~(c.ver < v \/ (c.ver = v /\ c.key < k))
        /\ Stale(EventFor(k, u), c) <=> ~(c.ver < u \/ (c.ver = u /\ c.key < k))
    BY <1>4
  <2> QED
    BY SMTT(300), <1>3, <2>1
<1> QED
  BY <1>5, <1>6

\* What is done stays done, and what is in the batch is done after it.
LEMMA ApplyIsDone ==
  ASSUME Basics, AppliedInTime, Replicates, NEW p \in Peers, PeerApply(p), NEW k \in Keys, Timely(p, k),
         IsDone(peer[p], k, rows[k].ver) \/ ChangeOf(k) \in Range(outbox[p][1])
  PROVE  IsDone(peer'[p], k, rows[k].ver)
<1>1. Types /\ EventsAreSeen /\ BatchesAreChunks
  BY DEF Basics
<1> DEFINE b == outbox[p][1]
           old == peer[p]
           new == peer'[p]
           c == old.cursors[Table]
           v == rows[k].ver
<1>2. 1 \in DOMAIN outbox[p] /\ IsApplied(old, new, b)
  BY <1>1, PeerApplyStep
<1>3. /\ new \in PeerStates /\ ~Before(new.cursors[Table], c)
      /\ \/ new.rows[<<Table, k>>] = old.rows[<<Table, k>>]
         \/ \E e \in Range(b) : e.key = k /\ ~Stale(e, c)
      /\ \A e \in Range(b) :
           /\ Stale(e, new.cursors[Table])
           /\ ~Stale(e, c) => new.rows[<<Table, e.key>>] = RowFor(e.ver)
  BY <1>2 DEF IsApplied, Replicates
<1>4. c \in Cursors /\ new.cursors[Table] \in Cursors
  <2>1. old \in PeerStates /\ Table \in Tables
    BY <1>1, PollingAssumption DEF Types
  <2> QED
    BY <1>3, <2>1 DEF PeerStates
<1>5. v \in Nat /\ ChangeOf(k) = EventFor(k, v) /\ ChangeOf(k).key = k /\ ChangeOf(k).ver = v
  BY <1>1, RowIs
<1>6. \A e \in Range(b) : e \in PolledEvents /\ Seen(e)
  BY <1>1, <1>2, BatchHas DEF EventsAreSeen
<1>7. ASSUME IsDone(old, k, v) PROVE IsDone(new, k, v)
  <2>1. Stale(EventFor(k, v), c) /\ old.rows[<<Table, k>>] = RowFor(v)
    BY <1>7 DEF IsDone
  <2>2. Stale(EventFor(k, v), new.cursors[Table])
    BY <1>3, <1>4, <1>5, <2>1, StaleIs
  <2>3. ASSUME NEW e \in Range(b), e.key = k PROVE Stale(e, c)
    <3>1. e = EventFor(k, e.ver) /\ e.ver \in Nat /\ e.ver <= v
      BY <1>6, <2>3, EventParts DEF Seen
    <3>2. Stale(EventFor(k, e.ver), c)
      BY <1>4, <1>5, <2>1, <3>1, StaleIs
    <3> QED
      BY <3>1, <3>2
  <2> QED
    BY <1>3, <2>1, <2>2, <2>3 DEF IsDone
<1>8. ASSUME ChangeOf(k) \in Range(b) PROVE IsDone(new, k, v)
  <2>1. CASE Stale(ChangeOf(k), c)
    BY <1>7, <2>1 DEF AppliedInTime
  <2>2. CASE ~Stale(ChangeOf(k), c)
    BY <1>3, <1>5, <1>8, <2>2 DEF IsDone
  <2> QED
    BY <2>1, <2>2
<1> QED
  BY <1>7, <1>8

LEMMA ApplyDelivers ==
  ASSUME Basics, Delivered, Replicates, NEW p \in Peers, PeerApply(p)
  PROVE  Delivered'
<1>1. Types /\ EventsAreSeen /\ BatchesAreChunks
  BY DEF Basics
<1>2. /\ outbox[p] # <<>> /\ 1 \in DOMAIN outbox[p] /\ IsApplied(peer[p], peer'[p], outbox[p][1])
      /\ \A q \in Peers : q # p => peer'[q] = peer[q] /\ outbox'[q] = outbox[q]
      /\ outbox'[p] = outbox[p] \/ outbox'[p] = Tail(outbox[p])
  BY <1>1, PeerApplyStep
<1>3. UNCHANGED <<rows, dbRank, drawn, sent, missed, rebased>>
  BY <1>1, EnqueueIsWork DEF PeerApply, history
<1>4. \A k : ChangeOf(k)' = ChangeOf(k) /\ Stamp(k)' = Stamp(k) /\ \A q : Timely(q, k)' <=> Timely(q, k)
  BY <1>3 DEF ChangeOf, Stamp, Timely, Collated
<1>5. \A k \in Keys : Timely(p, k) /\ (IsDone(peer[p], k, rows[k].ver) \/ ChangeOf(k) \in Range(outbox[p][1])) =>
        IsDone(peer'[p], k, rows[k].ver)
  BY ApplyIsDone DEF Delivered
<1> DEFINE o == outbox[p]
           t == outbox'[p]
           Q == Seq(PolledEvents)
<1>6. o \in Seq(Q)
  BY <1>1 DEF Types
\* A batch that is left has moved up by one place.
<1>7. t # o => /\ \A n \in DOMAIN t : n \in Nat /\ n + 1 \in DOMAIN o /\ t[n] = o[n + 1]
               /\ \A n \in DOMAIN o : n # 1 => n - 1 \in DOMAIN t /\ t[n - 1] = o[n]
  <2> SUFFICES ASSUME t # o
               PROVE  /\ \A n \in DOMAIN t : n \in Nat /\ n + 1 \in DOMAIN o /\ t[n] = o[n + 1]
                      /\ \A n \in DOMAIN o : n # 1 => n - 1 \in DOMAIN t /\ t[n - 1] = o[n]
    OBVIOUS
  <2>1. t = Tail(o) /\ o # <<>>
    BY <1>2
  <2> HIDE DEF o, t, Q
  <2> QED
    BY SMTT(300), <1>6, <2>1, TailIs
<1>8. \A n \in DOMAIN o : n \in Nat
  <2> HIDE DEF o, Q
  <2> QED
    BY SMTT(300), <1>6
<1> HIDE DEF o, t, Q
<1>9. ASSUME NEW k \in Keys, Timely(p, k), IsSent(p, k) PROVE IsSent(p, k)'
  <2>1. CASE IsDone(peer'[p], k, rows[k].ver)
    BY <1>3, <2>1 DEF IsSent
  <2>2. CASE ~IsDone(peer'[p], k, rows[k].ver)
    <3>1. PICK m \in DOMAIN o : ChangeOf(k) \in Range(o[m])
      BY <1>5, <1>9, <2>2 DEF IsSent, IsComing, o
    <3>2. m # 1
      BY <1>5, <1>9, <2>2, <3>1 DEF o
    <3>3. \E j \in DOMAIN t : ChangeOf(k) \in Range(t[j])
      BY <1>7, <3>1, <3>2
    <3> QED
      BY <1>4, <3>3 DEF IsSent, IsComing, t
  <2> QED
    BY <2>1, <2>2
<1>10. \A q \in Peers, k \in Keys : Timely(q, k) /\ IsSent(q, k) => IsSent(q, k)'
  <2>1. ASSUME NEW q \in Peers, NEW k \in Keys, q # p, IsSent(q, k) PROVE IsSent(q, k)'
    BY <1>2, <1>3, <1>4, <2>1 DEF IsSent
  <2> QED
    BY <1>9, <2>1
<1>11. SentArrives'
  BY <1>3, <1>4, <1>10 DEF Delivered, SentArrives
<1>12. ASSUME NEW k \in Keys, NEW n \in DOMAIN t, NEW e \in Range(t[n]), Timely(p, k), ~After(dbRank, e, Stamp(k)),
              ~IsDone(peer'[p], k, rows[k].ver)
       PROVE  \E m \in DOMAIN t : m <= n /\ ChangeOf(k) \in Range(t[m])
  <2>1. ASSUME NEW i \in DOMAIN o, e \in Range(o[i])
        PROVE  \E m \in DOMAIN o : m <= i /\ ChangeOf(k) \in Range(o[m]) /\ m # 1
    <3>1. PICK m \in DOMAIN o : m <= i /\ ChangeOf(k) \in Range(o[m])
      BY <1>5, <1>12, <2>1 DEF Delivered, QueuedInTime, o
    <3>2. m # 1
      BY <1>5, <1>12, <3>1 DEF o
    <3> QED
      BY <3>1, <3>2
  <2>2. CASE t = o
    BY <1>12, <2>1, <2>2
  <2>3. CASE t # o
    <3>1. n \in Nat /\ n + 1 \in DOMAIN o /\ t[n] = o[n + 1]
      BY <1>7, <2>3
    <3>2. PICK m \in DOMAIN o : m <= n + 1 /\ ChangeOf(k) \in Range(o[m]) /\ m # 1
      BY <2>1, <3>1
    <3>3. m - 1 \in DOMAIN t /\ t[m - 1] = o[m]
      BY <1>7, <2>3, <3>2
    <3>4. m - 1 <= n
      BY SMTT(300), <1>8, <3>1, <3>2
    <3> QED
      BY <3>2, <3>3, <3>4
  <2> QED
    BY <2>2, <2>3
<1>13. QueuedInTime'
  <2>1. ASSUME NEW q \in Peers, NEW k \in Keys, NEW n \in DOMAIN outbox'[q], NEW e \in Range(outbox'[q][n]),
               Timely(q, k), ~After(dbRank, e, Stamp(k))
        PROVE  \/ IsDone(peer'[q], k, rows[k].ver)
               \/ \E m \in DOMAIN outbox'[q] : m <= n /\ ChangeOf(k) \in Range(outbox'[q][m])
    <3>1. CASE q = p
      BY <1>12, <2>1, <3>1 DEF t
    <3>2. CASE q # p
      BY <1>2, <2>1, <3>2 DEF Delivered, QueuedInTime
    <3> QED
      BY <3>1, <3>2
  <2> QED
    BY <1>3, <1>4, <2>1 DEF QueuedInTime
<1>14. ASSUME NEW k \in Keys, Timely(p, k), Stale(ChangeOf(k), peer'[p].cursors[Table])
       PROVE  IsDone(peer'[p], k, rows[k].ver)
  <2>1. CASE peer'[p].cursors[Table] = peer[p].cursors[Table]
    BY <1>5, <1>14, <2>1 DEF Delivered, AppliedInTime
  <2>2. ASSUME NEW e \in Range(outbox[p][1]), peer'[p].cursors[Table] = Position(e)
        PROVE  IsDone(peer'[p], k, rows[k].ver)
    <3>1. e \in PolledEvents /\ Seen(e)
      BY <1>1, <1>2, BatchHas DEF EventsAreSeen
    <3>2. /\ e.key \in Keys /\ e.ver \in Nat /\ Position(e).key = e.key /\ Position(e).ver = e.ver
          /\ [key |-> e.key, ver |-> e.ver] \in drawn
      BY <3>1, EventParts DEF Seen
    <3>3. rows[k].ver \in Nat /\ ChangeOf(k) = EventFor(k, rows[k].ver) /\ Stamp(k).key = k /\ Stamp(k).ver = rows[k].ver
      BY <1>1, RowIs
    <3>4. Stale(EventFor(k, rows[k].ver), e)
      BY <1>14, <2>2, <3>2, <3>3 DEF Stale, Before
    <3>5. ~\E s \in drawn : s.ver = rows[k].ver /\ s.key > k /\ dbRank[s.key] < dbRank[k]
      BY <1>14 DEF Timely, Collated
    <3>6. dbRank \in [Keys -> Nat]
      BY <1>1, RankIs
    <3>7. ~After(dbRank, e, Stamp(k))
      BY <3>2, <3>3, <3>4, <3>5, <3>6, OrdersAgree
    <3>8. \/ IsDone(peer[p], k, rows[k].ver)
          \/ \E m \in DOMAIN outbox[p] : m <= 1 /\ ChangeOf(k) \in Range(outbox[p][m])
      BY <1>2, <1>14, <3>7 DEF Delivered, QueuedInTime
    <3>9. \A m \in DOMAIN outbox[p] : m <= 1 => m = 1
      <4>1. DOMAIN o = 1..Len(o)
        BY SMTT(300), <1>6
      <4>2. \A m \in 1..Len(o) : m <= 1 => m = 1
        BY SMTT(300)
      <4> QED
        BY <4>1, <4>2 DEF o
    <3> QED
      BY <1>5, <1>14, <3>8, <3>9
  <2> QED
    BY <1>2, <2>1, <2>2 DEF IsApplied
<1>15. AppliedInTime'
  <2>1. ASSUME NEW q \in Peers, NEW k \in Keys, Timely(q, k), Stale(ChangeOf(k), peer'[q].cursors[Table])
        PROVE  IsDone(peer'[q], k, rows[k].ver)
    <3>1. CASE q = p
      BY <1>14, <2>1, <3>1
    <3>2. CASE q # p
      BY <1>2, <2>1, <3>2 DEF Delivered, AppliedInTime
    <3> QED
      BY <3>1, <3>2
  <2> QED
    BY <1>3, <1>4, <2>1 DEF AppliedInTime
<1> QED
  BY <1>11, <1>13, <1>15 DEF Delivered

LEMMA DeliveredInit ==
  ASSUME Init, Basics
  PROVE  Delivered
<1>1. \A p \in Peers : sent[p] = {} /\ outbox[p] = <<>>
  BY DEF Init
<1>2. ASSUME NEW p \in Peers, NEW k \in Keys, Timely(p, k) PROVE ~Stale(ChangeOf(k), peer[p].cursors[Table])
  <2>1. Types /\ WritersAreApart
    BY DEF Basics
  <2>2. peer[p].cursors[Table] = ZeroCursor
    BY PollingAssumption DEF Init
  <2>3. ChangeOf(k) \in PolledEvents
    BY <1>2, <2>1, RowIs DEF Timely
  <2>4. ChangeOf(k).ver \in 1..MaxClock /\ Position(ChangeOf(k)).ver = ChangeOf(k).ver
    BY <2>3, EventParts
  <2>5. ZeroCursor.ver = 0
    BY DEF ZeroCursor
  <2> DEFINE v == ChangeOf(k).ver
  <2> HIDE DEF v
  <2>6. v \in 1..MaxClock => 0 < v
    BY SMTT(300)
  <2>7. Before(ZeroCursor, Position(ChangeOf(k)))
    BY <2>4, <2>5, <2>6 DEF Before, v
  <2> QED
    BY <2>2, <2>7 DEF Stale
<1> QED
  BY <1>1, <1>2, EmptyIs DEF Delivered, AppliedInTime, QueuedInTime, SentArrives

LEMMA DeliveredStep ==
  ASSUME Basics, Delivered, Replicates, [Next]_vars
  PROVE  Delivered'
BY SourceDelivers, SessionDelivers, EnqueueDelivers, ApplyDelivers DEF Replicates

\* A row of this region that was visible in time and whose order database and peers agree on
\* is at every peer once all is quiet, whatever restarts, pages, partial staging and lost
\* Acks came in between, provided both modes replicate upserts.  The exception is a row that a
\* session without a saved page passed over, at the peers it was not staged for (pollTable,
\* HandleBatch, RestoreCursors, applyBatch).
THEOREM PeersHaveTimelyRows == Replicates => (Spec => []QuietPeersHaveTimelyRows)
<1> SUFFICES ASSUME Replicates PROVE Spec => []QuietPeersHaveTimelyRows
  OBVIOUS
<1>1. Init /\ Basics => Delivered
  BY DeliveredInit
<1>2. Basics /\ Delivered /\ [Next]_vars => Delivered'
  BY DeliveredStep
<1>3. Basics /\ Delivered => QuietPeersHaveTimelyRows
  <2> SUFFICES ASSUME Basics, Delivered, NEW p \in Peers, Quiet(p), NEW k \in Keys,
                      rows[k].owner = Local, Stamp(k) \notin missed \cup rebased[p], ~Collated(k)
               PROVE  peer[p].rows[<<Table, k>>] = [owner |-> Local, vals |-> [c \in Cols |-> rows[k].ver]]
    BY DEF QuietPeersHaveTimelyRows
  <2>1. on /\ ~IsAfter(mem, k) /\ outbox[p] = <<>>
    BY DEF Quiet
  <2>2. Stamp(k) \in sent[p]
    <3>1. ~After(dbRank, mem, Stamp(k))
      BY <2>1, IsAfterIs
    <3> QED
      BY <2>1, <3>1 DEF Basics, SessionIsSafe, IsSafe, Handled, Replicates
  <2>3. IsSent(p, k)
    BY <2>2 DEF Delivered, SentArrives, Timely
  <2>4. IsDone(peer[p], k, rows[k].ver)
    BY <2>1, <2>3, EmptyIs DEF IsSent, IsComing
  <2> QED
    BY <2>4 DEF IsDone, RowFor
<1> QED
  BY <1>1, <1>2, <1>3, BasicsAlways, PTL DEF Spec
=============================================================================
