----------------------------- MODULE ApplyProofs -----------------------------
(***************************************************************************)
(* What the operators of Apply compute, for every batch: which events a    *)
(* transaction keeps and where it leaves the cursors (the two loops), what *)
(* it does to a row, and that a finite set has its elements in order.      *)
(***************************************************************************)
EXTENDS Apply, FiniteSetTheorems, TLAPS

\* Leaves without a backend of their own are Zenon's.
USE ZenonT(300)

\* None of the three statements changes a row of a third region.
LEMMA ForeignRowStays ==
  ASSUME NEW row, NEW e, NEW from, NEW mode,
         row.owner \notin {from, "null", "absent"}
  PROVE  Effect(row, e, from, mode) = row
<1>1. row # NoRow
  BY SMTT(300) DEF NoRow
<1>2. Deleted(row, from) = row
  BY DEF Deleted, Owned
<1>3. PartiallyUpdated(row, e, from, mode) = row
  BY SMTT(300) DEF PartiallyUpdated
<1>4. Upserted(row, e, from, mode) = row
  BY SMTT(300), <1>1 DEF Upserted, Owned
<1> QED
  BY SMTT(300), <1>2, <1>3, <1>4 DEF Effect

\* Nor does a transaction, whatever it keeps of its events.
LEMMA ApplyKeepsForeign ==
  ASSUME NEW rows, NEW kept, NEW from, NEW mode
  PROVE  /\ DOMAIN ApplyEvents(rows, kept, from, mode) = DOMAIN rows
         /\ \A id \in DOMAIN rows : rows[id].owner \notin {from, "null", "absent"} =>
              ApplyEvents(rows, kept, from, mode)[id] = rows[id]
<1>1. DOMAIN ApplyEvents(rows, kept, from, mode) = DOMAIN rows
  BY DEF ApplyEvents
<1>2. ASSUME NEW id \in DOMAIN rows, rows[id].owner \notin {from, "null", "absent"}
      PROVE  ApplyEvents(rows, kept, from, mode)[id] = rows[id]
  <2>1. Effect(rows[id], kept[LastFor(id, kept)], from, mode) = rows[id]
    BY SMTT(300), <1>2, ForeignRowStays
  <2> QED
    BY SMTT(300), <2>1 DEF ApplyEvents
<1> QED
  BY SMTT(300), <1>1, <1>2

-----------------------------------------------------------------------------
(* The two loops of a transaction: the events of its mode, and those among    *)
(* them that are not stale.  Both are functions defined by recursion on the   *)
(* position in the batch; that there is such a function, and what it is at    *)
(* each position, follows by induction.                                      *)

LEMMA Induction ==
  ASSUME NEW P, 0 \in P, \A n \in Nat : n \in P => n + 1 \in P
  PROVE  Nat \subseteq P
<1> DEFINE R == OpToRel(<, Nat)
           S == Nat \ P
<1>1. IsWellFoundedOn(R, Nat)
  BY NatLessThanWellFounded
<1>2. R = {ss \in Nat \X Nat : ss[1] < ss[2]}
  BY DEF OpToRel
<1> HIDE DEF R
<1>3. SUFFICES ASSUME S # {} PROVE FALSE
  OBVIOUS
<1>4. PICK m \in S : \A n \in S : ~(<<n, m>> \in R)
  BY <1>1, <1>3, WFMin
<1>5. m \in Nat /\ m # 0 /\ m \notin P
  OBVIOUS
<1>6. m - 1 \in Nat /\ m - 1 < m /\ (m - 1) + 1 = m
  BY SMTT(300), <1>5
<1>7. <<m - 1, m>> \in R
  BY SMTT(300), <1>2, <1>5, <1>6
<1>8. m - 1 \in P
  BY <1>4, <1>6, <1>7
<1> QED
  BY <1>5, <1>6, <1>8

LEMMA RangeAppend ==
  ASSUME NEW E, NEW s \in Seq(E), NEW e \in E
  PROVE  Append(s, e) \in Seq(E) /\ Range(Append(s, e)) = Range(s) \cup {e}
<1>1. /\ Append(s, e) \in Seq(E) /\ Len(s) \in Nat /\ DOMAIN s = 1..Len(s)
      /\ DOMAIN Append(s, e) = 1..Len(s) + 1
      /\ \A i \in 1..Len(s) : Append(s, e)[i] = s[i]
      /\ Append(s, e)[Len(s) + 1] = e
  BY SMTT(300)
<1>2. 1..Len(s) + 1 = (1..Len(s)) \cup {Len(s) + 1}
  BY SMTT(300), <1>1
<1> DEFINE t == Append(s, e)
           N == Len(s)
<1>3. /\ DOMAIN s = 1..N /\ DOMAIN t = (1..N) \cup {N + 1}
      /\ t[N + 1] = e /\ \A i \in 1..N : t[i] = s[i]
  BY <1>1, <1>2
<1> HIDE DEF t, N
<1>4. \A i \in DOMAIN t : t[i] \in Range(s) \cup {e}
  BY <1>3 DEF Range
<1>5. e \in Range(t) /\ \A i \in DOMAIN s : s[i] \in Range(t)
  BY <1>3 DEF Range
<1>6. Range(t) = Range(s) \cup {e}
  BY <1>4, <1>5 DEF Range
<1> QED
  BY <1>1, <1>6 DEF t

FilterUpTo(cursors, events, f, limit) ==
  [n \in 0..limit |->
     IF n = 0 THEN [kept |-> <<>>, cursors |-> cursors] ELSE FilterEvent(f[n - 1], events[n])]

LEMMA FilterExists ==
  ASSUME NEW cursors, NEW events, NEW N \in Nat
  PROVE  \E f : f = FilterUpTo(cursors, events, f, N)
<1> DEFINE P == {n \in Nat : \E f : f = FilterUpTo(cursors, events, f, n)}
           base == [kept |-> <<>>, cursors |-> cursors]
<1>1. 0 \in P
  <2> DEFINE f == [n \in 0..0 |-> base]
  <2> HIDE DEF base
  <2>1. \A n \in 0..0 : n = 0
    BY SMTT(300)
  <2>2. f = FilterUpTo(cursors, events, f, 0)
    BY <2>1 DEF FilterUpTo, base
  <2> QED
    BY <2>2
<1>2. ASSUME NEW n \in Nat, n \in P PROVE n + 1 \in P
  <2>1. PICK f : f = FilterUpTo(cursors, events, f, n)
    BY <1>2
  <2> DEFINE new == FilterEvent(f[n], events[n + 1])
             g == [m \in 0..n + 1 |-> IF m = n + 1 THEN new ELSE f[m]]
  <2>2. \A m \in 0..n : f[m] = IF m = 0 THEN base ELSE FilterEvent(f[m - 1], events[m])
    BY <2>1 DEF FilterUpTo
  <2> HIDE DEF new, base
  <2>3. ASSUME NEW m \in 0..n + 1
        PROVE  g[m] = IF m = 0 THEN base ELSE FilterEvent(g[m - 1], events[m])
    <3>1. CASE m = 0
      BY SMTT(300), <2>2, <3>1
    <3>2. CASE m \in 1..n
      <4>1. m \in 0..n /\ m - 1 \in 0..n /\ g[m] = f[m] /\ g[m - 1] = f[m - 1] /\ m # 0
        BY SMTT(300), <3>2
      <4> QED
        BY <2>2, <4>1
    <3>3. CASE m = n + 1
      <4>1. m # 0 /\ m - 1 = n /\ g[m] = new /\ g[m - 1] = f[n]
        BY SMTT(300), <3>3
      <4> QED
        BY <3>3, <4>1 DEF new
    <3> QED
      BY SMTT(300), <3>1, <3>2, <3>3
  <2>4. g = FilterUpTo(cursors, events, g, n + 1)
    <3> HIDE DEF g
    <3> QED
      BY <2>3 DEF FilterUpTo, g, base
  <2> QED
    BY SMTT(300), <2>4
<1> HIDE DEF P
<1>3. N \in P
  BY <1>1, <1>2, Induction
<1> QED
  BY <1>3 DEF P

Positions == [ver : Nat, key : Nat]
IsPlaced(e) == e.table \in Tables /\ Position(e) \in Positions

LEMMA PositionsAreOrdered ==
  ASSUME NEW a \in Positions, NEW b \in Positions, NEW c \in Positions
  PROVE  /\ ~Before(a, a)
         /\ ~Before(b, a) /\ ~Before(c, b) => ~Before(c, a)
         /\ Before(b, c) /\ ~Before(b, a) => Before(a, c)
BY SMTT(300) DEF Before, Positions

\* One round of the loop.
LEMMA FilterOne ==
  ASSUME NEW E, NEW acc, acc.kept \in Seq(E), acc.cursors \in [Tables -> Positions],
         NEW e \in E, IsPlaced(e), NEW r, r = FilterEvent(acc, e)
  PROVE  /\ r.kept \in Seq(E) /\ r.cursors \in [Tables -> Positions]
         /\ Range(r.kept) \subseteq Range(acc.kept) \cup {e}
         /\ e \in Range(r.kept) => e \in Range(acc.kept) \/ Before(acc.cursors[e.table], Position(e))
         /\ Stale(e, r.cursors[e.table])
         /\ \A t \in Tables : /\ ~Before(r.cursors[t], acc.cursors[t])
                              /\ r.cursors[t] \in {acc.cursors[t], Position(e)}
<1>0. \A t \in Tables : acc.cursors[t] \in Positions /\ ~Before(acc.cursors[t], acc.cursors[t])
  BY ZenonT(300), PositionsAreOrdered
<1>1. CASE Stale(e, acc.cursors[e.table])
  <2>1. r = acc
    BY <1>1 DEF FilterEvent
  <2> QED
    BY ZenonT(300), <1>0, <1>1, <2>1
<1>2. CASE ~Stale(e, acc.cursors[e.table])
  <2>1. Before(acc.cursors[e.table], Position(e))
    BY <1>2 DEF Stale
  <2>2. r.kept = Append(acc.kept, e) /\ r.cursors = [acc.cursors EXCEPT ![e.table] = Position(e)]
    <3>1. r = [kept |-> Append(acc.kept, e), cursors |-> [acc.cursors EXCEPT ![e.table] = Position(e)]]
      BY <1>2 DEF FilterEvent
    <3>2. \A k, c, q : q = [kept |-> k, cursors |-> c] => q.kept = k /\ q.cursors = c
      BY SMTT(300)
    <3> QED
      BY SMTT(300), <3>1, <3>2
  <2>3. r.kept \in Seq(E) /\ Range(r.kept) = Range(acc.kept) \cup {e}
    BY SMTT(300), <2>2, RangeAppend
  <2>4. /\ r.cursors \in [Tables -> Positions] /\ r.cursors[e.table] = Position(e)
        /\ \A t \in Tables : t # e.table => r.cursors[t] = acc.cursors[t]
    BY ZenonT(300), <2>2 DEF IsPlaced
  <2>5. ~Before(Position(e), acc.cursors[e.table]) /\ ~Before(Position(e), Position(e))
    BY SMTT(300), <1>0, <2>1 DEF IsPlaced, Before, Positions
  <2> QED
    BY ZenonT(300), <1>0, <2>1, <2>3, <2>4, <2>5 DEF Stale
<1> QED
  BY <1>1, <1>2

\* The loop: what it keeps is ahead of the cursor it began with, and behind the cursor it
\* ends with lies every event it saw.
LEMMA FilterAre ==
  ASSUME NEW E, \A e \in E : IsPlaced(e), NEW events \in Seq(E),
         NEW cursors \in [Tables -> Positions]
  PROVE  LET r == FilterStale(cursors, events) IN
         /\ r.kept \in Seq(E) /\ r.cursors \in [Tables -> Positions]
         /\ Range(r.kept) \subseteq Range(events)
         /\ \A e \in Range(r.kept) : Before(cursors[e.table], Position(e))
         /\ \A e \in Range(events) : Stale(e, r.cursors[e.table])
         /\ \A t \in Tables : /\ ~Before(r.cursors[t], cursors[t])
                              /\ r.cursors[t] \in {cursors[t]} \cup {Position(e) : e \in Range(events)}
<1> DEFINE L == Len(events)
           f == CHOOSE g : g = FilterUpTo(cursors, events, g, L)
           Good(n) ==
             /\ f[n].kept \in Seq(E) /\ f[n].cursors \in [Tables -> Positions]
             /\ Range(f[n].kept) \subseteq Range(events)
             /\ \A e \in Range(f[n].kept) : Before(cursors[e.table], Position(e))
             /\ \A m \in 1..n : Stale(events[m], f[n].cursors[events[m].table])
             /\ \A t \in Tables : /\ ~Before(f[n].cursors[t], cursors[t])
                                  /\ f[n].cursors[t] \in {cursors[t]} \cup {Position(e) : e \in Range(events)}
           P == {n \in Nat : n <= L => Good(n)}
<1>0. L \in Nat /\ DOMAIN events = 1..L /\ \A m \in 1..L : events[m] \in E
  BY SMTT(300)
<1>1. FilterStale(cursors, events) = f[L]
  BY DEF FilterStale, FilterUpTo
<1>2. f = FilterUpTo(cursors, events, f, L)
  <2> HIDE DEF L
  <2>1. \E g : g = FilterUpTo(cursors, events, g, L)
    BY <1>0, FilterExists
  <2> QED
    BY <2>1
<1> HIDE DEF f, L
<1>3. \A n \in 0..L : f[n] = IF n = 0 THEN [kept |-> <<>>, cursors |-> cursors]
                             ELSE FilterEvent(f[n - 1], events[n])
  BY <1>2 DEF FilterUpTo
<1>4. 0 \in P
  <2>0. 0 \in 0..L
    BY SMTT(300), <1>0
  <2>1. f[0].kept = <<>> /\ f[0].cursors = cursors
    <3>1. f[0] = [kept |-> <<>>, cursors |-> cursors]
      BY <1>3, <2>0
    <3> QED
      BY SMTT(300), <3>1
  <2>2. <<>> \in Seq(E) /\ Range(<<>>) = {} /\ 1..0 = {}
    BY SMTT(300) DEF Range
  <2>3. \A t \in Tables : cursors[t] \in Positions /\ ~Before(cursors[t], cursors[t])
    BY ZenonT(300), PositionsAreOrdered
  <2> QED
    BY ZenonT(300), <2>1, <2>2, <2>3
<1>5. ASSUME NEW n \in Nat, n \in P PROVE n + 1 \in P
  <2> SUFFICES ASSUME n + 1 <= L PROVE Good(n + 1)
    BY SMTT(300)
  <2> DEFINE e1 == events[n + 1]
             acc == f[n]
             r == f[n + 1]
  <2>1. n <= L /\ n + 1 \in 0..L /\ n + 1 \in 1..L /\ n + 1 # 0 /\ (n + 1) - 1 = n
    BY SMTT(300), <1>0
  <2>2. Good(n)
    BY <1>5, <2>1
  <2>3. r = FilterEvent(acc, e1)
    BY <1>3, <2>1
  <2>4. 1..n + 1 = (1..n) \cup {n + 1} /\ \A m \in 1..n : m \in 1..L
    BY SMTT(300), <1>0, <2>1
  <2>5. e1 \in E /\ IsPlaced(e1) /\ e1 \in Range(events)
    BY <1>0, <2>1 DEF Range
  <2>6. acc.kept \in Seq(E) /\ acc.cursors \in [Tables -> Positions]
    BY <2>2
  <2> HIDE DEF e1, acc, r
  <2>7. /\ r.kept \in Seq(E) /\ r.cursors \in [Tables -> Positions]
        /\ Range(r.kept) \subseteq Range(acc.kept) \cup {e1}
        /\ e1 \in Range(r.kept) => e1 \in Range(acc.kept) \/ Before(acc.cursors[e1.table], Position(e1))
        /\ Stale(e1, r.cursors[e1.table])
        /\ \A t \in Tables : /\ ~Before(r.cursors[t], acc.cursors[t])
                             /\ r.cursors[t] \in {acc.cursors[t], Position(e1)}
    BY ZenonT(300), <2>3, <2>5, <2>6, FilterOne
  <2>8. \A e \in Range(r.kept) : Before(cursors[e.table], Position(e))
    <3>1. ASSUME Before(acc.cursors[e1.table], Position(e1)) PROVE Before(cursors[e1.table], Position(e1))
      <4>1. e1.table \in Tables /\ Position(e1) \in Positions
        BY <2>5 DEF IsPlaced
      <4>2. ~Before(acc.cursors[e1.table], cursors[e1.table])
        BY <2>2, <4>1 DEF acc
      <4> QED
        BY ZenonT(300), <2>6, <3>1, <4>1, <4>2, PositionsAreOrdered
    <3> QED
      BY ZenonT(300), <2>2, <2>7, <3>1 DEF acc
  <2>9. \A m \in 1..n + 1 : Stale(events[m], r.cursors[events[m].table])
    <3>1. ASSUME NEW m \in 1..n PROVE Stale(events[m], r.cursors[events[m].table])
      <4>1. IsPlaced(events[m]) /\ Stale(events[m], acc.cursors[events[m].table])
        BY <1>0, <2>2, <2>4 DEF acc
      <4>2. events[m].table \in Tables /\ Position(events[m]) \in Positions
        BY <4>1 DEF IsPlaced
      <4>3. ~Before(r.cursors[events[m].table], acc.cursors[events[m].table])
        BY <2>7, <4>2
      <4>4. acc.cursors[events[m].table] \in Positions /\ r.cursors[events[m].table] \in Positions
        BY <2>6, <2>7, <4>2
      <4>5. ~Before(acc.cursors[events[m].table], Position(events[m]))
        BY <4>1 DEF Stale
      <4>6. ~Before(r.cursors[events[m].table], Position(events[m]))
        <5> DEFINE a == Position(events[m])
                   b == acc.cursors[events[m].table]
                   c == r.cursors[events[m].table]
        <5>1. /\ a \in Positions /\ b \in Positions /\ c \in Positions
              /\ ~Before(b, a) /\ ~Before(c, b)
          BY <4>2, <4>3, <4>4, <4>5
        <5> HIDE DEF a, b, c
        <5>2. ~Before(c, a)
          BY <5>1, PositionsAreOrdered
        <5> QED
          BY <5>2 DEF a, c
      <4> QED
        BY <4>6 DEF Stale
    <3> QED
      BY <2>4, <2>7, <3>1 DEF e1
  <2>10. ASSUME NEW t \in Tables
         PROVE  /\ ~Before(r.cursors[t], cursors[t])
                /\ r.cursors[t] \in {cursors[t]} \cup {Position(e) : e \in Range(events)}
    <3>1. ~Before(acc.cursors[t], cursors[t])
          /\ acc.cursors[t] \in {cursors[t]} \cup {Position(e) : e \in Range(events)}
      BY <2>2 DEF acc
    <3>2. ~Before(r.cursors[t], cursors[t])
      BY ZenonT(300), <2>6, <2>7, <3>1, PositionsAreOrdered
    <3> QED
      BY ZenonT(300), <2>5, <2>7, <3>1, <3>2
  <2>11. Range(r.kept) \subseteq Range(events)
    BY ZenonT(300), <2>2, <2>5, <2>7 DEF acc
  <2> QED
    BY ZenonT(300), <2>7, <2>8, <2>9, <2>10, <2>11 DEF r
<1> HIDE DEF P
<1>6. L \in P
  BY <1>0, <1>4, <1>5, Induction
<1>7. Good(L)
  BY SMTT(300), <1>0, <1>6 DEF P
<1>8. \A e \in Range(events) : Stale(e, f[L].cursors[e.table])
  BY ZenonT(300), <1>0, <1>7 DEF Range
<1> QED
  BY ZenonT(300), <1>1, <1>7, <1>8

\* The loop keeps events in the order it finds them in, whatever that is.
LEMMA FilterInOrder ==
  ASSUME NEW E, NEW events \in Seq(E), NEW cursors, NEW R,
         \A m, n \in DOMAIN events : m < n => <<events[m], events[n]>> \in R
  PROVE  LET kept == FilterStale(cursors, events).kept IN
         \A m, n \in DOMAIN kept : m < n => <<kept[m], kept[n]>> \in R
<1> DEFINE L == Len(events)
           f == CHOOSE g : g = FilterUpTo(cursors, events, g, L)
           Good(n) ==
             /\ f[n].kept \in Seq(E)
             /\ \A k \in DOMAIN f[n].kept : \E m \in 1..n : f[n].kept[k] = events[m]
             /\ \A k, l \in DOMAIN f[n].kept : k < l => <<f[n].kept[k], f[n].kept[l]>> \in R
           P == {n \in Nat : n <= L => Good(n)}
<1>0. L \in Nat /\ DOMAIN events = 1..L /\ \A m \in 1..L : events[m] \in E
  BY SMTT(300)
<1>1. FilterStale(cursors, events) = f[L]
  BY DEF FilterStale, FilterUpTo
<1>2. f = FilterUpTo(cursors, events, f, L)
  <2> HIDE DEF L
  <2>1. \E g : g = FilterUpTo(cursors, events, g, L)
    BY <1>0, FilterExists
  <2> QED
    BY <2>1
<1> HIDE DEF f, L
<1>3. \A n \in 0..L : f[n] = IF n = 0 THEN [kept |-> <<>>, cursors |-> cursors]
                             ELSE FilterEvent(f[n - 1], events[n])
  BY <1>2 DEF FilterUpTo
<1>4. 0 \in P
  <2>0. 0 \in 0..L
    BY SMTT(300), <1>0
  <2>1. f[0] = [kept |-> <<>>, cursors |-> cursors]
    BY <1>3, <2>0
  <2>2. f[0].kept = <<>>
    BY SMTT(300), <2>1
  <2>3. <<>> \in Seq(E) /\ DOMAIN <<>> = {}
    BY SMTT(300)
  <2> QED
    BY <2>2, <2>3
<1>5. ASSUME NEW n \in Nat, n \in P PROVE n + 1 \in P
  <2> SUFFICES ASSUME n + 1 <= L PROVE Good(n + 1)
    BY SMTT(300)
  <2> DEFINE e1 == events[n + 1]
             k0 == f[n].kept
             k1 == f[n + 1].kept
  <2>1. /\ n <= L /\ n + 1 \in 0..L /\ n + 1 \in 1..L /\ n + 1 # 0 /\ (n + 1) - 1 = n
        /\ \A m \in 1..n : m \in 1..(n + 1) /\ m \in 1..L /\ m < n + 1
        /\ n + 1 \in 1..(n + 1)
    BY SMTT(300), <1>0
  <2>2. Good(n)
    BY <1>5, <2>1
  <2>3. k1 = k0 \/ k1 = Append(k0, e1)
    <3>1. f[n + 1] = FilterEvent(f[n], e1)
      BY <1>3, <2>1
    <3> QED
      BY SMTT(300), <3>1 DEF FilterEvent
  <2>4. /\ k0 \in Seq(E) /\ e1 \in E
        /\ \A k \in DOMAIN k0 : \E m \in 1..n : k0[k] = events[m]
        /\ \A k, l \in DOMAIN k0 : k < l => <<k0[k], k0[l]>> \in R
    BY <1>0, <2>1, <2>2
  <2> HIDE DEF k0, k1
  <2>5. CASE k1 = k0
    BY <2>1, <2>4, <2>5 DEF k1
  <2>6. CASE k1 = Append(k0, e1)
    <3> HIDE DEF e1
    <3> DEFINE N == Len(k0)
    <3>1. /\ k1 \in Seq(E) /\ N \in Nat /\ DOMAIN k0 = 1..N /\ DOMAIN k1 = 1..(N + 1) /\ k1[N + 1] = e1
          /\ \A k \in 1..N : k1[k] = k0[k]
      BY SMTT(300), <2>4, <2>6
    <3> HIDE DEF N
    <3>2. /\ \A k \in 1..(N + 1) : k \in 1..N \/ k = N + 1
          /\ \A k, l \in 1..(N + 1) : k < l => k \in 1..N
      BY SMTT(300), <3>1
    <3>3. \A k \in 1..N : <<k0[k], e1>> \in R
      BY <1>0, <2>1, <2>4, <3>1 DEF e1
    <3>4. \A k \in DOMAIN k1 : \E m \in 1..(n + 1) : k1[k] = events[m]
      <4>1. ASSUME NEW k \in 1..N PROVE \E m \in 1..(n + 1) : k1[k] = events[m]
        BY <2>1, <2>4, <3>1
      <4>2. k1[N + 1] = events[n + 1]
        BY <3>1 DEF e1
      <4>3. \E m \in 1..(n + 1) : k1[N + 1] = events[m]
        BY <2>1, <4>2
      <4> QED
        BY SMTT(300), <3>1, <3>2, <4>1, <4>3
    <3>5. ASSUME NEW k \in DOMAIN k1, NEW l \in DOMAIN k1, k < l PROVE <<k1[k], k1[l]>> \in R
      <4>1. k \in 1..N /\ k1[k] = k0[k]
        BY <3>1, <3>2, <3>5
      <4>2. CASE l \in 1..N
        BY <2>4, <3>1, <3>5, <4>1, <4>2
      <4>3. CASE l = N + 1
        BY <3>1, <3>3, <4>1, <4>3
      <4> QED
        BY <3>1, <3>2, <4>2, <4>3
    <3> QED
      BY <3>1, <3>4, <3>5 DEF k1
  <2> QED
    BY <2>3, <2>5, <2>6
<1> HIDE DEF P
<1>6. L \in P
  BY <1>0, <1>4, <1>5, Induction
<1>7. Good(L)
  BY SMTT(300), <1>0, <1>6 DEF P
<1> QED
  BY <1>1, <1>7

\* A batch in the order of its positions that has one event per row: everything ahead of
\* the cursor is kept.
LEMMA FilterSorted ==
  ASSUME NEW E, \A e \in E : IsPlaced(e), NEW events \in Seq(E),
         NEW cursors \in [Tables -> Positions],
         \A m, n \in DOMAIN events : m < n => ~Before(Position(events[n]), Position(events[m])),
         \A e, g \in Range(events) : IdOf(e) = IdOf(g) => e = g
  PROVE  \A e \in Range(events) : Before(cursors[e.table], Position(e)) =>
           e \in Range(FilterStale(cursors, events).kept)
<1> DEFINE L == Len(events)
           f == CHOOSE g : g = FilterUpTo(cursors, events, g, L)
           Good(n) ==
             /\ f[n].kept \in Seq(E) /\ f[n].cursors \in [Tables -> Positions]
             /\ \A e \in Range(f[n].kept) : \E m \in 1..n : e = events[m]
             /\ \A m \in 1..n : Before(cursors[events[m].table], Position(events[m])) =>
                  events[m] \in Range(f[n].kept)
             /\ \A t \in Tables : \/ f[n].cursors[t] = cursors[t]
                                  \/ \E e \in Range(f[n].kept) : e.table = t /\ f[n].cursors[t] = Position(e)
           P == {n \in Nat : n <= L => Good(n)}
<1>0. L \in Nat /\ DOMAIN events = 1..L /\ \A m \in 1..L : events[m] \in E
  BY SMTT(300)
<1>1. FilterStale(cursors, events) = f[L]
  BY DEF FilterStale, FilterUpTo
<1>2. f = FilterUpTo(cursors, events, f, L)
  <2> HIDE DEF L
  <2>1. \E g : g = FilterUpTo(cursors, events, g, L)
    BY <1>0, FilterExists
  <2> QED
    BY <2>1
<1> HIDE DEF f, L
<1>3. \A n \in 0..L : f[n] = IF n = 0 THEN [kept |-> <<>>, cursors |-> cursors]
                             ELSE FilterEvent(f[n - 1], events[n])
  BY <1>2 DEF FilterUpTo
<1>4. 0 \in P
  <2>0. 0 \in 0..L
    BY SMTT(300), <1>0
  <2>1. f[0].kept = <<>> /\ f[0].cursors = cursors
    <3>1. f[0] = [kept |-> <<>>, cursors |-> cursors]
      BY <1>3, <2>0
    <3> QED
      BY SMTT(300), <3>1
  <2>2. <<>> \in Seq(E) /\ Range(<<>>) = {} /\ 1..0 = {}
    BY SMTT(300) DEF Range
  <2> QED
    BY ZenonT(300), <2>1, <2>2
<1>5. ASSUME NEW n \in Nat, n \in P PROVE n + 1 \in P
  <2> SUFFICES ASSUME n + 1 <= L PROVE Good(n + 1)
    BY SMTT(300)
  <2> DEFINE e1 == events[n + 1]
             acc == f[n]
             r == f[n + 1]
             c1 == acc.cursors[e1.table]
  <2>1. n <= L /\ n + 1 \in 0..L /\ n + 1 \in 1..L /\ n + 1 # 0 /\ (n + 1) - 1 = n
    BY SMTT(300), <1>0
  <2>2. Good(n)
    BY <1>5, <2>1
  <2>3. r = FilterEvent(acc, e1)
    BY <1>3, <2>1
  <2>4. 1..n + 1 = (1..n) \cup {n + 1} /\ \A m \in 1..n : m \in 1..L /\ m < n + 1
    BY SMTT(300), <1>0, <2>1
  <2>5. e1 \in E /\ e1.table \in Tables /\ Position(e1) \in Positions /\ e1 \in Range(events)
    BY <1>0, <2>1 DEF Range, IsPlaced
  <2>6. /\ acc.kept \in Seq(E) /\ acc.cursors \in [Tables -> Positions]
        /\ \A e \in Range(acc.kept) : \E m \in 1..n : e = events[m]
        /\ \A m \in 1..n : Before(cursors[events[m].table], Position(events[m])) =>
             events[m] \in Range(acc.kept)
        /\ \A t \in Tables : \/ acc.cursors[t] = cursors[t]
                             \/ \E e \in Range(acc.kept) : e.table = t /\ acc.cursors[t] = Position(e)
    BY <2>2
  <2> HIDE DEF acc, r, P, Good
  <2>7. CASE Stale(e1, acc.cursors[e1.table])
    <3>1. r = acc
      BY <2>3, <2>7 DEF FilterEvent
    <3>2. ASSUME Before(cursors[e1.table], Position(e1)) PROVE e1 \in Range(acc.kept)
      <4>1. c1 # cursors[e1.table] /\ ~Before(c1, Position(e1))
        BY <2>7, <3>2 DEF Stale
      <4>2. PICK e \in Range(acc.kept) : e.table = e1.table /\ c1 = Position(e)
        BY <2>5, <2>6, <4>1
      <4>3. PICK m \in 1..n : e = events[m]
        BY <2>6
      <4>4. e \in Range(events) /\ ~Before(Position(e1), Position(e)) /\ Position(e) \in Positions
        <5>1. m \in 1..L /\ m < n + 1
          BY <2>4
        <5> QED
          BY <1>0, <2>1, <4>3, <5>1 DEF Range, IsPlaced
      <4>5. Position(e) = Position(e1)
        <5> DEFINE a == Position(e)
                   b == Position(e1)
        <5>1. a \in Positions /\ b \in Positions /\ ~Before(a, b) /\ ~Before(b, a)
          BY <2>5, <4>1, <4>2, <4>4
        <5> HIDE DEF a, b
        <5>2. a = b
          BY SMTT(300), <5>1 DEF Before, Positions
        <5> QED
          BY <5>2 DEF a, b
      <4>6. e.key = e1.key
        BY <4>5 DEF Position
      <4>7. IdOf(e) = IdOf(e1)
        BY <4>2, <4>6 DEF IdOf
      <4> QED
        BY <2>5, <4>4, <4>7
    <3>3. Good(n + 1)
      <4>1. \A e \in Range(r.kept) : \E m \in 1..n + 1 : e = events[m]
        BY <2>4, <2>6, <3>1
      <4>2. \A m \in 1..n + 1 : Before(cursors[events[m].table], Position(events[m])) =>
              events[m] \in Range(r.kept)
        BY <2>4, <2>6, <3>1, <3>2
      <4> QED
        BY <2>6, <3>1, <4>1, <4>2 DEF Good, r
    <3> QED
      BY <3>3
  <2>8. CASE ~Stale(e1, acc.cursors[e1.table])
    <3>1. r.kept = Append(acc.kept, e1) /\ r.cursors = [acc.cursors EXCEPT ![e1.table] = Position(e1)]
      <4>1. r = [kept |-> Append(acc.kept, e1), cursors |-> [acc.cursors EXCEPT ![e1.table] = Position(e1)]]
        BY <2>3, <2>8 DEF FilterEvent
      <4>2. \A k, c, q : q = [kept |-> k, cursors |-> c] => q.kept = k /\ q.cursors = c
        BY SMTT(300)
      <4> QED
        BY <4>1, <4>2
    <3> HIDE DEF e1, c1
    <3>2. r.kept \in Seq(E) /\ Range(r.kept) = Range(acc.kept) \cup {e1}
      BY SMTT(300), <2>5, <2>6, <3>1, RangeAppend
    <3>3. /\ r.cursors \in [Tables -> Positions] /\ r.cursors[e1.table] = Position(e1)
          /\ \A t \in Tables : t # e1.table => r.cursors[t] = acc.cursors[t]
      BY ZenonT(300), <2>5, <2>6, <3>1
    <3>4. \A e \in Range(r.kept) : \E m \in 1..n + 1 : e = events[m]
      BY <2>4, <2>6, <3>2 DEF e1
    <3>5. \A m \in 1..n + 1 : Before(cursors[events[m].table], Position(events[m])) =>
            events[m] \in Range(r.kept)
      BY <2>4, <2>6, <3>2 DEF e1
    <3>6. \A t \in Tables : \/ r.cursors[t] = cursors[t]
                            \/ \E e \in Range(r.kept) : e.table = t /\ r.cursors[t] = Position(e)
      BY ZenonT(300), <2>6, <3>2, <3>3
    <3> QED
      BY <3>2, <3>3, <3>4, <3>5, <3>6 DEF Good, r
  <2> QED
    BY <2>7, <2>8
<1> HIDE DEF P
<1>6. L \in P
  BY <1>0, <1>4, <1>5, Induction
<1>7. Good(L)
  BY SMTT(300), <1>0, <1>6 DEF P
<1>8. \A m \in 1..L : Before(cursors[events[m].table], Position(events[m])) =>
        events[m] \in Range(f[L].kept)
  BY <1>7
<1> HIDE DEF Good
<1>9. \A e \in Range(events) : \E m \in 1..L : e = events[m]
  BY <1>0 DEF Range
<1> QED
  BY <1>1, <1>8, <1>9

-----------------------------------------------------------------------------
(* A finite set in order: R is a strict total order on S.                    *)

IsOrder(S, R) ==
  /\ \A a \in S : <<a, a>> \notin R
  /\ \A a, b \in S : a # b => <<a, b>> \in R \/ <<b, a>> \in R
  /\ \A a, b, c \in S : <<a, b>> \in R /\ <<b, c>> \in R => <<a, c>> \in R

LEMMA IntervalIs ==
  ASSUME NEW N \in Nat
  PROVE  IsFiniteSet(1..N) /\ Cardinality(1..N) = N
<1>1. IsFiniteSet(1..N) /\ Cardinality(1..N) = IF 1 > N THEN 0 ELSE N - 1 + 1
  BY SMTT(300), FS_Interval
<1> QED
  BY SMTT(300), <1>1

\* The n-th element is the one with n elements at or before it.
LEMMA Ranks ==
  ASSUME NEW S, IsFiniteSet(S), NEW R, IsOrder(S, R)
  PROVE  \E s \in [1..Cardinality(S) -> S] : \A m, n \in DOMAIN s : m < n => <<s[m], s[n]>> \in R
<1> DEFINE N == Cardinality(S)
           Upto(i) == {j \in S : j = i \/ <<j, i>> \in R}
           rank == [i \in S |-> Cardinality(Upto(i))]
<1>1. N \in Nat
  BY FS_CardinalityType
<1>2. ASSUME NEW i \in S PROVE IsFiniteSet(Upto(i)) /\ rank[i] = Cardinality(Upto(i)) /\ rank[i] \in 1..N
  <2>1. Upto(i) \in SUBSET S /\ i \in Upto(i)
    OBVIOUS
  <2> DEFINE U == Upto(i)
  <2>2. rank[i] = Cardinality(U)
    OBVIOUS
  <2> HIDE DEF U, rank, N
  <2>3. IsFiniteSet(U) /\ Cardinality(U) \in Nat /\ Cardinality(U) <= N
    BY <2>1, FS_Subset, FS_CardinalityType DEF U, N
  <2>4. Cardinality(U) # 0
    BY <2>1, <2>3, FS_EmptySet DEF U
  <2>5. rank[i] \in 1..N
    BY SMTT(300), <1>1, <2>2, <2>3, <2>4
  <2> QED
    BY <2>2, <2>3, <2>5 DEF U
<1>3. ASSUME NEW i \in S, NEW k \in S, <<i, k>> \in R PROVE rank[i] < rank[k]
  <2> DEFINE U == Upto(i)
             V == Upto(k)
  <2>1. k \in V /\ U \subseteq V \ {k}
    <3>1. \A j \in S : j = i \/ <<j, i>> \in R => <<j, k>> \in R /\ j # k
      BY <1>3 DEF IsOrder
    <3> QED
      BY <3>1
  <2>2. /\ IsFiniteSet(V) /\ rank[i] = Cardinality(U) /\ rank[k] = Cardinality(V)
        /\ rank[i] \in 1..N /\ rank[k] \in 1..N
    BY <1>2
  <2> HIDE DEF U, V, rank, N
  <2>3. IsFiniteSet(V \ {k}) /\ Cardinality(V \ {k}) = Cardinality(V) - 1
    BY <2>1, <2>2, FS_RemoveElement
  <2>4. Cardinality(U) <= Cardinality(V \ {k})
    BY <2>1, <2>3, FS_Subset
  <2> QED
    BY SMTT(300), <1>1, <2>2, <2>3, <2>4
<1>4. ASSUME NEW n \in 1..N PROVE \E i \in S : rank[i] = n
  <2> SUFFICES ASSUME \A i \in S : rank[i] # n PROVE FALSE
    OBVIOUS
  <2> DEFINE D == 1..N
             T == D \ {n}
  <2>1. rank \in [S -> T]
    BY <1>2
  <2>2. IsFiniteSet(D) /\ Cardinality(D) = N /\ n \in D
    <3> HIDE DEF N
    <3> QED
      BY <1>1, IntervalIs
  <2>3. IsFiniteSet(T) /\ Cardinality(T) = N - 1
    <3> HIDE DEF D, N
    <3> QED
      BY <2>2, FS_RemoveElement
  <2> HIDE DEF T, rank
  <2>4. Cardinality(T) < Cardinality(S)
    BY SMTT(300), <1>1, <2>3
  <2>5. PICK i, k \in S : i # k /\ rank[i] = rank[k]
    BY <2>1, <2>3, <2>4, FS_PigeonHole
  <2>6. rank[i] \in Int /\ rank[k] \in Int
    <3>1. rank[i] \in 1..N /\ rank[k] \in 1..N
      BY <1>2
    <3> QED
      BY SMTT(300), <1>1, <3>1
  <2>7. rank[i] < rank[k] \/ rank[k] < rank[i]
    BY <1>3, <2>5 DEF IsOrder
  <2> QED
    BY SMTT(300), <2>5, <2>6, <2>7
<1> DEFINE g == [n \in 1..N |-> CHOOSE i \in S : rank[i] = n]
<1>5. \A n \in 1..N : g[n] \in S /\ rank[g[n]] = n
  <2> HIDE DEF rank, N
  <2> QED
    BY <1>4
<1>6. g \in [1..N -> S] /\ DOMAIN g = 1..N
  <2> HIDE DEF rank, N
  <2> QED
    BY <1>5
<1>7. \A m, n \in 1..N : m < n => <<g[m], g[n]>> \in R
  <2> SUFFICES ASSUME NEW m \in 1..N, NEW n \in 1..N, m < n, <<g[m], g[n]>> \notin R PROVE FALSE
    OBVIOUS
  <2> HIDE DEF g, rank, N
  <2>1. g[m] \in S /\ g[n] \in S /\ rank[g[m]] = m /\ rank[g[n]] = n
    BY <1>5
  <2>2. m # n /\ ~(n < m)
    BY SMTT(300), <1>1
  <2>3. <<g[n], g[m]>> \in R
    BY <2>1, <2>2 DEF IsOrder
  <2>4. rank[g[n]] < rank[g[m]]
    BY <1>3, <2>1, <2>3
  <2> QED
    BY <2>1, <2>2, <2>4
<1> HIDE DEF g
<1> QED
  BY <1>6, <1>7

\* A sequence of as many different elements as there are holds them all.
LEMMA AllAreIn ==
  ASSUME NEW S, IsFiniteSet(S), NEW s \in [1..Cardinality(S) -> S],
         \A m, n \in 1..Cardinality(S) : m < n => s[m] # s[n]
  PROVE  Cardinality(S) \in Nat /\ \A i \in S : \E n \in 1..Cardinality(S) : s[n] = i
<1> DEFINE N == Cardinality(S)
<1>1. N \in Nat
  BY FS_CardinalityType
<1>2. ASSUME NEW i \in S PROVE \E n \in 1..N : s[n] = i
  <2> SUFFICES ASSUME \A n \in 1..N : s[n] # i PROVE FALSE
    OBVIOUS
  <2> DEFINE T == S \ {i}
             D == 1..N
  <2>1. s \in [D -> T]
    OBVIOUS
  <2>2. IsFiniteSet(T) /\ Cardinality(T) = N - 1
    BY FS_RemoveElement
  <2>3. IsFiniteSet(D) /\ Cardinality(D) = N
    <3> HIDE DEF N
    <3> QED
      BY <1>1, IntervalIs
  <2> HIDE DEF T, D, N
  <2>4. Cardinality(T) < Cardinality(D)
    BY SMTT(300), <1>1, <2>2, <2>3
  <2>5. PICK m, n \in D : m # n /\ s[m] = s[n]
    BY <2>1, <2>2, <2>3, <2>4, FS_PigeonHole
  <2>6. m < n \/ n < m
    BY SMTT(300), <1>1, <2>5 DEF D
  <2> QED
    BY <2>5, <2>6 DEF D, N
<1> QED
  BY <1>1, <1>2

\* Numbers in ascending order.
LEMMA Ascending ==
  ASSUME NEW S \in SUBSET Nat, IsFiniteSet(S)
  PROVE  /\ \E q \in [1..Cardinality(S) -> S] : \A m, n \in DOMAIN q : m < n => q[m] < q[n]
         /\ \A q \in [1..Cardinality(S) -> S] : (\A m, n \in DOMAIN q : m < n => q[m] < q[n]) =>
              /\ Cardinality(S) \in Nat /\ DOMAIN q = 1..Cardinality(S)
              /\ \A i \in S : \E n \in 1..Cardinality(S) : q[n] = i
<1> DEFINE N == Cardinality(S)
           R == {ss \in S \X S : ss[1] < ss[2]}
<1>1. \A a, b \in S : <<a, b>> \in R <=> a < b
  OBVIOUS
<1>2. \A a, b, c \in S : ~(a < a) /\ (a # b => a < b \/ b < a) /\ (a < b /\ b < c => a < c)
  <2>1. ASSUME NEW a \in Nat, NEW b \in Nat, NEW c \in Nat
        PROVE  ~(a < a) /\ (a # b => a < b \/ b < a) /\ (a < b /\ b < c => a < c)
    BY SMTT(300)
  <2> QED
    BY <2>1
<1> HIDE DEF R
<1>3. IsOrder(S, R)
  BY <1>1, <1>2 DEF IsOrder
<1>4. PICK q \in [1..N -> S] : \A m, n \in DOMAIN q : m < n => <<q[m], q[n]>> \in R
  BY <1>3, Ranks
<1>5. \A m, n \in DOMAIN q : m < n => q[m] < q[n]
  BY <1>1, <1>4
<1>6. ASSUME NEW s \in [1..N -> S], \A m, n \in DOMAIN s : m < n => s[m] < s[n]
      PROVE  N \in Nat /\ DOMAIN s = 1..N /\ \A i \in S : \E n \in 1..N : s[n] = i
  <2>1. \A m, n \in 1..N : m < n => s[m] # s[n]
    BY <1>2, <1>6
  <2> QED
    BY <2>1, AllAreIn
<1> QED
  BY <1>5, <1>6

-----------------------------------------------------------------------------
(* What applyBatch hands on.                                                *)

\* A stable sort is by position, then by place in the batch.
StablyBefore(i, a, j, b) == Before(a, b) \/ (i < j /\ ~Before(b, a))

LEMMA StableIrreflexive ==
  ASSUME NEW i \in Nat, NEW a \in Positions
  PROVE  ~StablyBefore(i, a, i, a)
BY SMTT(300) DEF StablyBefore, Before, Positions

LEMMA StableTotal ==
  ASSUME NEW i \in Nat, NEW j \in Nat, NEW a \in Positions, NEW b \in Positions
  PROVE  /\ i # j => StablyBefore(i, a, j, b) \/ StablyBefore(j, b, i, a)
         /\ StablyBefore(i, a, j, b) => ~Before(b, a)
BY SMTT(300) DEF StablyBefore, Before, Positions

LEMMA StableTransitive ==
  ASSUME NEW i \in Nat, NEW j \in Nat, NEW k \in Nat,
         NEW a \in Positions, NEW b \in Positions, NEW c \in Positions,
         StablyBefore(i, a, j, b), StablyBefore(j, b, k, c)
  PROVE  StablyBefore(i, a, k, c)
BY SMTT(300) DEF StablyBefore, Before, Positions

LEMMA PlainOrder ==
  ASSUME NEW i \in Nat, NEW j \in Nat, NEW k \in Nat
  PROVE  ~(i < i) /\ (i # j => i < j \/ j < i) /\ (i < j /\ j < k => i < k)
BY SMTT(300)

\* What comes earlier in s comes earlier in events.
KeepsOrder(s, events) ==
  \A m, n \in DOMAIN s : m < n => \E i, j \in DOMAIN events : i < j /\ s[m] = events[i] /\ s[n] = events[j]

\* The events of the batch that the mode allows, in the order of their positions if they
\* are sorted, and otherwise in their order in the batch.
LEMMA PreparedIs ==
  ASSUME NEW E, \A e \in E : Position(e) \in Positions, NEW events \in Seq(E),
         NEW mode, NEW sort \in BOOLEAN
  PROVE  LET pr == Prepared(events, mode, sort) IN
         /\ pr \in Seq(E)
         /\ Range(pr) = {e \in Range(events) : Allowed(mode, e.op)}
         /\ sort => \A m, n \in DOMAIN pr : m < n => ~Before(Position(pr[n]), Position(pr[m]))
         /\ ~sort => KeepsOrder(pr, events)
<1> DEFINE A == {i \in DOMAIN events : Allowed(mode, events[i].op)}
           pos(i) == Position(events[i])
           sorted(i, j) == sort /\ CursorOrder(events[i], events[j])
           Less(i, j) == sorted(i, j) \/ (i < j /\ ~sorted(j, i))
           N == Cardinality(A)
           R == {ss \in A \X A : Less(ss[1], ss[2])}
           o == CHOOSE s \in [1..N -> A] : \A m, n \in DOMAIN s : m < n => Less(s[m], s[n])
           pr == [n \in DOMAIN o |-> events[o[n]]]
<1>1. Prepared(events, mode, sort) = pr
  BY DEF Prepared, InOrder
<1>2. Len(events) \in Nat /\ DOMAIN events = 1..Len(events) /\ \A i \in DOMAIN events : events[i] \in E
  BY SMTT(300)
<1>3. \A i \in A : i \in Nat /\ i \in DOMAIN events /\ events[i] \in E /\ pos(i) \in Positions
  <2>1. \A i \in DOMAIN events : i \in Nat
    BY SMTT(300), <1>2
  <2> QED
    BY <1>2, <2>1
<1>4. IsFiniteSet(A) /\ N \in Nat
  <2>1. IsFiniteSet(DOMAIN events) /\ A \subseteq DOMAIN events
    BY <1>2, IntervalIs
  <2> HIDE DEF A
  <2> QED
    BY <2>1, FS_Subset, FS_CardinalityType
<1> HIDE DEF A
<1>5. ASSUME NEW i \in A, NEW j \in A, NEW k \in A
      PROVE  /\ ~Less(i, i) /\ (i # j => Less(i, j) \/ Less(j, i))
             /\ (Less(i, j) /\ Less(j, k) => Less(i, k))
             /\ sort /\ Less(i, j) => ~Before(pos(j), pos(i))
             /\ ~sort /\ Less(i, j) => i < j
  <2>1. CASE sort
    <3> DEFINE a == pos(i)
               b == pos(j)
               c == pos(k)
    <3>1. /\ i \in Nat /\ j \in Nat /\ k \in Nat
          /\ a \in Positions /\ b \in Positions /\ c \in Positions
      BY <1>3
    <3>2. /\ Less(i, i) <=> StablyBefore(i, a, i, a)
          /\ Less(i, j) <=> StablyBefore(i, a, j, b)
          /\ Less(j, i) <=> StablyBefore(j, b, i, a)
          /\ Less(j, k) <=> StablyBefore(j, b, k, c)
          /\ Less(i, k) <=> StablyBefore(i, a, k, c)
      BY <2>1 DEF CursorOrder, StablyBefore
    <3>3. Before(pos(j), pos(i)) = Before(b, a)
      OBVIOUS
    <3> HIDE DEF a, b, c, Less, pos
    <3>4. ~StablyBefore(i, a, i, a)
      BY <3>1, StableIrreflexive
    <3>5. /\ i # j => StablyBefore(i, a, j, b) \/ StablyBefore(j, b, i, a)
          /\ StablyBefore(i, a, j, b) => ~Before(b, a)
      BY <3>1, StableTotal
    <3>6. ASSUME StablyBefore(i, a, j, b), StablyBefore(j, b, k, c)
          PROVE  StablyBefore(i, a, k, c)
      BY <3>1, <3>6, StableTransitive
    <3> QED
      BY <2>1, <3>2, <3>3, <3>4, <3>5, <3>6
  <2>2. CASE ~sort
    <3>1. /\ (Less(i, i) <=> i < i) /\ (Less(i, j) <=> i < j) /\ (Less(j, i) <=> j < i)
          /\ (Less(j, k) <=> j < k) /\ (Less(i, k) <=> i < k)
      BY <2>2
    <3>2. i \in Nat /\ j \in Nat /\ k \in Nat
      BY <1>3
    <3> HIDE DEF Less
    <3>3. ~(i < i) /\ (i # j => i < j \/ j < i) /\ (i < j /\ j < k => i < k)
      BY <3>2, PlainOrder
    <3> QED
      BY <2>2, <3>1, <3>3
  <2> QED
    BY <2>1, <2>2
<1>6. \A i, j \in A : <<i, j>> \in R <=> Less(i, j)
  <2> HIDE DEF Less
  <2> QED
    OBVIOUS
<1> HIDE DEF R
<1>7. o \in [1..N -> A] /\ \A m, n \in DOMAIN o : m < n => Less(o[m], o[n])
  <2> HIDE DEF Less
  <2>1. IsOrder(A, R)
    BY <1>5, <1>6 DEF IsOrder
  <2>2. PICK q \in [1..N -> A] : \A m, n \in DOMAIN q : m < n => <<q[m], q[n]>> \in R
    BY <1>4, <2>1, Ranks
  <2>3. \A m, n \in DOMAIN q : m < n => Less(q[m], q[n])
    BY <1>6, <2>2
  <2> QED
    BY <2>3
<1> HIDE DEF o, Less
<1>8. DOMAIN o = 1..N /\ DOMAIN pr = 1..N /\ \A n \in 1..N : o[n] \in A /\ pr[n] = events[o[n]]
  BY <1>7
<1>9. \A m, n \in 1..N : m < n => o[m] # o[n]
  BY <1>5, <1>7, <1>8
<1>10. \A i \in A : \E n \in 1..N : o[n] = i
  BY <1>4, <1>7, <1>9, AllAreIn
<1> HIDE DEF N
<1>11. pr \in Seq(E)
  <2>1. pr \in [1..N -> E]
    BY <1>3, <1>8
  <2> HIDE DEF pr
  <2> QED
    BY SMTT(300), <1>4, <2>1
<1> HIDE DEF pr
<1>12. Range(pr) = {e \in Range(events) : Allowed(mode, e.op)}
  <2>1. \A n \in 1..N : pr[n] \in {e \in Range(events) : Allowed(mode, e.op)}
    BY <1>8 DEF A, Range
  <2>2. ASSUME NEW e \in Range(events), Allowed(mode, e.op) PROVE \E n \in 1..N : pr[n] = e
    <3>1. PICK i \in DOMAIN events : e = events[i]
      BY DEF Range
    <3>2. i \in A
      BY <2>2, <3>1 DEF A
    <3>3. PICK n \in 1..N : o[n] = i
      BY <1>10, <3>2
    <3>4. pr[n] = e
      BY <1>8, <3>1, <3>3
    <3> QED
      BY <3>4
  <2>3. Range(pr) = {pr[n] : n \in 1..N}
    BY <1>8 DEF Range
  <2> QED
    BY <2>1, <2>2, <2>3
<1>13. ASSUME sort PROVE \A m, n \in 1..N : m < n => ~Before(Position(pr[n]), Position(pr[m]))
  BY <1>5, <1>7, <1>8, <1>13
<1> DEFINE Kept(m, n) == \E i, j \in DOMAIN events : i < j /\ pr[m] = events[i] /\ pr[n] = events[j]
<1>14. ASSUME ~sort, NEW m \in 1..N, NEW n \in 1..N, m < n PROVE Kept(m, n)
  <2>1. o[m] \in A /\ o[n] \in A /\ o[m] < o[n]
    BY <1>5, <1>7, <1>8, <1>14
  <2> QED
    BY <1>3, <1>8, <2>1
<1>15. /\ sort => \A m, n \in DOMAIN pr : m < n => ~Before(Position(pr[n]), Position(pr[m]))
       /\ ~sort => \A m, n \in DOMAIN pr : m < n => Kept(m, n)
  <2> HIDE DEF Kept
  <2> QED
    BY <1>8, <1>13, <1>14
<1>16. ~sort => KeepsOrder(pr, events)
  BY <1>15 DEF KeepsOrder
<1> QED
  BY <1>1, <1>11, <1>12, <1>15, <1>16

-----------------------------------------------------------------------------
(* Largest and smallest numbers, and the ends of a sequence.                 *)

LEMMA MinOf ==
  ASSUME NEW S \in SUBSET Nat, S # {}
  PROVE  Min(S) \in S /\ \A i \in S : Min(S) <= i
<1> DEFINE R == OpToRel(<, Nat)
<1>1. IsWellFoundedOn(R, Nat)
  BY NatLessThanWellFounded
<1>2. R = {ss \in Nat \X Nat : ss[1] < ss[2]}
  BY DEF OpToRel
<1> HIDE DEF R
<1>3. PICK m \in S : \A i \in S : ~(<<i, m>> \in R)
  BY <1>1, WFMin
<1>4. ASSUME NEW i \in S PROVE m <= i
  <2>1. i \in Nat /\ m \in Nat
    OBVIOUS
  <2>2. i < m => <<i, m>> \in R
    BY SMTT(300), <1>2, <2>1
  <2>3. ~(i < m)
    BY <1>3, <2>2
  <2> QED
    BY SMTT(300), <2>1, <2>3
<1> QED
  BY <1>4 DEF Min

LEMMA MaxOf ==
  ASSUME NEW N \in Nat, NEW S \in SUBSET (0..N), S # {}
  PROVE  Max(S) \in S /\ \A i \in S : Max(S) >= i
<1> DEFINE D == {N - i : i \in S}
<1>1. D \in SUBSET Nat /\ D # {}
  <2>1. \A i \in S : N - i \in Nat
    BY SMTT(300)
  <2> QED
    BY <2>1
<1>2. Min(D) \in D /\ \A d \in D : Min(D) <= d
  <2> HIDE DEF D
  <2> QED
    BY <1>1, MinOf
<1>3. PICK m \in S : Min(D) = N - m
  BY <1>2
<1>4. \A i \in S : N - m <= N - i
  BY <1>2, <1>3
<1>5. \A i \in S : m >= i
  BY SMTT(300), <1>4
<1> QED
  BY <1>5 DEF Max

LEMMA MembersAre ==
  ASSUME NEW E, NEW s \in Seq(E)
  PROVE  \A e \in Range(s) : e \in E
<1>1. \A n \in DOMAIN s : s[n] \in E
  BY SMTT(300)
<1> QED
  BY <1>1 DEF Range

\* At most M elements of a sequence from place s on.
LEMMA EndIs ==
  ASSUME NEW L \in Nat, NEW M \in Nat \ {0}, NEW s \in 0..L
  PROVE  LET e == Min({s + M, L}) IN e \in s..L /\ (e = s + M \/ e = L) /\ e <= s + M
<1> DEFINE S == {s + M, L}
           e == Min(S)
<1>1. S \in SUBSET Nat /\ S # {}
  BY SMTT(300)
<1>2. s + M \in S /\ L \in S
  OBVIOUS
<1> HIDE DEF S
<1>3. e \in S /\ \A i \in S : e <= i
  BY <1>1, MinOf
<1> HIDE DEF e
<1>4. e \in {s + M, L} /\ e <= s + M /\ e <= L
  BY <1>2, <1>3 DEF S
<1>5. e \in s..L /\ (e = s + M \/ e = L) /\ e <= s + M
  BY SMTT(300), <1>4
<1> QED
  BY <1>5 DEF e, S

IsSlice(b, B, E, s, e) ==
  /\ b \in Seq(B) /\ Len(b) = e - s /\ DOMAIN b = 1..(e - s)
  /\ \A k \in 1..(e - s) : b[k] = E[s + k]
  /\ Range(b) = {E[n] : n \in (s + 1)..e}
  /\ b = <<>> <=> s = e

LEMMA SliceIs ==
  ASSUME NEW B, NEW E \in Seq(B), NEW s \in 0..Len(E), NEW e \in s..Len(E)
  PROVE  IsSlice(SubSeq(E, s + 1, e), B, E, s, e)
<1> DEFINE b == SubSeq(E, s + 1, e)
<1>1. Len(E) \in Nat
  BY SMTT(300)
<1>3. b = SubSeq(E, s + 1, e)
  OBVIOUS
<1>4. s \in 0..Len(E)
  OBVIOUS
<1>6. e \in s..Len(E)
  OBVIOUS
<1> HIDE DEF b
<1>7. b \in Seq(B) /\ Len(b) = e - s /\ DOMAIN b = 1..(e - s) /\ \A k \in 1..(e - s) : b[k] = E[s + k]
  <2>1. /\ s + 1 \in 1..(Len(E) + 1) /\ e \in ((s + 1) - 1)..Len(E) /\ s \in Int /\ e \in Int /\ s <= e
        /\ e - (s + 1) + 1 = e - s /\ (e < s + 1 => e - s = 0)
        /\ \A k \in 1..(e - s) : (s + 1) + k - 1 = s + k /\ s + 1 <= e
    BY SMTT(300), <1>1, <1>4, <1>6
  <2>2. b \in Seq(B)
    <3>1. \A i \in (s + 1)..e : E[i] \in B
      <4>1. \A i \in (s + 1)..e : i \in 1..Len(E)
        BY SMTT(300), <1>1, <1>4, <1>6
      <4>2. \A i \in 1..Len(E) : E[i] \in B
        BY SMTT(300), <1>1
      <4> QED
        BY <4>1, <4>2
    <3>2. s + 1 \in Int /\ e \in Int
      BY SMTT(300), <2>1
    <3>3. SubSeq(E, s + 1, e) \in Seq(B)
      BY SMTT(300), <1>1, <3>1, <3>2
    <3> QED
      BY <1>3, <3>3
  <2>3. Len(b) = e - s
    BY SMTT(300), <1>1, <1>3, <2>1
  <2>4. \A k \in 1..(e - s) : b[k] = E[s + k]
    BY SMTT(300), <1>1, <1>3, <2>1
  <2> QED
    BY SMTT(300), <2>2, <2>3, <2>4
<1>8. DOMAIN b = 1..(e - s) /\ \A k \in 1..(e - s) : b[k] = E[s + k]
  BY <1>7
<1>9. Range(b) = {E[n] : n \in (s + 1)..e}
  <2>1. Range(b) = {b[k] : k \in 1..(e - s)}
    BY <1>8 DEF Range
  <2>2. \A k \in 1..(e - s) : s + k \in (s + 1)..e /\ b[k] = E[s + k]
    BY SMTT(300), <1>4, <1>6, <1>8
  <2>3. \A n \in (s + 1)..e : n - s \in 1..(e - s) /\ s + (n - s) = n
    BY SMTT(300), <1>4, <1>6
  <2>4. \A n \in (s + 1)..e : b[n - s] = E[n]
    BY <1>8, <2>3
  <2>5. \A k \in 1..(e - s) : b[k] \in {E[n] : n \in (s + 1)..e}
    BY <2>2
  <2>6. \A n \in (s + 1)..e : E[n] \in {b[k] : k \in 1..(e - s)}
    BY <2>3, <2>4
  <2> QED
    BY <2>1, <2>5, <2>6
<1>10. b = <<>> <=> s = e
  <2>1. b = <<>> <=> Len(b) = 0
    BY SMTT(300), <1>7
  <2>2. e - s = 0 <=> s = e
    BY SMTT(300), <1>1
  <2> QED
    BY <1>7, <2>1, <2>2
<1> QED
  BY <1>7, <1>8, <1>9, <1>10 DEF b, IsSlice

LEMMA LastForIs ==
  ASSUME NEW E, NEW events \in Seq(E), NEW id
  PROVE  /\ LastFor(id, events) # 0 =>
              events[LastFor(id, events)] \in Range(events) /\ IdOf(events[LastFor(id, events)]) = id
         /\ \A e \in Range(events) : IdOf(e) = id => LastFor(id, events) # 0
<1> DEFINE I == {0} \cup {i \in DOMAIN events : IdOf(events[i]) = id}
<1>1. LastFor(id, events) = Max(I)
  BY DEF LastFor
<1>2. Len(events) \in Nat /\ DOMAIN events \subseteq 0..Len(events) /\ 0 \in 0..Len(events)
  BY SMTT(300)
<1>3. I \in SUBSET (0..Len(events)) /\ I # {}
  BY <1>2
<1>4. Max(I) \in I /\ \A i \in I : Max(I) >= i
  <2> HIDE DEF I
  <2> QED
    BY <1>2, <1>3, MaxOf
<1>5. LastFor(id, events) # 0 => LastFor(id, events) \in DOMAIN events /\ IdOf(events[LastFor(id, events)]) = id
  BY <1>1, <1>4
<1>6. ASSUME NEW e \in Range(events), IdOf(e) = id PROVE LastFor(id, events) # 0
  <2>1. PICK i \in DOMAIN events : e = events[i]
    BY DEF Range
  <2>2. i \in I
    BY <1>6, <2>1
  <2>3. Max(I) >= i
    BY <1>4, <2>2
  <2>4. i \in DOMAIN events => i \in 1..Len(events)
    BY SMTT(300)
  <2> HIDE DEF I
  <2> QED
    BY SMTT(300), <1>1, <1>2, <2>3, <2>4
<1> QED
  BY <1>5, <1>6 DEF Range

LEMMA TailIs ==
  ASSUME NEW E, NEW s \in Seq(E), s # <<>>
  PROVE  /\ 1 \in DOMAIN s /\ Head(s) = s[1]
         /\ \A n \in DOMAIN Tail(s) : n \in Nat /\ n + 1 \in DOMAIN s /\ Tail(s)[n] = s[n + 1]
         /\ \A n \in DOMAIN s : n # 1 => n - 1 \in DOMAIN Tail(s) /\ Tail(s)[n - 1] = s[n]
<1>1. 1 \in DOMAIN s /\ Head(s) = s[1]
  BY SMTT(300)
<1>2. \A n \in DOMAIN Tail(s) : n \in Nat /\ n + 1 \in DOMAIN s /\ Tail(s)[n] = s[n + 1]
  BY SMTT(300)
<1>3. \A n \in DOMAIN s : n # 1 => n - 1 \in DOMAIN Tail(s) /\ Tail(s)[n - 1] = s[n]
  BY SMTT(300)
<1> QED
  BY <1>1, <1>2, <1>3

LEMMA AppendIs ==
  ASSUME NEW E, NEW s \in Seq(E), NEW x \in E
  PROVE  /\ Len(s) \in Nat /\ Len(s) + 1 \in DOMAIN Append(s, x) /\ Append(s, x)[Len(s) + 1] = x
         /\ \A n \in DOMAIN Append(s, x) : n \in DOMAIN s \/ n = Len(s) + 1
         /\ \A n \in DOMAIN s : /\ n \in DOMAIN Append(s, x) /\ Append(s, x)[n] = s[n]
                                /\ n \in 1..(Len(s) + 1)
BY SMTT(300)

-----------------------------------------------------------------------------
(* The type of a row. *)

Fields == UNION {[D -> 0..MaxValue] : D \in SUBSET Cols}

LEMMA OverwrittenType ==
  ASSUME NEW vals \in [Cols -> 0..MaxValue], NEW fields \in Fields
  PROVE  Overwritten(vals, fields) \in [Cols -> 0..MaxValue]
<1>1. \A c \in DOMAIN fields : fields[c] \in 0..MaxValue
  BY DEF Fields
<1>2. ASSUME NEW c \in Cols PROVE (IF c \in DOMAIN fields THEN fields[c] ELSE vals[c]) \in 0..MaxValue
  BY <1>1
<1> QED
  BY <1>2 DEF Overwritten

LEMMA RowParts ==
  ASSUME MaxValue \in Nat, NEW regions, NEW row \in RowType(regions)
  PROVE  /\ row.vals \in [Cols -> 0..MaxValue]
         /\ row # NoRow => row.owner \in regions \cup {"null"}
<1>1. 0 \in 0..MaxValue
  BY SMTT(300)
<1>2. NoRow.vals \in [Cols -> 0..MaxValue]
  BY <1>1 DEF NoRow
<1> QED
  BY <1>2 DEF RowType

\* No statement leaves anything but a row.
LEMMA EffectType ==
  ASSUME MaxValue \in Nat, NEW regions, NEW row \in RowType(regions),
         NEW e, e.fields \in Fields, NEW from \in regions, NEW mode
  PROVE  Effect(row, e, from, mode) \in RowType(regions)
<1> DEFINE T == RowType(regions)
<1>1. row.vals \in [Cols -> 0..MaxValue]
  BY RowParts
<1>2. Overwritten(row.vals, e.fields) \in [Cols -> 0..MaxValue]
  BY <1>1, OverwrittenType
<1>3. Written(row, e, from) \in T
  BY <1>2 DEF Written, RowType
<1>4. NoRow \in T /\ row \in T
  BY DEF RowType
<1> HIDE DEF T
<1>5. /\ Deleted(row, from) \in T /\ PartiallyUpdated(row, e, from, mode) \in T
      /\ Upserted(row, e, from, mode) \in T
  BY <1>3, <1>4 DEF Deleted, PartiallyUpdated, Upserted
<1>6. Effect(row, e, from, mode) \in T
  BY SMTT(300), <1>5 DEF Effect
<1> QED
  BY <1>6 DEF T

\* Nor does a transaction.
LEMMA AppliedType ==
  ASSUME MaxValue \in Nat, NEW regions, NEW old \in [Ids -> RowType(regions)],
         NEW E, \A e \in E : e.fields \in Fields, NEW kept \in Seq(E), \A e \in Range(kept) : e \in E,
         NEW from \in regions, NEW mode
  PROVE  ApplyEvents(old, kept, from, mode) \in [Ids -> RowType(regions)]
<1> DEFINE T == RowType(regions)
           new(id) == IF LastFor(id, kept) = 0 THEN old[id]
                      ELSE Effect(old[id], kept[LastFor(id, kept)], from, mode)
<1>1. ApplyEvents(old, kept, from, mode) = [id \in Ids |-> new(id)]
  BY DEF ApplyEvents
<1>2. ASSUME NEW id \in Ids PROVE new(id) \in T
  <2>1. CASE LastFor(id, kept) = 0
    BY <2>1
  <2>2. CASE LastFor(id, kept) # 0
    <3>1. kept[LastFor(id, kept)] \in Range(kept)
      BY <2>2, LastForIs
    <3>2. kept[LastFor(id, kept)].fields \in Fields /\ old[id] \in T
      BY <3>1
    <3>3. Effect(old[id], kept[LastFor(id, kept)], from, mode) \in T
      BY <3>2, EffectType
    <3> QED
      BY <2>2, <3>3
  <2> QED
    BY <2>1, <2>2
<1> HIDE DEF new, T
<1>3. [id \in Ids |-> new(id)] \in [Ids -> T]
  BY <1>2
<1> QED
  BY <1>1, <1>3 DEF T

-----------------------------------------------------------------------------
(* The kept events one after the other, the reference for applyEventsBatch.  *)

InOrderUpTo(rows, events, from, mode, f, limit) ==
  [n \in 0..limit |->
     IF n = 0 THEN rows
     ELSE [f[n - 1] EXCEPT ![IdOf(events[n])] = Effect(@, events[n], from, mode)]]

LEMMA InOrderExists ==
  ASSUME NEW rows, NEW events, NEW from, NEW mode, NEW N \in Nat
  PROVE  \E f : f = InOrderUpTo(rows, events, from, mode, f, N)
<1> DEFINE P == {n \in Nat : \E f : f = InOrderUpTo(rows, events, from, mode, f, n)}
           step(row, n) == [row EXCEPT ![IdOf(events[n])] = Effect(@, events[n], from, mode)]
<1>1. 0 \in P
  <2> DEFINE f == [n \in 0..0 |-> rows]
  <2>1. \A n \in 0..0 : n = 0
    BY SMTT(300)
  <2>2. f = InOrderUpTo(rows, events, from, mode, f, 0)
    BY <2>1 DEF InOrderUpTo
  <2> QED
    BY <2>2
<1>2. ASSUME NEW n \in Nat, n \in P PROVE n + 1 \in P
  <2>1. PICK f : f = InOrderUpTo(rows, events, from, mode, f, n)
    BY <1>2
  <2> DEFINE new == step(f[n], n + 1)
             g == [m \in 0..n + 1 |-> IF m = n + 1 THEN new ELSE f[m]]
  <2>2. \A m \in 0..n : f[m] = IF m = 0 THEN rows ELSE step(f[m - 1], m)
    BY <2>1 DEF InOrderUpTo
  <2> HIDE DEF new, step
  <2>3. ASSUME NEW m \in 0..n + 1
        PROVE  g[m] = IF m = 0 THEN rows ELSE step(g[m - 1], m)
    <3>1. CASE m = 0
      BY SMTT(300), <2>2, <3>1
    <3>2. CASE m \in 1..n
      <4>1. m \in 0..n /\ m - 1 \in 0..n /\ g[m] = f[m] /\ g[m - 1] = f[m - 1] /\ m # 0
        BY SMTT(300), <3>2
      <4> QED
        BY <2>2, <4>1
    <3>3. CASE m = n + 1
      <4>1. m # 0 /\ m - 1 = n /\ g[m] = new /\ g[m - 1] = f[n]
        BY SMTT(300), <3>3
      <4> QED
        BY <3>3, <4>1 DEF new
    <3> QED
      BY SMTT(300), <3>1, <3>2, <3>3
  <2>4. g = InOrderUpTo(rows, events, from, mode, g, n + 1)
    <3> HIDE DEF g
    <3> QED
      BY <2>3 DEF InOrderUpTo, g, step
  <2> QED
    BY SMTT(300), <2>4
<1> HIDE DEF P
<1>3. N \in P
  BY <1>1, <1>2, Induction
<1> QED
  BY <1>3 DEF P

\* What the events one after the other make of one row: only its own events change it.
IsFold(a, row, id, events, from, mode) ==
  /\ a[0] = row
  /\ \A n \in 1..Len(events) :
       a[n] = IF IdOf(events[n]) = id THEN Effect(a[n - 1], events[n], from, mode) ELSE a[n - 1]

HasFold(rows, id, events, from, mode) ==
  \E a : /\ IsFold(a, rows[id], id, events, from, mode)
         /\ a[Len(events)] = ApplyInOrder(rows, events, from, mode)[id]

LEMMA InOrderIsFold ==
  ASSUME NEW rows, NEW E, NEW events \in Seq(E), NEW from, NEW mode, NEW id \in DOMAIN rows
  PROVE  HasFold(rows, id, events, from, mode)
<1> DEFINE L == Len(events)
           f == CHOOSE g : g = InOrderUpTo(rows, events, from, mode, g, L)
           P == {n \in Nat : n <= L => DOMAIN f[n] = DOMAIN rows}
           a == [n \in 0..L |-> f[n][id]]
<1>0. L \in Nat
  BY SMTT(300)
<1>1. ApplyInOrder(rows, events, from, mode) = f[L]
  BY DEF ApplyInOrder, InOrderUpTo
<1>2. f = InOrderUpTo(rows, events, from, mode, f, L)
  <2> HIDE DEF L
  <2>1. \E g : g = InOrderUpTo(rows, events, from, mode, g, L)
    BY <1>0, InOrderExists
  <2> QED
    BY <2>1
<1> HIDE DEF f, L
<1>3. \A n \in 0..L : f[n] = IF n = 0 THEN rows
                             ELSE [f[n - 1] EXCEPT ![IdOf(events[n])] = Effect(@, events[n], from, mode)]
  BY <1>2 DEF InOrderUpTo
<1>4. ASSUME NEW n \in 1..L
      PROVE  /\ n - 1 \in 0..L /\ n \in 0..L
             /\ f[n] = [f[n - 1] EXCEPT ![IdOf(events[n])] = Effect(@, events[n], from, mode)]
  <2>1. n - 1 \in 0..L /\ n \in 0..L /\ n # 0
    BY SMTT(300), <1>0
  <2> QED
    BY <1>3, <2>1
<1>5. 0 \in 0..L /\ L \in 0..L /\ f[0] = rows
  <2>1. 0 \in 0..L /\ L \in 0..L
    BY SMTT(300), <1>0
  <2> QED
    BY <1>3, <2>1
<1>6. 0 \in P
  BY <1>5
<1>7. ASSUME NEW n \in Nat, n \in P PROVE n + 1 \in P
  <2> SUFFICES ASSUME n + 1 <= L PROVE DOMAIN f[n + 1] = DOMAIN rows
    BY SMTT(300)
  <2>1. n + 1 \in 1..L /\ n <= L /\ (n + 1) - 1 = n
    BY SMTT(300), <1>0
  <2>2. DOMAIN f[n] = DOMAIN rows
    BY <1>7, <2>1
  <2>3. f[n + 1] = [f[n] EXCEPT ![IdOf(events[n + 1])] = Effect(@, events[n + 1], from, mode)]
    BY <1>4, <2>1
  <2> QED
    BY <2>2, <2>3
<1> HIDE DEF P
<1>8. \A n \in Nat : n \in P
  BY <1>6, <1>7, Induction
<1>9. ASSUME NEW n \in 0..L PROVE DOMAIN f[n] = DOMAIN rows
  <2>1. n \in Nat /\ n <= L
    BY SMTT(300), <1>0
  <2> QED
    BY <1>8, <2>1 DEF P
<1>10. ASSUME NEW n \in 1..L
       PROVE  a[n] = IF IdOf(events[n]) = id THEN Effect(a[n - 1], events[n], from, mode) ELSE a[n - 1]
  <2> DEFINE k == IdOf(events[n])
             v(row) == Effect(row, events[n], from, mode)
  <2>1. a[n] = f[n][id] /\ a[n - 1] = f[n - 1][id] /\ id \in DOMAIN f[n - 1]
    BY <1>4, <1>9
  <2>2. f[n] = [f[n - 1] EXCEPT ![k] = v(f[n - 1][k])]
    BY <1>4
  <2> HIDE DEF k, v
  <2>3. f[n][id] = IF k = id THEN v(f[n - 1][id]) ELSE f[n - 1][id]
    BY <2>1, <2>2
  <2> QED
    BY <2>1, <2>3 DEF k, v
<1>11. a[0] = rows[id] /\ a[L] = f[L][id]
  BY <1>5
<1> HIDE DEF a
<1>12. IsFold(a, rows[id], id, events, from, mode)
  BY <1>10, <1>11 DEF IsFold, L
<1> QED
  BY <1>1, <1>11, <1>12 DEF L, HasFold
=============================================================================
