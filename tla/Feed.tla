--------------------------------- MODULE Feed ---------------------------------
(***************************************************************************)
(* What a region promises one of its peers about the changes of a table,    *)
(* without sessions, pods, channels or positions: changes become pending in *)
(* source order without a gap, only what was staged is applied, the peer's  *)
(* cursor only moves forward, and a change stops being pending because the  *)
(* cursor covers it or because the retention limits discard it.             *)
(***************************************************************************)
EXTENDS Integers

CONSTANT MaxVersion   \* bound: changes at the source

VARIABLES
  pending,     \* versions in the outbox
  cursor,      \* the last version the peer has applied
  discarded    \* versions the retention limits removed

state == <<pending, cursor, discarded>>

Init == pending = {} /\ cursor = 0 /\ discarded = {}

\* The version was staged at some time.
Known(v) == v \in pending \/ v <= cursor \/ v \in discarded

\* For the first time, or again after a restart of the producer.
Stage(v) ==
  /\ \A u \in 1..(v - 1) : Known(u)
  /\ pending' = pending \cup {v}
  /\ UNCHANGED <<cursor, discarded>>

\* The peer applies v; it will take nothing smaller any more.
Deliver(v) ==
  /\ Known(v) /\ v > cursor
  /\ cursor' = v
  /\ UNCHANGED <<pending, discarded>>

Settle(v) ==
  /\ v <= cursor
  /\ pending' = pending \ {v}
  /\ UNCHANGED <<cursor, discarded>>

Discard(S) ==
  /\ S \subseteq pending
  /\ pending' = pending \ S
  /\ discarded' = discarded \cup S
  /\ UNCHANGED cursor

Next ==
  \/ \E v \in 1..MaxVersion : Stage(v) \/ Deliver(v) \/ Settle(v)
  \/ \E S \in SUBSET (1..MaxVersion) : Discard(S)

Spec == Init /\ [][Next]_state
=============================================================================
