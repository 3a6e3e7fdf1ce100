------------------------------- MODULE MCLease -------------------------------
(***************************************************************************)
(* Small instances of Lease.                                               *)
(***************************************************************************)
EXTENDS Lease, TLC

CONSTANTS w1, w2, w3, o1, o2, o3

\* Three processes, one worker each.
DistinctOwner == (w1 :> o1) @@ (w2 :> o2) @@ (w3 :> o3)
\* One pod clock equal to the database clock, one a tick fast, one a tick slow.
OneTickSkew == [w \in Workers |-> IF w = w1 THEN 1 ELSE IF w = w2 THEN -1 ELSE 0]
=============================================================================
