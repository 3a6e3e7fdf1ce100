----------------------------- MODULE MCDelivery -----------------------------
(* Small instances of Delivery: the sessions are served by pod p1, where    *)
(* the producer may run or not.                                             *)
EXTENDS Delivery, TLC

CONSTANTS s1, s2, p1, p2

InOnePod == [s \in Sessions |-> p1]

\* Sound for the one-pod instances: nothing tells the two sessions apart.
SymmetricSessions == Permutations(Sessions)
=============================================================================
