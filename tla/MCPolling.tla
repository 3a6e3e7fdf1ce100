------------------------------ MODULE MCPolling ------------------------------
\* Instances of Polling for TLC.
EXTENDS Polling

CONSTANTS p1, p2

OneTable == {"t"}
\* The database orders keys as ComparePrimaryKeys does, or (a collation) the other way.
BothOrders == {[k \in Keys |-> k], [k \in Keys |-> 9 - k]}
=============================================================================
