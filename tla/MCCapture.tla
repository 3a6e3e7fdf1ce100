------------------------------ MODULE MCCapture ------------------------------
(* Small instances of Capture.                                              *)
EXTENDS Capture, TLC

CONSTANTS p1, p2, a, b

OneTable == {"orders"}
\* Peer p2 has a row of its own under key 2.
OwnsTwo == [p \in Peers |-> IF p = p2 THEN {<<"orders", 2>>} ELSE {}]
HasOne == {<<"orders", 1>>}
\* A decoded insert or update may be longer than its WAL record, so that its version
\* passes that of the next record and is that of the next but one.
MayBeLong == [op \in {"insert", "update", "delete"} |-> IF op = "delete" THEN {1} ELSE {1, 5}]
AllShort == [op \in {"insert", "update", "delete"} |-> {1}]

SymmetricCols == Permutations(Cols)
SplitOrWhole == {[maxEvents |-> 1, updateDiff |-> FALSE, identityFull |-> TRUE],
                 [maxEvents |-> 2, updateDiff |-> TRUE, identityFull |-> TRUE]}
AllConfigs == SplitOrWhole \cup {[maxEvents |-> 2, updateDiff |-> FALSE, identityFull |-> FALSE]}
=============================================================================
