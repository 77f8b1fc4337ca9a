--------------------------- MODULE MCBridgeTasks ---------------------------
(* Small instances of BridgeTasks for TLC.                                 *)
EXTENDS BridgeTasks, TLC

CONSTANTS t1, t2, t3, w1, w2, c1

SmallRetries == {Malformed, 0, 1}
EdgeRetries == {-1, 0}
OneRetry == {1}

Symmetry == Permutations(Task) \cup Permutations(Worker)
=============================================================================
