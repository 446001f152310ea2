----------------------------- MODULE MCJobQueue -----------------------------
(* Instances of JobQueue for TLC.                                            *)
EXTENDS JobQueue, TLC

CONSTANTS w1, w2, k1, k2

\* The two keys have different priorities where there are two.
MCPriority == [k \in Keys |-> IF k = k1 THEN 2 ELSE 3]

WorkerSymmetry == Permutations(Workers)
=============================================================================
