----------------------------- MODULE MCJobQueue -----------------------------
(* Constants of JobQueue for model checking: one worker's clock ahead of   *)
(* the database, one behind it.                                            *)
EXTENDS JobQueue, TLC
CONSTANTS w1, w2
OneWorker  == {w1}
TwoWorkers == {w1, w2}
SkewedClocks == [w \in Workers |-> IF w = w1 THEN 1 ELSE 0]
WorkerSymmetry == Permutations(TwoWorkers)
FairClocks   == [w \in Workers |-> 0]
OldestInstant == -1
=============================================================================
