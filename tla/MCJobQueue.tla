----------------------------- MODULE MCJobQueue -----------------------------
(* Instances of JobQueue for TLC.                                          *)
EXTENDS JobQueue, TLC

WorkerSymmetry == Permutations(Workers)
=============================================================================
