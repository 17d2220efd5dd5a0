----------------------------- MODULE MCEventLog -----------------------------
(* EventLog with writers that are alike. *)
EXTENDS EventLog, TLC

WriterSymmetry == Permutations(Writers)
=============================================================================
