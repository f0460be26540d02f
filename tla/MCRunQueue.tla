------------------------------ MODULE MCRunQueue ------------------------------
(* RunQueue on small instances: workers are interchangeable. *)
EXTENDS RunQueue, TLC

WorkerSymmetry == Permutations(Workers)
=============================================================================
