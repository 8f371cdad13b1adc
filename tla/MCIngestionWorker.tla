-------------------------- MODULE MCIngestionWorker --------------------------
(* Model-checking instance of IngestionWorker.                             *)
EXTENDS IngestionWorker, TLC

(* Workers differ by name only; used by the runs without liveness.         *)
WorkerSymmetry == Permutations(Workers)
=============================================================================
