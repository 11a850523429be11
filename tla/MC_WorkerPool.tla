---------------------------- MODULE MC_WorkerPool ----------------------------
(* Model-checking instance of WorkerPool. *)
EXTENDS WorkerPool
=============================================================================
