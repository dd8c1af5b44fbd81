---------------------------- MODULE MCWorkerPool ---------------------------
(* Two workers that compete for two tasks, one of them killed at any moment, *)
(* and one spurious wakeup.                                                  *)
EXTENDS WorkerPool

CONSTANTS w1, w2, t1, t2
=============================================================================
