---------------------------- MODULE MCWorkerPool -----------------------------
(* More items than slots; concurrency arguments below, at and above one. *)
EXTENDS WorkerPool

MCConcurrencies == {-1, 1, 2, 3}
==============================================================================
