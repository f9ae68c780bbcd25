-------------------------- MODULE MCWorkerConsumer --------------------------
(* Small instances of WorkerConsumer for TLC. *)
EXTENDS WorkerConsumer
=============================================================================
