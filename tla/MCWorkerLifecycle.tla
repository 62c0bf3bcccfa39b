-------------------------- MODULE MCWorkerLifecycle --------------------------
(* Two handlers (the outbox loop and the consumer), both signals and two    *)
(* failures anywhere.                                                       *)
EXTENDS WorkerLifecycle
=============================================================================
