-------------------------- MODULE MCWorkerLifecycle --------------------------
(* Instances of the worker and its scripts for TLC.                        *)
EXTENDS WorkerLifecycleProps

CONSTANTS s1, s2, w1, w2, w3

=============================================================================
