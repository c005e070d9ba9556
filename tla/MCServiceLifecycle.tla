-------------------------- MODULE MCServiceLifecycle --------------------------
(* One API and one worker started together. *)
EXTENDS ServiceLifecycle

CONSTANTS api, worker

MCApi == {api}
MCWorker == {worker}
=============================================================================
