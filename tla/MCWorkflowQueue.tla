---------------------------- MODULE MCWorkflowQueue ----------------------------
(* Instances of WorkflowQueue for TLC. *)
EXTENDS WorkflowQueue

CONSTANTS w1, w2

\* One worker_id per process.
MCDistinctIds == [w \in Workers |-> w]

\* Every process keeps the default worker_id of settings.py.
MCDefaultId == [w \in Workers |-> w1]

===============================================================================
