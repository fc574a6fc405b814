------------------------------ MODULE MCWorker ------------------------------
(* Dispatcher and workers on a small instance: one job has a retry, the other *)
(* has none.                                                                  *)
EXTENDS WorkerInv

CONSTANTS j1, j2

Retries == [j \in Jobs |-> IF j = j1 THEN 1 ELSE 0]

=============================================================================
