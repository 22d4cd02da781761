--------------------------- MODULE MCWorkerFleet ---------------------------
(***************************************************************************)
(* Small instances of WorkerFleet for TLC.                                 *)
(***************************************************************************)
EXTENDS WorkerFleet, TLC

CONSTANTS t1, t2, t3, w1, w2, k1

Plain ==
    [key |-> None, max_retries |-> 1, backoff |-> TRUE,
     requeue_on_stale |-> TRUE, requeue_on_shutdown |-> TRUE,
     due |-> TRUE, expires_at |-> "never"]

\* One keyed, expiring, delayed task with backoff that shutdown does not requeue.
Delayed ==
    [key |-> k1, max_retries |-> 1, backoff |-> TRUE,
     requeue_on_stale |-> FALSE, requeue_on_shutdown |-> FALSE,
     due |-> FALSE, expires_at |-> "later"]

Keyed == [Plain EXCEPT !.key = k1, !.max_retries = 0]

KeyTasks == {Keyed, [Delayed EXCEPT !.max_retries = 0]}
OneTask == {Plain}
TaskSymmetry == Permutations(Task)
=============================================================================
