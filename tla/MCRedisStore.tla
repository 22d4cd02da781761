---------------------------- MODULE MCRedisStore ----------------------------
(***************************************************************************)
(* Small instances of RedisStore for TLC.                                  *)
(***************************************************************************)
EXTENDS RedisStore

CONSTANTS t1, t2, w1, k1

\* A keyed task with one retry, a backoff and a deadline, and a delayed one
\* that runs once and fails when its claim goes stale.
Retried ==
    [key |-> k1, max_retries |-> 1, backoff |-> TRUE,
     requeue_on_stale |-> TRUE, requeue_on_shutdown |-> TRUE,
     due |-> TRUE, expires_at |-> "later"]

Delayed ==
    [Retried EXCEPT !.max_retries = 0, !.requeue_on_stale = FALSE, !.due = FALSE,
                    !.expires_at = "never"]

\* Two records of one key.
TwoHolders == [t \in Task |-> {IF t = t1 THEN Retried ELSE Delayed}]
=============================================================================
