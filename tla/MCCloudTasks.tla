---------------------------- MODULE MCCloudTasks ----------------------------
(***************************************************************************)
(* Small instances of CloudTasks for TLC.                                  *)
(***************************************************************************)
EXTENDS CloudTasks, TLC

CONSTANTS t1, c1, c2, s1, w1, k1

Retried ==
    [key |-> None, max_retries |-> 1, backoff |-> TRUE,
     requeue_on_stale |-> TRUE, requeue_on_shutdown |-> FALSE,
     due |-> TRUE, expires_at |-> "never"]

OneRetried == {Retried}
OneExpiring == {[Retried EXCEPT !.expires_at = "later"]}

\* Requests are interchangeable; used for safety only.
Symmetry == Permutations(Consumer)
=============================================================================
