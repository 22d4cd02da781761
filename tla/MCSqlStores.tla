---------------------------- MODULE MCSqlStores ----------------------------
(***************************************************************************)
(* Small instances of SqlStores for TLC.                                   *)
(***************************************************************************)
EXTENDS SqlStores

CONSTANTS t1, t2, w1, k1

Retried ==
    [key |-> k1, max_retries |-> 1, backoff |-> FALSE,
     requeue_on_stale |-> TRUE, requeue_on_shutdown |-> TRUE,
     due |-> TRUE, expires_at |-> "never"]

Expiring ==
    [Retried EXCEPT !.max_retries = 0, !.requeue_on_shutdown = FALSE,
                    !.due = FALSE, !.expires_at = "later"]

TwoHolders ==
    [t \in Task |-> IF t = t1 THEN {Retried} ELSE {Expiring, [Expiring EXCEPT !.key = None]}]

TwoProducers == [producer |-> 2, heartbeat |-> 1, other |-> 1]
=============================================================================
