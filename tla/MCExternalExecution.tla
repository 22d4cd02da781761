------------------------ MODULE MCExternalExecution ------------------------
(***************************************************************************)
(* One deployment: the record is executed by one of the external backends, *)
(* the same one throughout.                                                *)
(***************************************************************************)
EXTENDS Brokers, CloudRun

ExternalNext == BrokerNext \/ CloudRunNext

ExternalSpec == Init /\ [][ExternalNext]_vars /\ BrokerFairness

\* One delayed retry, also after a lost heartbeat.
OneRetry(expiry) ==
    [key |-> None, max_retries |-> 1, backoff |-> TRUE, requeue_on_stale |-> TRUE,
     requeue_on_shutdown |-> FALSE, due |-> TRUE, expires_at |-> expiry]

\* Every kind of transport; no definition tells Pub/Sub from SQS.
EveryTransport ==
    [t \in {"sqs", "kafka", "rabbitmq", "cloudrun"} |->
        OneRetry(IF t = "rabbitmq" THEN "later" ELSE "never")]
=============================================================================
