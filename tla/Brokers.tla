------------------------------ MODULE Brokers ------------------------------
(***************************************************************************)
(* Execution through SQS, Pub/Sub, Kafka and RabbitMQ.  The four backends  *)
(* share one design: reserve the record with a fresh attempt reference,    *)
(* publish its id, and let a consumer settle the message after consume_one *)
(* returned.  They differ in what unsettled messages become.               *)
(***************************************************************************)
EXTENDS ExternalAttempt

IsBroker == transport \in {"sqs", "pubsub", "kafka", "rabbitmq"}

UnchangedByBroker == UNCHANGED <<transport, started>>

----------------------------------------------------------------------------
\* dispatch: reserve, then publish.
Dispatch(d) ==
    /\ calls[d] = Idle /\ CanReserve
    /\ LET attempt == [kind |-> "attempt", gen |-> rec.retry_count, n |-> FreshNumber]
       IN  /\ SetRef(attempt)
           /\ calls' = [calls EXCEPT ![d] = [op |-> "send", ref |-> attempt, gen |-> rec.retry_count]]
    /\ UNCHANGED <<rec, carriers, runners, faults>> /\ UnchangedByBroker

\* Fault: an attempt is republished however young it is.
RotatableAlways == TRUE

\* What repair takes for a lost delivery: the attempt is of another
\* generation, or it is old.
Rotatable == ref.gen # rec.retry_count \/ aged

\* repair: rotate the reference under the old one, then publish.
Repair(d) ==
    /\ calls[d] = Idle /\ IsQueued(rec) /\ ref.kind = "attempt" /\ Rotatable
    /\ LET attempt == [kind |-> "attempt", gen |-> rec.retry_count, n |-> FreshNumber]
       IN  /\ SetRef(attempt)
           /\ calls' = [calls EXCEPT ![d] = [op |-> "send", ref |-> attempt, gen |-> rec.retry_count]]
    /\ UNCHANGED <<rec, carriers, runners, faults>> /\ UnchangedByBroker

\* clear_execution_ref under a generation and a reference.
ClearRef(gen, expected) ==
    IF IsQueued(rec) /\ rec.retry_count = gen /\ ref = expected
    THEN ref' = NoRef /\ aged' = FALSE ELSE UNCHANGED <<ref, aged>>

\* _send: the message arrives, whether or not its caller learns of it.
SendArrives(d) ==
    /\ calls[d].op = "send" /\ Len(carriers) < MaxCarriers
    /\ carriers' = Append(carriers, [ref |-> calls[d].ref, state |-> "ready"])
    /\ calls' = [calls EXCEPT ![d] = Idle]
    /\ UNCHANGED <<rec, ref, aged, runners, faults>> /\ UnchangedByBroker

\* A definitive refusal gives the record back.
SendRefused(d) ==
    /\ calls[d].op = "send" /\ Fault
    /\ ClearRef(calls[d].gen, calls[d].ref)
    /\ calls' = [calls EXCEPT ![d] = Idle]
    /\ UNCHANGED <<rec, carriers, runners>> /\ UnchangedByBroker

\* An unknown outcome, a cancellation or a crash keeps the reservation.
SendLost(d) ==
    /\ calls[d].op = "send" /\ Fault
    /\ calls' = [calls EXCEPT ![d] = Idle]
    /\ UNCHANGED <<rec, ref, aged, carriers, runners>> /\ UnchangedByBroker

----------------------------------------------------------------------------
\* The broker.

\* receive_message, streaming pull, the iterator; a Kafka consumer reads its
\* partition in order.
Deliver(c, i) ==
    /\ runners[c] = IdleRunner /\ carriers[i].state = "ready"
    /\ transport = "kafka" =>
          /\ \A j \in 1..(i - 1) : carriers[j].state # "ready"
          /\ \A e \in Runner, j \in DOMAIN carriers :
                carriers[j].state = "taken" => carriers[j].ref # runners[e].ref
    /\ carriers' = [carriers EXCEPT ![i].state = "taken"]
    /\ runners' = [runners EXCEPT ![c] = [pc |-> "received", ref |-> carriers[i].ref, gen |-> 0]]
    /\ UNCHANGED <<rec, ref, aged, calls, faults>> /\ UnchangedByBroker

\* A message is offered again while its consumer still works on it: its
\* visibility, deadline or connection ended.  A Kafka partition that is
\* assigned anew is read again from the committed offset.
Redeliver(i) ==
    /\ carriers[i].state = "taken" /\ Fault
    /\ carriers' = IF transport = "kafka"
                   THEN [j \in DOMAIN carriers |-> [carriers[j] EXCEPT !.state = "ready"]]
                   ELSE [carriers EXCEPT ![i].state = "ready"]
    /\ UNCHANGED <<rec, ref, aged, calls, runners>> /\ UnchangedByBroker

----------------------------------------------------------------------------
\* _consume_message, around consume_one.

\* The attempt that the message names.
Expects(c) == rec.retry_count = runners[c].ref.gen /\ ref = runners[c].ref

ClaimDelivery(c) == Claim(c, Expects(c))

\* Settling one message; a Kafka offset settles all that precede it.
Settled(x) ==
    LET at == {i \in DOMAIN carriers : carriers[i].ref = x}
    IN  IF transport = "kafka"
        THEN IF at = {} THEN carriers
             ELSE SubSeq(carriers, 1 + CHOOSE i \in at : TRUE, Len(carriers))
        ELSE SelectSeq(carriers, LAMBDA m : m.ref # x)

\* Any outcome but a failure: acknowledge.
Acknowledge(c) ==
    /\ runners[c].pc \in {"succeeded", "lost"}
    /\ carriers' = Settled(runners[c].ref)
    /\ runners' = [runners EXCEPT ![c] = IdleRunner]
    /\ UNCHANGED <<rec, ref, aged, calls, faults>> /\ UnchangedByBroker

\* A failure: look at the record again.  A record that is gone leaves the
\* message (RabbitMQ acknowledges it), one that has ended settles it.
AfterFailure(c) ==
    /\ runners[c].pc = "failed"
    /\ CASE IsTerminal(rec) \/ (transport = "rabbitmq" /\ ~IsStored(rec)) ->
              /\ carriers' = Settled(runners[c].ref)
              /\ runners' = [runners EXCEPT ![c] = IdleRunner]
         [] ~IsStored(rec) /\ transport # "rabbitmq" ->
              /\ runners' = [runners EXCEPT ![c] = IdleRunner]
              /\ carriers' = Abandoned(runners[c].ref)
         [] OTHER ->
              /\ runners' = [runners EXCEPT ![c].pc = "clear", ![c].gen = rec.retry_count]
              /\ UNCHANGED carriers
    /\ UNCHANGED <<rec, ref, aged, calls, faults>> /\ UnchangedByBroker

\* Give the retried record back to dispatch, and settle the message if that
\* succeeded (RabbitMQ settles it anyway).
ClearAfterRetry(c) ==
    LET attempt == runners[c].ref
        cleared == IsQueued(rec) /\ rec.retry_count = runners[c].gen /\ ref = attempt
    IN  /\ runners[c].pc = "clear"
        /\ ClearRef(runners[c].gen, attempt)
        /\ carriers' = IF cleared \/ transport = "rabbitmq" THEN Settled(attempt)
                       ELSE Abandoned(attempt)
        /\ runners' = [runners EXCEPT ![c] = IdleRunner]
        /\ UNCHANGED <<rec, calls, faults>> /\ UnchangedByBroker

ConsumerStep(c) ==
    ClaimDelivery(c) \/ Acknowledge(c) \/ AfterFailure(c) \/ ClearAfterRetry(c)

BrokerNext ==
    /\ IsBroker
    /\ \/ \E d \in Dispatcher :
             Dispatch(d) \/ Repair(d) \/ SendArrives(d) \/ SendRefused(d) \/ SendLost(d)
       \/ \E i \in DOMAIN carriers : Redeliver(i) \/ \E c \in Runner : Deliver(c, i)
       \/ \E c \in Runner : ConsumerStep(c)
       \/ FleetStep

----------------------------------------------------------------------------
\* The work that workers, consumers, maintenance and brokers keep doing.
\* Faults, cancellations and the clock's harmful ticks are not among it.
BrokerFairness ==
    /\ \A d \in Dispatcher :
          /\ SF_vars(IsBroker /\ Dispatch(d)) /\ SF_vars(IsBroker /\ Repair(d))
          /\ WF_vars(IsBroker /\ SendArrives(d))
    /\ \A c \in Runner :
          /\ WF_vars(IsBroker /\ ConsumerStep(c))
          /\ WF_vars(IsBroker /\ ConsumeOneStep(c))
    /\ SF_vars(IsBroker /\ \E i \in DOMAIN carriers, c \in Runner : Deliver(c, i))
    /\ WF_vars(BecomesDue) /\ WF_vars(RefAges) /\ WF_vars(ExpireOverdue)
    /\ SF_vars(RecoverStaleTasks)
    /\ WF_vars(HeartbeatAges /\ \A c \in Runner :
                  ~(runners[c].pc = "body" /\ Fenced(rec, runners[c].gen)))

\* Messages that are lost, refused, repeated or settled for another attempt
\* and consumers that die leave no record waiting for ever.
EveryTaskSettles == IsBroker ~> ~IsActive(rec)
=============================================================================
