----------------------------- MODULE CloudTasks -----------------------------
(***************************************************************************)
(* Execution through Google Cloud Tasks: the execution backend that names  *)
(* and creates deliveries, the provider that holds and repeats them, the   *)
(* HTTP route that answers them and the one-shot consumer behind it, over  *)
(* a store whose operations are atomic.                                    *)
(*                                                                         *)
(* No worker polls these records: a queued record runs only when some      *)
(* delivery arrives for it.  A delivery carries the record id and nothing  *)
(* else, may arrive early, late, twice or never, and is repeated until it  *)
(* is answered with success.                                               *)
(***************************************************************************)
EXTENDS QueueRecord, FiniteSets

CONSTANTS
    Task,          \* record ids
    Options,       \* the enqueue() options in use
    Consumer,      \* requests the route can serve at once
    Service,       \* other users of the queue: producers, maintenance
    MaxNames,      \* bound: delivery names in use at once
    MaxOutages     \* bound: crashes, failed calls and lost deliveries

ASSUME CloudTasksAssumption ==
    /\ None \notin Task
    /\ Options \subseteq EnqueueOptions
    /\ Consumer \cap Service = {}
    /\ MaxNames \in Nat /\ MaxOutages \in Nat

VARIABLES
    records,     \* the stored records
    refs,        \* their execution_ref: a delivery name or None
    deliveries,  \* per name, what it was made for and where it is
    dispatches,  \* per caller, the dispatch, repair or cancel it is in
    todo,        \* per service, requeued records it has still to dispatch
    consumers,   \* per consumer, the request it serves
    granted,     \* per record, the generations a claim has started
    outages      \* faults so far

vars == <<records, refs, deliveries, dispatches, todo, consumers, granted, outages>>

----------------------------------------------------------------------------
\* Names are random and never repeat; here a number is used again once
\* nothing mentions the delivery it stood for.
Name == 1 .. MaxNames
Caller == Consumer \cup Service

\* A name is unused, reserved in the store, held by the provider, or spent:
\* answered, deleted or lost.  The provider refuses a name it has ever held.
Delivery ==
    [task : Task \cup {None}, gen : Nat, state : {"unused", "reserved", "held", "spent"}]

Unused == [task |-> None, gen |-> 0, state |-> "unused"]

DispatchPc ==
    {"idle", "read", "reserve", "check", "create", "owns",
     "listed", "exists", "delete", "cancel"}

\* A dispatch under way: the attempt it read, that attempt's reference, and
\* the name it is about to create.
Dispatch ==
    [pc : DispatchPc, task : Task \cup {None}, gen : Nat,
     ref : Name \cup {None}, name : Name \cup {None}]

Idle == [pc |-> "idle", task |-> None, gen |-> 0, ref |-> None, name |-> None]

ConsumerPc ==
    {"idle", "claim", "recheck", "recover", "refresh", "reclaim", "resolve", "body",
     "scheduling", "lost", "ack", "nack"}

\* A request: the record and the delivery it is for, and the attempt that it
\* has claimed.
Request ==
    [pc : ConsumerPc, task : Task \cup {None}, name : Name \cup {None},
     gen : Nat \cup {None}]

NoRequest == [pc |-> "idle", task |-> None, name |-> None, gen |-> None]

Init ==
    /\ records = [t \in Task |-> NoRecord]
    /\ refs = [t \in Task |-> None]
    /\ deliveries = [n \in Name |-> Unused]
    /\ dispatches = [x \in Caller |-> Idle]
    /\ todo = [s \in Service |-> {}]
    /\ consumers = [c \in Consumer |-> NoRequest]
    /\ granted = [t \in Task |-> {}]
    /\ outages = 0

Outage ==
    /\ outages < MaxOutages
    /\ outages' = outages + 1

----------------------------------------------------------------------------
\* The pieces the actions share.

InUse(n) ==
    \/ deliveries[n].state = "held"
    \/ \E t \in Task : refs[t] = n
    \/ \E x \in Caller : n \in {dispatches[x].ref, dispatches[x].name}
    \/ \E c \in Consumer : consumers[c].name = n

\* What is known of the names after a step, without those nothing mentions.
Mentioned(ds) ==
    [n \in Name |->
        IF \/ ds[n].state = "held"
           \/ \E t \in Task : refs'[t] = n
           \/ \E x \in Caller : n \in {dispatches'[x].ref, dispatches'[x].name}
           \/ \E c \in Consumer : consumers'[c].name = n
        THEN ds[n] ELSE Unused]

FreshName(n) == ~InUse(n) /\ \A m \in Name : m < n => InUse(m)

\* _same_attempt: the record still waits, at the generation and with the
\* reference that the caller knows.
SameAttempt(t, gen, ref) ==
    /\ IsQueued(records[t]) /\ ~IsOverdue(records[t])
    /\ records[t].retry_count = gen
    /\ refs[t] = ref

\* _is_current_delivery_name: the name was made for this generation.
IsCurrentName(t, n) == n # None /\ deliveries[n].gen = records[t].retry_count

SetPc(x, pc) == dispatches' = [dispatches EXCEPT ![x].pc = pc]

WithRequestPc(c, pc) == [consumers EXCEPT ![c].pc = pc]

\* A dispatch is over.  A consumer that waited for it answers its request:
\* with success unless the dispatch raised.
EndDispatch(x, raised) ==
    /\ dispatches' = [dispatches EXCEPT ![x] = Idle]
    /\ consumers' = IF x \in Consumer
                    THEN WithRequestPc(x, IF raised THEN "nack" ELSE "ack")
                    ELSE consumers

\* schedule reads the record itself; repair starts from a copy.
StartSchedule(x, t) ==
    dispatches' = [dispatches EXCEPT ![x] = [Idle EXCEPT !.pc = "read", !.task = t]]

StartFromCopy(x, pc, t) ==
    dispatches' = [dispatches EXCEPT
                     ![x] = [Idle EXCEPT !.pc = pc, !.task = t,
                                         !.gen = records[t].retry_count, !.ref = refs[t]]]

\* claim_task of the store.  A record with a reference starts although its
\* deadline has passed.
CanClaim(t) == IsQueued(records[t]) /\ records[t].due
ClaimExpires(t) == CanClaim(t) /\ refs[t] = None /\ IsOverdue(records[t])
ClaimStarts(t) == CanClaim(t) /\ ~ClaimExpires(t)

----------------------------------------------------------------------------
\* CloudTasksExecutionBackend.schedule, one call of the store or the provider
\* at a time.

ScheduleRead(x) ==
    LET t == dispatches[x].task
    IN  /\ dispatches[x].pc = "read"
        /\ IF ~IsQueued(records[t]) THEN EndDispatch(x, FALSE)
           ELSE /\ dispatches' =
                     [dispatches EXCEPT
                        ![x].gen = records[t].retry_count,
                        ![x].ref = IF IsCurrentName(t, refs[t]) THEN None ELSE refs[t],
                        ![x].name = IF IsCurrentName(t, refs[t]) THEN refs[t] ELSE None,
                        ![x].pc = IF IsCurrentName(t, refs[t]) THEN "check" ELSE "reserve"]
                /\ UNCHANGED consumers
        /\ UNCHANGED <<records, refs, deliveries, todo, granted, outages>>

\* _reserve_delivery_name: the name is stored before anything is created.
ReserveDeliveryName(x, n) ==
    LET d == dispatches[x]
    IN  /\ d.pc = "reserve"
        /\ FreshName(n)
        /\ IF SameAttempt(d.task, d.gen, d.ref)
           THEN /\ refs' = [refs EXCEPT ![d.task] = n]
                /\ dispatches' = [dispatches EXCEPT ![x].pc = "check",
                                                      ![x].ref = None, ![x].name = n]
                /\ UNCHANGED consumers
                /\ deliveries' = Mentioned([deliveries EXCEPT
                                             ![n] = [task |-> d.task, gen |-> d.gen,
                                                     state |-> "reserved"]])
           ELSE EndDispatch(x, FALSE) /\ UNCHANGED <<refs, deliveries>>
        /\ UNCHANGED <<records, todo, granted, outages>>

\* _create_delivery: ownership is checked, then the provider is called.
CheckOwnership(x) ==
    LET d == dispatches[x]
    IN  /\ d.pc = "check"
        /\ IF SameAttempt(d.task, d.gen, d.name)
           THEN SetPc(x, "create") /\ UNCHANGED consumers
           ELSE EndDispatch(x, FALSE)
        /\ UNCHANGED <<records, refs, deliveries, todo, granted, outages>>

CreateDelivery(x) ==
    LET n == dispatches[x].name
    IN  /\ dispatches[x].pc = "create"
        /\ IF deliveries[n].state = "reserved"
           THEN /\ deliveries' = [deliveries EXCEPT ![n].state = "held"]
                /\ EndDispatch(x, FALSE)
           ELSE SetPc(x, "owns") /\ UNCHANGED <<deliveries, consumers>>
        /\ UNCHANGED <<records, refs, todo, granted, outages>>

\* The call fails, having taken effect or not: QueueDispatchError.
CreateFails(x, effective) ==
    LET n == dispatches[x].name
    IN  /\ dispatches[x].pc = "create"
        /\ deliveries' = IF effective /\ deliveries[n].state = "reserved"
                         THEN [deliveries EXCEPT ![n].state = "held"] ELSE deliveries
        /\ EndDispatch(x, TRUE)
        /\ Outage
        /\ UNCHANGED <<records, refs, todo, granted>>

\* _owns_delivery, after "already exists".
OwnsDelivery(x) ==
    LET d == dispatches[x]
    IN  /\ d.pc = "owns"
        /\ EndDispatch(x, ~SameAttempt(d.task, d.gen, d.name))
        /\ UNCHANGED <<records, refs, deliveries, todo, granted, outages>>

\* The store cannot be reached in mid-dispatch, or the lookup of a repair
\* fails: the dispatch raises.
DispatchCallFails(x) ==
    /\ dispatches[x].pc \in {"read", "reserve", "check", "owns", "listed", "exists"}
    /\ EndDispatch(x, TRUE)
    /\ Outage
    /\ UNCHANGED <<records, refs, deliveries, todo, granted>>

----------------------------------------------------------------------------
\* Producers and maintenance.

Free(s) == dispatches[s].pc = "idle" /\ todo[s] = {}

\* enqueue: the record is committed, then scheduled.
Enqueue(s, t, o) ==
    /\ Free(s)
    /\ records[t].status = "absent"
    /\ records' = [records EXCEPT ![t] = NewRecord(o)]
    /\ StartSchedule(s, t)
    /\ UNCHANGED <<refs, deliveries, todo, consumers, granted, outages>>

\* Fault: repair looks only at records that have a reference.
RepairCandidateWithRef(t) ==
    IsQueued(records[t]) /\ ~IsOverdue(records[t]) /\ refs[t] # None

\* list_dispatch_repair_candidates.
RepairCandidate(t) == IsQueued(records[t]) /\ ~IsOverdue(records[t])

\* repair: one candidate, as it was when it was listed.
Repair(s, t) ==
    /\ Free(s)
    /\ RepairCandidate(t)
    /\ StartFromCopy(s, "listed", t)
    /\ UNCHANGED <<records, refs, deliveries, todo, consumers, granted, outages>>

\* _repair_one reads the candidate again.
RepairRead(s) ==
    LET d == dispatches[s]
    IN  /\ d.pc = "listed"
        /\ IF SameAttempt(d.task, d.gen, d.ref)
           THEN SetPc(s, IF d.ref = None THEN "reserve" ELSE "exists")
           ELSE dispatches' = [dispatches EXCEPT ![s] = Idle]
        /\ UNCHANGED <<records, refs, deliveries, todo, consumers, granted, outages>>

\* _delivery_exists: a delivery the provider still holds is left alone.
DeliveryExists(s) ==
    LET d == dispatches[s]
    IN  /\ d.pc = "exists"
        /\ IF deliveries[d.ref].state = "held"
           THEN dispatches' = [dispatches EXCEPT ![s] = Idle]
           ELSE SetPc(s, "reserve")
        /\ UNCHANGED <<records, refs, deliveries, todo, consumers, granted, outages>>

StaleTasks == {t \in Task : IsStale(records[t])}

RecoverAll == [t \in Task |-> IF t \in StaleTasks THEN RecoverStale(records[t]) ELSE records[t]]

\* recover_stale_tasks of the maintenance pass: every stale record, and then
\* the requeued ones are dispatched one by one.
RecoverStaleTasks(s) ==
    /\ Free(s)
    /\ StaleTasks # {}
    /\ records' = RecoverAll
    /\ todo' = [todo EXCEPT ![s] = {t \in StaleTasks : IsQueued(RecoverAll[t])}]
    /\ UNCHANGED <<refs, deliveries, dispatches, consumers, granted, outages>>

RedispatchRequeued(s, t) ==
    /\ dispatches[s].pc = "idle"
    /\ t \in todo[s]
    /\ todo' = [todo EXCEPT ![s] = @ \ {t}]
    /\ StartSchedule(s, t)
    /\ UNCHANGED <<records, refs, deliveries, consumers, granted, outages>>

\* expire_overdue leaves a record with a reference to its provider.
ExpireOverdue(t) ==
    /\ IsQueued(records[t]) /\ IsOverdue(records[t]) /\ refs[t] = None
    /\ records' = [records EXCEPT ![t] = ExpireRecord(@)]
    /\ UNCHANGED <<refs, deliveries, dispatches, todo, consumers, granted, outages>>

CleanupTerminal(t) ==
    /\ IsTerminal(records[t])
    /\ records' = [records EXCEPT ![t] = DeleteRecord(@)]
    /\ refs' = [refs EXCEPT ![t] = None]
    /\ UNCHANGED <<deliveries, dispatches, todo, consumers, granted, outages>>

\* cancel_task: the record is read, its delivery deleted, and then whatever
\* attempt is current is cancelled.
CancelRead(s, t) ==
    /\ Free(s)
    /\ IsStored(records[t])
    /\ dispatches' = [dispatches EXCEPT
                        ![s] = [Idle EXCEPT !.pc = IF refs[t] = None THEN "cancel" ELSE "delete",
                                            !.task = t, !.ref = refs[t]]]
    /\ UNCHANGED <<records, refs, deliveries, todo, consumers, granted, outages>>

Spend(n) ==
    IF deliveries[n].state = "held" THEN [deliveries EXCEPT ![n].state = "spent"]
    ELSE deliveries

CancelExecution(s) ==
    /\ dispatches[s].pc = "delete"
    /\ deliveries' = Spend(dispatches[s].ref)
    /\ dispatches' = [dispatches EXCEPT ![s].pc = "cancel", ![s].ref = None]
    /\ UNCHANGED <<records, refs, todo, consumers, granted, outages>>

\* The provider refuses, having deleted the delivery or not: no cancellation.
CancelRefused(s, effective) ==
    /\ dispatches[s].pc = "delete"
    /\ deliveries' = IF effective THEN Spend(dispatches[s].ref) ELSE deliveries
    /\ dispatches' = [dispatches EXCEPT ![s] = Idle]
    /\ Outage
    /\ UNCHANGED <<records, refs, todo, consumers, granted>>

CancelCommit(s, include_running) ==
    LET t == dispatches[s].task
    IN  /\ dispatches[s].pc = "cancel"
        /\ records' = IF IsQueued(records[t]) \/
                         (include_running /\ records[t].status = "running")
                      THEN [records EXCEPT ![t] = CancelTask(@)] ELSE records
        /\ dispatches' = [dispatches EXCEPT ![s] = Idle]
        /\ UNCHANGED <<refs, deliveries, todo, consumers, granted, outages>>

\* A producer or the maintenance process dies.
ServiceCrash(s) ==
    /\ ~Free(s)
    /\ dispatches' = [dispatches EXCEPT ![s] = Idle]
    /\ todo' = [todo EXCEPT ![s] = {}]
    /\ Outage
    /\ UNCHANGED <<records, refs, deliveries, consumers, granted>>

----------------------------------------------------------------------------
\* The provider.

\* A held delivery is posted to the route, early by a skewed clock or again
\* while an earlier request is still being served.
Deliver(c, n) ==
    /\ consumers[c].pc = "idle"
    /\ deliveries[n].state = "held"
    /\ consumers' = [consumers EXCEPT
                       ![c] = [NoRequest EXCEPT !.pc = "claim", !.name = n,
                                                !.task = deliveries[n].task]]
    /\ UNCHANGED <<records, refs, deliveries, dispatches, todo, granted, outages>>

\* Success takes the delivery off the queue, anything else keeps it there.
Respond(c) ==
    /\ consumers[c].pc \in {"ack", "nack"}
    /\ consumers' = [consumers EXCEPT ![c] = NoRequest]
    /\ UNCHANGED <<records, refs, dispatches, todo, granted, outages>>
    /\ deliveries' = Mentioned(IF consumers[c].pc = "ack" THEN Spend(consumers[c].name)
                               ELSE deliveries)

\* An operator purges the queue, or the retention of the delivery ends.
LoseDelivery(n) ==
    /\ deliveries[n].state = "held"
    /\ deliveries' = Spend(n)
    /\ Outage
    /\ UNCHANGED <<records, refs, dispatches, todo, consumers, granted>>

----------------------------------------------------------------------------
\* consume_one and the route around it.

\* What claim_task does for a consumer, and where the consumer goes when
\* nothing was claimed.
TryClaim(c, otherwise) ==
    LET t == consumers[c].task
        g == records[t].retry_count
    IN  /\ records' = IF ClaimExpires(t) THEN [records EXCEPT ![t] = ExpireRecord(@)]
                      ELSE IF ClaimStarts(t) THEN [records EXCEPT ![t] = ClaimTask(@)]
                      ELSE records
        /\ granted' = IF ClaimStarts(t) THEN [granted EXCEPT ![t] = @ \cup {g}] ELSE granted
        /\ consumers' = IF ClaimStarts(t)
                        THEN [consumers EXCEPT ![c].pc = "resolve", ![c].gen = g]
                        ELSE WithRequestPc(c, IF ClaimExpires(t) THEN "lost" ELSE otherwise)

\* A record that is gone is acknowledged; any other is claimed if it can be.
Claim(c) ==
    /\ consumers[c].pc = "claim"
    /\ IF IsStored(records[consumers[c].task]) THEN TryClaim(c, "recheck")
       ELSE consumers' = WithRequestPc(c, "ack") /\ UNCHANGED <<records, granted>>
    /\ UNCHANGED <<refs, deliveries, dispatches, todo, outages>>

\* _recover_and_claim_stale_record: only a stale claim is recovered.
Recheck(c) ==
    /\ consumers[c].pc = "recheck"
    /\ consumers' = WithRequestPc(c, IF IsStale(records[consumers[c].task])
                                     THEN "recover" ELSE "lost")
    /\ UNCHANGED <<records, refs, deliveries, dispatches, todo, granted, outages>>

\* It recovers every stale record of the queue and dispatches none of them.
Recover(c) ==
    /\ consumers[c].pc = "recover"
    /\ records' = RecoverAll
    /\ consumers' = WithRequestPc(c, "refresh")
    /\ UNCHANGED <<refs, deliveries, dispatches, todo, granted, outages>>

\* A settled record is acknowledged, a delayed one dispatched again.
Refresh(c) ==
    LET t == consumers[c].task
        r == records[t]
    IN  /\ consumers[c].pc = "refresh"
        /\ IF ~IsActive(r)
           THEN consumers' = WithRequestPc(c, "ack") /\ UNCHANGED dispatches
           ELSE IF ~r.due
           THEN consumers' = WithRequestPc(c, "scheduling") /\ StartSchedule(c, t)
           ELSE consumers' = WithRequestPc(c, "reclaim") /\ UNCHANGED dispatches
        /\ UNCHANGED <<records, refs, deliveries, todo, granted, outages>>

Reclaim(c) ==
    /\ consumers[c].pc = "reclaim"
    /\ TryClaim(c, "lost")
    /\ UNCHANGED <<refs, deliveries, dispatches, todo, outages>>

\* A lost claim earns a redelivery while somebody's claim is running.
AnswerLost(c) ==
    /\ consumers[c].pc = "lost"
    /\ consumers' = WithRequestPc(c, IF records[consumers[c].task].status = "running"
                                     THEN "nack" ELSE "ack")
    /\ UNCHANGED <<records, refs, deliveries, dispatches, todo, granted, outages>>

\* An error while the answer is worked out counts as an acknowledgement.
AnswerFails(c) ==
    /\ consumers[c].pc = "lost"
    /\ consumers' = WithRequestPc(c, "ack")
    /\ Outage
    /\ UNCHANGED <<records, refs, deliveries, dispatches, todo, granted>>

\* The consumer's own claim is still the record's.
Holds(c) == Fenced(records[consumers[c].task], consumers[c].gen)

Settle(c, new, pc) ==
    /\ records' = IF Holds(c) THEN [records EXCEPT ![consumers[c].task] = new] ELSE records
    /\ consumers' = WithRequestPc(c, pc)
    /\ UNCHANGED <<refs, deliveries, dispatches, todo, granted, outages>>

\* The name of the task is resolved after the claim: a known task runs, and
\* _retire_unresolvable_record fails an unknown one.
BeginBody(c) ==
    /\ consumers[c].pc = "resolve"
    /\ consumers' = WithRequestPc(c, "body")
    /\ UNCHANGED <<records, refs, deliveries, dispatches, todo, granted, outages>>

RetireUnresolvable(c) ==
    /\ consumers[c].pc = "resolve"
    /\ Settle(c, FailTask(records[consumers[c].task], FALSE, FALSE),
              IF Holds(c) THEN "ack" ELSE "lost")

\* _execute_claimed_record: whatever the fence says, the request ends in an
\* exit code that the route acknowledges.
BodyReturns(c) ==
    /\ consumers[c].pc = "body"
    /\ Settle(c, CompleteTask(records[consumers[c].task], consumers[c].gen), "ack")

BodyFails(c) ==
    /\ consumers[c].pc = "body"
    /\ Settle(c, FailTask(records[consumers[c].task], FALSE, FALSE), "ack")

\* A retry is dispatched before the request is answered.
BodyRetries(c) ==
    LET t == consumers[c].task
        new == FailTask(records[t], TRUE, records[t].backoff)
    IN  /\ consumers[c].pc = "body"
        /\ records' = IF Holds(c) THEN [records EXCEPT ![t] = new] ELSE records
        /\ IF Holds(c) /\ IsQueued(new)
           THEN /\ consumers' = WithRequestPc(c, "scheduling")
                /\ StartSchedule(c, t)
           ELSE consumers' = WithRequestPc(c, "ack") /\ UNCHANGED dispatches
        /\ UNCHANGED <<refs, deliveries, todo, granted, outages>>

\* JobCancelledError: the cancellation asks for no generation.
BodyCancels(c) ==
    LET t == consumers[c].task
    IN  /\ consumers[c].pc = "body"
        /\ records' = IF IsActive(records[t]) THEN [records EXCEPT ![t] = CancelTask(@)]
                      ELSE records
        /\ consumers' = WithRequestPc(c, "ack")
        /\ UNCHANGED <<refs, deliveries, dispatches, todo, granted, outages>>

\* _heartbeat_loop: the touch of a claim that is still held.
Heartbeat(c) ==
    /\ consumers[c].pc = "body"
    /\ Holds(c)
    /\ records' = [records EXCEPT ![consumers[c].task] = TouchHeartbeat(@)]
    /\ UNCHANGED <<refs, deliveries, dispatches, todo, consumers, granted, outages>>

\* A missed touch cancels the execution.  That may be the body of a request
\* that was superseded, or the dispatch of the retry that the request has
\* just committed, with a call to the provider in flight that takes effect
\* or not.
HeartbeatMissed(c, effective) ==
    LET d == dispatches[c]
    IN  /\ consumers[c].pc \in {"body", "scheduling"} /\ consumers[c].gen # None
        /\ ~Holds(c)
        /\ effective => d.pc = "create" /\ deliveries[d.name].state = "reserved"
        /\ deliveries' = IF effective THEN [deliveries EXCEPT ![d.name].state = "held"]
                         ELSE deliveries
        /\ dispatches' = [dispatches EXCEPT ![c] = Idle]
        /\ consumers' = WithRequestPc(c, "lost")
        /\ UNCHANGED <<records, refs, todo, granted, outages>>

\* A storage call of the request raises.  The finally block nulls the
\* heartbeat of the generation whose body it ran.
RequestFails(c) ==
    LET t == consumers[c].task
        own == consumers[c].pc = "body" /\ records[t].retry_count = consumers[c].gen
    IN  /\ consumers[c].pc \in {"claim", "recheck", "recover", "refresh", "reclaim",
                                "resolve", "body"}
        /\ records' = IF own THEN [records EXCEPT ![t] = NullHeartbeat(@)] ELSE records
        /\ consumers' = WithRequestPc(c, "nack")
        /\ Outage
        /\ UNCHANGED <<refs, deliveries, dispatches, todo, granted>>

\* The request is cancelled, the connection lost or the process killed: no
\* answer, and the heartbeat is nulled only if the process lives on.
ConsumerCrash(c, nulled) ==
    LET t == consumers[c].task
    IN  /\ consumers[c].pc # "idle"
        /\ nulled => consumers[c].pc = "body" /\ records[t].retry_count = consumers[c].gen
        /\ records' = IF nulled THEN [records EXCEPT ![t] = NullHeartbeat(@)] ELSE records
        /\ consumers' = [consumers EXCEPT ![c] = NoRequest]
        /\ dispatches' = [dispatches EXCEPT ![c] = Idle]
        /\ Outage
        /\ UNCHANGED <<refs, deliveries, todo, granted>>

----------------------------------------------------------------------------
\* Time.

BecomesDue(t) ==
    /\ IsQueued(records[t]) /\ ~records[t].due
    /\ records' = [records EXCEPT ![t].due = TRUE]
    /\ UNCHANGED <<refs, deliveries, dispatches, todo, consumers, granted, outages>>

PassesExpiry(t) ==
    /\ IsActive(records[t]) /\ records[t].expires_at = "later"
    /\ records' = [records EXCEPT ![t].expires_at = "overdue"]
    /\ UNCHANGED <<refs, deliveries, dispatches, todo, consumers, granted, outages>>

HeartbeatAges(t) ==
    /\ records[t].status = "running" /\ records[t].heartbeat_at = "fresh"
    /\ records' = [records EXCEPT ![t].heartbeat_at = "stale"]
    /\ UNCHANGED <<refs, deliveries, dispatches, todo, consumers, granted, outages>>

----------------------------------------------------------------------------
DispatchStep(x) ==
    \/ ScheduleRead(x)
    \/ \E n \in Name : ReserveDeliveryName(x, n)
    \/ CheckOwnership(x)
    \/ CreateDelivery(x)
    \/ OwnsDelivery(x)

ServiceStep(s) ==
    \/ DispatchStep(s)
    \/ RepairRead(s)
    \/ DeliveryExists(s)
    \/ \E t \in Task : RedispatchRequeued(s, t)
    \/ CancelExecution(s)
    \/ \E b \in BOOLEAN : CancelCommit(s, b)

ServiceBegins(s, t) ==
    \/ \E o \in Options : Enqueue(s, t, o)
    \/ Repair(s, t)
    \/ CancelRead(s, t)

ConsumerStep(c) ==
    \/ DispatchStep(c)
    \/ Claim(c) \/ Recheck(c) \/ Recover(c) \/ Refresh(c) \/ Reclaim(c)
    \/ BeginBody(c) \/ RetireUnresolvable(c)
    \/ BodyReturns(c) \/ BodyFails(c) \/ BodyRetries(c) \/ BodyCancels(c)
    \/ AnswerLost(c) \/ Respond(c)

Fault ==
    \/ \E x \in Caller : DispatchCallFails(x) \/ \E b \in BOOLEAN : CreateFails(x, b)
    \/ \E s \in Service : ServiceCrash(s) \/ \E b \in BOOLEAN : CancelRefused(s, b)
    \/ \E c \in Consumer : RequestFails(c) \/ AnswerFails(c) \/ \E b \in BOOLEAN : ConsumerCrash(c, b)
    \/ \E n \in Name : LoseDelivery(n)

Next ==
    \/ \E s \in Service :
          \/ ServiceStep(s)
          \/ \E t \in Task : ServiceBegins(s, t)
          \/ RecoverStaleTasks(s)
    \/ \E c \in Consumer :
          \/ ConsumerStep(c)
          \/ Heartbeat(c)
          \/ \E b \in BOOLEAN : HeartbeatMissed(c, b)
          \/ \E n \in Name : Deliver(c, n)
    \/ \E t \in Task : ExpireOverdue(t) \/ CleanupTerminal(t)
    \/ \E t \in Task : BecomesDue(t) \/ PassesExpiry(t) \/ HeartbeatAges(t)
    \/ Fault

Spec == Init /\ [][Next]_vars

\* A claim that no consumer touches goes stale.
UntouchedAges(t) ==
    /\ \A c \in Consumer : ~(consumers[c].pc = "body" /\ consumers[c].task = t /\ Holds(c))
    /\ HeartbeatAges(t)

\* Time passes, requests and calls come to an end, the provider repeats what
\* it holds, and maintenance keeps coming back to repair, recovery and expiry.
Fairness ==
    /\ \A t \in Task :
          /\ WF_vars(BecomesDue(t)) /\ WF_vars(UntouchedAges(t)) /\ WF_vars(ExpireOverdue(t))
          /\ SF_vars(\E s \in Service : Repair(s, t))
    /\ SF_vars(\E s \in Service : RecoverStaleTasks(s))
    /\ \A s \in Service : WF_vars(ServiceStep(s))
    /\ \A c \in Consumer : WF_vars(ConsumerStep(c))
    /\ \A n \in Name : SF_vars(\E c \in Consumer : Deliver(c, n))

FairSpec == Spec /\ Fairness

----------------------------------------------------------------------------
\* Properties.

\* Every variable has the shape the code gives it.
TypeOK ==
    /\ records \in [Task -> QueuedTaskRecord]
    /\ refs \in [Task -> Name \cup {None}]
    /\ deliveries \in [Name -> Delivery]
    /\ dispatches \in [Caller -> Dispatch]
    /\ todo \in [Service -> SUBSET Task]
    /\ consumers \in [Consumer -> Request]
    /\ granted \in [Task -> SUBSET Nat]
    /\ outages \in Nat

\* The records as their life cycle shows them.
LifeOf(t) == LifeOfRecord(records[t], 0, granted[t])

Lifecycle == INSTANCE TaskLifecycle WITH life <- [t \in Task |-> LifeOf(t)]

\* However often a delivery is created, repeated or repaired, no attempt of a
\* record starts twice and none beyond its retries (claim_task, consume_one).
LivesThePromisedLife == Lifecycle!Spec

\* A record without a deadline is settled in the end, although deliveries
\* get lost, calls fail and processes die: the provider's repetition, inline
\* recovery, the stale sweep and repair bring it to a terminal state.
EveryTaskSettles ==
    \A t \in Task : IsActive(records[t]) ~> ~IsActive(records[t])
=============================================================================
