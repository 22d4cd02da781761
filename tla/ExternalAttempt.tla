-------------------------- MODULE ExternalAttempt --------------------------
(***************************************************************************)
(* One record whose attempts run in other processes.  A dispatch call      *)
(* writes execution_ref and hands a carrier (a broker message, a Cloud Run *)
(* execution) to the provider; a runner is the process that received a     *)
(* carrier and runs consume_one() for it.                                  *)
(*                                                                         *)
(* This module has the record, the runner's part and the clock; Brokers    *)
(* and CloudRun add what dispatches and how a carrier is settled.          *)
(***************************************************************************)
EXTENDS QueueRecord, FiniteSets, Sequences, SequencesExt

CONSTANTS
    Dispatcher,   \* concurrent dispatch, repair and provider cancel calls
    Reconciler,   \* concurrent reconcile calls (Cloud Run)
    Runner,       \* concurrent runners
    Options,      \* per transport, the enqueue() options of the record
    MaxCarriers,  \* bound: carriers the provider holds at once
    MaxFaults     \* bound: crashes, lost and ambiguous calls, early redeliveries

ASSUME ExternalAttemptAssumption ==
    /\ \A t \in DOMAIN Options : Options[t] \in EnqueueOptions
    /\ Dispatcher \cap Reconciler = {}
    /\ MaxCarriers \in Nat \ {0} /\ MaxFaults \in Nat

Caller == Dispatcher \cup Reconciler

VARIABLES
    transport,  \* the execution backend that is configured
    rec,        \* the record
    ref,        \* its execution_ref
    aged,       \* dispatch_stale_after, or the reservation's lease, has passed
    carriers,   \* what the provider holds, in the order it was sent
    calls,      \* per dispatcher or reconciler, the call under way
    runners,    \* per runner, the delivery it works on
    started,    \* generations whose body was started
    faults      \* faults so far

vars == <<transport, rec, ref, aged, carriers, calls, runners, started, faults>>

----------------------------------------------------------------------------
\* An execution_ref: none; a broker attempt "<backend>:<retry>:<ms>:<uuid>";
\* a dispatch reservation; the name of a Cloud Run execution.
Ref == [kind : {"none", "attempt", "reservation", "execution"}, gen : Nat, n : Nat]
NoRef == [kind |-> "none", gen |-> 0, n |-> 0]

CarrierState == {"ready", "taken", "succeeded", "failed", "cancelled"}
Carrier == [ref : Ref, state : CarrierState]

Idle == [op |-> "idle", ref |-> NoRef, gen |-> None]
IdleRunner == [pc |-> "idle", ref |-> NoRef, gen |-> 0]

\* _new_attempt, uuid4(): a number nobody holds any more.
FreshNumber ==
    LET held == {ref.n} \cup {carriers[i].ref.n : i \in DOMAIN carriers}
                \cup {calls[d].ref.n : d \in Caller}
                \cup {runners[c].ref.n : c \in Runner}
    IN  CHOOSE n \in 1..(Cardinality(held) + 1) : n \notin held

Init ==
    /\ transport \in DOMAIN Options
    /\ rec = NewRecord(Options[transport])
    /\ ref = NoRef
    /\ aged = FALSE
    /\ carriers = <<>>
    /\ calls = [d \in Caller |-> Idle]
    /\ runners = [c \in Runner |-> IdleRunner]
    /\ started = {}
    /\ faults = 0

Fault == faults < MaxFaults /\ faults' = faults + 1

SetRef(x) == ref' = x /\ aged' = FALSE

\* reserve_external_dispatch with its own conditions.
CanReserve == IsClaimable(rec) /\ ref = NoRef

----------------------------------------------------------------------------
\* consume_one: its claim, and the inline recovery of a stale attempt.

\* The record can be claimed.  An overdue one without an execution_ref is
\* expired by the claim instead.
CanClaim ==
    /\ IsQueued(rec) /\ rec.due /\ ref.kind # "reservation"
    /\ IsOverdue(rec) => ref # NoRef

ExpiresAtClaim == IsQueued(rec) /\ rec.due /\ ref = NoRef /\ IsOverdue(rec)

StartBody(c) ==
    /\ rec' = ClaimTask(rec)
    /\ started' = started \cup {rec.retry_count}
    /\ runners' = [runners EXCEPT ![c].pc = "body", ![c].gen = rec.retry_count]

\* consume_one ends, or goes on, without a body under way.
Becomes(c, outcome) ==
    runners' = [runners EXCEPT ![c].pc = outcome, ![c].gen = 0]

\* claim_task with what the carrier expects; expects is TRUE when the record
\* still has the generation and the reference that the carrier was sent for.
Claim(c, expects) ==
    /\ runners[c].pc = "received"
    /\ \/ /\ expects /\ CanClaim
          /\ StartBody(c)
       \/ /\ ~(expects /\ CanClaim)
          /\ Becomes(c, IF expects /\ IsStale(rec) THEN "recover" ELSE "lost")
          /\ rec' = IF expects /\ ExpiresAtClaim THEN ExpireRecord(rec) ELSE rec
          /\ UNCHANGED started
    /\ UNCHANGED <<transport, ref, aged, carriers, calls, faults>>

\* _recover_and_claim_stale_record, up to its second look at the record.
RecoverInline(c) ==
    LET next == IF IsStale(rec) THEN RecoverStale(rec) ELSE rec
    IN  /\ runners[c].pc = "recover"
        /\ rec' = next
        /\ Becomes(c, IF ~IsActive(next) \/ ~next.due THEN "succeeded" ELSE "reclaim")
        /\ UNCHANGED <<transport, ref, aged, carriers, calls, started, faults>>

\* Its claim, which expects nothing.
Reclaim(c) ==
    /\ runners[c].pc = "reclaim"
    /\ \/ /\ CanClaim
          /\ StartBody(c)
       \/ /\ ~CanClaim
          /\ Becomes(c, "lost")
          /\ rec' = IF ExpiresAtClaim THEN ExpireRecord(rec) ELSE rec
          /\ UNCHANGED started
    /\ UNCHANGED <<transport, ref, aged, carriers, calls, faults>>

\* _execute_claimed_record: the body ends, and its outcome is written under
\* the fence.  An attempt that lost its claim reports the record as it is.
BodyEnds(c, new, outcome) ==
    LET own == Fenced(rec, runners[c].gen)
    IN  /\ runners[c].pc = "body"
        /\ rec' = IF own THEN new ELSE rec
        /\ Becomes(c, IF own THEN outcome
                              ELSE IF rec.status = "completed" THEN "succeeded" ELSE "failed")
        /\ UNCHANGED <<transport, ref, aged, carriers, calls, started, faults>>

BodyReturns(c) == BodyEnds(c, CompleteTask(rec, runners[c].gen), "succeeded")

BodyFails(c, retry) == BodyEnds(c, FailTask(rec, retry, rec.backoff), "failed")

\* _retire_unresolvable_record: this process does not know the task's name.
Retire(c) == BodyEnds(c, FailTask(rec, FALSE, FALSE), "lost")

\* _heartbeat_loop: a beat, or a missed one that ends the attempt.
Heartbeat(c) ==
    /\ runners[c].pc = "body"
    /\ IF Fenced(rec, runners[c].gen)
       THEN rec' = TouchHeartbeat(rec) /\ UNCHANGED runners
       ELSE Becomes(c, "lost") /\ UNCHANGED rec
    /\ UNCHANGED <<transport, ref, aged, carriers, calls, started, faults>>

\* What becomes of a carrier that its runner leaves unsettled: SQS, Pub/Sub and
\* RabbitMQ offer it again, a Kafka consumer reads on behind it, and a Cloud
\* Run execution without its container has failed.
Abandoned(x) ==
    [i \in DOMAIN carriers |->
        IF carriers[i].ref = x /\ carriers[i].state = "taken"
        THEN [carriers[i] EXCEPT !.state = CASE transport = "kafka" -> "taken"
                                             [] transport = "cloudrun" -> "failed"
                                             [] OTHER -> "ready"]
        ELSE carriers[i]]

\* The runner's process dies, or its storage calls fail: nothing is settled
\* with the provider.  A body that is cancelled on the way out clears the
\* heartbeat, one that is killed does not.
RunnerDies(c) ==
    /\ runners[c].pc # "idle" /\ Fault
    /\ rec' \in {rec} \cup (IF runners[c].pc = "body" /\ Fenced(rec, runners[c].gen)
                            THEN {NullHeartbeat(rec)} ELSE {})
    /\ runners' = [runners EXCEPT ![c] = IdleRunner]
    /\ carriers' = Abandoned(runners[c].ref)
    /\ UNCHANGED <<transport, ref, aged, calls, started>>

ConsumeOneStep(c) ==
    \/ RecoverInline(c) \/ Reclaim(c) \/ BodyReturns(c) \/ Retire(c)
    \/ \E retry \in BOOLEAN : BodyFails(c, retry)

----------------------------------------------------------------------------
\* The rest of the fleet, and the clock.

UnchangedButRecord == UNCHANGED <<transport, ref, aged, carriers, calls, runners, started, faults>>

\* recover_stale_tasks of a worker or of maintenance.
RecoverStaleTasks ==
    /\ IsStale(rec) /\ rec' = RecoverStale(rec)
    /\ UnchangedButRecord

\* The provider resource that the attempt owns: a reservation is none yet.
ExternalAttemptRef == IF ref.kind \in {"attempt", "execution"} THEN ref ELSE NoRef

\* cancel_execution of a backend without a control plane.
CancelUnsupported == "unsupported"

\* A provider that could have cancelled and refused keeps the record as it is.
PermitsDurableCancel(answer) == answer # "retryable"

\* backend.cancel_task, with a running record or without.
CancelDurably ==
    \E include_running \in BOOLEAN :
        rec' = IF IsQueued(rec) \/ (include_running /\ IsActive(rec)) THEN CancelTask(rec) ELSE rec

\* _cancel_task where there is nothing to cancel with the provider; CloudRun
\* has the other case.
CancelRecord ==
    /\ IsActive(rec)
    /\ \/ ExternalAttemptRef = NoRef
       \/ transport # "cloudrun" /\ PermitsDurableCancel(CancelUnsupported)
    /\ CancelDurably
    /\ UnchangedButRecord

ExpireOverdue ==
    /\ IsQueued(rec) /\ ref = NoRef /\ IsOverdue(rec)
    /\ rec' = ExpireRecord(rec)
    /\ UnchangedButRecord

CleanupTerminal ==
    /\ IsTerminal(rec) /\ rec' = DeleteRecord(rec)
    /\ UNCHANGED <<transport, aged, carriers, calls, runners, started, faults>>
    /\ ref' = NoRef

BecomesDue ==
    /\ IsQueued(rec) /\ ~rec.due /\ rec' = [rec EXCEPT !.due = TRUE]
    /\ UnchangedButRecord

PassesExpiry ==
    /\ IsActive(rec) /\ rec.expires_at = "later"
    /\ rec' = [rec EXCEPT !.expires_at = "overdue"]
    /\ UnchangedButRecord

HeartbeatAges ==
    /\ rec.status = "running" /\ rec.heartbeat_at = "fresh"
    /\ rec' = [rec EXCEPT !.heartbeat_at = "stale"]
    /\ UnchangedButRecord

\* dispatch_stale_after is longer than a delivery takes, and a lease longer
\* than a dispatch: it passes before the end of one only as a fault.
RefAges ==
    /\ ref # NoRef /\ ~aged /\ aged' = TRUE
    /\ IF \/ \E i \in DOMAIN carriers : carriers[i].ref = ref /\ carriers[i].state = "ready"
          \/ \E c \in Runner : runners[c].ref = ref
          \/ \E d \in Dispatcher : calls[d].ref = ref
       THEN Fault ELSE UNCHANGED faults
    /\ UNCHANGED <<transport, rec, ref, carriers, calls, runners, started>>

FleetStep ==
    \/ RecoverStaleTasks \/ CancelRecord \/ ExpireOverdue \/ CleanupTerminal
    \/ BecomesDue \/ PassesExpiry \/ HeartbeatAges \/ RefAges
    \/ \E c \in Runner : ConsumeOneStep(c) \/ Heartbeat(c) \/ RunnerDies(c)

----------------------------------------------------------------------------
\* Every variable has the shape the backends give it.
TypeOK ==
    /\ rec \in QueuedTaskRecord /\ ref \in Ref /\ aged \in BOOLEAN
    /\ carriers \in Seq(Carrier) /\ Len(carriers) <= MaxCarriers
    /\ calls \in [Caller -> [op : STRING, ref : Ref, gen : Nat \cup {None}]]
    /\ runners \in [Runner -> [pc : STRING, ref : Ref, gen : Nat]]
    /\ started \in SUBSET Nat /\ faults \in 0..MaxFaults

LifeOf == LifeOfRecord(rec, 0, started)

Lifecycle == INSTANCE TaskLifecycle WITH Task <- {"record"}, life <- [t \in {"record"} |-> LifeOf]

\* Redelivered, repeated and overlapping carriers, and recovery beside them,
\* give the record the promised life: no generation starts twice or beyond
\* the budget, and it ends once.
LivesThePromisedLife == [][Lifecycle!Next]_rec

=============================================================================
