---------------------------- MODULE WorkerFleet ----------------------------
(***************************************************************************)
(* The core of litestar-queues: the shared record store, the workers that  *)
(* claim, run and settle records, the heartbeats that keep a claim alive,  *)
(* and the sweeps that take a claim away.                                  *)
(*                                                                         *)
(* Every storage call is atomic (one lock, one transaction or one script). *)
(* Between two calls of one coroutine any other coroutine, worker or       *)
(* client may run, a worker process may die, and a claim may go stale.     *)
(* An attempt is the local coroutine of one claim; what it knows of its    *)
(* record is the snapshot it took when it claimed it: the generation       *)
(* (retry_count) and the number of interruptions.                          *)
(***************************************************************************)
EXTENDS QueueRecord, FiniteSets

CONSTANTS
    Task,             \* record ids
    Options,          \* the enqueue() options callers use
    BodyOutcomes,     \* how a task body may end
    MaxConcurrency,   \* WorkerConfig.max_concurrency
    BatchSize,        \* WorkerConfig.batch_size
    MaxInterruptions, \* WorkerConfig.max_interruptions
    MaxOutages,       \* bound: crashes and shutdowns in one behaviour
    SharedRecords     \* the store hands out its own record objects

\* Ids are UUIDs: there are many, and finitely many.
ASSUME FleetAssumption ==
    /\ None \notin Task
    /\ IsFiniteSet(Task)
    /\ Options \subseteq EnqueueOptions
    /\ BodyOutcomes \subseteq {"return", "raise", "non_retryable", "job_cancelled"}
    /\ MaxConcurrency \in Nat \ {0}
    /\ BatchSize \in Nat \ {0}
    /\ MaxInterruptions \in Nat
    /\ MaxOutages \in Nat
    /\ SharedRecords \in BOOLEAN

VARIABLES
    records,        \* the store: [Task -> QueuedTaskRecord]
    keys,           \* the store's deduplication index: [Key -> Task or None]
    attempts,       \* every claim ever made, with the state of its coroutine
    registrations,  \* per worker, the heartbeat manager's task_id -> generation
    missed,         \* per worker, the misses of the current tick still to handle
    phase,          \* per worker, how far start() and stop() have got
    outages         \* crashes and shutdowns so far

vars == <<records, keys, attempts, registrations, missed, phase, outages>>

(***************************************************************************)
(* The life of an attempt: "claimed" by the store, "owned" once its        *)
(* worker id is written, "tracked" in _running_tasks, "executing" its      *)
(* body, "cancelling" after Task.cancel(), "settled" when its durable      *)
(* write is over but the coroutine is not, and "gone".                     *)
(***************************************************************************)
AttemptState ==
    {"claimed", "owned", "tracked", "executing", "cancelling", "settled", "gone"}

Attempt ==
    [task : Task, gen : Nat, ints : Nat, worker : Worker, pc : AttemptState]

\* "up" claims; "stopping" has its stop event set; "handed" has given up its
\* survivors; "closed" has closed its heartbeat manager; "down" is no process.
WorkerPhase == {"up", "stopping", "handed", "closed", "down"}

Init ==
    /\ records = [t \in Task |-> NoRecord]
    /\ keys = [k \in Key |-> None]
    /\ attempts = {}
    /\ registrations = [w \in Worker |-> [t \in Task |-> None]]
    /\ missed = [w \in Worker |-> {}]
    /\ phase = [w \in Worker |-> "up"]
    /\ outages = 0

----------------------------------------------------------------------------
\* Worker._running_tasks: the coroutines that are not done yet.
RunningTasks(w) ==
    {a \in attempts : a.worker = w /\
        a.pc \in {"tracked", "executing", "cancelling", "settled"}}

\* The batch that run_once has claimed and not yet handed to coroutines.
InFlightBatch(w) ==
    {a \in attempts : a.worker = w /\ a.pc \in {"claimed", "owned"}}

WithPc(a, pc) == (attempts \ {a}) \cup {[a EXCEPT !.pc = pc]}

\* What record.retry_count and the interruption count read as when the
\* coroutine uses them: the snapshot, or the store's own live object.
KnownGeneration(a) == IF SharedRecords THEN records[a.task].retry_count ELSE a.gen
KnownInterruptions(a) ==
    IF SharedRecords THEN records[a.task].interruptions ELSE a.ints

\* The attempt that holds its record's claim.
Owns(a) == records[a.task].status = "running" /\ records[a.task].retry_count = a.gen

\* Task.cancel(): a coroutine that has not begun ends without running.
AfterCancel(pc) ==
    CASE pc = "tracked" -> "gone"
      [] pc = "executing" -> "cancelling"
      [] OTHER -> pc

----------------------------------------------------------------------------
\* Clients.

\* The active record the deduplication index names for a key, if any.
ActiveHolder(k) == {t \in Task : keys[k] = t /\ IsActive(records[t])}

\* enqueue() of a new record.  An active record under the same key is
\* returned instead, which changes nothing.
Enqueue(t, o) ==
    /\ records[t].status = "absent"
    /\ o.key # None => ActiveHolder(o.key) = {}
    /\ records' = [records EXCEPT ![t] = NewRecord(o)]
    /\ keys' = IF o.key = None THEN keys ELSE [keys EXCEPT ![o.key] = t]
    /\ UNCHANGED <<attempts, registrations, missed, phase, outages>>

\* cancel_task() of one record, cancel_tasks() of all that match a filter.
CancelTasks(S, include_running) ==
    /\ \A t \in S : IsQueued(records[t]) \/
                    (include_running /\ records[t].status = "running")
    /\ records' = [t \in Task |->
                     IF t \in S THEN CancelTask(records[t]) ELSE records[t]]
    /\ UNCHANGED <<keys, attempts, registrations, missed, phase, outages>>

----------------------------------------------------------------------------
\* Time, seen through the comparisons the store makes.

BecomesDue(t) ==
    /\ IsQueued(records[t]) /\ ~records[t].due
    /\ records' = [records EXCEPT ![t].due = TRUE]
    /\ UNCHANGED <<keys, attempts, registrations, missed, phase, outages>>

PassesExpiry(t) ==
    /\ IsActive(records[t]) /\ records[t].expires_at = "later"
    /\ records' = [records EXCEPT ![t].expires_at = "overdue"]
    /\ UNCHANGED <<keys, attempts, registrations, missed, phase, outages>>

\* A stalled loop, a lost connection or a dead process lets a claim go stale.
HeartbeatAges(t) ==
    /\ records[t].status = "running" /\ records[t].heartbeat_at = "fresh"
    /\ records' = [records EXCEPT ![t].heartbeat_at = "stale"]
    /\ UNCHANGED <<keys, attempts, registrations, missed, phase, outages>>

----------------------------------------------------------------------------
\* The sweeps that any worker, and the maintenance coordinator, run.

RequeueStaleRunning(S) ==
    /\ \A t \in S : IsStale(records[t])
    /\ records' = [t \in Task |->
                     IF t \in S THEN RecoverStale(records[t]) ELSE records[t]]
    /\ UNCHANGED <<keys, attempts, registrations, missed, phase, outages>>

ExpireOverdue(S) ==
    /\ \A t \in S : IsQueued(records[t]) /\ IsOverdue(records[t])
    /\ records' = [t \in Task |->
                     IF t \in S THEN ExpireRecord(records[t]) ELSE records[t]]
    /\ UNCHANGED <<keys, attempts, registrations, missed, phase, outages>>

\* Fault: cleanup drops the key of every record it removes.
CleanupTerminalDropsKeys(S) ==
    /\ \A t \in S : IsTerminal(records[t])
    /\ records' = [t \in Task |->
                     IF t \in S THEN DeleteRecord(records[t]) ELSE records[t]]
    /\ keys' = [k \in Key |->
                  IF \E t \in S : records[t].key = k THEN None ELSE keys[k]]
    /\ UNCHANGED <<attempts, registrations, missed, phase, outages>>

\* A key is dropped with the record only while it still names that record.
CleanupTerminal(S) ==
    /\ \A t \in S : IsTerminal(records[t])
    /\ records' = [t \in Task |->
                     IF t \in S THEN DeleteRecord(records[t]) ELSE records[t]]
    /\ keys' = [k \in Key |->
                  IF \E t \in S : keys[k] = t /\ records[t].key = k
                  THEN None ELSE keys[k]]
    /\ UNCHANGED <<attempts, registrations, missed, phase, outages>>

----------------------------------------------------------------------------
\* The worker loop: run_once.

\* Fault: a full batch whatever is already running.
AvailableIgnoringRunning(w) == BatchSize

\* How many records run_once asks for.
Available(w) ==
    LET free == MaxConcurrency - Cardinality(RunningTasks(w))
    IN  IF free < 0 THEN 0 ELSE IF free < BatchSize THEN free ELSE BatchSize

NewAttempt(t, w) ==
    [task |-> t, gen |-> records[t].retry_count, ints |-> records[t].interruptions,
     worker |-> w, pc |-> "claimed"]

\* claim_many_with_expired: in one critical section the overdue records
\* expire and as many due ones as fit start running.  The loop looks for a stop
\* only between its iterations: one under way sweeps and claims all the same.
ClaimAvailable(w, C) ==
    LET expired == {t \in Task : IsQueued(records[t]) /\ IsOverdue(records[t])}
    IN  /\ phase[w] \in {"up", "stopping"}
        /\ InFlightBatch(w) = {}
        /\ \A t \in C : IsClaimable(records[t])
        /\ Cardinality(C) <= Available(w)
        /\ Cardinality(C) < Available(w) =>
              \A t \in Task : IsClaimable(records[t]) => t \in C
        /\ Available(w) > 0
        /\ C \cup expired # {}
        /\ records' = [t \in Task |->
                         IF t \in C THEN ClaimTask(records[t])
                         ELSE IF t \in expired THEN ExpireRecord(records[t])
                         ELSE records[t]]
        /\ attempts' = attempts \cup {NewAttempt(t, w) : t \in C}
        /\ UNCHANGED <<keys, registrations, missed, phase, outages>>

\* assign_worker, fenced: a claim lost in between is dropped from the batch.
TakeOwnership(a) ==
    LET held == Fenced(records[a.task], KnownGeneration(a))
    IN  /\ a.pc = "claimed"
        /\ records' = IF held
                      THEN [records EXCEPT ![a.task] = AssignWorker(@, a.worker)]
                      ELSE records
        /\ attempts' = WithPc(a, IF held THEN "owned" ELSE "gone")
        /\ UNCHANGED <<keys, registrations, missed, phase, outages>>

\* _track_execution for the whole batch, once every record is assigned.
TrackExecution(w) ==
    /\ \E a \in attempts : a.worker = w /\ a.pc = "owned"
    /\ \A a \in attempts : a.worker = w => a.pc # "claimed"
    /\ attempts' = {IF a.worker = w /\ a.pc = "owned"
                    THEN [a EXCEPT !.pc = "tracked"] ELSE a : a \in attempts}
    /\ UNCHANGED <<records, keys, registrations, missed, phase, outages>>

\* The claim call or an assign_worker raises, or start() is cancelled: the
\* rest of the claimed batch never gets a coroutine.
LoopIterationFails(w) ==
    /\ InFlightBatch(w) # {}
    /\ attempts' = {IF a \in InFlightBatch(w) THEN [a EXCEPT !.pc = "gone"] ELSE a :
                      a \in attempts}
    /\ UNCHANGED <<records, keys, registrations, missed, phase, outages>>

\* _execute_claimed begins: register for heartbeats, then run the body.  The
\* event loop begins coroutines in the order they were created.
BeginExecution(a) ==
    /\ a.pc = "tracked"
    /\ \A b \in attempts :
          b.worker = a.worker /\ b.task = a.task /\ b.pc = "tracked" => a.gen <= b.gen
    /\ registrations' =
          [registrations EXCEPT ![a.worker][a.task] = KnownGeneration(a)]
    /\ attempts' = WithPc(a, "executing")
    /\ UNCHANGED <<records, keys, missed, phase, outages>>

----------------------------------------------------------------------------
\* The end of a body: QueueService.execute_record.

BodyEnds(a) == a.pc \in {"executing", "cancelling"}

\* A fenced write: on a lost fence nothing is written (publish_claim_lost).
Settle(a, new) ==
    /\ records' = IF Fenced(records[a.task], KnownGeneration(a))
                  THEN [records EXCEPT ![a.task] = new] ELSE records
    /\ attempts' = WithPc(a, "settled")
    /\ UNCHANGED <<keys, registrations, missed, phase, outages>>

\* The body's value is identified with the generation that computed it.
BodyReturns(a) ==
    /\ BodyEnds(a) /\ "return" \in BodyOutcomes
    /\ Settle(a, CompleteTask(records[a.task], a.gen))

FailRecordWithRetry(a) ==
    /\ BodyEnds(a) /\ "raise" \in BodyOutcomes
    /\ Settle(a, FailTask(records[a.task], TRUE, records[a.task].backoff))

FailRecordWithoutRetry(a) ==
    /\ BodyEnds(a) /\ "non_retryable" \in BodyOutcomes
    /\ Settle(a, FailTask(records[a.task], FALSE, FALSE))

\* JobCancelledError: the cancel carries no expected generation.
HandleJobCancelled(a) ==
    /\ BodyEnds(a) /\ "job_cancelled" \in BodyOutcomes
    /\ records' = IF IsActive(records[a.task])
                  THEN [records EXCEPT ![a.task] = CancelTask(@)] ELSE records
    /\ attempts' = WithPc(a, "settled")
    /\ UNCHANGED <<keys, registrations, missed, phase, outages>>

\* The settling call itself raises: the record keeps running.
SettlingCallFails(a) ==
    /\ BodyEnds(a)
    /\ attempts' = WithPc(a, "settled")
    /\ UNCHANGED <<records, keys, registrations, missed, phase, outages>>

\* interrupt_task at or past the limit spends the retry budget instead.
Interrupted(a) ==
    IF KnownInterruptions(a) >= MaxInterruptions
    THEN FailTask(records[a.task], TRUE, FALSE)
    ELSE IF records[a.task].worker_id = a.worker
         THEN InterruptTask(records[a.task]) ELSE records[a.task]

\* CancelledError surfaces: the record is handed back only at shutdown.
CancellationSurfaces(a) ==
    /\ a.pc = "cancelling"
    /\ IF phase[a.worker] # "up" /\ records[a.task].requeue_on_shutdown
       THEN Settle(a, Interrupted(a))
       ELSE Settle(a, records[a.task])

\* Fault: the coroutine ends without unregistering.
FinishWithoutUnregister(a) ==
    /\ a.pc = "settled"
    /\ attempts' = WithPc(a, "gone")
    /\ UNCHANGED <<records, keys, registrations, missed, phase, outages>>

\* The coroutine's finally block: unregister by task id.
FinishExecution(a) ==
    /\ a.pc = "settled"
    /\ attempts' = WithPc(a, "gone")
    /\ registrations' = [registrations EXCEPT ![a.worker][a.task] = None]
    /\ UNCHANGED <<records, keys, missed, phase, outages>>

----------------------------------------------------------------------------
\* Heartbeats and cancellation of running attempts.

Touched(w) ==
    {t \in Task : registrations[w][t] # None /\
                  Fenced(records[t], registrations[w][t])}

Missed(w) == {t \in Task : registrations[w][t] # None} \ Touched(w)

\* _tick sends one bulk touch of the current registrations.
HeartbeatTouch(w) ==
    /\ phase[w] \in {"up", "stopping", "handed"}
    /\ missed[w] = {}
    /\ Touched(w) \cup Missed(w) # {}
    /\ records' = [t \in Task |->
                     IF t \in Touched(w) THEN TouchHeartbeat(records[t])
                     ELSE records[t]]
    /\ missed' = [missed EXCEPT ![w] = Missed(w)]
    /\ UNCHANGED <<keys, attempts, registrations, phase, outages>>

\* _tick handles one miss of its snapshot, on the registration of that id as
\* it is by then.  At the miss threshold the loss of the claim is published, the
\* id is unregistered and, unless cancel_on_claim_loss is off, the oldest
\* coroutine of the task that is not done is cancelled.
HeartbeatMiss(w, t, threshold_reached, cancels) ==
    LET lost == threshold_reached /\ registrations[w][t] # None
    IN  /\ t \in missed[w]
        /\ missed' = [missed EXCEPT ![w] = @ \ {t}]
        /\ registrations' = IF lost THEN [registrations EXCEPT ![w][t] = None]
                            ELSE registrations
        /\ attempts' =
              {IF /\ lost /\ cancels
                  /\ a \in RunningTasks(w) /\ a.task = t
                  /\ \A b \in RunningTasks(w) : b.task = t => a.gen <= b.gen
               THEN [a EXCEPT !.pc = AfterCancel(a.pc)] ELSE a : a \in attempts}
        /\ UNCHANGED <<records, keys, phase, outages>>

\* _maybe_cancel_running: the newest coroutine of each cancelled record.
CancelRunningOfCancelled(w) ==
    LET doomed == {a \in RunningTasks(w) :
                     /\ records[a.task].status = "cancelled"
                     /\ \A b \in RunningTasks(w) : b.task = a.task => b.gen <= a.gen
                     /\ AfterCancel(a.pc) # a.pc}
    IN  /\ phase[w] = "up"
        /\ InFlightBatch(w) = {}
        /\ doomed # {}
        /\ attempts' = {IF a \in doomed THEN [a EXCEPT !.pc = AfterCancel(a.pc)]
                        ELSE a : a \in attempts}
        /\ UNCHANGED <<records, keys, registrations, missed, phase, outages>>

----------------------------------------------------------------------------
\* Shutdown, crash and restart.

\* stop(), a signal, or the cancellation of start().
Stop(w) ==
    /\ phase[w] = "up"
    /\ outages < MaxOutages
    /\ outages' = outages + 1
    /\ phase' = [phase EXCEPT ![w] = "stopping"]
    /\ UNCHANGED <<records, keys, attempts, registrations, missed>>

\* _cancel_running, after the graceful timeout or at once when forced.
CancelRunning(w) ==
    /\ phase[w] = "stopping"
    /\ \E a \in RunningTasks(w) : AfterCancel(a.pc) # a.pc
    /\ attempts' = {IF a.worker = w THEN [a EXCEPT !.pc = AfterCancel(a.pc)]
                    ELSE a : a \in attempts}
    /\ UNCHANGED <<records, keys, registrations, missed, phase, outages>>

\* _hand_off_undead_tasks: null the heartbeats of what outlived its cancel.
HandOff(w) ==
    /\ phase[w] = "stopping"
    /\ InFlightBatch(w) = {}
    /\ RunningTasks(w) # {}
    /\ \A a \in RunningTasks(w) : a.pc \in {"cancelling", "settled"}
    /\ records' = [t \in Task |->
                     IF \E a \in RunningTasks(w) :
                           a.task = t /\ records[t].retry_count = KnownGeneration(a)
                     THEN NullHeartbeat(records[t]) ELSE records[t]]
    /\ phase' = [phase EXCEPT ![w] = "handed"]
    /\ UNCHANGED <<keys, attempts, registrations, missed, outages>>

\* WorkerHeartbeatManager.aclose: wait for the tick under way, tick once more,
\* then drop every registration.  A survivor is registered until it ends.
CloseHeartbeats(w) ==
    /\ missed[w] = {}
    /\ \/ phase[w] = "handed"
       \/ phase[w] = "stopping" /\ RunningTasks(w) = {} /\ InFlightBatch(w) = {}
    /\ records' = [t \in Task |->
                     IF t \in Touched(w) THEN TouchHeartbeat(records[t])
                     ELSE records[t]]
    /\ registrations' = [registrations EXCEPT ![w] = [t \in Task |-> None]]
    /\ phase' = [phase EXCEPT ![w] = "closed"]
    /\ UNCHANGED <<keys, attempts, missed, outages>>

ProcessEnds(w) ==
    /\ attempts' = {IF a.worker = w THEN [a EXCEPT !.pc = "gone"]
                    ELSE a : a \in attempts}
    /\ registrations' = [registrations EXCEPT ![w] = [t \in Task |-> None]]
    /\ missed' = [missed EXCEPT ![w] = {}]
    /\ phase' = [phase EXCEPT ![w] = "down"]
    /\ UNCHANGED <<records, keys>>

Exit(w) == phase[w] = "closed" /\ ProcessEnds(w) /\ UNCHANGED outages

Crash(w) ==
    /\ phase[w] # "down"
    /\ outages < MaxOutages
    /\ outages' = outages + 1
    /\ ProcessEnds(w)

\* A new process may use the same configured worker id.
Start(w) ==
    /\ phase[w] = "down"
    /\ phase' = [phase EXCEPT ![w] = "up"]
    /\ UNCHANGED <<records, keys, attempts, registrations, missed, outages>>

----------------------------------------------------------------------------
ClientStep ==
    \/ \E t \in Task, o \in Options : Enqueue(t, o)
    \/ \E S \in (SUBSET Task) \ {{}}, b \in BOOLEAN : CancelTasks(S, b)

ClockStep == \E t \in Task : BecomesDue(t) \/ PassesExpiry(t) \/ HeartbeatAges(t)

StaleSweep == \E S \in (SUBSET Task) \ {{}} : RequeueStaleRunning(S)

SweepStep ==
    \/ StaleSweep
    \/ \E S \in (SUBSET Task) \ {{}} : ExpireOverdue(S) \/ CleanupTerminal(S)

Outcome(a) ==
    \/ BodyReturns(a)
    \/ FailRecordWithRetry(a)
    \/ FailRecordWithoutRetry(a)
    \/ HandleJobCancelled(a)
    \/ SettlingCallFails(a)
    \/ CancellationSurfaces(a)

AttemptStep(a) ==
    TakeOwnership(a) \/ BeginExecution(a) \/ Outcome(a) \/ FinishExecution(a)

LoopStep(w) ==
    \/ \E C \in SUBSET Task : ClaimAvailable(w, C)
    \/ TrackExecution(w)
    \/ LoopIterationFails(w)
    \/ HeartbeatTouch(w)
    \/ \E t \in Task, b, c \in BOOLEAN : HeartbeatMiss(w, t, b, c)
    \/ CancelRunningOfCancelled(w)

LifecycleStep(w) ==
    Stop(w) \/ CancelRunning(w) \/ HandOff(w) \/ CloseHeartbeats(w)
        \/ Exit(w) \/ Crash(w) \/ Start(w)

Next ==
    \/ ClientStep
    \/ ClockStep
    \/ SweepStep
    \/ \E a \in attempts : AttemptStep(a)
    \/ \E w \in Worker : LoopStep(w) \/ LifecycleStep(w)

Spec == Init /\ [][Next]_vars

(***************************************************************************)
(* Time passes; a claim that no manager touches goes stale; the loop of a  *)
(* worker that is up keeps polling, its coroutines keep running and bodies *)
(* end; a stopping worker finishes its shutdown; the supervisor starts a   *)
(* new process for one that is down; some process runs the stale sweep.    *)
(* Clients, expiry, cleanup, stops and crashes owe nothing.                *)
(***************************************************************************)
UntouchedAges(t) ==
    /\ \A w \in Worker : t \notin Touched(w)
    /\ HeartbeatAges(t)

Fairness ==
    /\ WF_vars(StaleSweep)
    /\ \A t \in Task : WF_vars(BecomesDue(t)) /\ WF_vars(UntouchedAges(t))
    /\ \A w \in Worker :
          /\ WF_vars((phase[w] = "up" /\ \E C \in SUBSET Task : ClaimAvailable(w, C)) \/ TrackExecution(w))
          /\ WF_vars(\E a \in attempts : a.worker = w /\ AttemptStep(a))
          /\ WF_vars(\E t \in Task, b, c \in BOOLEAN : HeartbeatMiss(w, t, b, c))
          /\ WF_vars(CancelRunning(w) \/ HandOff(w) \/ CloseHeartbeats(w) \/ Exit(w) \/ Start(w))

FairSpec == Spec /\ Fairness

----------------------------------------------------------------------------
\* Properties.

\* Every variable has the shape the code gives it.
TypeOK ==
    /\ records \in [Task -> QueuedTaskRecord]
    /\ keys \in [Key -> Task \cup {None}]
    /\ attempts \subseteq Attempt
    /\ registrations \in [Worker -> [Task -> Nat \cup {None}]]
    /\ missed \in [Worker -> SUBSET Task]
    /\ phase \in [Worker -> WorkerPhase]
    /\ outages \in Nat

\* No generation of a record is ever executed by two attempts: a claim is
\* granted once per retry_count, whatever crashes, sweeps, retries and
\* interruptions bring the record back (claim_many_with_expired, fail_task,
\* interrupt_task, requeue_stale_running).
GenerationRunsOnce ==
    \A a, b \in attempts : a.task = b.task /\ a.gen = b.gen => a = b

\* A record never gets more failed attempts than max_retries allows, nor more
\* free interruptions than the workers' limit, however retries, stale
\* recoveries and shutdowns follow one another (attempts_consumed).
RetryBudget ==
    \A t \in Task :
        /\ records[t].interruptions <= records[t].retry_count
        /\ AttemptsConsumed(records[t]) <= records[t].max_retries
        /\ records[t].interruptions <= MaxInterruptions

\* At most one active record holds a deduplication key, across enqueues that
\* follow completion, cancellation, expiry and terminal cleanup of earlier
\* holders (enqueue, cleanup_terminal).
OneActivePerKey ==
    \A s, t \in Task :
        /\ IsActive(records[s]) /\ IsActive(records[t])
        /\ records[s].key # None /\ records[s].key = records[t].key
        => s = t

\* A stored result is the value the record's last attempt returned: no
\* attempt that lost its claim overwrites or pre-empts it (complete_task).
ResultOfLastAttempt ==
    \A t \in Task :
        records[t].status = "completed" =>
            /\ records[t].result = records[t].retry_count
            /\ \A a \in attempts : a.task = t => a.gen <= records[t].result

\* A worker never holds more records than max_concurrency, counting the batch
\* it has claimed and not yet started, and survivors of a cancel (run_once).
ConcurrencyBound ==
    \A w \in Worker :
        Cardinality(RunningTasks(w) \cup InFlightBatch(w)) <= MaxConcurrency

\* A record that becomes claimable again after running has a new generation,
\* so every fence of the attempt that held it fails from then on.
RequeueBumpsGeneration ==
    [][\A t \in Task :
          records[t].status = "running" /\ IsQueued(records'[t]) =>
              records'[t].retry_count = records[t].retry_count + 1]_vars

\* A heartbeat registration belongs to a coroutine that still exists, of the
\* same generation: no lease outlives the attempt it was taken for, so a dead
\* claim always goes stale (register, unregister, aclose).
NoOrphanLease ==
    \A w \in Worker, t \in Task :
        registrations[w][t] # None =>
            \E a \in RunningTasks(w) :
                a.task = t /\ a.gen = registrations[w][t] /\ a.pc # "tracked"

\* The records as their life cycle shows them.
LifeOf(t) ==
    LifeOfRecord(records[t], MaxInterruptions,
                 {a.gen : a \in {b \in attempts : b.task = t}})

Lifecycle == INSTANCE TaskLifecycle WITH life <- [t \in Task |-> LifeOf(t)]

\* Every record of the fleet lives the promised life: finitely many
\* generations, each started once, one end.
LivesThePromisedLife == Lifecycle!Spec

\* Every record that is waiting or running is settled in the end, through
\* crashes, lost claims, failed settling calls and shutdowns: the stale
\* sweep, the retry budget and restarted workers bring it to a terminal state.
EveryTaskSettles ==
    \A t \in Task : IsActive(records[t]) ~> ~IsActive(records[t])
=============================================================================
