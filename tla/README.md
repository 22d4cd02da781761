# litestar-queues in TLA+

This directory models the parts of litestar-queues that decide whether a task
runs, how often, under whose ownership and with which result, what is told to
those who watch, and how the processes of a deployment start and stop.  The
modules are translated from the code under `src/litestar_queues`;
`PROJECT.json` maps each definition to its lines.

## 1. The system

A client enqueues a **record** into a **store**; a **worker** claims due
records in batches, runs the task bodies as asyncio tasks, extends their leases
through a **heartbeat manager**, and settles each record through the **queue
service**.  Any worker, or the **maintenance coordinator**, sweeps the store for
stale claims, expired records and old terminal records.  External execution
backends replace the local body by a delivery to a provider that later calls
the **one-shot consumer**.  Steps of a record become **events**, which pass a
live buffer, optionally a durable history, and reach streams and logs.

| Component | State it keeps | Operations | What makes it correct |
| --- | --- | --- | --- |
| Record and memory store (`models.py`, `backends/base.py`, `backends/memory`) | records, key index, identities, maintenance ownership | enqueue, claim, assign, complete, fail, cancel, interrupt, touch and null heartbeats, requeue stale, expire, cleanup, external reservations | fences hold, terminal is final, budget kept, one active record per key |
| Worker (`worker/worker.py`) | stop event, running tasks, cancel requests, wait backoff | run_once, sweeps, cancel running, drain, hand-off, wait | bounded concurrency, bounded lateness, every claim settled or recoverable |
| Heartbeat manager (`worker/heartbeat.py`) | registrations by task id, misses | register, unregister, tick, close | a lease lives as long as its attempt and no longer |
| Queue service (`service.py`) | what it has open; context of the attempt | open, close, enqueue, execute_record, interrupt, cancel, recover, reconcile, schedules | a settling write belongs to the owner; recurrences do not end; everything opened is closed |
| Redis/Valkey store (`backends/redis`) | hashes, sorted sets, status sets, maintenance indexes | Lua scripts and read-then-commit Python | indexes agree with the hashes; commits see fresh reads |
| SQLSpec, Advanced Alchemy, ephemeral stores | rows | guarded updates in transactions | claims exclusive, keys unique, stale reads harmless |
| External execution (`execution/*`, `consumer.py`) | execution_ref, provider deliveries | reserve, dispatch, finalize, repair, reconcile, consume | no lost delivery, no double run |
| Schedules (`task.py`, `service.py`) | the occurrence under each schedule's key | next run, reschedule, initialize, reassert | the next run is the first match; the chain is mended |
| Identities (`service.py`, reservations of the stores) | a reservation per identity | reserve, compensate, reset | one task between two resets |
| Maintenance (`maintenance.py`) | an ownership with a token | acquire, phases, release | a run is covered by its ownership |
| Supervision (`worker/supervisor.py`, `worker/runtime.py`) | child process, watch thread, watchdog, private database | start, watch, stop, force, close | nobody outlives the other, stops are obeyed |
| Events (`events/*`) | live and history buffers, streams | publish, flush, release, replay, relay | order, commit before delivery, no silent loss |
| Event logs (`backends/*/event_log.py`) | event records and their indexes | append, query, summarize, retain | five stores, one answer |

Hard behaviours: two attempts of one record alive at once (stale claim, then a
new claim), on two workers or on one; a body that ignores its cancellation; a
settling call that fails; a crash between any two storage calls; state read
before an `await` or in a `SELECT` and used after it; sweeps racing the attempts
they supersede; deliveries that are lost, repeated or late; a sink that publishes
from inside its callback; two processes that watch each other.  `PROJECT.json`
lists each as a hazard at its line.

## 2. Plan and its state

| Step | Modules | State |
| --- | --- | --- |
| 1. Records and workers | `QueueRecord`, `TaskLifecycle`, `WorkerFleet` | checked, proved |
| 2. Redis | `RedisStore` | checked, proved |
| 3. External execution | `CloudTasks`; `ExternalAttempt`, `Brokers`, `CloudRun`, composed in `MCExternalExecution` | checked, proved |
| 4. Schedules, maintenance, identities | `Calendar`, `Recurrence`, `Maintenance`, `Identities`, `Housekeeping` | checked; maintenance and identities proved |
| 5. SQL stores | `SqlTable`, `SqlSpecStore`, `AlchemyStore`, `EphemeralStore`, `SqlStores` | checked, proved |
| 6. Processes | `WorkerRun`, `Supervision`, `Lifespans`, composed in `MCSupervision` | checked; the storage's lifetime and the teardown proved |
| 7. Events | `LiveEvents`, `EventHistory`, `EventDelivery` | checked, proved |
| 8. Observers | `Deployments`, `Waits`, `EventStreams`, `EventRecords`, `DispatchRepair`, composed in `MCObservers` | checked; the waits, the streams and the paging of repairs proved |

The proofs of steps 1, 2, 3, 5 and 7 cover their safety properties (section 5 names
the exceptions), and with them every refinement of `TaskLifecycle`: by the fleet,
Redis, the SQL stores, Cloud Tasks, the brokers and Cloud Run.

## 3. Modules

### Records, workers and the promise

**`QueueRecord`** is the record and one operator per storage operation, each a
function from a record to a record.  Timestamps are reduced to the comparisons
the code makes: `heartbeat_at` is null, fresh or stale; `due` says whether
`scheduled_at` has passed; `expires_at` is never, later or overdue.  A body's
value is the number of the generation that computed it.  All stores use these
operators; what differs between the stores is when they apply them.

**`TaskLifecycle`** is the abstract promise for one record: at most
`max_retries + max_interruptions` further generations, each started once, one
end.  `WorkerFleet`, `RedisStore`, `SqlTable`, `CloudTasks` and
`ExternalAttempt` implement it through their `LifeOf`.

**`WorkerFleet`** composes the store with any number of workers.  One action is
one storage call or one stretch of code without an `await`.

| Variable | In the code |
| --- | --- |
| `records`, `keys` | `InMemoryQueueBackend._records`, `_keys` |
| `attempts` | the claims made, each with its snapshot of the record and the progress of its coroutine (`Worker._running_tasks`, the batch in `_claim_available`) |
| `registrations` | `WorkerHeartbeatManager._registrations` |
| `missed` | the misses of the bulk touch that `_tick` has still to go through |
| `phase` | how far `start()` and `stop()` have got |
| `outages` | a counter that bounds crashes and shutdowns |

An attempt passes through *claimed*, *owned* (`assign_worker` done), *tracked*
(an asyncio task exists), *executing*, possibly *cancelling*, *settled* and
*gone*.  `Settle` is every fenced settling write; a lost fence writes nothing.
`SharedRecords` is FALSE for a store that returns copies, as every durable
store does, and TRUE for the memory store, which returns its own objects.
Queue names, priorities and the order of claims are left out (a claim takes any
full batch of due records), and so are payloads.  `heartbeat_miss_threshold` is a
nondeterministic `threshold_reached`.  `enqueue_many` is a sequence of `Enqueue`
steps.

### Stores

**`RedisStore`** is the Redis and Valkey backend.  A record is a hash, and what
the queue reads of it is spread over separate keys; an *entry* of `db` puts
together everything Redis holds about one id.

| Variable or field | In Redis or in the code |
| --- | --- |
| `db[t].hash`, `.ref` | the record hash, its `execution_ref` |
| `.statuses` | the status sets the id is in |
| `.ready`, `.scheduled` | the two sorted sets that the claim script reads |
| `.running`, `.expiry`, `.external`, `.terminal`, `.repair` | the maintenance indexes and the repair index |
| `.meta` | the metadata kept for a terminal id after its hash is evicted |
| `keys` | the hash of deduplication keys |
| `inflight` | operations of Python that have read a record and not yet committed |
| `granted` | the generations that claims have returned, a history of the callers |

A Lua script is one operator on the entry and one action.  `interrupt_task`,
`cancel_task`, `requeue_stale_running` and `expire_overdue` read in Python and
commit through the transition script, so each is a read and a commit, with any
step of any client in between.  The callers are arbitrary: every attempt that
was ever granted a claim may make any fenced call, late or twice.  A script that
ends a record also prunes a page of lapsed ids (`pruned`).  Ages are not
modelled, so any id in the terminal index may be pruned or evicted.  Queue and
backend filters, page sizes and caps of `claim_many` are the arbitrary sets
`selected` and `scanned`; the sets per queue and the list of all ids are left
out.

**`SqlTable`** is the table that the SQL stores share in design: `rows`, the
transactions that have read and not yet written (`inflight`), and two histories,
the generations that claims returned (`claims`) and the expiries that calls
reported (`expiries`).  A statement is one step, and so is the tail of a
transaction from its first `UPDATE` on, whose rows stay locked; what was
`SELECT`ed before is a step of its own, and other transactions commit in
between (read committed).  **`SqlSpecStore`** has the `WHERE` clauses of
`sqlspec/stores/base.py` as predicates and the calls of `sqlspec/backend.py` as
actions, including the one-statement batch claim and the select-then-update
claim.  **`AlchemyStore`** is the ORM service, with its upsert of a keyed
enqueue and its grouped heartbeat touch.  **`EphemeralStore`** runs every call in
one `BEGIN IMMEDIATE` transaction, so each is one step.  **`SqlStores`** chooses
one of the three for a behaviour.  `ReliableRowcount` says that the driver
reports row counts; with an unreliable one a loser of a claim cannot tell that
it lost (section 6).

### External execution

**`CloudTasks`** is execution through Google Cloud Tasks.  No worker polls these
records: a record runs only when a delivery for it is posted to the HTTP route,
and the provider repeats a delivery until it is answered with success.

| Variable | In the code |
| --- | --- |
| `records`, `refs` | the stored records and their `execution_ref` |
| `deliveries` | per delivery name the attempt it was named for, and whether the name is only reserved, held by the provider, or spent |
| `dispatches` | the call of `schedule`, `_repair_one` or `_cancel_task` that a process is in, with the attempt it has read and the name it will create |
| `todo` | what `_redispatch_requeued_tasks` has still to dispatch |
| `consumers` | requests in `_run_delivered_record` and `consume_one` |
| `granted` | the generations that claims have returned, a history |
| `outages` | a counter that bounds failures |

Every `await` of a storage or provider call is a step of its own.  A failing
call may have taken effect or not.  A request may be cut off with its heartbeat
nulled (cancelled) or not (killed).  The heartbeat loop of a request lives until
`execute_record` returns, so `HeartbeatMissed` can hit the dispatch of a retry as
well as a body.  The provider may post early, repeatedly and while an earlier
request is still served.  Names are numbers that are used again once nothing
mentions them; in the code they are random.  A repair pass is taken one
candidate at a time, so that its candidates may be staler than in one pass but
not fresher.

**`ExternalAttempt`** is one record whose attempts run in other processes: `rec`
and `ref` (its `execution_ref`), whether that reference is old (`aged`), the
`carriers` the provider holds (messages or executions), the dispatch, repair,
reconcile and cancel `calls` under way, the `runners` in `consume_one`, and the
generations whose body was `started`.  **`Brokers`** adds SQS, Pub/Sub, RabbitMQ
and Kafka: reserve under a fresh attempt reference, publish, rotate an old
reference, settle the message by the outcome of `consume_one`.  They differ in
what an unsettled message becomes (visible again; behind the committed offset).
**`CloudRun`** adds the reservation with a lease, the execution that the provider
starts, the finalization, and `reconcile()`, which settles from an execution's
status what its container did not.  **`MCExternalExecution`** composes them: the
transport is chosen at the start.

### Schedules, maintenance, identities

**`Calendar`** is the arithmetic of `ScheduleConfig`: cron fields with lists,
ranges and steps, days of month and of week that alternate, the search over
local days and slots, and the conversion to instants.  The local clock is a
function from instants to (day, slot, fold), so that skipped and repeated times
are in it.  **`Recurrence`** has the occurrence that `get_task_by_key` finds for
each schedule (`occ`), the worker slots that execute and reschedule (`runners`),
and the keepers that mend broken chains (`keepers`: `initialize_schedules` of a
starting process, `reassert_schedules` of maintenance), across deployments of
new code versions.  **`Maintenance`** adds the ownership in the store (`lease`) as
each store acquires it, and the run of each coordinator through its phases.
**`Identities`** is `unique_until="forever"`: the reservation (`reserved`), the
tasks under the key, the `enqueue()` calls under way, and the operator's resets
(`epoch`).  **`Housekeeping`** composes the three.

### Processes

**`WorkerRun`** is `run_worker()`: open, start the loop, wait for the first of its
end and the two stop requests, drain, close.  **`Supervision`** puts it into a
process: the server command with its private database, its worker child, the
thread that watches it and the child's watch on its parent; or a standalone
command that counts its signals and arms a watchdog.  **`Lifespans`** has the
processes that only open the queue and close it again: the application's
lifespan, the consumer, maintenance, status and health commands, the one-shot
process and an event producer outside of the application.  `held` are the open
handles (a connection, a stream, a pool, a task), `failed` those whose close
failed, `span` the place in the lifespan and what it has still to close.
**`MCSupervision`** composes the two: a deployment places the queue in one process.

### Events

**`LiveEvents`** is the live buffer: events in order, operations that are
`deferred`, the one drain that holds the lock (`drain`), what each thread waits
for (`calls`), and the sink, which may publish from inside a delivery
(`callback`).  **`EventHistory`** puts the durable history in front of it: accepted
events `pending` and `committed`, one `writer` under the write lock, the releaser
that hands committed events on one by one, the timer, the `log` of rows.
**`EventDelivery`** adds the producers and the closing service.  A fault is a failing
write, a failing sink, or a cancellation: of a flush, of a publisher, of the drain
itself (`DrainCancelled`) or of a thread that waits for room or for the drain's
lock (`WaitCancelled`).

### Observers

**`Deployments`** holds the configuration that the observers share, chosen at the
start.  **`Waits`** has a clock that stands still while somebody has something to
do at once: a worker that waits between polls with backoff and known due times,
a caller of `TaskResult.wait`, the wake-up and completion messages of eight
transports, cancellation of a running job.  **`EventStreams`** is the path of a
batch to a browser: cut, grouped, published, subscribed, replayed, relayed once.
**`EventRecords`** is the event log of the five stores: append, query, summarize,
retention under ordered rules.  It has the two keys the code sorts by: the one in
Python, where no sequence is zero (`Precedes`), and the one of the statements of
SQLSpec and Advanced Alchemy, where a NULL is where the database puts it
(`RowPrecedes`); neither looks at `created_at`.  What a page should be is defined
apart from both (`Earlier`).  **`DispatchRepair`** is
`list_dispatch_repair_candidates` of the five stores under concurrent repairs.
**`MCObservers`** composes them; a deployment has one.

The modules named `MC...` hold the instances, those named `...Proofs` the proofs.

## 4. Runs

| Run | Instance | Shows |
| --- | --- | --- |
| `fleet` | 2 workers, 1 task with 1 retry and backoff, 1 interruption, 2 outages, concurrency 2 | no generation runs twice, a result is the last attempt's, no orphan lease, refinement of `TaskLifecycle`, every task settles |
| `fleet_keys` | 1 worker, 3 tasks under one key, delayed and expiring variants, concurrency 2, batch 2, records by reference | one active record per key, concurrency bound |
| `redis` | 2 records of one key, one retried with backoff and a deadline, one delayed that runs once; 1 interruption; 1 operation between read and commit | no queued record is lost, a rebuild would change the indexes in five named ways only, orphans sweepable, one active record per key, refinement of `TaskLifecycle` |
| `sql_stores` | the three SQL stores; 2 rows of one key (or one without), one retried, one delayed and expiring; 2 producers, 1 touch and 1 other transaction between read and write | keys unique, claims exclusive, expiries reported once, touched claims not recovered, lost claims reported missed, refinement of `TaskLifecycle` |
| `cloud_tasks` | 1 retried task with a deadline, 2 requests at once, 1 producer and maintenance process, 5 names, no failures | overlapping and repeated deliveries start no attempt twice, refinement of `TaskLifecycle` |
| `cloud_tasks_faults` | the same without a deadline, 1 request at once, 4 names, 1 failure | the record is settled in the end |
| `external` | SQS, Kafka, RabbitMQ (with a deadline) and Cloud Run; 1 retry with backoff, 1 dispatcher, 1 reconciler, 2 runners, 3 carriers, 1 fault | refinement of `TaskLifecycle`; the brokers settle every record |
| `events` | 2 producers of up to 4 and 2 events, live buffer of 2, history of batch 2 and 3 pending, every overflow policy, 1 or 2 faults | order per task, commit before delivery, nothing vanishes, nothing waits for ever |
| `housekeeping` | a two-day calendar with a skipped slot, 3 schedules, 2 coordinators over 4 stores, 2 callers of one identity, up to 3 faults | first match, covered runs, one task per identity and epoch, recurrences resume |
| `cron_repeated_hour` | a calendar with a repeated hour | **violated**: the next run is in the past |
| `supervision` | server with child (2 faults), standalone worker (1), 7 kinds of lifespan over 3 stores and 5 execution backends (2) | storage outlives the worker, neither outlives the other, stops are obeyed, teardown is complete |
| `observers` | 2 tasks and 6 instants over 8 transports; streams of up to 5 events with a memory of 2 keys; 4 records (one without a sequence), 5 queries and 3 rules over 5 stores and both orders of NULL; 2 deliveries and 2 repairs over 5 stores | bounded lateness, results seen, the first payload of each key shown once, answers that agree but for where an event without a sequence stands, first rule governs, repair reaches all |

Bounds.  Two workers and a concurrency of two give both ways two attempts of one
record meet (on two workers and on one).  One retry and one interruption give
three generations, enough for an attempt to be superseded twice.  Two outages
allow a crash in the shutdown that follows a crash.  Three tasks under a key
give a terminal, a cleaned-up and an active holder at once.  In `redis`, one
operation under way meets every script between its read and its commit, and two
records give a key an evicted holder beside an active one; the proofs cover any
number of both.  In `sql_stores` the races of a read with a write need one
transaction under way and a second caller, whose calls are steps; the race for a
key needs two producers.  In `cloud_tasks` two requests at once are a request
and the one that supersedes it; with four names for one request and five for
two, no reservation ever lacks a name.  One failure can hit any step, so it
reaches every state from which a record has to be brought back.  Pub/Sub is not
in `external` because no definition tells it from SQS.  In `events` the producers
fill a batch, overflow the buffer and overlap; the sink's reply comes from inside
the first delivery.  Each configuration has its own bound on faults: two for the
history in memory, and without a history for the sink that replies under
`drop_oldest` and `block`; one elsewhere.  It takes two for a drain to be cancelled
while it works off what an earlier cancelled drain has left and its own event is
still to come.  `EventProofs` bounds neither faults nor events.  `NextIsFirstMatch` is evaluated on a longer calendar (four
days, two weeks, a gap over midnight) for 64 expressions.  Two coordinators are
an owner and its successor; `HousekeepingProofs` covers any number.  Three time
units of backoff and six instants let a worker back off fully and a message be
late.  A memory of two keys is filled and rolled over by three events.

Type invariants.  `TypeOK` of `WorkerFleet`, `RedisStore`, `SqlTable` and
`CloudTasks` is proved; the types of the event modules, of `DispatchRepair`,
`Waits` and `EventStreams` are part of the invariants that are.  `TypeOK` of
`ExternalAttempt`, `EventDelivery` and `Housekeeping` and `ProcessTypeOK` of `Supervision` hold in the instances
above.  None of them is among the properties of the runs, which are kept for what
could go wrong.

Deadlock is not checked in these runs: a fleet whose tasks are all settled, with
no outage left, may stop, and so may a store whose records are all deleted, a
publisher that is closed and a process that has ended.

### Fairness

`RedisStore`, the SQL stores and the observers state no fairness: they are only
about safety (lateness is bounded by a clock that cannot pass a deadline that
somebody is due to meet).

`WorkerFleet`: time passes; a claim nobody touches goes stale; a worker that is up
polls (`_wait_for_work` always has a timeout); coroutines run and bodies end; a
stopping worker finishes its shutdown (both timeouts are bounded); a supervisor
restarts a dead worker; some process runs the stale sweep (`_maybe_requeue_stale`
at an interval).  Nothing is assumed of clients, of failing calls or of expiry
and cleanup.

`CloudTasks`: time passes and an untouched claim goes stale; calls return and
bodies end; the provider goes on posting what it holds; maintenance comes back
to repair (`external` phase), to expiry, and to the stale sweep, which has to be
switched on with `stale_after`.  Repair, the sweep and the posting are strongly
fair because one process or request can do only one thing at a time, so each is
only enabled again and again.

`Brokers`: the same, with a broker that goes on delivering what it holds and a
send that, once begun, arrives unless it fails.  `CloudRun` has no fairness: its
reconciliation can strand a record (section 6), so nothing is claimed.

`EventDelivery`: the event loop runs one of its ready tasks; which one is left
open, as there are finitely many events.  `EveryEventIsResolved` names the places
where the code gives up.

`Housekeeping`: time passes; a worker slot goes on; an untouched claim goes stale;
the trigger of maintenance keeps coming and ownership expires.

`Supervision`: threads and event loops go on, timeouts pass, and a job that can
end does.  Nothing is bound to fail, and no signal is bound to come.

## 5. Proofs

Every theorem holds for arbitrary values of the constants that satisfy the named
assumptions of its modules; further hypotheses are named below. Each proof has one
step or lemma per action of the model.

**`WorkerFleetProofs`.** Assumptions: `NoneAssumption` and `FleetAssumption`
(among them that `Task` is finite), and `SharedRecords = FALSE`: with records by
reference `ResultOfLastAttempt` is false (section 6).

`GenerationRunsOnce` is not inductive: nothing in it stops a store from offering a
generation again. `IndInv` adds that every attempt's generation is at most its
record's, strictly less once the record is queued again (`ClaimsAreBehind`), that
an attempt's count of interruptions is right while it holds its generation
(`InterruptionsKnown`, which the interruption limit in `RetryBudget` rests on),
and that the key index names the active record of each key (`KeysIndexed`, from
which `OneActivePerKey` follows). What an action does to one record is settled
once, in `QueueRecordProofs`, and cited.

`RecordsLiveThePromisedLife` is the refinement of `TaskLifecycle`. Every step
makes of every record one of a few moves (`Moves`: it stays, is claimed,
completes, ends, is queued again, is purged), and each move is a step of the life
cycle or a stutter (`LifeMoves`). That a claim begins a generation never begun
before, and that a requeue stays within the budget, comes from `IndInv`.

`LeasesAreHeld` carries `NoOrphanLease` from state to state next to `TypeOK`: most
steps leave every holder of a lease in place (`HoldersStay`) and take no new one;
what is left are the steps that register, unregister, end a coroutine or end a
worker. `ConcurrencyIsBounded` counts more than `ConcurrencyBound` does: all
attempts of a worker that are not gone (`HeldBound`), because an attempt moves
from the batch to the running tasks, and only the sum is stable. A claim adds at
most what `Available` leaves, and only while no batch is in flight.

**`RedisStoreProofs`.** Assumptions: `NoneAssumption` and `RedisAssumption`.
`QueuedIsPlaced`, `OnlyKnownGaps` and `OrphansAreSweepable` are properties
of one entry, and every script is shown once to take a `Consistent` entry to a
`Consistent` one and to make one of the moves of a record (`Waits`, `Starts`,
`Ends`, `Retries`, `IsHandedBack`, `Vanishes`). `Indexed`, under `OnlyKnownGaps`,
compares every index with the rebuilt one in both directions; the five
disjuncts by which it is weaker than equality are the divergences of section 6,
and TLC refutes it without any one of them. `Consistent` adds `Clean`: only
queued ids are in the expiry index and only active ones in the external index,
without which an evicted hash could leave more than its metadata behind. `IndInv`
adds to it `GrantedBehind` (a queued record's generation was never granted),
`BudgetKept`, `KeysIndexed` (the key index names the active holder, which gives
`OneActivePerKey`) and `SoundRead`: what a read promised its commit still holds,
whatever happened in between (a cancelled record was active when read, an
interruption whose fence holds is within its limit, and what an expiry or a repair
is to take from an index afterwards may go). `RecordsLiveThePromisedLife`
maps the same moves to `TaskLifecycle`; the eviction of an ended hash is its
purge.

**`SqlStoresProofs`.** Assumptions: `NoneAssumption`, `SqlTableAssumption` and
`StoresAssumption`. The first part knows only the table. Its inductive invariant
`IndInv` says of each row (`RowInv`) that the generations claimed of it are its
own and earlier ones, its own while it runs and not while it waits, that retries
and interruptions are within their limits, that an expiry was reported at most
once and only of a row that has expired, and that an active row has kept its key
in the unique column; and of a transaction that has read and will insert
(`SoundCall`) that its ids are unused by rows and by other transactions and that
the holders it found have ended. Three kinds of step keep it: rows move or are
claimed (`TableStep`), a transaction has read (`ReadStep`), rows are born and
ended ones give up their key (`BirthStep`). The second part shows of each
statement of SQLSpec, Advanced Alchemy and the ephemeral store that it is one of
the three. `ClaimsAreExclusive` assumes `ReliableRowcount = TRUE`: without row
counts it is false for SQLSpec (section 6). `TouchedRowsAreLeftAlone` is an action
property of the recoveries' predicates, shown for each store by itself.

**`EventProofs`.** Assumptions: `LiveEventsAssumption` and
`EventHistoryAssumption`: any producers, lengths, batch sizes, limits,
configurations and bounds on faults. An event moves in one direction through eight
stages (`Stage`): seen by subscribers, in the operation that the drain sends, in a
deferred operation, in the buffer's order, with a call that waits for room or for
the lock, committed, pending, and not yet published. The invariant `IInv` has as
its core `Chain`: of one task, every event of an earlier stage comes before every
event of a later one. `Queues` says the same within each stage that is a sequence,
and `CallsInv` ties the waiting calls to the drain and its owner. `Batches` says
that a write is of a batch at the front of what is pending, so that a failed,
repeated or cancelled write moves what it wrote and nothing else. `LiveOrder` is
`Queues` of the first stage; `Durable` (what has left the history has one row)
gives `CommittedBeforeLive`, and `Accounted` (every event is at a stage or was
lost knowingly) gives `NothingVanishes`. A step that moves a set of events from
one range of stages to another keeps the chain (`MovingKeepsChain`), so each
action only has to name the events it moves and why it passes over nothing of
their tasks.

The proof corrected the model. The first `DrainCancelled` forgot the event that a
drain was still to send for its own publisher when it was cancelled during
leftover work; with a single fault no run could reach that state, and `Accounted`
could not be shown. The model now gives such an event up knowingly, as the
exception in the publisher's call does, lets waiting threads be cancelled too, and
is run with two faults.

**`HousekeepingProofs`.** Assumptions: those of `Housekeeping` and its parts, in
particular any number of coordinators and callers. `RunIsCovered` does not survive
an acquisition by itself: `MaintenanceInv` adds that tokens of runs under way
differ and that an ownership which shows as expired has let its owner's time lapse
(`RunHoldsLease`). Each store's acquisition is a case of its own. `OncePerEpoch`
counts stored tasks; `IdentityInv` follows them back to the call that won the
reservation: calls under way have ids of their own (`IdsDiffer`), a task is stored
by its own call (`StoredByItsCall`), who won in the present epoch still owns the
reservation (`WinnerIsOwner`, which is what the comparison in `reset_identity`
keeps true), and an epoch has one winner (`OneWinner`).

`RepairReachesAll` rests on `DispatchRepairAssumption`; `RepairSpec` is what the
observers' run takes when it chooses repairs, for any number of deliveries and of
repairs under way. Counting the pages that have left a delivery out is not
inductive, as nothing in the count says that they will stop. `RepairInv` bounds
them together with the turns that may still come (`Turns`): a repair has one per
full page of the deliveries that are in front, and one if it read its instant
before the delivery's last check. A page that leaves an eligible delivery out is
full of deliveries in front of it, so the repair that took it has used a turn; a
delivery only comes in front when a dispatch was returned, which is what adds to
the bound.

**`CloudTasksProofs`.** Assumptions: `NoneAssumption` and `CloudTasksAssumption`.
`RequestsShareNoAttempt` is not inductive, because it says nothing of the
generations that the store may grant next. `IndInv` adds that each record is in
step with the generations granted of it (`StoreOK`, by the operator `InStep` of
`QueueRecordProofs`: none ahead of the record, a waiting record's own still to be
granted, the budget kept) and that a request holds a generation that was granted
and that no other request holds (`AttemptsAreExclusive`). Reservations, names,
repairs and what the provider holds appear in it only as types: none of them is
needed for the safety of an attempt. `RecordsLiveThePromisedLife` is the
refinement, by the moves that the fleet's proof uses.

**`ExternalProofs`.** Assumptions: `NoneAssumption` and
`ExternalAttemptAssumption`. `RecordLivesThePromisedLife` is the refinement of
`TaskLifecycle` by the brokers and by Cloud Run, whichever the deployment chooses.
Its invariant `RecordInStep` is `InStep` of the record and the generations whose
body was started. Carriers, references and calls play no part in it: whoever
writes the record does so by an operation that keeps it in step, even a
reconciliation that settles an attempt from outside (`CompletesFromOutside`).

**Those who wait** are proved about in the second part of `ExternalProofs`, from
`WaitsAssumption`: what `WorkerConfig.__post_init__` validates, and a transport out
of the eight. `WaitSpec` is what the observers' run takes when it chooses somebody
who waits; tasks, delays, intervals, the number of failures and the end of time are
arbitrary. `LatenessIsBounded` is not inductive: it says that the time that has
passed is short and nothing of how long it may go on. `WaitInv` counts from the
instant at which the worker last looked at the store (`LookedAt`) and bounds the
time until which it lies down:
- `Promptness`: when a task became claimable after the last look, the clock is at
  most one wait beyond that instant, and so is the end of a pause after an error,
  given one more poll interval per failed read (`Slack`);
- `Hearing`: a notification that was told is still to be read, on a subscription
  that listens or in a stream that keeps its messages, until the worker has looked;
- `Knowing`: a wait ends before any due time that was known when it began;
- `Seeing`: the worker of the ephemeral store looks all the time;
- `Cutting`: the look at a cancelled job's record that follows the next check comes
  within a wait;
- `Attending`: the caller's deadline, bounded by its timeout, and where ends are
  published, that a registered caller has a reader alive which has the message of
  the end still to read or has answered.

What ends a wait is a minimum of a set of instants, so the proofs rest on lemmas
about the least and the greatest of a set (`LeastOfMany`, by well-foundedness of
the natural numbers) and about what each store answers to `time_until_next_due`.

**Those who watch events** are the third part, from `WindowAssumption` (a stream
remembers at least one key); batches, sizes, channels, replays and what others
publish are arbitrary. `StreamShowsOnce` compares what was sent with everything the
stream has ever read, of which the stream keeps only its last keys. `StreamInv`
relates the two (`Remembers`): the keys kept differ; behind the last reading of each
there are exactly the keys kept after it; and of any other key that was read, all
the keys kept were read since, as many as fit. So a key is remembered exactly when
its event is not new (`RememberedIsNotNew`), whether the key was moved to the end
or pushed out before (`SeenFacts`). `NewEvents` is a sequence of positions in
order; `Counted` says that each rank is taken, without which appending a new event
could not be shown to leave the others in place (`NewEventsGrow`).
`FirstIsShown` says what a stream loses: the first payload of a key is new, so
whatever is never shown has the key of another payload that was, as the later
pieces of a cut event do.

**Processes** are proved about at the end of `WorkerFleetProofs`, from
`PlacementsAssumption`. `StorageIsLeftLast`: `ChildIsOwned` adds to
`StorageOutlivesWorker` that a server which unwinds has no child alive, because it
never started one, has seen its end, or has killed it, and that no child runs
before the server starts it. `LifespansCloseWhatTheyOpen`: `TeardownInv` says that
while a lifespan closes, every handle that is open is still in what it has to
close, or its close failed, or it is among those that the divergences of section 6
leave behind. What has to be closed is computed from what was opened, so the proof
shows of each kind of lifespan that its plan names all it could have opened
(`PlansFit`), and that a rollback after any failed open does too (`RollbackFits`).

Only model-checked:
- everything under fairness (`EveryTaskSettles`, `RecurrenceContinues`,
  `EveryEventIsResolved`, `NeitherOutlivesTheOther`, `StopIsObeyed`): liveness and
  `ENABLED` are out of the prover's reach;
- `NextIsFirstMatch`, a search over the days and slots of a given calendar for
  given expressions;
- `LostIsMissed`, `HistoryAnswersAlike` and `FirstRuleGoverns`, which compare the
  answer of one statement with the rows it met;
- the fleet with `SharedRecords = TRUE`, of which `fleet_keys` shows
  `OneActivePerKey` and `ConcurrencyBound`.

## 6. Divergences

`PROJECT.json` records one finding with a run: the cron search in a repeated
hour (`cron_repeated_hour`).  Modelling met more places where the code does
something else than a comment or a doc says, or leaves a gap.  Where a model
contains the step, the properties above hold with it.

*Attempts.*
- `worker/worker.py:647`: shutdown nulls the heartbeats of survivors "so a stale
  sweep can reclaim them on its next pass"; the last tick of the heartbeat
  manager's close (`heartbeat.py:168`) makes them fresh again.
- `service.py:917`: a `JobCancelledError` cancels without a generation, so a
  superseded attempt cancels its successor (`docs/architecture/index.md:15`:
  "Every mutation checks ...").  `complete_task` and `fail_task` without an
  expected generation are not fenced either.
- `worker/worker.py:537`: registrations are keyed by task id, so an old attempt
  that ends on the worker that reclaimed its record removes the registration of
  the new one.
- `service.py:893`: with the memory store's shared objects a superseded attempt
  presents the new generation and stores its result.
- `heartbeat.py`: a progress detail recorded while a touch is awaited is cleared
  with the one that was sent.

*Stores.*
- Redis: the maintenance indexes are not always those of a rebuild
  (`redis/backend.py:2075`).  The retry branch of the fail script (573-599) and
  `clear_execution_ref` (483) queue a record without its reference and do not list
  its deadline again, which an earlier step had taken off the list;
  `expire_overdue` (1982) may take off the deadline of a record that was requeued
  since its read (2000).  `expire_overdue` then misses these records, and only a
  later claim, or a rebuild, finds them overdue.  `clear_execution_ref` also leaves
  the record listed as external, and an overdue one stays listed for repair until
  a page drops it.  Most scripts (768) list a deadline under a reference as well, so
  Redis expires overdue records that other stores leave to their provider
  (`memory/backend.py:558`).  `OnlyKnownGaps` names these and excludes any other.
- `docs/backends/redis-valkey.md:42` calls `rebuild_maintenance_indexes(batch_size=500)`
  an online repair; the method takes no argument and asks for all writers to be
  stopped.
- `redis/backend.py:1715`: `_commit_stale_failure` is fenced by status only and can
  fail a newer attempt.
- `advanced_alchemy/service.py:1123`: one lost row of a group makes every row of the
  group a reported miss.
- SQLSpec: with an unreliable row count the loser of a claim believes it won;
  `null_heartbeats` reads a generation and then updates by id alone;
  `notify_new_task` may raise after the record is stored.
- Ephemeral: `requeue_stale_running` never fills `requeued_task_ids`; `LIMIT` is
  applied before the filters in Python; `claim_many` expires records that carry a
  provider's reference; `reserve_external_dispatch` expires without reporting.
- `list_pending` includes records that were dispatched and not yet claimed.

*External execution.*
- `consumer.py:254`: a heartbeat that ticks while a retry is dispatched cancels the
  dispatch, and the delivery is acknowledged; only repair finds the record.
- `memory/backend.py:558`: an overdue record with a delivery name and no delivery is
  left by expiry and by repair.
- `kafka/backend.py:250`: committing an offset also commits skipped messages before
  it (`docs/execution/kafka.md:76`).
- Cloud Run: `reconcile()` may settle an attempt from another attempt's execution,
  and strands a record whose container failed before it claimed; cancelling with
  `include_running=False` still cancels the execution of a running record.
- Repair may mark a candidate as checked that another repair has just taken.

*Schedules, maintenance, identities.*
- `reassert_schedules` counts every schedule against its limit and begins at the
  first each time, so later ones can starve.
- The ownership of maintenance may lapse in the middle of a phase; phases do not
  look at it again.
- A process that dies between the reservation of a forever identity and the
  enqueue leaves the identity reserved for nothing until it is reset.
- Two runs of a schedule may fall on the same instant when new code changes its
  version.

*Events.*
- `task.expired` is not a barrier, unlike `docs/events/history.md:16`.
- The pieces of a batch event that is cut keep its id and key (`chunking.py:68`); a
  stream shows the first and drops the others as repetitions (`streaming.py:247`),
  so the items in them never arrive.  `StreamShowsOnce` says so: an open stream
  loses nothing but payloads that have the key of one that was shown.
- `docs/events/history.md:42` orders history by `(occurred_at, sequence, created_at,
  event_id)`; no store looks at `created_at`, so events that agree in the first
  two fields are in the order of their ids.
- An event without a sequence stands first among those of its instant where Python
  sorts (`_log_records.py:71`, "SQLSpec-compatible"), which is everywhere but in the
  pages of SQLSpec (`sqlspec/event_log.py:214`) and the pages, summaries and retention
  of Advanced Alchemy (`service.py:179`, 234, 297).  These order by the nullable
  column, so there it stands last in a database that sorts NULL as the largest
  value; and the pages of SQLSpec then disagree with its own summaries.
- Advanced Alchemy summarises a query with `order="desc"` (`service.py:203`), which
  `history.md:60` and the other stores reject, and ranks an unknown level with no
  level at all (245), not above it.
- A history's timer sleeps over a stored error.  A flush that collects the error of
  its own release (`_history_buffer.py:208`), or an `enqueue` that raises it, does not
  wake the timer: what is pending waits for the next event or explicit flush.
- A cancelled live delivery loses the rest of its batch; with `block` and a stopped
  loop a publisher waits; `publish_many` reorders events across channel sets.
- A history replayed to a stream may follow events that came live.  A stream of
  server-sent events drops the event it has fetched when it rolls over.
- Advanced Alchemy: `cleanup_events` ignores an empty exclusion, and `query_events`
  ignores `extra`.  Redis: a crash between its two pipelines leaves an event
  without indexes, or indexes without an event.

*Processes.*
- The command's watchdog is disarmed before the process has ended
  (`docs/execution/cli.md:38`, `docs/learn/workers.md:72`).
- `plugin.py:452`: a failure of `initialize_schedules` leaves the service open; a
  cancellation during `worker.stop()` skips the close of the service, and one
  while the worker is awaited is suppressed.
- `_close_execution_backends`, the close of the Pub/Sub, Kafka and RabbitMQ backends
  and of the SQLSpec sink stop at their first error.  The consumer command never
  closes the backend it makes for itself, and the status command does not close
  on a cancellation.

## 7. Simplifications, and what is not modelled

Where a step of a model stands for several of the code:
- `WorkerFleet.ClaimAvailable` may follow a stop, because the loop looks for one only
  between iterations (`worker.py:290`); the model does not limit this to the one
  iteration under way, which adds behaviours and takes none away.
  `HeartbeatMiss` publishes a lost claim, unregisters and cancels at once
  (`heartbeat.py:209-242`).  A publication that takes long is a miss handled late,
  which the model has; a registration that ends during the publication is taken
  for one that had ended before.
- `SqlSpecStore.ClaimWhere` has no condition on the expected reference
  (`stores/base.py:572`): more claims succeed than in the code.
- `CloudTasks.RequestFails` answers with an error at once; the code settles or
  re-raises by where it was (`consumer.py:254`, 269).
- `ExternalAttempt.RecoverInline` is one step (`consumer.py:126-151`), the one in
  `CloudTasks` is several, with other processes between them.
- `CloudRun.CancelExternalAttempt` reads the execution and cancels it in one step.
- `EventHistory.ReleasesSeen` may clear whatever error is stored; the code clears it
  when it is that of a release the call has waited for.
- `Calendar.NextCron` has no month field and no end of the search (`task.py:280`, 288):
  the calendars are shorter than a month.
- `Supervision.ServerUnwind` closes what the server holds in one step, and the
  watchdog thread always starts (`supervisor.py:624`).  In `WorkerRun.GracefulStops`
  the worker's `stop()` does not raise (`runtime.py:236`).
- Events carry the fields that queries, rules and streams look at; every sequence in
  a log is at least one, as `events/context.py:245` counts them, or none.

Of the Redis store: the index version marker and the rebuild as a step (it runs
with all writers stopped; here it is the reference the indexes are compared
with).  Of the SQL stores: dialects, schema creation and migrations, session
bridging, conversion of rows, and isolation levels other than read committed.
`clear()` of a store is a test helper.

Of Cloud Tasks: the 90-day scheduling horizon, the authentication of requests,
request building and metrics.  Of the brokers: clients, topology, message
encoding; of Cloud Run: the fallback backend.  Of the worker: limits per queue
and its own reconciliation pass.  Of supervision: the Windows process tree and
launch arguments.

Task declaration, configuration, routes and their authorization, dependency
injection, observability, logging, correlation and the output of commands keep
no state that the queue's behaviour depends on after the start.
