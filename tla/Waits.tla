------------------------------- MODULE Waits -------------------------------
(***************************************************************************)
(* Who waits for a task: a worker with nothing to do, and a caller that    *)
(* wants a result.  Both poll the store, and both are told by a message    *)
(* that may be lost; a cancellation of what is running reaches the worker  *)
(* the same two ways.  Time is a clock that stands still while somebody    *)
(* has something to do at once, so lateness can be measured.               *)
(***************************************************************************)
EXTENDS Integers, FiniteSets, FiniteSetsExt, Deployments

CONSTANTS
    Task,
    MaxTime,          \* the last instant
    DueIn,            \* delays with which a task is enqueued or retried
    PollInterval,     \* WorkerConfig.poll_interval, poll_backoff_max and
    PollBackoffMax,   \* poll_backoff_multiplier
    Multiplier,
    CancelInterval,   \* cancellation_poll_interval
    CallerPoll,       \* TaskResult.wait: poll_interval and timeout
    CallerTimeout,
    MaxRetries,       \* bound on retries
    Absent

\* How a worker may hear of work, and that it has to look for it.
Transport == {"polling", "event", "pubsub", "stream", "table", "asyncpg", "psycopg", "exists"}

\* What WorkerConfig validates, and TaskResult.wait is given.
ASSUME WaitsAssumption ==
    /\ IsFiniteSet(Task) /\ Absent \notin Task \cup BOOLEAN \cup Nat
    /\ {PollInterval, Multiplier, CancelInterval} \subseteq Nat \ {0}
    /\ PollBackoffMax \in Nat /\ PollInterval <= PollBackoffMax
    /\ {MaxTime, MaxRetries, CallerPoll, CallerTimeout} \cup DueIn \subseteq Nat
    /\ \A cfg \in Configs : cfg.transport \in Transport

VARIABLES
    clock, failures,
    tasks,     \* the store: status, due time, since when it waits, its wake-up
    loop,      \* the worker's loop
    channel,   \* wake-ups: is somebody listening, messages not yet read
    job,       \* what the worker runs; when it was last free
    caller,    \* a caller of TaskResult.wait
    reader     \* the reader of completions: [alive, messages]

waitVars == <<clock, tasks, loop, channel, job, caller, reader>>

\* Who is told of new work: an event in the same process and a table keep a
\* message for whom is not listening yet.
HasWakeups == config.transport \notin {"polling", "exists"}
KeepsMessages == config.transport \in {"event", "table"}
HasControl == config.transport \in {"event", "pubsub", "stream", "table"}
IsListener == config.transport \in {"asyncpg", "psycopg"}

WaitInit ==
    /\ clock = 0
    /\ tasks = [t \in Task |-> [status |-> "none", due |-> 0, born |-> 0, telling |-> FALSE, heard |-> FALSE, ended |-> 0]]
    /\ loop = [pc |-> "claim", deadline |-> 0, interval |-> PollInterval, timeout |-> 0, known |-> {}, completion |-> FALSE]
    /\ \E table \in IF config.transport = "table" THEN BOOLEAN ELSE {TRUE} :
         channel = [listening |-> config.transport \in {"event", "table"}, messages |-> 0, hint |-> FALSE, table |-> table]
    /\ job = [task |-> Absent, freed |-> 0, checked |-> 0, retries |-> 0]
    /\ caller = [pc |-> "none", task |-> Absent, until |-> 0, start |-> 0, answer |-> Absent]
    /\ reader = [alive |-> FALSE, messages |-> {}, lost |-> FALSE]

Failure == failures < config.faults /\ failures' = failures + 1

IsDue(t) == tasks[t].status = "queued" /\ tasks[t].due <= clock
Due == {t \in Task : IsDue(t)}
Ended(t) == tasks[t].status \in {"done", "cancelled"}

----------------------------------------------------------------------------
\* Enqueue, and notify_new_task after it.

Queued(t, delay) ==
    tasks' = [tasks EXCEPT ![t] = [status |-> "queued", due |-> clock + delay, born |-> clock, telling |-> TRUE,
                                   heard |-> FALSE, ended |-> 0]]

Enqueue(t) ==
    /\ tasks[t].status = "none" /\ t \in config.tasks
    /\ \E delay \in DueIn : Queued(t, delay)
    /\ UNCHANGED <<clock, loop, channel, job, caller, reader, failures>>

\* A table that no migration has made yet fails each use, until it is there.
EnsureEventsQueueTable == channel.table

\* What there is to read once a store has told of work: an event is set or
\* not, the others count; a message to nobody is lost, unless a table has it.
MemoryTells == 1
RedisTells == IF channel.listening THEN channel.messages + 1 ELSE channel.messages
SqlSpecTells ==
    IF EnsureEventsQueueTable /\ (channel.listening \/ config.transport = "table") THEN channel.messages + 1 ELSE channel.messages
AlchemyTells == IF ~channel.listening THEN 0 ELSE IF config.transport = "asyncpg" THEN 1 ELSE channel.messages + 1

\* The ephemeral store's event is for its own process; others must look.
EphemeralTells == channel.messages

Tells(t) ==
    IF ~IsDue(t) THEN channel.messages
    ELSE CASE config.transport = "event" -> MemoryTells
           [] config.transport = "pubsub" -> RedisTells
           [] config.transport \in {"stream", "table"} -> SqlSpecTells
           [] IsListener -> AlchemyTells
           [] OTHER -> EphemeralTells

\* Only work that is due is told of.
NotifyNewTask(t) ==
    /\ tasks[t].telling
    /\ tasks' = [tasks EXCEPT ![t].telling = FALSE,
                             ![t].heard = /\ HasWakeups /\ IsDue(t) /\ EnsureEventsQueueTable
                                          /\ (channel.listening \/ KeepsMessages) /\ loop.pc # "backoff"]
    /\ channel' = [channel EXCEPT !.messages = Tells(t)]
    /\ UNCHANGED <<clock, loop, job, caller, reader, failures>>

NotificationLost(t) ==
    /\ tasks[t].telling /\ Failure
    /\ tasks' = [tasks EXCEPT ![t].telling = FALSE]
    /\ UNCHANGED <<clock, loop, channel, job, caller, reader>>

----------------------------------------------------------------------------
\* The worker's loop.

Reset == PollInterval

\* _next_backoff_interval.
Advanced(interval) == IF config.backoff THEN Min({interval * Multiplier, PollBackoffMax}) ELSE interval

\* _apply_jitter: around the interval, between the base and the maximum.
Jittered(interval) == {i \in (interval - 1)..(interval + 1) : i >= PollInterval /\ i <= PollBackoffMax}

\* The due times that lie ahead.
Upcoming == {t \in Task : tasks[t].status = "queued" /\ tasks[t].due > clock}
Until(S) == IF S = {} THEN Absent ELSE Max({Min({tasks[t].due : t \in S}) - clock, 0})

\* Redis looks at the first member of its scheduled set, which may be due
\* and wait for a claim to promote it; the others select what lies ahead.
Promotable == {t \in Task : tasks[t].status = "queued" /\ tasks[t].due > tasks[t].born}
RedisNextDue == Until(Promotable)
MemoryNextDue == Until(Upcoming)
SqlSpecNextDue == Until(Upcoming)
AlchemyNextDue == Until(Upcoming)
EphemeralNextDue == Until(Upcoming)

TimeUntilNextDue ==
    CASE config.transport = "pubsub" -> RedisNextDue
      [] config.transport = "event" -> MemoryNextDue
      [] config.transport \in {"stream", "table", "polling"} -> SqlSpecNextDue
      [] IsListener -> AlchemyNextDue
      [] OTHER -> EphemeralNextDue

\* Fault: a wait may outlast what is known to come due.
Unclamped(interval) == IF config.backoff THEN Jittered(interval) ELSE {interval}

\* _current_wait_timeout.
CurrentWaitTimeout(interval) ==
    IF ~config.backoff THEN {interval}
    ELSE IF TimeUntilNextDue = Absent THEN Jittered(interval)
    ELSE {Min({i, TimeUntilNextDue}) : i \in Jittered(interval)}

\* _maybe_cancel_running, at most once in cancellation_poll_interval.
CancelsRunning == job.task # Absent /\ tasks[job.task].status = "cancelled"
Checks == job.task # Absent /\ clock - job.checked >= CancelInterval
Freed == [job EXCEPT !.task = Absent, !.freed = clock, !.checked = 0]

\* A claim promotes all that is due.
Promoted == [t \in Task |-> IF IsDue(t) THEN [tasks[t] EXCEPT !.born = Max({@, tasks[t].due})] ELSE tasks[t]]

Iterate ==
    /\ loop.pc = "claim"
    /\ IF Checks /\ CancelsRunning
       THEN job' = Freed /\ loop' = [loop EXCEPT !.completion = TRUE] /\ UNCHANGED tasks
       ELSE IF job.task = Absent /\ Due # {}
       THEN \E t \in Due :
              /\ job' = [job EXCEPT !.task = t, !.checked = clock]
              /\ tasks' = [Promoted EXCEPT ![t] = [@ EXCEPT !.status = "running", !.due = 0, !.born = 0, !.heard = FALSE]]
              /\ loop' = [loop EXCEPT !.interval = Reset]
       ELSE /\ loop' = [loop EXCEPT !.pc = "look"]
            /\ job' = IF Checks THEN [job EXCEPT !.checked = clock] ELSE job
            /\ UNCHANGED tasks
    /\ UNCHANGED <<clock, channel, caller, reader, failures>>

\* _wait_for_work, up to the wait itself.
LooksForWork ==
    /\ loop.pc = "look"
    /\ IF loop.completion THEN loop' = [loop EXCEPT !.completion = FALSE, !.pc = "claim"]
       ELSE \E timeout \in CurrentWaitTimeout(loop.interval) :
              loop' = [loop EXCEPT !.pc = "listen", !.timeout = timeout, !.known = Upcoming]
    /\ UNCHANGED <<clock, tasks, channel, job, caller, reader, failures>>

\* The subscription is made, or made again; a listener then looks once more.
PubSubSubscribed == [channel EXCEPT !.listening = TRUE]
StreamOpened == [channel EXCEPT !.listening = TRUE]
AsyncpgStarted == [channel EXCEPT !.listening = TRUE]
PsycopgStarted == [channel EXCEPT !.listening = TRUE]
Subscribes ==
    channel' = CASE config.transport = "pubsub" -> PubSubSubscribed
                 [] config.transport \in {"stream", "table"} -> StreamOpened
                 [] config.transport = "asyncpg" -> AsyncpgStarted
                 [] config.transport = "psycopg" -> PsycopgStarted
                 [] OTHER -> channel
StartsWaiting == loop' = [loop EXCEPT !.pc = "wait", !.deadline = clock + loop.timeout]

Wakes(interval) ==
    loop' = [loop EXCEPT !.pc = "claim", !.interval = interval, !.completion = FALSE, !.known = {}, !.timeout = 0, !.deadline = 0]

\* The error of a wait reaches the worker, which pauses.
PausesAfterError == [loop EXCEPT !.pc = "backoff", !.interval = Reset, !.known = {}, !.deadline = clock + PollInterval]

Listens ==
    /\ loop.pc = "listen"
    /\ IF ~EnsureEventsQueueTable THEN loop' = PausesAfterError /\ UNCHANGED channel
       ELSE /\ Subscribes
            /\ IF IsListener THEN loop' = [loop EXCEPT !.pc = "reconcile"] ELSE StartsWaiting
    /\ UNCHANGED <<clock, tasks, job, caller, reader, failures>>

CreateEventsQueueTable ==
    /\ ~channel.table /\ channel' = [channel EXCEPT !.table = TRUE]
    /\ UNCHANGED <<clock, tasks, loop, job, caller, reader, failures>>

Reconciles ==
    /\ loop.pc = "reconcile"
    /\ IF Due # {} THEN Wakes(Reset) ELSE StartsWaiting
    /\ UNCHANGED <<clock, tasks, channel, job, caller, reader, failures>>

\* PendingNativeRead: the read outlives the wait.
RetainedRead == channel.messages

\* A message; due work that the ephemeral store sees; the time is over, told
\* by the wake-up's or by the control's wait; the end of a job.
Told == channel.messages > 0
Sees == config.transport = "exists" /\ Due # {}
TimeIsOver == clock >= loop.deadline

\* What is left to read: an event is cleared, a message is taken or acknowledged.
MemoryRead == 0
AsyncpgRead == 0
PubSubRead == channel.messages - 1
StreamRead == channel.messages - 1
PsycopgRead == channel.messages - 1
AfterRead ==
    CASE config.transport = "event" -> MemoryRead
      [] config.transport = "asyncpg" -> AsyncpgRead
      [] config.transport = "pubsub" -> PubSubRead
      [] config.transport = "psycopg" -> PsycopgRead
      [] OTHER -> StreamRead

WaitEnds ==
    /\ loop.pc = "wait" /\ ~channel.hint
    /\ \/ Told /\ Wakes(Reset)
          /\ channel' = [channel EXCEPT !.messages = AfterRead]
       \/ Sees /\ Wakes(Reset) /\ UNCHANGED channel
       \/ TimeIsOver /\ \E interval \in {loop.interval, Advanced(loop.interval)} : Wakes(interval)
          /\ channel' = [channel EXCEPT !.messages = RetainedRead]
       \/ loop.completion /\ Wakes(loop.interval) /\ channel' = [channel EXCEPT !.messages = RetainedRead]
    /\ UNCHANGED <<clock, tasks, job, caller, reader, failures>>

\* wait_for_worker_control, where it ends with a hint; elsewhere it sleeps.
MemoryControl == channel.hint
RedisControl == channel.hint
SqlSpecControl == channel.hint
WorkerControl ==
    CASE config.transport = "event" -> MemoryControl
      [] config.transport = "pubsub" -> RedisControl
      [] config.transport \in {"stream", "table"} -> SqlSpecControl
      [] OTHER -> FALSE

\* The running jobs are looked at now.
HintArrives ==
    /\ loop.pc = "wait" /\ WorkerControl
    /\ channel' = [channel EXCEPT !.hint = FALSE]
    /\ job' = IF CancelsRunning THEN Freed ELSE IF job.task # Absent THEN [job EXCEPT !.checked = clock] ELSE job
    /\ Wakes(loop.interval)
    /\ UNCHANGED <<clock, tasks, caller, reader, failures>>

\* A read fails: the subscription is dropped, with what it had not delivered.
Unheard == [t \in Task |-> [tasks[t] EXCEPT !.heard = FALSE]]
Unsubscribed == [channel EXCEPT !.listening = FALSE, !.messages = 0]

\* A listener of psycopg keeps the error to itself, and the end of asyncpg's
\* connection is seen by the next start.
ResetPubSub == channel' = Unsubscribed /\ loop' = PausesAfterError
CloseNotificationStream == channel' = Unsubscribed /\ loop' = PausesAfterError
PsycopgCloses == channel' = Unsubscribed /\ loop' = [loop EXCEPT !.pc = "claim", !.interval = Advanced(@), !.known = {}]
AsyncpgDrops == channel' = Unsubscribed /\ UNCHANGED loop

ReadFails ==
    /\ loop.pc = "wait" /\ Failure
    /\ \/ config.transport = "pubsub" /\ ResetPubSub
       \/ config.transport = "stream" /\ CloseNotificationStream
       \/ config.transport = "psycopg" /\ PsycopgCloses
       \/ config.transport = "asyncpg" /\ AsyncpgDrops
    /\ tasks' = Unheard
    /\ UNCHANGED <<clock, job, caller, reader>>

\* The read of a hint fails: that subscription alone is dropped, and the
\* worker goes on at once.
ResetControlPubSub == config.transport = "pubsub" /\ channel' = [channel EXCEPT !.hint = FALSE]
CloseControlStream == config.transport \in {"stream", "table"} /\ channel' = [channel EXCEPT !.hint = FALSE]

ControlReadFails ==
    /\ loop.pc = "wait" /\ job.task # Absent /\ Failure
    /\ ResetControlPubSub \/ CloseControlStream
    /\ Wakes(loop.interval)
    /\ UNCHANGED <<clock, tasks, job, caller, reader>>

BackoffEnds ==
    /\ loop.pc = "backoff" /\ TimeIsOver
    /\ loop' = [loop EXCEPT !.pc = "claim"]
    /\ UNCHANGED <<clock, tasks, channel, job, caller, reader, failures>>

----------------------------------------------------------------------------
\* The life of the task that runs.

\* The record's last transition publishes its end in the same script.
Publishes(t) == reader' = [reader EXCEPT !.messages = IF reader.alive THEN @ \cup {t} ELSE @]

JobEnds ==
    /\ job.task # Absent /\ tasks[job.task].status = "running"
    /\ loop' = [loop EXCEPT !.completion = TRUE]
    /\ \/ tasks' = [tasks EXCEPT ![job.task].status = "done", ![job.task].ended = clock]
          /\ job' = Freed /\ Publishes(job.task)
       \/ \E delay \in DueIn : job.retries < MaxRetries /\ Queued(job.task, delay)
          /\ job' = [Freed EXCEPT !.retries = @ + 1] /\ UNCHANGED reader
    /\ UNCHANGED <<clock, channel, caller, failures>>

\* notify_worker_control: the control subscription is made with the first wait.
MemoryHints == {TRUE}
RedisHints == IF channel.listening THEN {TRUE} ELSE BOOLEAN
SqlSpecHints == IF ~EnsureEventsQueueTable THEN {FALSE} ELSE IF channel.listening THEN {TRUE} ELSE BOOLEAN
Hints ==
    CASE config.transport = "event" -> MemoryHints
      [] config.transport = "pubsub" -> RedisHints
      [] config.transport \in {"stream", "table"} -> SqlSpecHints
      [] OTHER -> {FALSE}

\* cancel_task, and the hint for what is running, or its loss.
CancelsTask(t) ==
    /\ config.cancels /\ tasks[t].status \in {"queued", "running"}
    /\ tasks' = [tasks EXCEPT ![t].status = "cancelled", ![t].ended = clock, ![t].telling = FALSE]
    /\ Publishes(t)
    /\ \/ \E hint \in Hints : channel' = [channel EXCEPT !.hint = hint /\ tasks[t].status = "running"] /\ UNCHANGED failures
       \/ HasControl /\ tasks[t].status = "running" /\ Failure /\ UNCHANGED channel
    /\ UNCHANGED <<clock, loop, job, caller>>

----------------------------------------------------------------------------
\* TaskResult.wait.

CallerStarts(t) ==
    /\ config.caller /\ caller.pc = "none" /\ tasks[t].status # "none"
    /\ caller' = [caller EXCEPT !.pc = "refresh", !.task = t, !.start = clock]
    /\ UNCHANGED <<clock, tasks, loop, channel, job, reader, failures>>

Remaining == caller.start + CallerTimeout - clock

CallerRefreshes ==
    /\ caller.pc = "refresh"
    /\ caller' = IF Ended(caller.task) THEN [caller EXCEPT !.pc = "returned"]
                 ELSE IF Remaining <= 0 THEN [caller EXCEPT !.pc = "timeout"]
                 ELSE [caller EXCEPT !.pc = IF config.transport = "pubsub" THEN "register" ELSE "blocked",
                                     !.until = clock + Min({CallerPoll, Remaining}), !.answer = Absent]
    /\ UNCHANGED <<clock, tasks, loop, channel, job, reader, failures>>

\* Fault: the record is not read again once the waiter is registered.
BlocksAtOnce == "blocked"

\* wait_for_completion: the subscriber is ensured, then the record is read
\* again.
AfterRegistration == "check"

CallerRegisters ==
    /\ caller.pc = "register"
    /\ reader' = [reader EXCEPT !.alive = TRUE]
    /\ caller' = [caller EXCEPT !.pc = AfterRegistration]
    /\ UNCHANGED <<clock, tasks, loop, channel, job, failures>>

CallerChecks ==
    /\ caller.pc = "check"
    /\ caller' = [caller EXCEPT !.pc = IF Ended(caller.task) THEN "refresh" ELSE "blocked"]
    /\ UNCHANGED <<clock, tasks, loop, channel, job, reader, failures>>

CallerWakes ==
    /\ caller.pc = "blocked" /\ (caller.answer # Absent \/ clock >= caller.until)
    /\ caller' = [caller EXCEPT !.pc = "refresh"]
    /\ UNCHANGED <<clock, tasks, loop, channel, job, reader, failures>>

\* _read_completion_messages.
IsRegistered == config.transport = "pubsub" /\ caller.pc \in {"check", "blocked"}

ReaderReads ==
    /\ reader.messages # {}
    /\ \E t \in reader.messages :
         /\ reader' = [reader EXCEPT !.messages = @ \ {t}]
         /\ caller' = IF IsRegistered /\ caller.task = t THEN [caller EXCEPT !.answer = TRUE] ELSE caller
    /\ UNCHANGED <<clock, tasks, loop, channel, job, failures>>

ReaderDies ==
    /\ reader.alive /\ Failure
    /\ reader' = [reader EXCEPT !.alive = FALSE, !.messages = {}]
    /\ caller' = IF IsRegistered THEN [caller EXCEPT !.answer = FALSE] ELSE caller
    /\ UNCHANGED <<clock, tasks, loop, channel, job>>

MessageLost ==
    /\ reader.messages # {} /\ Failure
    /\ reader' = [reader EXCEPT !.messages = {}, !.lost = TRUE]
    /\ UNCHANGED <<clock, tasks, loop, channel, job, caller>>

----------------------------------------------------------------------------
\* Nobody who has something to do waits for the time to pass.
LoopRests ==
    \/ loop.pc = "wait" /\ ~Told /\ ~Sees /\ ~TimeIsOver /\ ~loop.completion /\ ~channel.hint
    \/ loop.pc = "backoff" /\ ~TimeIsOver
    \/ loop.pc = "wait" /\ loop.timeout = 0 /\ clock = loop.deadline /\ job.task # Absent  \* it spins
CallerRests ==
    \/ caller.pc \in {"none", "returned", "timeout"}
    \/ caller.pc = "blocked" /\ caller.answer = Absent /\ clock < caller.until

Tick ==
    /\ clock < MaxTime /\ LoopRests /\ CallerRests /\ reader.messages = {}
    /\ \A t \in Task : ~tasks[t].telling
    /\ clock' = clock + 1
    /\ UNCHANGED <<tasks, loop, channel, job, caller, reader, failures>>

LoopStep == Iterate \/ LooksForWork \/ Listens \/ Reconciles \/ WaitEnds \/ HintArrives \/ BackoffEnds
CallerStep == CallerRefreshes \/ CallerRegisters \/ CallerChecks \/ CallerWakes \/ ReaderReads

WaitNext ==
    \/ \E t \in Task : Enqueue(t) \/ NotifyNewTask(t) \/ NotificationLost(t) \/ CancelsTask(t) \/ CallerStarts(t)
    \/ LoopStep \/ CallerStep \/ ReadFails \/ ControlReadFails \/ CreateEventsQueueTable \/ JobEnds \/ ReaderDies \/ MessageLost \/ Tick

----------------------------------------------------------------------------
\* Somebody who waits on their own, in any deployment.
WaitSpec ==
    /\ config \in Configs /\ failures = 0 /\ WaitInit
    /\ [][WaitNext /\ UNCHANGED config]_<<config, failures, waitVars>>

----------------------------------------------------------------------------
MaxWait == IF config.backoff THEN PollBackoffMax ELSE PollInterval
Since(t) == Max({tasks[t].due, tasks[t].born, job.freed})

\* A free worker claims what is due at once when it was told of it and was not
\* in the pause after an error, or when the due time was known as it lay down to
\* wait, and no later than one poll after in any case, and a pause for each read
\* that failed: whichever messages are lost and whatever ends in between.  A
\* cancelled job is cut within a poll and a check of its record.
LatenessIsBounded ==
    /\ \A t \in Due : job.task = Absent =>
         /\ clock - Since(t) <= MaxWait + PollInterval * failures
         /\ tasks[t].heard => clock = Since(t)
         /\ (config.backoff /\ loop.pc = "wait" /\ t \in loop.known) => clock <= Max({tasks[t].due, loop.deadline - loop.timeout})
         /\ config.transport = "exists" => clock = Since(t)
    /\ CancelsRunning => clock - tasks[job.task].ended <= MaxWait + CancelInterval + PollInterval * failures

\* A caller learns of the end at once where ends are published, unless the
\* message itself is lost, and within its poll interval anyway; its timeout
\* holds whatever happens.
ResultIsSeen ==
    caller.pc \notin {"none", "returned", "timeout"} =>
        /\ clock <= caller.start + CallerTimeout
        /\ Ended(caller.task) =>
             LET ended == Max({tasks[caller.task].ended, caller.start})
             IN  clock - ended <= IF config.transport = "pubsub" /\ ~reader.lost THEN 0 ELSE CallerPoll
=============================================================================
