---------------------------- MODULE QueueRecord ----------------------------
(***************************************************************************)
(* The persisted task record of litestar-queues (models.QueuedTaskRecord)  *)
(* and what each storage operation does to one record.  The operations are *)
(* those of InMemoryQueueBackend, the reference implementation of          *)
(* BaseQueueBackend: every one of them runs under a single lock, so here   *)
(* it is a function from a record to a record.                             *)
(*                                                                         *)
(* Timestamps are abstracted to what the code compares them with:          *)
(*   heartbeat_at  "null"; "fresh" or "stale" around now - stale_after     *)
(*   due           scheduled_at is NULL or not after now (is_due)          *)
(*   expires_at    "never" (NULL), "later", or "overdue" (<= now)          *)
(* A record that was never stored has the pseudo-status "absent", one that *)
(* terminal cleanup removed "deleted": ids are UUIDs and never reused.     *)
(***************************************************************************)
EXTENDS Integers

CONSTANTS
    Worker,     \* worker identities (Worker._worker_id)
    Key,        \* deduplication keys
    None        \* Python's None

ASSUME NoneAssumption == None \notin Worker /\ None \notin Key /\ None \notin Nat

----------------------------------------------------------------------------
TerminalStatuses == {"completed", "failed", "cancelled", "expired"}
QueuedStatuses == {"pending", "scheduled"}
TaskStatus == QueuedStatuses \cup {"running"} \cup TerminalStatuses

\* The arguments of enqueue() that decide how a record may move.
EnqueueOptions ==
    [key : Key \cup {None}, max_retries : Nat, backoff : BOOLEAN,
     requeue_on_stale : BOOLEAN, requeue_on_shutdown : BOOLEAN,
     due : BOOLEAN, expires_at : {"never", "later"}]

QueuedTaskRecord ==
    [status : TaskStatus \cup {"absent", "deleted"},
     retry_count : Nat, interruptions : Nat,
     worker_id : Worker \cup {None},
     heartbeat_at : {"null", "fresh", "stale"},
     due : BOOLEAN, expires_at : {"never", "later", "overdue"},
     result : Nat \cup {None},
     key : Key \cup {None}, max_retries : Nat, backoff : BOOLEAN,
     requeue_on_stale : BOOLEAN, requeue_on_shutdown : BOOLEAN]

NoRecord ==
    [status |-> "absent", retry_count |-> 0, interruptions |-> 0,
     worker_id |-> None, heartbeat_at |-> "null", due |-> TRUE,
     expires_at |-> "never", result |-> None, key |-> None,
     max_retries |-> 0, backoff |-> FALSE,
     requeue_on_stale |-> FALSE, requeue_on_shutdown |-> FALSE]

IsStored(r) == r.status \in TaskStatus
IsTerminal(r) == r.status \in TerminalStatuses
IsQueued(r) == r.status \in QueuedStatuses
IsActive(r) == IsQueued(r) \/ r.status = "running"
IsOverdue(r) == r.expires_at = "overdue"

\* A record that status lists as queued and whose schedule time has come.
IsClaimable(r) == IsQueued(r) /\ r.due /\ ~IsOverdue(r)

\* The retry attempts consumed: shutdown interruptions bump the generation
\* but do not spend the retry budget.
AttemptsConsumed(r) == r.retry_count - r.interruptions

\* Fault: the fence looks at the status alone.
FencedByStatusOnly(r, gen) == r.status = "running"

\* The fence of every attempt-owned write: still running, same generation.
Fenced(r, gen) == r.status = "running" /\ r.retry_count = gen

----------------------------------------------------------------------------
\* enqueue(): a new record of generation zero.
NewRecord(o) ==
    [status |-> IF o.due THEN "pending" ELSE "scheduled",
     retry_count |-> 0, interruptions |-> 0, worker_id |-> None,
     heartbeat_at |-> "null", due |-> o.due, expires_at |-> o.expires_at,
     result |-> None, key |-> o.key, max_retries |-> o.max_retries,
     backoff |-> o.backoff, requeue_on_stale |-> o.requeue_on_stale,
     requeue_on_shutdown |-> o.requeue_on_shutdown]

\* claim: the worker id of an earlier attempt stays until assign_worker.
ClaimTask(r) == [r EXCEPT !.status = "running", !.heartbeat_at = "fresh"]

\* _expire_record, on a queued record past its expires_at.
ExpireRecord(r) == [r EXCEPT !.status = "expired", !.heartbeat_at = "null"]

AssignWorker(r, w) == [r EXCEPT !.worker_id = w]

CompleteTask(r, value) ==
    [r EXCEPT !.status = "completed", !.heartbeat_at = "null", !.result = value]

\* fail_task: a retry while the budget lasts, with the delay the caller
\* computed, and "failed" otherwise.
FailTask(r, retry, delayed) ==
    IF retry /\ AttemptsConsumed(r) < r.max_retries
    THEN [r EXCEPT !.status = IF delayed THEN "scheduled" ELSE "pending",
                   !.due = ~delayed,
                   !.retry_count = @ + 1, !.heartbeat_at = "null"]
    ELSE [r EXCEPT !.status = "failed", !.heartbeat_at = "null"]

CancelTask(r) == [r EXCEPT !.status = "cancelled", !.heartbeat_at = "null"]

\* Fault: an interruption keeps the number of the attempt.
InterruptTaskSameGeneration(r) ==
    [r EXCEPT !.status = "pending", !.due = TRUE, !.heartbeat_at = "null",
              !.worker_id = None]

\* interrupt_task: back to pending, one generation and one interruption on.
InterruptTask(r) ==
    [r EXCEPT !.status = "pending", !.due = TRUE, !.heartbeat_at = "null",
              !.worker_id = None, !.interruptions = @ + 1,
              !.retry_count = @ + 1]

TouchHeartbeat(r) == [r EXCEPT !.heartbeat_at = "fresh"]

NullHeartbeat(r) == [r EXCEPT !.heartbeat_at = "null"]

\* Fault: a NULL heartbeat is not compared as stale (the SQL trap).
IsStaleByAgeOnly(r) == r.status = "running" /\ r.heartbeat_at = "stale"

\* requeue_stale_running: who is stale, and what becomes of one stale record.
IsStale(r) == r.status = "running" /\ r.heartbeat_at \in {"null", "stale"}

\* Fault: a recovered record keeps its generation.
RecoverStaleSameGeneration(r) ==
    [r EXCEPT !.status = "pending", !.due = TRUE, !.heartbeat_at = "null"]

RecoverStale(r) ==
    IF r.requeue_on_stale /\ AttemptsConsumed(r) < r.max_retries
    THEN [r EXCEPT !.status = IF r.backoff THEN "scheduled" ELSE "pending",
                   !.due = ~r.backoff,
                   !.retry_count = @ + 1, !.heartbeat_at = "null"]
    ELSE [r EXCEPT !.status = "failed", !.heartbeat_at = "null"]

\* cleanup_terminal deletes the row.
DeleteRecord(r) == [r EXCEPT !.status = "deleted"]

----------------------------------------------------------------------------
\* A record as its life cycle shows it (TaskLifecycle), when interruptions add
\* at most free generations to its budget and started are the claimed ones.
StateInLife(r) ==
    CASE r.status = "absent" -> "new"
      [] IsQueued(r) -> "queued"
      [] r.status = "running" -> "running"
      [] IsTerminal(r) -> "done"
      [] r.status = "deleted" -> "purged"

LifeOfRecord(r, free, started) ==
    [state |-> StateInLife(r), gen |-> r.retry_count,
     limit |-> IF r.status = "absent" THEN 0 ELSE r.max_retries + free,
     started |-> started]
=============================================================================
