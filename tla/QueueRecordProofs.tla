------------------------- MODULE QueueRecordProofs -------------------------
(***************************************************************************)
(* What the storage operations do to one record, for every record: they    *)
(* keep its type, and each is one of the moves named here.                 *)
(***************************************************************************)
EXTENDS QueueRecord, TLAPS

\* The part of a record that only a new generation changes.
SameClaimData(r, q) ==
    /\ q.retry_count = r.retry_count
    /\ q.interruptions = r.interruptions
    /\ q.key = r.key
    /\ q.max_retries = r.max_retries

\* The moves of a record.
Stays(r, q) == SameClaimData(r, q) /\ q.status = r.status /\ q.result = r.result
Starts(r, q) == SameClaimData(r, q) /\ IsQueued(r) /\ q.status = "running"
Completes(r, q) ==
    /\ SameClaimData(r, q)
    /\ r.status = "running" /\ q.status = "completed" /\ q.result = r.retry_count
\* A completion that somebody else than the attempt reports.
CompletesFromOutside(r, q) ==
    /\ SameClaimData(r, q)
    /\ r.status = "running" /\ q.status = "completed"
EndsWithoutResult(r, q) ==
    /\ SameClaimData(r, q)
    /\ IsActive(r) /\ q.status \in TerminalStatuses \ {"completed"}
Retries(r, q) ==
    /\ r.status = "running" /\ IsQueued(q)
    /\ AttemptsConsumed(r) < r.max_retries
    /\ q.retry_count = r.retry_count + 1 /\ q.interruptions = r.interruptions
    /\ q.key = r.key /\ q.max_retries = r.max_retries
IsHandedBack(r, q) ==
    /\ r.status = "running" /\ IsQueued(q)
    /\ q.retry_count = r.retry_count + 1
    /\ q.interruptions = r.interruptions + 1
    /\ q.key = r.key /\ q.max_retries = r.max_retries
IsPurged(r, q) == SameClaimData(r, q) /\ IsTerminal(r) /\ q.status = "deleted"
IsBorn(r, q) ==
    /\ r.status = "absent" /\ IsQueued(q)
    /\ q.retry_count = 0 /\ q.interruptions = 0

\* A record that is put back in the queue keeps its type.
LEMMA RequeueType ==
    ASSUME NEW r \in QueuedTaskRecord, NEW s \in QueuedStatuses, NEW d \in BOOLEAN
    PROVE  [r EXCEPT !.status = s, !.due = d, !.retry_count = @ + 1,
                     !.heartbeat_at = "null"] \in QueuedTaskRecord
<1>1. r.retry_count + 1 \in Nat
  BY DEF QueuedTaskRecord
<1> QED
  BY <1>1 DEF QueuedTaskRecord, TaskStatus, QueuedStatuses, TerminalStatuses

\* NewRecord: the record of an enqueue is well formed and of generation zero.
LEMMA NewRecordMove ==
    ASSUME NEW o \in EnqueueOptions, NEW r \in QueuedTaskRecord, r.status = "absent"
    PROVE  /\ NewRecord(o) \in QueuedTaskRecord
           /\ IsBorn(r, NewRecord(o))
           /\ NewRecord(o).key = o.key
<1>1. NewRecord(o) \in QueuedTaskRecord
  BY DEF QueuedTaskRecord, EnqueueOptions, NewRecord, TaskStatus, QueuedStatuses,
         TerminalStatuses
<1>2. IsBorn(r, NewRecord(o)) /\ NewRecord(o).key = o.key
  BY DEF IsBorn, NewRecord, IsQueued, QueuedStatuses
<1> QED
  BY <1>1, <1>2

\* The operations that leave the status and the generation alone.
LEMMA QuietMoves ==
    ASSUME NEW r \in QueuedTaskRecord, NEW w \in Worker
    PROVE  /\ AssignWorker(r, w) \in QueuedTaskRecord /\ Stays(r, AssignWorker(r, w))
           /\ TouchHeartbeat(r) \in QueuedTaskRecord /\ Stays(r, TouchHeartbeat(r))
           /\ NullHeartbeat(r) \in QueuedTaskRecord /\ Stays(r, NullHeartbeat(r))
<1>1. AssignWorker(r, w) \in QueuedTaskRecord /\ Stays(r, AssignWorker(r, w))
  BY DEF QueuedTaskRecord, AssignWorker, Stays, SameClaimData
<1>2. TouchHeartbeat(r) \in QueuedTaskRecord /\ Stays(r, TouchHeartbeat(r))
  BY DEF QueuedTaskRecord, TouchHeartbeat, Stays, SameClaimData
<1>3. NullHeartbeat(r) \in QueuedTaskRecord /\ Stays(r, NullHeartbeat(r))
  BY DEF QueuedTaskRecord, NullHeartbeat, Stays, SameClaimData
<1> QED
  BY <1>1, <1>2, <1>3

\* A claim starts a queued record; an expiry ends it.
LEMMA QueuedMoves ==
    ASSUME NEW r \in QueuedTaskRecord, IsQueued(r)
    PROVE  /\ ClaimTask(r) \in QueuedTaskRecord /\ Starts(r, ClaimTask(r))
           /\ ExpireRecord(r) \in QueuedTaskRecord
           /\ EndsWithoutResult(r, ExpireRecord(r))
<1>1. ClaimTask(r) \in QueuedTaskRecord /\ Starts(r, ClaimTask(r))
  BY DEF QueuedTaskRecord, TaskStatus, QueuedStatuses, TerminalStatuses, ClaimTask,
         Starts, SameClaimData
<1>2. ExpireRecord(r) \in QueuedTaskRecord /\ EndsWithoutResult(r, ExpireRecord(r))
  BY DEF QueuedTaskRecord, TaskStatus, QueuedStatuses, TerminalStatuses, ExpireRecord,
         EndsWithoutResult, SameClaimData, IsActive
<1> QED
  BY <1>1, <1>2

\* Cancellation ends an active record, cleanup removes a terminal one.
LEMMA CancelMove ==
    ASSUME NEW r \in QueuedTaskRecord, IsActive(r)
    PROVE  CancelTask(r) \in QueuedTaskRecord /\ EndsWithoutResult(r, CancelTask(r))
  BY DEF QueuedTaskRecord, TaskStatus, QueuedStatuses, TerminalStatuses, CancelTask,
         EndsWithoutResult, SameClaimData

LEMMA DeleteMove ==
    ASSUME NEW r \in QueuedTaskRecord, IsTerminal(r)
    PROVE  DeleteRecord(r) \in QueuedTaskRecord /\ IsPurged(r, DeleteRecord(r))
  BY DEF QueuedTaskRecord, TaskStatus, QueuedStatuses, TerminalStatuses, DeleteRecord,
         IsPurged, SameClaimData

\* Completion by the attempt of the record's own generation.
LEMMA CompleteMove ==
    ASSUME NEW r \in QueuedTaskRecord, r.status = "running"
    PROVE  /\ CompleteTask(r, r.retry_count) \in QueuedTaskRecord
           /\ Completes(r, CompleteTask(r, r.retry_count))
  BY DEF QueuedTaskRecord, TaskStatus, QueuedStatuses, TerminalStatuses, CompleteTask,
         Completes, SameClaimData

\* fail_task: a retry within the budget, or the end.
LEMMA FailMove ==
    ASSUME NEW r \in QueuedTaskRecord, r.status = "running",
           NEW retry \in BOOLEAN, NEW delayed \in BOOLEAN
    PROVE  /\ FailTask(r, retry, delayed) \in QueuedTaskRecord
           /\ \/ Retries(r, FailTask(r, retry, delayed))
              \/ EndsWithoutResult(r, FailTask(r, retry, delayed))
<1>1. CASE retry /\ AttemptsConsumed(r) < r.max_retries
  <2> DEFINE s == IF delayed THEN "scheduled" ELSE "pending"
             d == ~delayed
             q == [r EXCEPT !.status = s, !.due = d, !.retry_count = @ + 1,
                            !.heartbeat_at = "null"]
  <2>1. s \in QueuedStatuses /\ d \in BOOLEAN
    BY DEF QueuedStatuses
  <2>2. FailTask(r, retry, delayed) = q
    BY <1>1 DEF FailTask
  <2> HIDE DEF s, d
  <2>3. q \in QueuedTaskRecord
    BY <2>1, RequeueType
  <2>4. Retries(r, q)
    BY <1>1, <2>1 DEF Retries, QueuedTaskRecord, IsQueued
  <2> QED
    BY <2>2, <2>3, <2>4
<1>2. CASE ~(retry /\ AttemptsConsumed(r) < r.max_retries)
  <2>1. FailTask(r, retry, delayed) =
            [r EXCEPT !.status = "failed", !.heartbeat_at = "null"]
    BY <1>2 DEF FailTask
  <2> QED
    BY <2>1 DEF QueuedTaskRecord, TaskStatus, QueuedStatuses, TerminalStatuses,
                EndsWithoutResult, SameClaimData, IsActive
<1> QED
  BY <1>1, <1>2

\* requeue_stale_running: the same, for an owner that went silent.
LEMMA RecoverMove ==
    ASSUME NEW r \in QueuedTaskRecord, r.status = "running"
    PROVE  /\ RecoverStale(r) \in QueuedTaskRecord
           /\ Retries(r, RecoverStale(r)) \/ EndsWithoutResult(r, RecoverStale(r))
<1>1. r.requeue_on_stale \in BOOLEAN /\ r.backoff \in BOOLEAN
  BY DEF QueuedTaskRecord
<1>2. RecoverStale(r) = FailTask(r, r.requeue_on_stale, r.backoff)
  BY <1>1 DEF RecoverStale, FailTask
<1> QED
  BY <1>1, <1>2, FailMove

\* interrupt_task: one generation and one interruption on.
LEMMA InterruptMove ==
    ASSUME NEW r \in QueuedTaskRecord, r.status = "running"
    PROVE  InterruptTask(r) \in QueuedTaskRecord /\ IsHandedBack(r, InterruptTask(r))
<1>1. r.retry_count + 1 \in Nat /\ r.interruptions + 1 \in Nat
  BY DEF QueuedTaskRecord
<1>2. InterruptTask(r) \in QueuedTaskRecord
  BY <1>1 DEF QueuedTaskRecord, TaskStatus, QueuedStatuses, TerminalStatuses,
              InterruptTask
<1>3. IsHandedBack(r, InterruptTask(r))
  BY DEF QueuedTaskRecord, InterruptTask, IsHandedBack, IsQueued, QueuedStatuses
<1> QED
  BY <1>2, <1>3

----------------------------------------------------------------------------
\* The moves of a record are moves of its life.

\* What TaskLifecycle promises of one record; its variables play no part here.
Promised == INSTANCE TaskLifecycle WITH Task <- {}, life <- None

\* The states of a life, by status.
LEMMA LifeStates ==
    ASSUME NEW r \in QueuedTaskRecord
    PROVE  /\ r.status = "absent" => StateInLife(r) = "new"
           /\ IsQueued(r) => StateInLife(r) = "queued"
           /\ r.status = "running" => StateInLife(r) = "running"
           /\ IsTerminal(r) => StateInLife(r) = "done"
           /\ r.status = "deleted" => StateInLife(r) = "purged"
  BY DEF StateInLife, QueuedTaskRecord, TaskStatus, IsQueued, IsTerminal,
         QueuedStatuses, TerminalStatuses

\* Generation and budget are what the life keeps of a record besides its status.
SameCourse(r, q) == q.retry_count = r.retry_count /\ q.max_retries = r.max_retries

\* The same state of life, seen from two statuses.
LEMMA LifeStays ==
    ASSUME NEW r \in QueuedTaskRecord, NEW q \in QueuedTaskRecord, NEW free, NEW S,
           SameCourse(r, q),
           q.status = r.status \/ (IsQueued(r) /\ IsQueued(q))
    PROVE  LifeOfRecord(q, free, S) = LifeOfRecord(r, free, S)
<1>1. StateInLife(q) = StateInLife(r)
  BY LifeStates DEF StateInLife, IsQueued, IsTerminal
<1>2. q.status = "absent" <=> r.status = "absent"
  BY DEF IsQueued, QueuedStatuses
<1> QED
  BY <1>1, <1>2 DEF SameCourse, LifeOfRecord

\* An enqueue begins the life of an id that was never claimed.
LEMMA LifeBegins ==
    ASSUME NEW r \in QueuedTaskRecord, NEW q \in QueuedTaskRecord, NEW free,
           r.status = "absent", r.retry_count = 0, IsQueued(q), q.retry_count = 0
    PROVE  Promised!Move(LifeOfRecord(r, free, {}), LifeOfRecord(q, free, {}))
<1>1. LifeOfRecord(r, free, {}) = Promised!Unborn
  BY LifeStates DEF LifeOfRecord, Promised!Unborn
<1>2. /\ LifeOfRecord(q, free, {}).state = "queued"
      /\ LifeOfRecord(q, free, {}).gen = 0
      /\ LifeOfRecord(q, free, {}).started = {}
  BY LifeStates DEF LifeOfRecord
<1> QED
  BY <1>1, <1>2 DEF Promised!Move, Promised!Enqueued

\* A claim starts a generation that was not started before.
LEMMA LifeStarts ==
    ASSUME NEW r \in QueuedTaskRecord, NEW q \in QueuedTaskRecord, NEW free, NEW S,
           SameCourse(r, q), IsQueued(r), q.status = "running", r.retry_count \notin S
    PROVE  Promised!Move(LifeOfRecord(r, free, S),
                         LifeOfRecord(q, free, S \cup {r.retry_count}))
<1> DEFINE x == LifeOfRecord(r, free, S)
           y == LifeOfRecord(q, free, S \cup {r.retry_count})
<1>1. r.status # "absent" /\ q.status # "absent"
  BY DEF IsQueued, QueuedStatuses
<1>2. /\ x = [state |-> "queued", gen |-> r.retry_count,
              limit |-> r.max_retries + free, started |-> S]
      /\ y = [state |-> "running", gen |-> r.retry_count,
              limit |-> r.max_retries + free, started |-> S \cup {r.retry_count}]
  BY <1>1, LifeStates DEF LifeOfRecord, SameCourse
<1> HIDE DEF x, y
<1> DEFINE z == [x EXCEPT !.state = "running"]
<1>3. z = [state |-> "running", gen |-> r.retry_count,
           limit |-> r.max_retries + free, started |-> S]
  BY <1>2
<1>4. [x EXCEPT !.state = "running", !.started = @ \cup {x.gen}]
        = [z EXCEPT !.started = @ \cup {x.gen}]
  BY <1>2
<1> HIDE DEF z
<1>5. [z EXCEPT !.started = @ \cup {x.gen}] = y
  BY <1>2, <1>3
<1>6. Promised!Started(x, y)
  BY <1>2, <1>4, <1>5 DEF Promised!Started
<1> QED
  BY <1>6 DEF Promised!Move, x, y

\* A record that is queued again spends one generation of its budget.
LEMMA LifeRequeued ==
    ASSUME NEW r \in QueuedTaskRecord, NEW q \in QueuedTaskRecord, NEW free, NEW S,
           r.status = "running", IsQueued(q), q.max_retries = r.max_retries,
           q.retry_count = r.retry_count + 1, r.retry_count < r.max_retries + free
    PROVE  Promised!Move(LifeOfRecord(r, free, S), LifeOfRecord(q, free, S))
<1> DEFINE x == LifeOfRecord(r, free, S)
           y == LifeOfRecord(q, free, S)
<1>1. q.status # "absent"
  BY DEF IsQueued, QueuedStatuses
<1>2. /\ x = [state |-> "running", gen |-> r.retry_count,
              limit |-> r.max_retries + free, started |-> S]
      /\ y = [state |-> "queued", gen |-> r.retry_count + 1,
              limit |-> r.max_retries + free, started |-> S]
  BY <1>1, LifeStates DEF LifeOfRecord
<1> HIDE DEF x, y
<1> DEFINE z == [x EXCEPT !.state = "queued"]
<1>3. z = [state |-> "queued", gen |-> r.retry_count,
           limit |-> r.max_retries + free, started |-> S]
  BY <1>2
<1>4. [x EXCEPT !.state = "queued", !.gen = @ + 1] = [z EXCEPT !.gen = @ + 1]
  BY <1>2
<1> HIDE DEF z
<1>5. [z EXCEPT !.gen = @ + 1] = y
  BY <1>2, <1>3
<1>6. Promised!Requeued(x, y)
  BY <1>2, <1>4, <1>5 DEF Promised!Requeued
<1> QED
  BY <1>6 DEF Promised!Move, x, y

\* A record ends once.
LEMMA LifeEnds ==
    ASSUME NEW r \in QueuedTaskRecord, NEW q \in QueuedTaskRecord, NEW free, NEW S,
           SameCourse(r, q), IsActive(r), IsTerminal(q)
    PROVE  Promised!Move(LifeOfRecord(r, free, S), LifeOfRecord(q, free, S))
<1> DEFINE x == LifeOfRecord(r, free, S)
           y == LifeOfRecord(q, free, S)
<1>1. r.status # "absent" /\ q.status # "absent"
  BY DEF IsActive, IsQueued, QueuedStatuses, IsTerminal, TerminalStatuses
<1>2. /\ x.state \in {"queued", "running"}
      /\ x = [state |-> x.state, gen |-> r.retry_count,
              limit |-> r.max_retries + free, started |-> S]
      /\ y = [state |-> "done", gen |-> r.retry_count,
              limit |-> r.max_retries + free, started |-> S]
  BY <1>1, LifeStates DEF LifeOfRecord, SameCourse, IsActive
<1> HIDE DEF x, y
<1>3. Promised!Ended(x, y)
  BY <1>2 DEF Promised!Ended
<1> QED
  BY <1>3 DEF Promised!Move, x, y

\* Only an ended record is removed.
LEMMA LifePurged ==
    ASSUME NEW r \in QueuedTaskRecord, NEW q \in QueuedTaskRecord, NEW free, NEW S,
           SameCourse(r, q), IsTerminal(r), q.status = "deleted"
    PROVE  Promised!Move(LifeOfRecord(r, free, S), LifeOfRecord(q, free, S))
<1> DEFINE x == LifeOfRecord(r, free, S)
           y == LifeOfRecord(q, free, S)
<1>1. r.status # "absent" /\ q.status # "absent"
  BY DEF IsTerminal, TerminalStatuses
<1>2. /\ x = [state |-> "done", gen |-> r.retry_count,
              limit |-> r.max_retries + free, started |-> S]
      /\ y = [state |-> "purged", gen |-> r.retry_count,
              limit |-> r.max_retries + free, started |-> S]
  BY <1>1, LifeStates DEF LifeOfRecord, SameCourse
<1> HIDE DEF x, y
<1>3. Promised!Purged(x, y)
  BY <1>2 DEF Promised!Purged
<1> QED
  BY <1>3 DEF Promised!Move, x, y

----------------------------------------------------------------------------
\* The whole course of a record that no interruption prolongs, as a store
\* without interrupt_task keeps it.

\* A record and the generations of it that were started: none is ahead of the
\* record, a waiting one's own is still to start, and none is beyond the budget.
InStep(r, S) ==
    /\ r \in QueuedTaskRecord /\ S \in SUBSET Nat
    /\ \A g \in S : g <= r.retry_count
    /\ IsQueued(r) => r.retry_count \notin S
    /\ r.status = "absent" => r.retry_count = 0 /\ S = {}
    /\ IsActive(r) => r.interruptions = 0 /\ r.retry_count <= r.max_retries

\* What one step may do to a record r and its started generations S.
Goes(r, S, q, T) ==
    /\ q \in QueuedTaskRecord
    /\ \/ Starts(r, q) /\ T = S \cup {r.retry_count}
       \/ /\ T = S
          /\ \/ Stays(r, q) \/ Completes(r, q) \/ EndsWithoutResult(r, q)
             \/ CompletesFromOutside(r, q) \/ Retries(r, q) \/ IsPurged(r, q) \/ IsBorn(r, q)

\* A record that was never stored is in step with no generation at all.
LEMMA NoRecordInStep ==
    /\ InStep(NoRecord, {})
    /\ LifeOfRecord(NoRecord, 0, {}) = Promised!Unborn
<1>1. /\ NoRecord \in QueuedTaskRecord
      /\ NoRecord.status = "absent" /\ NoRecord.retry_count = 0
  BY DEF NoRecord, QueuedTaskRecord
<1>2. ~IsQueued(NoRecord) /\ ~IsActive(NoRecord)
  BY <1>1 DEF IsQueued, IsActive, QueuedStatuses
<1>3. StateInLife(NoRecord) = "new"
  BY <1>1, LifeStates
<1> HIDE DEF NoRecord
<1> QED
  BY <1>1, <1>2, <1>3 DEF InStep, LifeOfRecord, Promised!Unborn

LEMMA NewRecordGoes ==
    ASSUME NEW r, NEW S, InStep(r, S), r.status = "absent", NEW o \in EnqueueOptions
    PROVE  Goes(r, S, NewRecord(o), S)
  BY NewRecordMove DEF InStep, Goes

\* Whatever such a step does, it keeps the record in step and it is a move of
\* the promised life or changes nothing of it.
LEMMA GoesInStep ==
    ASSUME NEW r, NEW S, NEW q, NEW T, InStep(r, S), Goes(r, S, q, T)
    PROVE  InStep(q, T)
<1> USE DEF InStep, Goes, IsActive, IsQueued, QueuedStatuses, TerminalStatuses
<1>1. /\ r.retry_count \in Nat /\ r.interruptions \in Nat /\ r.max_retries \in Nat
      /\ q.retry_count \in Nat
  BY DEF QueuedTaskRecord
<1>2. CASE Starts(r, q) /\ T = S \cup {r.retry_count}
  <2>1. q.status = "running" /\ q.retry_count = r.retry_count
    BY <1>2 DEF Starts, SameClaimData
  <2>2. \A g \in T : g \in Nat /\ g <= q.retry_count
    <3> TAKE g \in T
    <3>1. g \in S \/ g = r.retry_count
      BY <1>2
    <3>2. g \in S => g \in Nat /\ g <= r.retry_count
      OBVIOUS
    <3> QED
      BY <1>1, <2>1, <3>1, <3>2
  <2>3. q.interruptions = 0 /\ q.retry_count <= q.max_retries
    BY <1>2 DEF Starts, SameClaimData
  <2> QED
    BY <2>1, <2>2, <2>3
<1>3. CASE T = S /\ Stays(r, q)
  BY <1>1, <1>3 DEF Stays, SameClaimData
<1>4. CASE T = S /\ (Completes(r, q) \/ EndsWithoutResult(r, q)
                         \/ CompletesFromOutside(r, q) \/ IsPurged(r, q))
  BY <1>1, <1>4 DEF Completes, EndsWithoutResult, CompletesFromOutside, IsPurged,
                    SameClaimData
<1>5. CASE T = S /\ Retries(r, q)
  BY <1>1, <1>5 DEF Retries, AttemptsConsumed
<1>6. CASE T = S /\ IsBorn(r, q)
  BY <1>1, <1>6 DEF IsBorn, QueuedTaskRecord
<1> QED
  BY <1>2, <1>3, <1>4, <1>5, <1>6

LEMMA GoesAlongLife ==
    ASSUME NEW r, NEW S, NEW q, NEW T, InStep(r, S), Goes(r, S, q, T)
    PROVE  \/ LifeOfRecord(q, 0, T) = LifeOfRecord(r, 0, S)
           \/ Promised!Move(LifeOfRecord(r, 0, S), LifeOfRecord(q, 0, T))
<1>1. /\ r \in QueuedTaskRecord /\ q \in QueuedTaskRecord
      /\ r.retry_count \in Nat /\ r.interruptions \in Nat /\ r.max_retries \in Nat
  BY DEF InStep, Goes, QueuedTaskRecord
<1>2. CASE Starts(r, q) /\ T = S \cup {r.retry_count}
  BY <1>1, <1>2, LifeStarts DEF Starts, SameClaimData, SameCourse, InStep
<1>3. CASE T = S /\ Stays(r, q)
  BY <1>1, <1>3, LifeStays DEF Stays, SameClaimData, SameCourse
<1>4. CASE T = S /\ (Completes(r, q) \/ EndsWithoutResult(r, q)
                         \/ CompletesFromOutside(r, q))
  <2>1. SameCourse(r, q) /\ IsActive(r) /\ IsTerminal(q)
    BY <1>4 DEF Completes, EndsWithoutResult, CompletesFromOutside, SameClaimData,
                SameCourse, IsActive, IsTerminal, TerminalStatuses
  <2> QED
    BY <1>1, <1>4, <2>1, LifeEnds
<1>5. CASE T = S /\ Retries(r, q)
  <2>1. /\ r.status = "running" /\ IsQueued(q) /\ q.max_retries = r.max_retries
        /\ q.retry_count = r.retry_count + 1 /\ r.retry_count < r.max_retries + 0
    BY <1>1, <1>5 DEF Retries, AttemptsConsumed, InStep, IsActive
  <2> QED
    BY <1>1, <1>5, <2>1, LifeRequeued
<1>6. CASE T = S /\ IsPurged(r, q)
  BY <1>1, <1>6, LifePurged DEF IsPurged, SameClaimData, SameCourse
<1>7. CASE T = S /\ IsBorn(r, q)
  BY <1>1, <1>7, LifeBegins DEF IsBorn, InStep
<1> QED
  BY <1>2, <1>3, <1>4, <1>5, <1>6, <1>7 DEF Goes

\* What the operations, and the clock, do to a record in step.
LEMMA WaitingGoes ==
    ASSUME NEW r, NEW S, InStep(r, S), IsQueued(r)
    PROVE  /\ Goes(r, S, ClaimTask(r), S \cup {r.retry_count})
           /\ Goes(r, S, ExpireRecord(r), S)
  BY QueuedMoves DEF InStep, Goes

LEMMA RunningGoes ==
    ASSUME NEW r, NEW S, InStep(r, S), r.status = "running",
           NEW retry \in BOOLEAN, NEW delayed \in BOOLEAN
    PROVE  /\ Goes(r, S, CompleteTask(r, r.retry_count), S)
           /\ Goes(r, S, FailTask(r, retry, delayed), S)
           /\ Goes(r, S, RecoverStale(r), S)
  BY CompleteMove, FailMove, RecoverMove DEF InStep, Goes

\* A completion that brings no result, as a status from outside reports it.
LEMMA CompletedOutsideGoes ==
    ASSUME NEW r, NEW S, InStep(r, S), r.status = "running"
    PROVE  Goes(r, S, CompleteTask(r, None), S)
<1>1. CompleteTask(r, None) \in QueuedTaskRecord
  BY DEF InStep, QueuedTaskRecord, TaskStatus, QueuedStatuses, TerminalStatuses,
         CompleteTask
<1>2. CompletesFromOutside(r, CompleteTask(r, None))
  BY DEF InStep, QueuedTaskRecord, CompleteTask, CompletesFromOutside, SameClaimData
<1> QED
  BY <1>1, <1>2 DEF Goes

LEMMA CancelGoes ==
    ASSUME NEW r, NEW S, InStep(r, S), IsActive(r)
    PROVE  Goes(r, S, CancelTask(r), S)
  BY CancelMove DEF InStep, Goes

LEMMA DeleteGoes ==
    ASSUME NEW r, NEW S, InStep(r, S), IsTerminal(r)
    PROVE  Goes(r, S, DeleteRecord(r), S)
  BY DeleteMove DEF InStep, Goes

LEMMA QuietGoes ==
    ASSUME NEW r, NEW S, InStep(r, S)
    PROVE  /\ Goes(r, S, r, S)
           /\ Goes(r, S, TouchHeartbeat(r), S)
           /\ Goes(r, S, NullHeartbeat(r), S)
           /\ Goes(r, S, [r EXCEPT !.due = TRUE], S)
           /\ Goes(r, S, [r EXCEPT !.expires_at = "overdue"], S)
           /\ Goes(r, S, [r EXCEPT !.heartbeat_at = "stale"], S)
<1>1. r \in QueuedTaskRecord
  BY DEF InStep
<1>2. TouchHeartbeat(r) \in QueuedTaskRecord /\ Stays(r, TouchHeartbeat(r))
  BY <1>1 DEF QueuedTaskRecord, TouchHeartbeat, Stays, SameClaimData
<1>3. NullHeartbeat(r) \in QueuedTaskRecord /\ Stays(r, NullHeartbeat(r))
  BY <1>1 DEF QueuedTaskRecord, NullHeartbeat, Stays, SameClaimData
<1>4. /\ [r EXCEPT !.due = TRUE] \in QueuedTaskRecord
      /\ Stays(r, [r EXCEPT !.due = TRUE])
  BY <1>1 DEF QueuedTaskRecord, Stays, SameClaimData
<1>5. /\ [r EXCEPT !.expires_at = "overdue"] \in QueuedTaskRecord
      /\ Stays(r, [r EXCEPT !.expires_at = "overdue"])
  BY <1>1 DEF QueuedTaskRecord, Stays, SameClaimData
<1>6. /\ [r EXCEPT !.heartbeat_at = "stale"] \in QueuedTaskRecord
      /\ Stays(r, [r EXCEPT !.heartbeat_at = "stale"])
  BY <1>1 DEF QueuedTaskRecord, Stays, SameClaimData
<1>7. Stays(r, r)
  BY DEF Stays, SameClaimData
<1> QED
  BY <1>1, <1>2, <1>3, <1>4, <1>5, <1>6, <1>7 DEF Goes
=============================================================================
