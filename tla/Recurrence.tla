----------------------------- MODULE Recurrence -----------------------------
(***************************************************************************)
(* Recurring tasks.  There is no scheduler: each occurrence of a schedule  *)
(* is a queued record under the key "scheduled:<name>", and whoever ends   *)
(* it enqueues the next one.  A chain that breaks (a crash between the two *)
(* writes, a cancellation, an expiry, a failure that is not retried) is    *)
(* mended by keepers: initialize_schedules() of a starting process and     *)
(* reassert_schedules() of a maintenance run.  Keepers, workers and other  *)
(* keepers meet on the key.                                                *)
(*                                                                         *)
(* occ[n] is the record that get_task_by_key finds for schedule n.  wait   *)
(* counts the instants to its scheduled_at; once the record has ended, to  *)
(* the run that follows its completed_at.                                  *)
(***************************************************************************)
EXTENDS QueueRecord, Calendar, Sequences, Functions, Deployments

CONSTANTS
    Declared,     \* per schedule and code version, its ScheduleConfig
    Options,      \* per schedule, the enqueue() options of an occurrence
    Backoff,      \* the RetryBackoff of its task
    Horizon,      \* max_schedule_horizon of the execution backend
    Process,      \* processes that start up
    Coordinator   \* processes that run maintenance

Name == DOMAIN Declared
Keeper == Process \cup Coordinator

ASSUME RecurrenceAssumption ==
    /\ Name = Key
    /\ \A n \in Name : Options[n] \in EnqueueOptions
    /\ Horizon \in Nat
    /\ Process \cap Coordinator = {}

\* A deployment has its registered schedules in order, its store, its phases,
\* and a bound on faults: crashes, restarts, updates, failures.
VARIABLES
    clock,     \* the current instant
    deployed,  \* the code version that starting processes run
    occ,       \* per schedule, the record under its key
    runners,   \* per worker slot, the attempt it executes
    keepers,   \* per keeper, its pass over the schedules
    faults     \* faults so far

recurrenceVars == <<clock, deployed, occ, runners, keepers, faults>>

----------------------------------------------------------------------------
NoOccurrence == [id |-> 0, rec |-> NoRecord, version |-> 0, wait |-> 0]
IdleRunner == [pc |-> "idle", name |-> None, id |-> 0, gen |-> 0, version |-> 0, wait |-> 0]
IdleKeeper == [pc |-> "idle", mode |-> "start", version |-> 0, left |-> <<>>, id |-> 0, wait |-> 0]

\* get_next_run(after now) of each schedule and version, per instant.
RunsOf(use_initial_delay) ==
    [n \in Name |-> [v \in DOMAIN Declared[n] |-> [at \in Instants |-> GetNextRun(Declared[n][v], at, use_initial_delay)]]]
NextRuns == RunsOf(FALSE)
FirstRuns == RunsOf(TRUE)

\* A scheduled_at that has passed is as good as now.
Ahead(run) == IF run > 0 THEN run ELSE 0

NewOccurrence(n, id, version, wait) ==
    [id |-> id, rec |-> NewRecord([Options[n] EXCEPT !.due = wait = 0]), version |-> version, wait |-> wait]

\* What an earlier deployment has left: nothing, or its next occurrence.
LeftOver(n) ==
    {NoOccurrence} \cup {NewOccurrence(n, 1, 1, wait) : wait \in {Ahead(NextRuns[n][1][0])} \cap (0..Horizon)}

RecurrenceInit ==
    /\ clock = 0
    /\ deployed \in {1} \cup UNION {DOMAIN Declared[n] : n \in Range(config.schedules)}
    /\ occ \in {o \in [Name -> UNION {LeftOver(n) : n \in Name}] :
                  \A n \in Name : o[n] \in IF n \in Range(config.schedules) THEN LeftOver(n) ELSE {NoOccurrence}}
    /\ runners = [w \in Worker |-> IdleRunner]
    /\ keepers = [k \in Keeper |-> IdleKeeper]
    /\ faults = 0

Fault == faults < config.faults /\ faults' = faults + 1

\* An id that nobody refers to any more.
FreshId(n) ==
    LET held == {occ[n].id} \cup {keepers[k].id : k \in Keeper} \cup {runners[w].id : w \in Worker}
    IN  CHOOSE id \in 1..(Cardinality(held) + 1) : id \notin held

\* enqueue under the key: an active record is returned as it is.
Enqueue(n, version, wait) ==
    occ' = [occ EXCEPT ![n] =
              IF IsActive(@.rec) THEN @
              ELSE NewOccurrence(n, FreshId(n), version, wait)]

\* The occurrence of schedule n once its record has ended as r, or has been
\* queued again as r.
EndedAs(n, r) ==
    [occ[n] EXCEPT !.rec = r, !.wait = Ahead(NextRuns[n][occ[n].version][clock])]
RequeuedAs(n, r) == [occ[n] EXCEPT !.rec = r, !.wait = IF r.due THEN 0 ELSE DelayFor(Backoff, r.retry_count - 1)]
SettledAs(n, r) == IF IsTerminal(r) THEN EndedAs(n, r) ELSE RequeuedAs(n, r)

Becomes(n, r) == occ' = [occ EXCEPT ![n] = SettledAs(n, r)]

BeyondHorizon(wait) == wait > Horizon

----------------------------------------------------------------------------
\* A worker executes an occurrence.

Owns(w) ==
    LET o == occ[runners[w].name]
    IN  o.id = runners[w].id /\ Fenced(o.rec, runners[w].gen)

Claim(w, n) ==
    /\ runners[w] = IdleRunner /\ IsClaimable(occ[n].rec)
    /\ occ' = [occ EXCEPT ![n].rec = ClaimTask(@)]
    /\ runners' = [runners EXCEPT ![w] =
                     [pc |-> "executing", name |-> n, id |-> occ[n].id, gen |-> occ[n].rec.retry_count,
                      version |-> occ[n].version, wait |-> 0]]
    /\ UNCHANGED <<clock, deployed, keepers, faults>>

\* The attempt has ended its record: the successor is due after completed_at.
Succeeds(w) ==
    LET r == runners[w]
    IN  \E run \in Jittered(Declared[r.name][r.version], NextRuns[r.name][r.version][clock]) :
          runners' = [runners EXCEPT ![w].pc = "ended", ![w].wait = Ahead(run)]

\* execute_record: complete_task under the fence.
RunReturns(w) ==
    LET r == runners[w]
    IN  /\ r.pc = "executing"
        /\ IF Owns(w) THEN Becomes(r.name, CompleteTask(occ[r.name].rec, 0)) /\ Succeeds(w)
           ELSE runners' = [runners EXCEPT ![w] = IdleRunner] /\ UNCHANGED occ
        /\ UNCHANGED <<clock, deployed, keepers, faults>>

\* _fail_record_with_retry, and _fail_record_without_retry: a failure that
\* is not retried leaves the schedule without a successor.
RunFails(w, retry) ==
    LET r == runners[w]
        failed == FailTask(occ[r.name].rec, retry, Backoff.initial_delay > 0)
    IN  /\ r.pc = "executing" /\ Owns(w) /\ Fault
        /\ Becomes(r.name, failed)
        /\ IF IsTerminal(failed) /\ retry THEN Succeeds(w)
           ELSE runners' = [runners EXCEPT ![w] = IdleRunner]
        /\ UNCHANGED <<clock, deployed, keepers>>

\* _reschedule_if_needed: the successor has the schedule that the ended
\* record carries, whatever is registered by now.
Reschedule(w) ==
    LET r == runners[w]
    IN  /\ r.pc = "ended"
        /\ IF BeyondHorizon(r.wait) THEN UNCHANGED occ ELSE Enqueue(r.name, r.version, r.wait)
        /\ runners' = [runners EXCEPT ![w] = IdleRunner]
        /\ UNCHANGED <<clock, deployed, keepers, faults>>

\* The worker dies inside the body, or between the two writes.
RunnerDies(w) ==
    /\ runners[w] # IdleRunner /\ Fault
    /\ runners' = [runners EXCEPT ![w] = IdleRunner]
    /\ UNCHANGED <<clock, deployed, occ, keepers>>

----------------------------------------------------------------------------
\* A keeper's pass over the registered schedules.

\* initialize_schedules and reassert_schedules; the latter takes the first
\* schedules, up to its limit.
KeeperStarts(k, mode, limit) ==
    keepers' = [keepers EXCEPT ![k] =
                  [pc |-> "read", mode |-> mode, version |-> deployed, id |-> 0, wait |-> 0,
                   left |-> IF limit < Len(config.schedules) THEN SubSeq(config.schedules, 1, limit)
                            ELSE config.schedules]]

SameSchedule(k, n) == Declared[n][occ[n].version] = Declared[n][keepers[k].version]

\* Fault: whatever holds the key is taken for an active occurrence.
KeptAny(k, n) == IsStored(occ[n].rec) /\ SameSchedule(k, n)

\* The registered schedule has an active occurrence: nothing to create.
Kept(k, n) == IsActive(occ[n].rec) /\ SameSchedule(k, n)

\* When the occurrence that the keeper is about to create runs.
NextOccurrence(k, n) ==
    LET o == occ[n]
    IN  IF keepers[k].mode = "reassert" /\ IsTerminal(o.rec) /\ SameSchedule(k, n) THEN o.wait
        ELSE IF keepers[k].mode = "start" \/ ~IsStored(o.rec) THEN Ahead(FirstRuns[n][keepers[k].version][clock])
        ELSE Ahead(NextRuns[n][keepers[k].version][clock])

\* get_task_by_key, and what follows from it up to the next write.
KeeperReads(k) ==
    LET n == Head(keepers[k].left)
        refused == BeyondHorizon(NextOccurrence(k, n))
        raises == refused /\ (keepers[k].mode = "start" \/ ~IsStored(occ[n].rec))
    IN  /\ keepers[k].pc = "read" /\ keepers[k].left # <<>>
        /\ \/ (Kept(k, n) \/ (refused /\ ~raises))
              /\ keepers' = [keepers EXCEPT ![k].left = Tail(@)]
           \/ ~Kept(k, n) /\ raises
              /\ keepers' = [keepers EXCEPT ![k].pc = "raised", ![k].left = <<>>]
           \/ ~Kept(k, n) /\ ~refused
              /\ \E run \in Jittered(Declared[n][keepers[k].version], NextOccurrence(k, n)) :
                   keepers' = [keepers EXCEPT ![k].pc = IF IsActive(occ[n].rec) THEN "cancel" ELSE "enqueue",
                                              ![k].id = occ[n].id, ![k].wait = run]
        /\ UNCHANGED <<clock, deployed, occ, runners, faults>>

\* cancel_task of the outdated occurrence: only if it is queued still.
KeeperCancels(k) ==
    LET n == Head(keepers[k].left)
    IN  /\ keepers[k].pc = "cancel"
        /\ IF occ[n].id = keepers[k].id /\ IsQueued(occ[n].rec) THEN Becomes(n, CancelTask(occ[n].rec))
           ELSE UNCHANGED occ
        /\ keepers' = [keepers EXCEPT ![k].pc = "enqueue"]
        /\ UNCHANGED <<clock, deployed, runners, faults>>

KeeperEnqueues(k) ==
    LET n == Head(keepers[k].left)
    IN  /\ keepers[k].pc = "enqueue"
        /\ Enqueue(n, keepers[k].version, keepers[k].wait)
        /\ keepers' = [keepers EXCEPT ![k].pc = "read", ![k].left = Tail(@), ![k].id = 0, ![k].wait = 0]
        /\ UNCHANGED <<clock, deployed, runners, faults>>

KeeperStep(k) == KeeperReads(k) \/ KeeperCancels(k) \/ KeeperEnqueues(k)

----------------------------------------------------------------------------
\* A process starts, with the code that is deployed, and one that has passed
\* over the schedules (or failed to) is up (or gone).
ProcessStarts(p) ==
    /\ keepers[p] = IdleKeeper /\ config.schedules # <<>> /\ Fault
    /\ KeeperStarts(p, "start", Len(config.schedules))
    /\ UNCHANGED <<clock, deployed, occ, runners>>

ProcessStarted(p) ==
    /\ keepers[p] # IdleKeeper /\ keepers[p].left = <<>>
    /\ keepers' = [keepers EXCEPT ![p] = IdleKeeper]
    /\ UNCHANGED <<clock, deployed, occ, runners, faults>>

ProcessDies(p) ==
    /\ keepers[p] # IdleKeeper
    /\ keepers' = [keepers EXCEPT ![p] = IdleKeeper]
    /\ UNCHANGED <<clock, deployed, occ, runners, faults>>

Deploy ==
    /\ config.schedules # <<>> /\ \A n \in Range(config.schedules) : deployed < Len(Declared[n])
    /\ deployed' = deployed + 1 /\ Fault
    /\ UNCHANGED <<clock, occ, runners, keepers>>

CancelOccurrence(n) ==
    /\ IsQueued(occ[n].rec) /\ Fault
    /\ Becomes(n, CancelTask(occ[n].rec))
    /\ UNCHANGED <<clock, deployed, runners, keepers>>

\* The claim of a dead worker becomes stale, that of a slow one may; an
\* occurrence that nobody claims passes its expires_at.
IsBeating(n) == \E w \in Worker : runners[w].name = n /\ runners[w].pc = "executing" /\ Owns(w)

HeartbeatAges(n) ==
    /\ occ[n].rec.status = "running" /\ occ[n].rec.heartbeat_at = "fresh"
    /\ IF IsBeating(n) THEN Fault ELSE UNCHANGED faults
    /\ occ' = [occ EXCEPT ![n].rec.heartbeat_at = "stale"]
    /\ UNCHANGED <<clock, deployed, runners, keepers>>

PassesExpiry(n) ==
    /\ IsClaimable(occ[n].rec) /\ occ[n].rec.expires_at = "later" /\ Fault
    /\ occ' = [occ EXCEPT ![n].rec.expires_at = "overdue"]
    /\ UNCHANGED <<clock, deployed, runners, keepers>>

Nearer(x) == [x EXCEPT !.wait = Ahead(@ - 1)]

Tick ==
    /\ config.schedules # <<>>
    /\ clock' = (clock + 1) % Cycle
    /\ occ' = [n \in Name |->
                 LET o == Nearer(occ[n])
                 IN  IF IsQueued(o.rec) /\ o.wait = 0 THEN [o EXCEPT !.rec.due = TRUE] ELSE o]
    /\ runners' = [w \in Worker |-> Nearer(runners[w])]
    /\ keepers' = [k \in Keeper |-> Nearer(keepers[k])]
    /\ UNCHANGED <<deployed, faults>>

RunnerStep(w) == (\E n \in Name : Claim(w, n)) \/ RunReturns(w) \/ Reschedule(w)

RecurrenceNext ==
    \/ \E w \in Worker : RunnerStep(w) \/ RunnerDies(w) \/ (\E retry \in BOOLEAN : RunFails(w, retry))
    \/ \E p \in Process : ProcessStarts(p) \/ ProcessStarted(p) \/ ProcessDies(p) \/ KeeperStep(p)
    \/ \E n \in Name : CancelOccurrence(n) \/ HeartbeatAges(n) \/ PassesExpiry(n)
    \/ Deploy \/ Tick

----------------------------------------------------------------------------
\* get_next_run(after) is a run after that time: an occurrence that has just
\* ended is never followed by one that was due already.
NextRunIsLater == \A n \in Name : \A v \in DOMAIN Declared[n] : NextRuns[n][v][clock] > 0

\* The execution backend can hold every run of the schedule.
Sustainable(n) == \A v \in DOMAIN Declared[n] : \A at \in Instants : NextRuns[n][v][at] <= Horizon

\* A registered schedule keeps running, whatever broke the chain of its
\* occurrences.
RecurrenceContinues ==
    \A n \in Name : []<>(occ[n].rec.status = "running" \/ n \notin Range(config.schedules) \/ ~Sustainable(n))
=============================================================================
