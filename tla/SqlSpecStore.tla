---------------------------- MODULE SqlSpecStore ----------------------------
(***************************************************************************)
(* SQLSpecQueueBackend over the statements of its queue store.  The first  *)
(* part has the WHERE clauses of stores/base.py, the second the calls of   *)
(* backend.py that execute them.                                           *)
(***************************************************************************)
EXTENDS SqlTable

----------------------------------------------------------------------------
\* WHERE clauses, and the values that the larger statements SET.

\* list_pending
IsPending(row) == IsClaimable(row.rec) /\ row.ref # "reservation"

\* select_claimable adds FOR UPDATE SKIP LOCKED where the server has it.
SelectClaimable(S) == {t \in S : IsPending(rows[t])}

\* claim_batch_returning_sql, the one statement of a batch: a deadline counts
\* with or without a reference.
ClaimBatchWhere(row) ==
    /\ IsQueued(row.rec) /\ row.rec.due /\ ~IsOverdue(row.rec)
    /\ row.ref # "reservation"

\* Fault: the update that claims does not ask for the status again.
ClaimWhereAnyStatus(row, expected) ==
    /\ row.rec.due /\ row.ref # "reservation"
    /\ IsOverdue(row.rec) => row.ref # "none"
    /\ expected \in {None, row.rec.retry_count}

\* claim_task: a reference to a provider outlives the deadline.
ClaimWhere(row, expected) ==
    /\ IsQueued(row.rec) /\ row.rec.due /\ row.ref # "reservation"
    /\ IsOverdue(row.rec) => row.ref # "none"
    /\ expected \in {None, row.rec.retry_count}

\* select_expired
SelectExpired(row) == IsQueued(row.rec) /\ row.ref = "none" /\ IsOverdue(row.rec)

\* claim_batch_with_expired_returning_sql: the candidates of the claim are none
\* of the candidates of the expiry, which are left alone by a plain claim_many.
ClaimedOrExpired(row) ==
    SetRecord(row, IF ClaimBatchWhere(row) THEN ClaimTask(row.rec) ELSE ExpireRecord(row.rec))

\* complete_task with an expected generation.
CompleteWhere(row, gen) == Fenced(row.rec, gen)

\* complete_returning_sql
Completed(row, gen) == SetRecord(row, CompleteTask(row.rec, gen))

\* fail_task with an expected generation.
FailWhere(row, gen) == Fenced(row.rec, gen)

\* fail_returning_sql: the CASE of a retry, which spends a generation, and of
\* a failure, which keeps it.
Failed(row, retry, delayed) == SetRecord(row, FailTask(row.rec, retry, delayed))

AssignWhere(row, gen) == Fenced(row.rec, gen)

\* interrupt_task: the WHERE clause asks for the owner too, and the row goes
\* back to pending without owner and reference.
InterruptWhere(row, gen, w) == Fenced(row.rec, gen) /\ row.rec.worker_id = w

Interrupted(row) == [row EXCEPT !.rec = InterruptTask(@), !.ref = "none"]

\* touch_heartbeats of one row, and bulk_touch_heartbeats of many by a join
\* with the list of ids and generations.
TouchWhere(row, gen) == Fenced(row.rec, gen)

BulkTouched(S, gen) == {t \in S : TouchWhere(rows[t], gen)}

\* clear_key
KeyCleared(row) == [row EXCEPT !.holds_key = FALSE]

\* insert_returning_sql
Inserted(o) == [NoRow EXCEPT !.rec = NewRecord(o), !.holds_key = o.key # None]

\* list_cancellable
IsCancellable(row, include_running) ==
    IsQueued(row.rec) \/ (include_running /\ row.rec.status = "running")

\* select_terminal_ids and count_terminal.  What has ended before the cutoff
\* is abstracted to what has ended.
IsTerminalRow(row) == IsTerminal(row.rec)

\* expire_tasks, expire_task_owned
ExpireWhere(row) == IsQueued(row.rec) /\ row.ref = "none" /\ IsOverdue(row.rec)

\* Fault: the generation alone fences the recovery.
RecoverWhereNoCutoff(row, gen) == Fenced(row.rec, gen)

\* retry_task and fail_task with a heartbeat_cutoff, as recovery uses them.
RecoverWhere(row, gen) == Fenced(row.rec, gen) /\ IsStale(row.rec)

\* cancel_task
CancelWhere(row, include_running, expected) ==
    /\ IsCancellable(row, include_running)
    /\ expected \in {None, row.rec.retry_count}

\* reserve_external_dispatch
ReserveDispatchWhere(row, expected) ==
    /\ IsClaimable(row.rec) /\ row.ref = "none"
    /\ expected \in {None, row.rec.retry_count}

\* reserve_scheduled_execution_ref: due or not.
ReserveScheduledWhere(row, gen, expected_ref) ==
    /\ IsQueued(row.rec) /\ ~IsOverdue(row.rec)
    /\ row.rec.retry_count = gen /\ row.ref = expected_ref

\* clear_execution_ref
ClearWhere(row, gen, expected_ref) ==
    IsQueued(row.rec) /\ row.rec.retry_count = gen /\ row.ref = expected_ref

\* replace_execution_ref
ReplaceWhere(row, gen, expected_ref) ==
    IsQueued(row.rec) /\ row.rec.retry_count = gen /\ row.ref = expected_ref

\* set_execution_backend drops the reference with the old routing.
Rerouted(row) == [row EXCEPT !.ref = "none"]

\* release_external_dispatch
ReleaseWhere(row) == IsStored(row.rec) /\ row.ref = "reservation"

\* finalize_external_dispatch
FinalizeWhere(row) == IsQueued(row.rec) /\ row.ref = "reservation"

----------------------------------------------------------------------------
\* Producers.

\* An INSERT without a key.
Enqueue(t, o) ==
    /\ IsFresh(t) /\ o.key = None
    /\ Statement(t, Inserted(o))

\* Fault: a running holder of the key is replaced like an ended one.
ReplaceableUnlessQueued(row) == ~IsQueued(row.rec)

\* _reuse_for_key: only an ended row gives its key away.
Replaceable(row) == IsTerminal(row.rec)

\* _plan_bulk_enqueue: of requests with one key the first is inserted, and of
\* requests with the key of an active row none is.
IsPlanned(S, options, found) ==
    /\ \A s, t \in S : options[s].key = options[t].key /\ options[s].key # None => s = t
    /\ \A t \in found : Replaceable(rows[t])

\* The SELECT by key of _enqueue_keyed and enqueue_many, and the plan that
\* follows from it.
SelectKeys(S, options) ==
    LET keys == {options[t].key : t \in S} \ {None}
        found == UNION {HolderOf(k) : k \in keys}
    IN  /\ \A t \in S : IsFresh(t) /\ options[t] \in Options[t]
        /\ IsPlanned(S, options, found)
        /\ Select([op |-> "enqueue", tasks |-> S, options |-> options, found |-> found])

\* Free the keys and INSERT, or lose to the row that took a key meanwhile.
InsertRows(x) ==
    LET keys == {x.options[t].key : t \in x.tasks} \ {None}
        held == (UNION {HolderOf(k) : k \in keys}) \ x.found
    IN  /\ x.op = "enqueue"
        /\ inflight' = inflight \ {x}
        /\ rows' = [t \in Task |->
              CASE held = {} /\ t \in x.tasks ->
                      Inserted(x.options[t])
                [] held = {} /\ t \in x.found -> KeyCleared(rows[t])
                [] OTHER -> rows[t]]
        /\ UNCHANGED <<claims, expiries>>

----------------------------------------------------------------------------
\* Claims.

\* claim_task_with_expired, up to its choice between claim and expiry.
SelectForClaim(t) ==
    LET row == rows[t]
    IN  /\ IsQueued(row.rec) /\ row.rec.due /\ row.ref # "reservation"
        /\ Select([op |-> IF row.ref = "none" /\ IsOverdue(row.rec)
                          THEN "claim_expired" ELSE "claim",
                   tasks |-> {t}, gen |-> row.rec.retry_count])

\* _claim_next_optimistic tries claim_task on the rows that list_pending shows.
ClaimNextOptimistic(t) == IsPending(rows[t]) /\ SelectForClaim(t)

\* The update of claim_task.  A count of zero that may mean anything is settled by reading
\* the row again, which only has to be running.
ClaimSelected(x, expected) ==
    LET won == {t \in x.tasks : ClaimWhere(rows[t], expected)}
        believed == {t \in x.tasks \ won : ~ReliableRowcount /\ rows[t].rec.status = "running"}
    IN  /\ x.op = "claim"
        /\ inflight' = inflight \ {x}
        /\ Update(won, LAMBDA row : SetRecord(row, ClaimTask(row.rec)))
        /\ ReturnClaims(won \cup believed)
        /\ UNCHANGED expiries

\* Fault: rows that are found expired are reported, whoever expired them.
ExpireSelectedReportsAll(x) ==
    LET owned == {t \in x.tasks : ExpireWhere(rows[t])}
    IN  /\ x.op \in {"expire", "claim_expired"}
        /\ inflight' = inflight \ {x}
        /\ Update(owned, LAMBDA row : SetRecord(row, ExpireRecord(row.rec)))
        /\ ReturnExpired(owned \cup {t \in x.tasks : rows[t].rec.status = "expired"})
        /\ UNCHANGED claims

\* The update of expire_overdue, or of a claim that found the row overdue.
\* It marks the rows it changes, reads the marked ones back and reports those.
ExpireSelected(x) ==
    LET owned == {t \in x.tasks : ExpireWhere(rows[t])}
    IN  /\ x.op \in {"expire", "claim_expired"}
        /\ inflight' = inflight \ {x}
        /\ Update(owned, LAMBDA row : SetRecord(row, ExpireRecord(row.rec)))
        /\ ReturnExpired(owned)
        /\ UNCHANGED claims

\* expire_overdue, its page of overdue rows.
SelectOverdue(S) ==
    /\ S # {} /\ \A t \in S : SelectExpired(rows[t])
    /\ Select([op |-> "expire", tasks |-> S, gen |-> None])

\* claim_many_with_expired where one statement expires and claims, skipping
\* the rows that other transactions have locked; without X it is claim_many.
ClaimMany(C, X) ==
    /\ C \cup X # {} /\ Cardinality(C) <= ClaimLimit
    /\ \A t \in C : ClaimBatchWhere(rows[t])
    /\ \A t \in X : SelectExpired(rows[t])
    /\ Update(C \cup X, ClaimedOrExpired)
    /\ ReturnClaims(C)
    /\ ReturnExpired(X)
    /\ UNCHANGED inflight

\* _claim_next_skip_locked: the row stays locked from its SELECT to its UPDATE.
ClaimNext(t) ==
    /\ t \in SelectClaimable({t}) /\ ClaimWhere(rows[t], None)
    /\ Update({t}, LAMBDA row : SetRecord(row, ClaimTask(row.rec)))
    /\ ReturnClaims({t})
    /\ UNCHANGED <<inflight, expiries>>

----------------------------------------------------------------------------
\* Calls of the attempt of generation g.

CompleteTaskCall(t, g) ==
    /\ CompleteWhere(rows[t], g)
    /\ Statement(t, Completed(rows[t], g))

\* One statement that decides in SQL, or a SELECT and an update fenced by the
\* generation, which fixes all that was read.
FailTaskCall(t, g, retry, delayed) ==
    /\ FailWhere(rows[t], g) /\ (delayed => rows[t].rec.backoff)
    /\ Statement(t, Failed(rows[t], retry, delayed))

AssignWorkerCall(t, g, w) ==
    /\ AssignWhere(rows[t], g)
    /\ Statement(t, SetRecord(rows[t], AssignWorker(rows[t].rec, w)))

\* Fenced by the generation and the owner; the reference is dropped.
InterruptTaskCall(t, g, w) ==
    /\ InterruptWhere(rows[t], g, w)
    /\ rows[t].rec.requeue_on_shutdown /\ rows[t].rec.interruptions < MaxInterruptions
    /\ Statement(t, Interrupted(rows[t]))

TouchHeartbeats(S, g) ==
    /\ S # {} /\ Cardinality(S) <= TouchLimit
    /\ Update(BulkTouched(S, g), LAMBDA row : SetRecord(row, TouchHeartbeat(row.rec)))
    /\ UNCHANGED <<inflight, claims, expiries>>

\* null_heartbeats compares the generation and then updates by id alone.
SelectForNull(t, g) ==
    /\ IsStored(rows[t].rec) /\ rows[t].rec.retry_count = g
    /\ Select([op |-> "null", tasks |-> {t}, gen |-> g])

NullSelected(x) ==
    /\ x.op = "null"
    /\ inflight' = inflight \ {x}
    /\ Update({t \in x.tasks : IsStored(rows[t].rec)},
              LAMBDA row : SetRecord(row, NullHeartbeat(row.rec)))
    /\ UNCHANGED <<claims, expiries>>

----------------------------------------------------------------------------
\* Calls of everyone else.

\* cancel_task; cancel_tasks calls it for the rows it has listed.
CancelTaskCall(t, include_running, expected) ==
    /\ CancelWhere(rows[t], include_running, expected)
    /\ Statement(t, SetRecord(rows[t], CancelTask(rows[t].rec)))

\* requeue_stale_running, one row of its page.
SelectStale(t) ==
    /\ IsStale(rows[t].rec)
    /\ Select([op |-> "stale", tasks |-> {t}, gen |-> rows[t].rec.retry_count])

RecoverSelected(x) ==
    /\ x.op = "stale"
    /\ inflight' = inflight \ {x}
    /\ Update({t \in x.tasks : RecoverWhere(rows[t], x.gen)},
              LAMBDA row : SetRecord(row, RecoverStale(row.rec)))
    /\ UNCHANGED <<claims, expiries>>

\* set_execution_ref and set_execution_backend ask for the id alone.
SetExecutionRef(t) ==
    IsStored(rows[t].rec) /\ Statement(t, [rows[t] EXCEPT !.ref = "provider"])

SetExecutionBackend(t) ==
    IsStored(rows[t].rec) /\ Statement(t, Rerouted(rows[t]))

ReserveExternalDispatch(t, expected) ==
    /\ ReserveDispatchWhere(rows[t], expected)
    /\ Statement(t, [rows[t] EXCEPT !.ref = "reservation"])

ReserveScheduledExecutionRef(t, g, expected_ref) ==
    /\ ReserveScheduledWhere(rows[t], g, expected_ref)
    /\ Statement(t, [rows[t] EXCEPT !.ref = "provider"])

ClearExecutionRef(t, g, expected_ref) ==
    /\ ClearWhere(rows[t], g, expected_ref)
    /\ Statement(t, [rows[t] EXCEPT !.ref = "none"])

ReplaceExecutionRef(t, g, expected_ref) ==
    /\ ReplaceWhere(rows[t], g, expected_ref)
    /\ Statement(t, [rows[t] EXCEPT !.ref = "provider"])

ReleaseExternalDispatch(t) ==
    /\ ReleaseWhere(rows[t])
    /\ Statement(t, [rows[t] EXCEPT !.ref = "none"])

FinalizeExternalDispatch(t) ==
    /\ FinalizeWhere(rows[t])
    /\ Statement(t, [rows[t] EXCEPT !.ref = "provider"])

\* cleanup_terminal: one DELETE, or the ids of a page and their DELETE; what
\* has ended does not come back in between.
CleanupTerminal(S) ==
    /\ S # {} /\ \A t \in S : IsTerminalRow(rows[t])
    /\ Update(S, LAMBDA row : [SetRecord(row, DeleteRecord(row.rec)) EXCEPT
                                  !.ref = "none", !.holds_key = FALSE])
    /\ UNCHANGED <<inflight, claims, expiries>>

----------------------------------------------------------------------------
ProducerStep ==
    \/ \E t \in Task : \E o \in Options[t] : Enqueue(t, o)
    \/ \E S \in (SUBSET Task) \ {{}} : \E options \in [S -> UNION {Options[t] : t \in S}] :
          SelectKeys(S, options)

ClaimStep ==
    \/ \E t \in Task : SelectForClaim(t) \/ ClaimNext(t) \/ ClaimNextOptimistic(t)
    \/ \E C, X \in SUBSET Task : ClaimMany(C, X)
    \/ \E S \in SUBSET Task : SelectOverdue(S)

AttemptStep(t, g) ==
    \/ CompleteTaskCall(t, g)
    \/ \E retry, delayed \in BOOLEAN : FailTaskCall(t, g, retry, delayed)
    \/ \E w \in Worker : AssignWorkerCall(t, g, w) \/ InterruptTaskCall(t, g, w)
    \/ SelectForNull(t, g)
    \/ CancelTaskCall(t, TRUE, g)

DispatchStep(t) ==
    LET g == rows[t].rec.retry_count
    IN  \/ SetExecutionRef(t) \/ SetExecutionBackend(t)
        \/ \E expected \in {None, g} : ReserveExternalDispatch(t, expected)
        \/ \E ref \in {"none", "provider"} : ReserveScheduledExecutionRef(t, g, ref)
        \/ \E ref \in {"reservation", "provider"} :
              ClearExecutionRef(t, g, ref) \/ ReplaceExecutionRef(t, g, ref)
        \/ ReleaseExternalDispatch(t) \/ FinalizeExternalDispatch(t)

WriteStep(x) ==
    \/ InsertRows(x) \/ ExpireSelected(x) \/ NullSelected(x) \/ RecoverSelected(x)
    \/ \E expected \in {None} \cup (IF x.op = "claim" THEN {x.gen} ELSE {}) : ClaimSelected(x, expected)

Next ==
    \/ ProducerStep \/ ClaimStep
    \/ \E t \in Task :
          \/ \E g \in GenerationsClaimed(t) : AttemptStep(t, g)
          \/ \E b \in BOOLEAN : CancelTaskCall(t, b, None)
          \/ SelectStale(t) \/ DispatchStep(t) \/ ClockTick(t)
    \/ \E S \in SUBSET Task :
          \/ \E g \in UNION {GenerationsClaimed(t) : t \in S} : TouchHeartbeats(S, g)
          \/ CleanupTerminal(S)
    \/ \E x \in inflight : WriteStep(x)
=============================================================================
