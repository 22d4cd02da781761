---------------------------- MODULE AlchemyStore ----------------------------
(***************************************************************************)
(* SQLAlchemyQueueTaskService, and AdvancedAlchemyQueueBackend, which runs *)
(* each call of it in a transaction of its own.  A call that writes with   *)
(* one UPDATE, or with several whose conditions do not depend on each      *)
(* other, is one step.                                                     *)
(***************************************************************************)
EXTENDS SqlTable

----------------------------------------------------------------------------
\* Producers.

\* _reuse of a key: only an ended row gives its key away.
Replaceable(row) == IsTerminal(row.rec)

\* enqueue, up to its flush; requests for the key of an active row end here.
SelectKey(t, o) ==
    LET found == IF o.key = None THEN {} ELSE HolderOf(o.key)
    IN  /\ IsFresh(t)
        /\ \A s \in found : Replaceable(rows[s])
        /\ Select([op |-> "enqueue", tasks |-> {t}, options |-> [s \in {t} |-> o],
                   found |-> found])

\* _model_insert_values
InsertValues(o) == [NoRow EXCEPT !.rec = NewRecord(o), !.holds_key = o.key # None]

\* The rows in conflict with the upsert of a keyed enqueue, which changes
\* nothing of them.
UpsertConflicts(x) ==
    (UNION {HolderOf(x.options[t].key) : t \in x.tasks}) \ x.found

\* _insert_task_record: the upsert, or the INSERT and its integrity error,
\* leaves the row alone that has taken the key meanwhile.
InsertRow(x) ==
    /\ x.op = "enqueue"
    /\ inflight' = inflight \ {x}
    /\ rows' = [t \in Task |->
          CASE UpsertConflicts(x) = {} /\ t \in x.tasks -> InsertValues(x.options[t])
            [] t \in x.found -> [rows[t] EXCEPT !.holds_key = FALSE]
            [] OTHER -> rows[t]]
    /\ UNCHANGED <<claims, expiries>>

----------------------------------------------------------------------------
\* Claims.

\* _build_claim_candidate_statement
IsCandidate(row) == IsClaimable(row.rec) /\ row.ref # "reservation"

\* The condition of both expiry updates.
ExpireWhere(row) == IsQueued(row.rec) /\ row.ref = "none" /\ IsOverdue(row.rec)

\* The condition of the claim update: a provider's reference outlives the
\* deadline.
ClaimWhere(row, expected, expected_ref) ==
    /\ IsQueued(row.rec) /\ row.rec.due /\ row.ref # "reservation"
    /\ IsOverdue(row.rec) => row.ref # "none"
    /\ expected \in {None, row.rec.retry_count}
    /\ expected_ref \in {None, row.ref}

\* claim_task_with_expired: claim, and if no row was claimed expire.
ClaimTaskWithExpired(t, expected, expected_ref) ==
    LET won == ClaimWhere(rows[t], expected, expected_ref)
    IN  /\ won \/ ExpireWhere(rows[t])
        /\ Update({t}, LAMBDA row :
              SetRecord(row, IF won THEN ClaimTask(row.rec) ELSE ExpireRecord(row.rec)))
        /\ ReturnClaims(IF won THEN {t} ELSE {})
        /\ ReturnExpired(IF won THEN {} ELSE {t})
        /\ UNCHANGED inflight

\* claim_next without row locks: claim_task for the candidates of list_pending.
\* A candidate that is none any more is skipped.
ClaimNext(t) == IsCandidate(rows[t]) /\ ClaimTaskWithExpired(t, None, None)

\* claim_many_with_expired: the candidates one by one, between two sweeps of
\* the overdue rows, in one transaction.
ClaimManyWithExpired(C, X) ==
    /\ X # {} /\ Cardinality(C) <= ClaimLimit
    /\ \A t \in C : IsCandidate(rows[t]) /\ ClaimWhere(rows[t], None, None)
    /\ \A t \in X : ExpireWhere(rows[t])
    /\ Update(C \cup X, LAMBDA row :
          SetRecord(row, IF ExpireWhere(row) THEN ExpireRecord(row.rec) ELSE ClaimTask(row.rec)))
    /\ ReturnClaims(C)
    /\ ReturnExpired(X)
    /\ UNCHANGED inflight

\* _claim_many_skip_locked, and _claim_next_skip_locked for one row: the
\* candidates stay locked from their SELECT to the UPDATE.
ClaimManySkipLocked(C) ==
    /\ C # {} /\ Cardinality(C) <= ClaimLimit
    /\ \A t \in C : IsCandidate(rows[t])
    /\ Update(C, LAMBDA row : SetRecord(row, ClaimTask(row.rec)))
    /\ ReturnClaims(C)
    /\ UNCHANGED <<inflight, expiries>>

\* expire_overdue: the page, then the update with the sweep's own token.
SelectOverdue(S) ==
    /\ S # {} /\ \A t \in S : ExpireWhere(rows[t])
    /\ Select([op |-> "expire", tasks |-> S, gen |-> None])

ExpireSelected(x) ==
    LET owned == {t \in x.tasks : ExpireWhere(rows[t])}
    IN  /\ x.op = "expire"
        /\ inflight' = inflight \ {x}
        /\ Update(owned, LAMBDA row : SetRecord(row, ExpireRecord(row.rec)))
        /\ ReturnExpired(owned)
        /\ UNCHANGED claims

----------------------------------------------------------------------------
\* Calls of the attempt of generation g.

CompleteTaskCall(t, g) ==
    /\ Fenced(rows[t].rec, g)
    /\ Statement(t, SetRecord(rows[t], CompleteTask(rows[t].rec, g)))

\* Read, check and an update fenced by the generation that was read.
FailTaskCall(t, g, retry, delayed) ==
    /\ Fenced(rows[t].rec, g) /\ (delayed => rows[t].rec.backoff)
    /\ Statement(t, SetRecord(rows[t], FailTask(rows[t].rec, retry, delayed)))

AssignWorkerCall(t, g, w) ==
    /\ Fenced(rows[t].rec, g)
    /\ Statement(t, SetRecord(rows[t], AssignWorker(rows[t].rec, w)))

InterruptTaskCall(t, g, w) ==
    /\ Fenced(rows[t].rec, g) /\ rows[t].rec.worker_id = w
    /\ rows[t].rec.requeue_on_shutdown /\ rows[t].rec.interruptions < MaxInterruptions
    /\ Statement(t, [rows[t] EXCEPT !.rec = InterruptTask(@), !.ref = "none"])

\* touch_heartbeats reads the live rows of one generation; the others are
\* reported as missed there and then.
SelectForTouch(S, g) ==
    LET live == {t \in S : Fenced(rows[t].rec, g)}
    IN  /\ live # {} /\ Cardinality(S) <= TouchLimit
        /\ Select([op |-> "touch", tasks |-> live, gen |-> g])

Touched(x) == {t \in x.tasks : Fenced(rows[t].rec, x.gen)}

\* Fault: an update that touched some of the rows reports nothing.
MissedOfNone(x) == IF Touched(x) = {} THEN x.tasks ELSE {}

\* What the update then reports as missed: all of the rows, unless it has
\* touched all of them.
Missed(x) == IF Touched(x) = x.tasks THEN {} ELSE x.tasks

TouchSelected(x) ==
    /\ x.op = "touch"
    /\ inflight' = inflight \ {x}
    /\ Update(Touched(x), LAMBDA row : SetRecord(row, TouchHeartbeat(row.rec)))
    /\ UNCHANGED <<claims, expiries>>

\* null_heartbeats asks for the generation and not for the status.
NullHeartbeats(t, g) ==
    /\ IsStored(rows[t].rec) /\ rows[t].rec.retry_count = g
    /\ Statement(t, SetRecord(rows[t], NullHeartbeat(rows[t].rec)))

----------------------------------------------------------------------------
\* Calls of everyone else.

\* cancel_task; cancel_tasks selects rows and calls it for each.
CancelTaskCall(t, include_running, expected) ==
    /\ IsQueued(rows[t].rec) \/ (include_running /\ rows[t].rec.status = "running")
    /\ expected \in {None, rows[t].rec.retry_count}
    /\ Statement(t, SetRecord(rows[t], CancelTask(rows[t].rec)))

\* requeue_stale_running with a positive stale_after, one row of its page.
SelectStale(t) ==
    /\ IsStale(rows[t].rec)
    /\ Select([op |-> "stale", tasks |-> {t}, gen |-> rows[t].rec.retry_count])

RecoverSelected(x) ==
    /\ x.op = "stale"
    /\ inflight' = inflight \ {x}
    /\ Update({t \in x.tasks : Fenced(rows[t].rec, x.gen) /\ IsStale(rows[t].rec)},
              LAMBDA row : SetRecord(row, RecoverStale(row.rec)))
    /\ UNCHANGED <<claims, expiries>>

SetExecutionRef(t) ==
    IsStored(rows[t].rec) /\ Statement(t, [rows[t] EXCEPT !.ref = "provider"])

SetExecutionBackend(t) ==
    IsStored(rows[t].rec) /\ Statement(t, [rows[t] EXCEPT !.ref = "none"])

ReserveExternalDispatch(t, expected) ==
    /\ IsClaimable(rows[t].rec) /\ rows[t].ref = "none"
    /\ expected \in {None, rows[t].rec.retry_count}
    /\ Statement(t, [rows[t] EXCEPT !.ref = "reservation"])

\* Whether the row is due does not matter.
ReserveScheduledExecutionRef(t, g, expected_ref) ==
    /\ IsQueued(rows[t].rec) /\ ~IsOverdue(rows[t].rec)
    /\ rows[t].rec.retry_count = g /\ rows[t].ref = expected_ref
    /\ Statement(t, [rows[t] EXCEPT !.ref = "provider"])

ClearExecutionRef(t, g, expected_ref) ==
    /\ IsQueued(rows[t].rec) /\ rows[t].rec.retry_count = g /\ rows[t].ref = expected_ref
    /\ Statement(t, [rows[t] EXCEPT !.ref = "none"])

ReplaceExecutionRef(t, g, expected_ref) ==
    /\ IsQueued(rows[t].rec) /\ rows[t].rec.retry_count = g /\ rows[t].ref = expected_ref
    /\ Statement(t, [rows[t] EXCEPT !.ref = "provider"])

ReleaseExternalDispatch(t) ==
    /\ IsStored(rows[t].rec) /\ rows[t].ref = "reservation"
    /\ Statement(t, [rows[t] EXCEPT !.ref = "none"])

FinalizeExternalDispatch(t) ==
    /\ IsQueued(rows[t].rec) /\ rows[t].ref = "reservation"
    /\ Statement(t, [rows[t] EXCEPT !.ref = "provider"])

CleanupTerminal(S) ==
    /\ S # {} /\ \A t \in S : IsTerminal(rows[t].rec)
    /\ Update(S, LAMBDA row : [SetRecord(row, DeleteRecord(row.rec)) EXCEPT
                                  !.ref = "none", !.holds_key = FALSE])
    /\ UNCHANGED <<inflight, claims, expiries>>

----------------------------------------------------------------------------
\* The calls of the backend, by the section of its interface they belong to.

EnqueueCall(t) == \E o \in Options[t] : SelectKey(t, o)

ClaimCall(t) ==
    \/ ClaimNext(t)
    \/ \E expected \in {None, rows[t].rec.retry_count}, ref \in {None, "provider"} :
          ClaimTaskWithExpired(t, expected, ref)

AttemptCall(t, g) ==
    \/ CompleteTaskCall(t, g)
    \/ \E retry, delayed \in BOOLEAN : FailTaskCall(t, g, retry, delayed)
    \/ \E w \in Worker : AssignWorkerCall(t, g, w) \/ InterruptTaskCall(t, g, w)
    \/ NullHeartbeats(t, g)

CancelCall(t) ==
    \E b \in BOOLEAN : \E expected \in {None} \cup GenerationsClaimed(t) :
        CancelTaskCall(t, b, expected)

DispatchCall(t) ==
    LET g == rows[t].rec.retry_count
    IN  \/ SetExecutionRef(t) \/ SetExecutionBackend(t)
        \/ \E expected \in {None, g} : ReserveExternalDispatch(t, expected)
        \/ \E ref \in {"none", "provider"} : ReserveScheduledExecutionRef(t, g, ref)
        \/ \E ref \in {"reservation", "provider"} :
              ClearExecutionRef(t, g, ref) \/ ReplaceExecutionRef(t, g, ref)
        \/ ReleaseExternalDispatch(t) \/ FinalizeExternalDispatch(t)

Next ==
    \/ \E t \in Task :
          \/ EnqueueCall(t)
          \/ \E g \in GenerationsClaimed(t) : AttemptCall(t, g)
          \/ ClaimCall(t) \/ CancelCall(t) \/ DispatchCall(t)
          \/ SelectStale(t) \/ ClockTick(t)
    \/ \E S \in SUBSET Task :
          \/ \E X \in SUBSET Task : ClaimManyWithExpired(S, X)
          \/ ClaimManySkipLocked(S) \/ SelectOverdue(S) \/ CleanupTerminal(S)
          \/ \E g \in UNION {GenerationsClaimed(t) : t \in S} : SelectForTouch(S, g)
    \/ \E x \in inflight :
          InsertRow(x) \/ ExpireSelected(x) \/ TouchSelected(x) \/ RecoverSelected(x)

----------------------------------------------------------------------------
\* A step of touch_heartbeats that reports every claim that was lost since its
\* SELECT.  It may report a row that it did touch as well.
ReportsEveryLost ==
    \A x \in inflight : x.op = "touch" /\ x \notin inflight' =>
        \A t \in x.tasks : ~Fenced(rows[t].rec, x.gen) => t \in Missed(x)
=============================================================================
