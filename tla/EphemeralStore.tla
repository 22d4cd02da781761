--------------------------- MODULE EphemeralStore ---------------------------
(***************************************************************************)
(* EphemeralQueueBackend: a private SQLite file whose every call runs in   *)
(* one BEGIN IMMEDIATE transaction, reads included.  Each call is one step *)
(* and inflight stays empty.                                               *)
(***************************************************************************)
EXTENDS SqlTable

----------------------------------------------------------------------------
\* _active_by_key
ActiveByKey(k) == {t \in Task : IsActive(rows[t].rec) /\ rows[t].rec.key = k}

\* Of an overdue row a claim_many spares only the ones under dispatch.
ExpiredByClaims(row) ==
    IsQueued(row.rec) /\ IsOverdue(row.rec) /\ row.ref # "reservation"

\* The rows one SELECT of claim_many pages over, reservations included.
IsPaged(row) == IsQueued(row.rec) /\ row.rec.due /\ ~IsOverdue(row.rec)

\* _locked_record with an expected retry count.
LockedRecord(row, gen) == Fenced(row.rec, gen)

\* A transaction that reports neither claims nor expiries.
Transaction(S, new(_)) ==
    /\ Update(S, new)
    /\ UNCHANGED <<inflight, claims, expiries>>

----------------------------------------------------------------------------

Enqueue(t, o) ==
    /\ IsFresh(t)
    /\ o.key # None => ActiveByKey(o.key) = {}
    /\ Statement(t, [NoRow EXCEPT !.rec = NewRecord(o), !.holds_key = o.key # None])

\* enqueue_many: the requests see the rows of the requests before them.
EnqueueMany(s, t, o, p) ==
    /\ s # t /\ IsFresh(s) /\ IsFresh(t)
    /\ \A k \in {o.key, p.key} \ {None} : ActiveByKey(k) = {}
    /\ o.key # p.key \/ o.key = None
    /\ rows' = [rows EXCEPT
          ![s] = [NoRow EXCEPT !.rec = NewRecord(o), !.holds_key = o.key # None],
          ![t] = [NoRow EXCEPT !.rec = NewRecord(p), !.holds_key = p.key # None]]
    /\ UNCHANGED <<inflight, claims, expiries>>

ClaimTaskWithExpired(t, expected, expected_ref) ==
    LET row == rows[t]
        late == row.ref = "none" /\ IsOverdue(row.rec)
    IN  /\ IsQueued(row.rec) /\ row.rec.due /\ row.ref # "reservation"
        /\ expected \in {None, row.rec.retry_count}
        /\ expected_ref \in {None, row.ref}
        /\ Update({t}, LAMBDA x :
              SetRecord(x, IF late THEN ExpireRecord(x.rec) ELSE ClaimTask(x.rec)))
        /\ ReturnClaims(IF late THEN {} ELSE {t})
        /\ ReturnExpired(IF late THEN {t} ELSE {})
        /\ UNCHANGED inflight

\* claim_many_with_expired for the rows Q of the queues and the backend it
\* was called for.  The page is full before reservations are dropped from it.
ClaimManyWithExpired(Q, page) ==
    LET X == {t \in Q : ExpiredByClaims(rows[t])}
        C == {t \in page : rows[t].ref # "reservation"}
        due == {t \in Q : IsPaged(rows[t])}
    IN  /\ page \subseteq due /\ Cardinality(page) <= ClaimLimit
        /\ Cardinality(page) < ClaimLimit => page = due
        /\ C \cup X # {}
        /\ Update(C \cup X, LAMBDA x :
              SetRecord(x, IF IsOverdue(x.rec) THEN ExpireRecord(x.rec) ELSE ClaimTask(x.rec)))
        /\ ReturnClaims(C)
        /\ ReturnExpired(X)
        /\ UNCHANGED inflight

\* expire_overdue: the page holds overdue rows with and without a reference.
ExpireOverdue(page) ==
    LET X == {t \in page : rows[t].ref = "none"}
    IN  /\ \A t \in page : IsQueued(rows[t].rec) /\ IsOverdue(rows[t].rec)
        /\ X # {}
        /\ Update(X, LAMBDA x : SetRecord(x, ExpireRecord(x.rec)))
        /\ ReturnExpired(X)
        /\ UNCHANGED <<inflight, claims>>

----------------------------------------------------------------------------
CompleteTaskCall(t, g) ==
    /\ LockedRecord(rows[t], g)
    /\ Statement(t, SetRecord(rows[t], CompleteTask(rows[t].rec, g)))

FailTaskCall(t, g, retry, delayed) ==
    /\ LockedRecord(rows[t], g) /\ (delayed => rows[t].rec.backoff)
    /\ Statement(t, SetRecord(rows[t], FailTask(rows[t].rec, retry, delayed)))

AssignWorkerCall(t, g, w) ==
    /\ LockedRecord(rows[t], g)
    /\ Statement(t, SetRecord(rows[t], AssignWorker(rows[t].rec, w)))

InterruptTaskCall(t, g, w) ==
    /\ Fenced(rows[t].rec, g) /\ rows[t].rec.worker_id = w
    /\ rows[t].rec.requeue_on_shutdown /\ rows[t].rec.interruptions < MaxInterruptions
    /\ Statement(t, [rows[t] EXCEPT !.rec = InterruptTask(@), !.ref = "none"])

TouchHeartbeats(S, g) ==
    /\ Cardinality(S) <= TouchLimit
    /\ Transaction({t \in S : Fenced(rows[t].rec, g)},
                   LAMBDA x : SetRecord(x, TouchHeartbeat(x.rec)))

NullHeartbeats(S, g) ==
    Transaction({t \in S : IsStored(rows[t].rec) /\ rows[t].rec.retry_count = g},
                LAMBDA x : SetRecord(x, NullHeartbeat(x.rec)))

CancelTaskCall(t, include_running, expected) ==
    /\ IsQueued(rows[t].rec) \/ (include_running /\ rows[t].rec.status = "running")
    /\ expected \in {None, rows[t].rec.retry_count}
    /\ Statement(t, SetRecord(rows[t], CancelTask(rows[t].rec)))

\* cancel_tasks for the rows S that its filters match.
CancelTasks(S, include_running) ==
    Transaction({t \in S : \/ IsQueued(rows[t].rec)
                           \/ include_running /\ rows[t].rec.status = "running"},
                LAMBDA x : SetRecord(x, CancelTask(x.rec)))

\* requeue_stale_running for a page of its candidates.
RequeueStaleRunning(page) ==
    /\ \A t \in page : IsStale(rows[t].rec)
    /\ Transaction(page, LAMBDA x : SetRecord(x, RecoverStale(x.rec)))

----------------------------------------------------------------------------
SetExecutionRef(t) ==
    IsStored(rows[t].rec) /\ Statement(t, [rows[t] EXCEPT !.ref = "provider"])

SetExecutionBackend(t) ==
    IsStored(rows[t].rec) /\ Statement(t, [rows[t] EXCEPT !.ref = "none"])

\* An overdue row is expired here too, and this expiry is reported to nobody.
ReserveExternalDispatch(t, expected) ==
    /\ IsQueued(rows[t].rec) /\ rows[t].rec.due /\ rows[t].ref = "none"
    /\ expected \in {None, rows[t].rec.retry_count}
    /\ Statement(t, IF IsOverdue(rows[t].rec)
                    THEN SetRecord(rows[t], ExpireRecord(rows[t].rec))
                    ELSE [rows[t] EXCEPT !.ref = "reservation"])

ReserveScheduledExecutionRef(t, g, expected_ref) ==
    /\ IsQueued(rows[t].rec) /\ ~IsOverdue(rows[t].rec)
    /\ rows[t].rec.retry_count = g /\ rows[t].ref = expected_ref
    /\ Statement(t, [rows[t] EXCEPT !.ref = "provider"])

ClearExecutionRef(t, g, expected_ref) ==
    /\ IsQueued(rows[t].rec) /\ rows[t].rec.retry_count = g /\ rows[t].ref = expected_ref
    /\ Statement(t, [rows[t] EXCEPT !.ref = "none"])

ReplaceExecutionRef(t, g, expected_ref) ==
    /\ IsQueued(rows[t].rec) /\ rows[t].rec.retry_count = g /\ rows[t].ref = expected_ref
    /\ Statement(t, [rows[t] EXCEPT !.ref = "provider"])

ReleaseExternalDispatch(t) ==
    /\ IsStored(rows[t].rec) /\ rows[t].ref = "reservation"
    /\ Statement(t, [rows[t] EXCEPT !.ref = "none"])

FinalizeExternalDispatch(t) ==
    /\ IsQueued(rows[t].rec) /\ rows[t].ref = "reservation"
    /\ Statement(t, [rows[t] EXCEPT !.ref = "provider"])

CleanupTerminal(S) ==
    /\ \A t \in S : IsTerminal(rows[t].rec)
    /\ Transaction(S, LAMBDA x : [SetRecord(x, DeleteRecord(x.rec)) EXCEPT
                                     !.ref = "none", !.holds_key = FALSE])

----------------------------------------------------------------------------
ClaimCall ==
    \/ \E t \in Task, ref \in {None, "provider"} :
          \E expected \in {None, rows[t].rec.retry_count} : ClaimTaskWithExpired(t, expected, ref)
    \/ \E Q \in SUBSET Task : \E page \in SUBSET Q : ClaimManyWithExpired(Q, page)
    \/ \E page \in SUBSET Task : ExpireOverdue(page)

AttemptCall(t, g) ==
    \/ CompleteTaskCall(t, g)
    \/ \E retry, delayed \in BOOLEAN : FailTaskCall(t, g, retry, delayed)
    \/ \E w \in Worker : AssignWorkerCall(t, g, w) \/ InterruptTaskCall(t, g, w)
    \/ \E S \in SUBSET Task : t \in S /\ (TouchHeartbeats(S, g) \/ NullHeartbeats(S, g))
    \/ CancelTaskCall(t, TRUE, g)

DispatchCall(t) ==
    LET g == rows[t].rec.retry_count
    IN  \/ SetExecutionRef(t) \/ SetExecutionBackend(t)
        \/ \E expected \in {None, g} : ReserveExternalDispatch(t, expected)
        \/ \E ref \in {"none", "provider"} : ReserveScheduledExecutionRef(t, g, ref)
        \/ \E ref \in {"reservation", "provider"} :
              ClearExecutionRef(t, g, ref) \/ ReplaceExecutionRef(t, g, ref)
        \/ ReleaseExternalDispatch(t) \/ FinalizeExternalDispatch(t)

Next ==
    \/ \E t \in Task :
          \/ \E o \in Options[t] : Enqueue(t, o)
          \/ \E s \in Task : \E o \in Options[s], p \in Options[t] : EnqueueMany(s, t, o, p)
          \/ \E g \in GenerationsClaimed(t) : AttemptCall(t, g)
          \/ \E b \in BOOLEAN : CancelTaskCall(t, b, None)
          \/ DispatchCall(t) \/ ClockTick(t)
    \/ \E S \in (SUBSET Task) \ {{}} :
          \/ \E b \in BOOLEAN : CancelTasks(S, b)
          \/ RequeueStaleRunning(S) \/ CleanupTerminal(S)
    \/ ClaimCall
=============================================================================
