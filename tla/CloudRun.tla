------------------------------ MODULE CloudRun ------------------------------
(***************************************************************************)
(* Execution as Cloud Run Jobs.  dispatch() reserves the record with a     *)
(* lease, asks the provider for an execution and writes its name over the  *)
(* reservation; the container runs consume_one() without expecting any     *)
(* generation or reference; reconcile() settles from the execution's       *)
(* status what the container did not.  fallback_execution_backend is None. *)
(***************************************************************************)
EXTENDS ExternalAttempt

IsCloudRun == transport = "cloudrun"

CancelStatus == {"accepted", "already_cancelled", "retryable", "unsupported"}

UnchangedByCloudRun == UNCHANGED <<transport, started>>

Returns(d) == calls' = [calls EXCEPT ![d] = Idle]

Proceeds(d, op, x, gen) ==
    calls' = [calls EXCEPT ![d] = [op |-> op, ref |-> x, gen |-> gen]]

----------------------------------------------------------------------------
\* What leads to dispatch.

\* schedule(), after an enqueue, a retry or a recovery: an execution that the
\* record still names is dropped first.  It is a late call, a fault, when
\* that execution belongs to the present generation.
Schedule(d) ==
    /\ calls[d] = Idle /\ IsQueued(rec)
    /\ IF ref.kind = "execution" /\ ref.gen = rec.retry_count THEN Fault ELSE UNCHANGED faults
    /\ IF ref.kind = "execution" THEN SetRef(NoRef) ELSE UNCHANGED <<ref, aged>>
    /\ ref.kind = "execution" \/ rec.due
    /\ Proceeds(d, IF rec.due THEN "dispatch" ELSE "idle", NoRef, None)
    /\ UNCHANGED <<rec, carriers, runners>> /\ UnchangedByCloudRun

\* repair(): a reservation whose lease has passed is released, and a due
\* record without a reference dispatched.
RepairDispatch(d) ==
    /\ calls[d] = Idle /\ IsQueued(rec) /\ ~IsOverdue(rec)
    /\ \/ ref.kind = "reservation" /\ aged /\ SetRef(NoRef)
       \/ ref = NoRef /\ rec.due /\ UNCHANGED <<ref, aged>>
    /\ Proceeds(d, IF rec.due THEN "dispatch" ELSE "idle", NoRef, None)
    /\ UNCHANGED <<rec, carriers, runners, faults>> /\ UnchangedByCloudRun

----------------------------------------------------------------------------
\* dispatch(), one step per call it awaits.

\* reserve_external_dispatch.
Reserve(d) ==
    /\ calls[d].op = "dispatch"
    /\ IF CanReserve
       THEN LET lease == [kind |-> "reservation", gen |-> rec.retry_count, n |-> FreshNumber]
            IN  SetRef(lease) /\ Proceeds(d, "run_job", lease, None)
       ELSE Returns(d) /\ UNCHANGED <<ref, aged>>
    /\ UNCHANGED <<rec, carriers, runners, faults>> /\ UnchangedByCloudRun

\* Executions that somebody still names, or that have not ended.
Retained ==
    SelectSeq(carriers, LAMBDA m :
        \/ m.state \in {"ready", "taken"} \/ m.ref = ref
        \/ \E d \in Caller : calls[d].ref = m.ref)

ExecutionOf(lease) == [lease EXCEPT !.kind = "execution"]

WithExecution(lease) == Append(Retained, [ref |-> ExecutionOf(lease), state |-> "ready"])

\* release_external_dispatch, whatever the record's status.
Release(lease) ==
    IF IsStored(rec) /\ ref = lease THEN SetRef(NoRef) ELSE UNCHANGED <<ref, aged>>

RunJob(d) ==
    /\ calls[d].op = "run_job" /\ Len(Retained) < MaxCarriers
    /\ carriers' = WithExecution(calls[d].ref)
    /\ Proceeds(d, "finalize", calls[d].ref, None)
    /\ UNCHANGED <<rec, ref, aged, runners, faults>> /\ UnchangedByCloudRun

\* run_job raised, though the execution may exist: the reservation goes.
RunJobRaises(d) ==
    /\ calls[d].op = "run_job" /\ Fault
    /\ \/ carriers' = carriers
       \/ Len(Retained) < MaxCarriers /\ carriers' = WithExecution(calls[d].ref)
    /\ Release(calls[d].ref) /\ Returns(d)
    /\ UNCHANGED <<rec, runners>> /\ UnchangedByCloudRun

\* An execution, if it has not ended, and its container end as state.
EndExecution(x, state) ==
    /\ carriers' = [i \in DOMAIN carriers |->
          IF carriers[i].ref = x /\ carriers[i].state \in {"ready", "taken"}
          THEN [carriers[i] EXCEPT !.state = state] ELSE carriers[i]]
    /\ runners' = [c \in Runner |-> IF runners[c].ref = x THEN IdleRunner ELSE runners[c]]

\* _cancel_execution_ref: what the provider answers, and does.
CancelExecutionRef(x, answer) ==
    LET found == \E i \in DOMAIN carriers : carriers[i].ref = x
    IN  \/ answer = "accepted" /\ found /\ EndExecution(x, "cancelled") /\ UNCHANGED faults
        \/ answer = "already_cancelled" /\ ~found /\ UNCHANGED <<carriers, runners, faults>>
        \/ answer = "retryable" /\ Fault /\ UNCHANGED <<carriers, runners>>

\* finalize_external_dispatch, or else the new execution is cancelled.
Finalize(d) ==
    LET lease == calls[d].ref
        own == IsQueued(rec) /\ ref = lease
    IN  /\ calls[d].op = "finalize"
        /\ \/ /\ own /\ SetRef(ExecutionOf(lease))
              /\ UNCHANGED <<carriers, runners, faults>>
           \/ /\ ~own /\ UNCHANGED <<ref, aged>>
              /\ \E answer \in CancelStatus : CancelExecutionRef(ExecutionOf(lease), answer)
        /\ Returns(d)
        /\ UNCHANGED rec /\ UnchangedByCloudRun

\* The dispatching process dies between two of its calls.
DispatcherDies(d) ==
    /\ calls[d] # Idle /\ Fault /\ Returns(d)
    /\ UNCHANGED <<rec, ref, aged, carriers, runners>> /\ UnchangedByCloudRun

----------------------------------------------------------------------------
\* The provider.

StartContainer(c, i) ==
    /\ runners[c] = IdleRunner /\ carriers[i].state = "ready"
    /\ carriers' = [carriers EXCEPT ![i].state = "taken"]
    /\ runners' = [runners EXCEPT ![c] = [pc |-> "received", ref |-> carriers[i].ref, gen |-> 0]]
    /\ UNCHANGED <<rec, ref, aged, calls, faults>> /\ UnchangedByCloudRun

\* run_task: consume_one without expectations; its exit code is what the
\* provider counts as success or failure.
ClaimAny(c) == Claim(c, TRUE)

ExitContainer(c) ==
    /\ runners[c].pc \in {"succeeded", "failed", "lost"}
    /\ carriers' = [i \in DOMAIN carriers |->
          IF carriers[i].ref = runners[c].ref
          THEN [carriers[i] EXCEPT !.state = IF runners[c].pc = "succeeded" THEN "succeeded" ELSE "failed"]
          ELSE carriers[i]]
    /\ runners' = [runners EXCEPT ![c] = IdleRunner]
    /\ UNCHANGED <<rec, ref, aged, calls, faults>> /\ UnchangedByCloudRun

\* An execution that an operator cancels, or one that never starts, is killed
\* or is deleted: check_execution_status calls each of the latter failed.
ExecutionEnds(i) ==
    /\ carriers[i].state \in {"ready", "taken"} /\ Fault
    /\ \/ EndExecution(carriers[i].ref, "cancelled")
       \/ /\ carriers' = RemoveAt(carriers, i)
          /\ runners' = [c \in Runner |->
                IF runners[c].ref = carriers[i].ref THEN IdleRunner ELSE runners[c]]
    /\ UNCHANGED <<rec, ref, aged, calls>> /\ UnchangedByCloudRun

----------------------------------------------------------------------------
\* _cancel_task of a record that names an execution: the provider is asked
\* first, and the record is cancelled only if it did not refuse.

CancelExternalAttempt(d) ==
    /\ calls[d] = Idle /\ IsStored(rec) /\ ExternalAttemptRef # NoRef
    /\ \E answer \in CancelStatus :
          /\ CancelExecutionRef(ref, answer)
          /\ IF PermitsDurableCancel(answer)
             THEN Proceeds(d, "cancel", ref, None) ELSE UNCHANGED calls
    /\ UNCHANGED <<rec, ref, aged>> /\ UnchangedByCloudRun

\* The record may meanwhile have been retried and name another execution.
CancelTaskDurably(d) ==
    /\ calls[d].op = "cancel" /\ Returns(d)
    /\ CancelDurably
    /\ UNCHANGED <<ref, aged, carriers, runners, faults>> /\ UnchangedByCloudRun

----------------------------------------------------------------------------
\* reconcile().

\* list_running_external: a record that is not terminal and has a reference.
ListExternal(d) ==
    /\ calls[d] = Idle /\ IsActive(rec) /\ ref # NoRef
    /\ ref.kind = "reservation" => aged
    /\ Proceeds(d, "reconcile", ref, None)
    /\ UNCHANGED <<rec, ref, aged, carriers, runners, faults>> /\ UnchangedByCloudRun

\* _recover_dispatch_reservation: release, and expire what is overdue.
RecoverReservation(d) ==
    /\ calls[d].op = "reconcile" /\ calls[d].ref.kind = "reservation"
    /\ Release(calls[d].ref) /\ Returns(d)
    /\ rec' = IF ref = calls[d].ref /\ IsQueued(rec) /\ IsOverdue(rec) THEN ExpireRecord(rec) ELSE rec
    /\ UNCHANGED <<carriers, runners, faults>> /\ UnchangedByCloudRun

\* get_task: a generation is expected only of a running record.
ReconcileRead(d) ==
    /\ calls[d].op = "reconcile" /\ calls[d].ref.kind = "execution"
    /\ IF IsActive(rec)
       THEN Proceeds(d, "settle", calls[d].ref, IF rec.status = "running" THEN rec.retry_count ELSE None)
       ELSE Returns(d)
    /\ UNCHANGED <<rec, ref, aged, carriers, runners, faults>> /\ UnchangedByCloudRun

\* check_execution_status; an execution that is not found has failed.
ExecutionStatus(x) ==
    LET at == {i \in DOMAIN carriers : carriers[i].ref = x}
    IN  IF at = {} THEN "failed" ELSE carriers[CHOOSE i \in at : TRUE].state

\* The fence of the settling write; without an expected generation the stores
\* still ask for a running record.
Settleable(gen) == rec.status = "running" /\ gen \in {None, rec.retry_count}

ReconcileSettle(d) ==
    LET gen == calls[d].gen
        status == ExecutionStatus(calls[d].ref)
        retried == FailTask(rec, TRUE, FALSE)
    IN  /\ calls[d].op = "settle"
        /\ \/ /\ status = "succeeded" /\ gen # None /\ Settleable(gen)
              /\ rec' = CompleteTask(rec, None) /\ Returns(d)
           \/ /\ status = "cancelled" /\ gen # None /\ Settleable(gen)
              /\ rec' = CancelTask(rec) /\ Returns(d)
           \/ /\ status = "failed" /\ Settleable(gen)
              /\ rec' = retried
              /\ IF IsQueued(retried) THEN Proceeds(d, "clear", NoRef, None) ELSE Returns(d)
           \/ /\ ~Settleable(gen) \/ status \in {"ready", "taken"} \/ (gen = None /\ status # "failed")
              /\ Returns(d) /\ UNCHANGED rec
        /\ UNCHANGED <<ref, aged, carriers, runners, faults>> /\ UnchangedByCloudRun

\* set_execution_backend, after a retry: the reference goes unconditionally.
ReconcileClear(d) ==
    /\ calls[d].op = "clear" /\ Returns(d)
    /\ IF IsStored(rec) THEN SetRef(NoRef) ELSE UNCHANGED <<ref, aged>>
    /\ UNCHANGED <<rec, carriers, runners, faults>> /\ UnchangedByCloudRun

CloudRunNext ==
    /\ IsCloudRun
    /\ \/ \E d \in Dispatcher :
             \/ Schedule(d) \/ RepairDispatch(d) \/ Reserve(d) \/ RunJob(d) \/ RunJobRaises(d)
             \/ Finalize(d) \/ DispatcherDies(d) \/ CancelExternalAttempt(d) \/ CancelTaskDurably(d)
       \/ \E d \in Reconciler :
             \/ ListExternal(d) \/ RecoverReservation(d) \/ ReconcileRead(d)
             \/ ReconcileSettle(d) \/ ReconcileClear(d)
       \/ \E i \in DOMAIN carriers :
             ExecutionEnds(i) \/ \E c \in Runner : StartContainer(c, i)
       \/ \E c \in Runner : ClaimAny(c) \/ ExitContainer(c)
       \/ FleetStep
=============================================================================
