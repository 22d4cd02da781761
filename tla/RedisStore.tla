----------------------------- MODULE RedisStore -----------------------------
(***************************************************************************)
(* The Redis and Valkey store.  A record is a hash, and every list the     *)
(* queue reads is a separate index: the ready and scheduled sorted sets,   *)
(* one set per status, four maintenance indexes, the repair index and the  *)
(* terminal metadata.  A Lua script updates them in one atomic step.  What *)
(* Python reads first and commits later is two steps, with any script of   *)
(* any other client between them.                                          *)
(*                                                                         *)
(* The callers are arbitrary: every attempt that was ever granted a claim  *)
(* may call any fenced operation at any time, late and repeated calls      *)
(* included.                                                               *)
(***************************************************************************)
EXTENDS QueueRecord, FiniteSets

CONSTANTS
    Task,             \* record ids
    Options,          \* per id, the enqueue() options its callers use
    ClaimLimit,       \* the limit of one claim_many call
    MaxInterruptions, \* WorkerConfig.max_interruptions, checked by the caller
    MaxInFlight       \* bound: read-then-commit operations under way at once

ASSUME RedisAssumption ==
    /\ None \notin Task
    /\ None \notin TaskStatus
    /\ Options \in [Task -> SUBSET EnqueueOptions]
    /\ ClaimLimit \in Nat \ {0}
    /\ MaxInterruptions \in Nat
    /\ MaxInFlight \in Nat

VARIABLES
    db,        \* per id, its hash and its membership in every index
    keys,      \* the hash of deduplication keys: [Key -> Task or None]
    inflight,  \* operations that have read and not yet committed
    granted    \* per id, the generations a claim has returned to a caller

vars == <<db, keys, inflight, granted>>

----------------------------------------------------------------------------
\* execution_ref: none, a reservation of this queue, or a provider's name.
ExecutionRef == {"none", "reservation", "provider"}

\* One id.  The hash of an id that Redis evicted or a script deleted has the
\* status "deleted"; its memberships may outlive it.
Entry ==
    [hash : QueuedTaskRecord, ref : ExecutionRef,
     statuses : SUBSET TaskStatus,
     ready : BOOLEAN, scheduled : BOOLEAN,
     running : BOOLEAN, external : BOOLEAN, expiry : BOOLEAN,
     terminal : BOOLEAN, repair : BOOLEAN,
     meta : TerminalStatuses \cup {None}]

NoEntry ==
    [hash |-> NoRecord, ref |-> "none", statuses |-> {},
     ready |-> FALSE, scheduled |-> FALSE,
     running |-> FALSE, external |-> FALSE, expiry |-> FALSE,
     terminal |-> FALSE, repair |-> FALSE, meta |-> None]

Exists(e) == IsStored(e.hash)

\* A hash that is gone keeps no field; the terminal metadata still tells the
\* key, and the generation and the budget are kept for the life cycle.
EvictHash(r) ==
    [NoRecord EXCEPT !.status = "deleted", !.key = r.key,
                     !.retry_count = r.retry_count, !.max_retries = r.max_retries]

\* A read that a later commit acts on: what the commit uses of the record is
\* its status, its generation and its owner.  A stale record is read as one
\* to requeue or as one to fail.
InFlight ==
    [op : {"interrupt", "cancel", "requeue", "fail", "listed", "expire", "unindex"},
     task : Task, status : TaskStatus, gen : Nat, worker : Worker \cup {None}]

Init ==
    /\ db = [t \in Task |-> NoEntry]
    /\ keys = [k \in Key |-> None]
    /\ inflight = {}
    /\ granted = [t \in Task |-> {}]

----------------------------------------------------------------------------
\* The scripts, each as a function of the one entry it is about.

HasDeadline(r) == r.expires_at # "never"

\* The hash of an entry becomes r, and its id moves to r's status set.
WithHash(e, r) ==
    [e EXCEPT !.hash = r, !.statuses = (@ \ {e.hash.status}) \cup {r.status}]

EnqueueScript(o) ==
    LET r == NewRecord(o)
    IN  [NoEntry EXCEPT !.hash = r, !.statuses = {r.status},
                        !.ready = o.due, !.scheduled = ~o.due,
                        !.expiry = HasDeadline(r), !.repair = TRUE]

\* What every script does to an id that reaches a terminal status.
MarkTerminal(e, r) ==
    [WithHash(e, r) EXCEPT !.running = FALSE, !.external = FALSE,
                           !.repair = FALSE, !.terminal = TRUE,
                           !.meta = r.status]

\* Fault: an expired id stays in the expiry index.
ExpireEntryKeepsDeadline(e) ==
    [MarkTerminal(e, ExpireRecord(e.hash)) EXCEPT !.ready = FALSE, !.scheduled = FALSE]

\* expire_task of both claim scripts.
ExpireEntry(e) ==
    [MarkTerminal(e, ExpireRecord(e.hash)) EXCEPT
        !.ready = FALSE, !.scheduled = FALSE, !.expiry = FALSE]

\* What both claim scripts do to the id they grant.
GrantEntry(e) ==
    [WithHash(e, ClaimTask(e.hash)) EXCEPT
        !.ready = FALSE, !.running = TRUE, !.expiry = FALSE,
        !.terminal = FALSE, !.meta = None, !.repair = FALSE]

\* Claim script, first loop: one due id of the scheduled set.
PromoteDue(e, selected) ==
    IF ~IsQueued(e.hash) THEN [e EXCEPT !.scheduled = FALSE]
    ELSE IF ~selected \/ e.ref = "reservation" THEN e
    ELSE IF IsOverdue(e.hash) THEN ExpireEntry(e)
    ELSE [WithHash(e, [e.hash EXCEPT !.status = "pending"]) EXCEPT
             !.ready = TRUE, !.scheduled = FALSE]

\* Claim script, second loop: one id of the ready set.
ScanReady(e, selected) ==
    IF e.hash.status # "pending" THEN [e EXCEPT !.ready = FALSE]
    ELSE IF ~selected \/ e.ref = "reservation" THEN e
    ELSE IF IsOverdue(e.hash) THEN ExpireEntry(e)
    ELSE [GrantEntry(e) EXCEPT !.external = FALSE]

\* Claim-by-id script: a provider's reference keeps an overdue record alive.
ClaimTaskScript(e) ==
    IF e.ref = "none" /\ IsOverdue(e.hash) THEN ExpireEntry(e)
    ELSE [GrantEntry(e) EXCEPT !.scheduled = FALSE, !.external = e.ref # "none"]

CompleteScript(e, value) == MarkTerminal(e, CompleteTask(e.hash, value))

\* Fault: a delayed retry is put into neither sorted set.
FailScriptLosesDelayed(e, retry, delayed) ==
    LET r == FailTask(e.hash, retry, delayed)
    IN  IF IsTerminal(r) THEN MarkTerminal(e, r)
        ELSE [WithHash(e, r) EXCEPT
                !.running = FALSE, !.terminal = FALSE, !.meta = None,
                !.external = e.ref # "none",
                !.ready = ~delayed, !.repair = TRUE]

\* Retry or fail.  A retry does not put the id back into the expiry index.
FailScript(e, retry, delayed) ==
    LET r == FailTask(e.hash, retry, delayed)
    IN  IF IsTerminal(r) THEN MarkTerminal(e, r)
        ELSE [WithHash(e, r) EXCEPT
                !.running = FALSE, !.terminal = FALSE, !.meta = None,
                !.external = e.ref # "none",
                !.ready = ~delayed, !.scheduled = delayed, !.repair = TRUE]

\* _index_action: where a transition puts the id.
IndexAction(r) ==
    IF r.status = "pending" /\ r.due THEN "ready"
    ELSE IF IsQueued(r) THEN "scheduled" ELSE "remove"

\* The generic transition script: the caller's patch, then every index.
TransitionScript(e, r, ref, zset_action) ==
    [WithHash(e, r) EXCEPT
        !.ref = ref,
        !.ready = IF zset_action = "none" THEN @ ELSE zset_action = "ready",
        !.scheduled = IF zset_action = "none" THEN @ ELSE zset_action = "scheduled",
        !.running = r.status = "running",
        !.terminal = IsTerminal(r),
        !.meta = IF IsTerminal(r) THEN r.status ELSE None,
        !.expiry = IsQueued(r) /\ HasDeadline(r),
        !.external = ref # "none" /\ IsActive(r),
        !.repair = IsQueued(r)]

\* The scripts about a reference, as they leave an entry that they accept.
ReserveDispatchScript(e, ref) ==
    [e EXCEPT !.ref = ref, !.expiry = FALSE, !.external = TRUE, !.repair = TRUE]

\* Fault: a released record is not listed under its deadline again.
ReleaseDispatchForgetsDeadline(e) ==
    [e EXCEPT !.ref = "none", !.external = FALSE, !.repair = IsQueued(e.hash)]

ReleaseDispatchScript(e) ==
    [e EXCEPT !.ref = "none", !.external = FALSE,
              !.expiry = @ \/ (IsQueued(e.hash) /\ HasDeadline(e.hash)),
              !.repair = IsQueued(e.hash)]

FinalizeDispatchScript(e) == [e EXCEPT !.ref = "provider", !.repair = TRUE]

\* These two touch the hash and no index.
ClearRefScript(e) == [e EXCEPT !.ref = "none"]
ReplaceRefScript(e) == [e EXCEPT !.ref = "provider"]

ReserveScheduledScript(e, ref) == [e EXCEPT !.ref = ref, !.external = ref # "none"]

\* A repair page drops what can no longer be delivered.
RepairCandidateScript(e) == [e EXCEPT !.repair = IsQueued(e.hash) /\ ~IsOverdue(e.hash)]

TouchScript(e) == [e EXCEPT !.hash = TouchHeartbeat(@), !.running = TRUE]

\* delete_terminal_entry: a live record is left alone; a terminal one, or
\* what an evicted one left behind, is removed from every index.
DeleteTerminalEntry(e) ==
    LET status == IF IsTerminal(e.hash) THEN {e.hash.status}
                  ELSE IF e.meta # None THEN {e.meta} ELSE TerminalStatuses
        known == e.meta # None \/ e.terminal \/ e.statuses \cap TerminalStatuses # {}
    IN  IF IsTerminal(e.hash) \/ (e.hash.status = "deleted" /\ known)
        THEN [NoEntry EXCEPT !.hash = EvictHash(e.hash),
                             !.statuses = e.statuses \ status,
                             !.repair = e.repair /\ ~Exists(e)]
        ELSE e

\* rebuild_maintenance_indexes: the indexes as the hash alone determines them.
Rebuilt(e) ==
    [e EXCEPT !.running = e.hash.status = "running",
              !.expiry = IsQueued(e.hash) /\ HasDeadline(e.hash) /\ e.ref = "none",
              !.external = e.ref # "none" /\ IsActive(e.hash),
              !.terminal = IsTerminal(e.hash),
              !.meta = IF IsTerminal(e.hash) THEN e.hash.status ELSE None,
              !.repair = IsQueued(e.hash) /\ ~IsOverdue(e.hash)]

----------------------------------------------------------------------------
\* Steps of the store.

\* Ids that a script finds in the terminal index once terminal_ttl has passed,
\* whether or not Redis has evicted their hash.
Lapsed == {t \in Task : db[t].terminal}

\* The key index once the entries of S are deleted: a key goes with its record
\* only while it names it, and only when hash or metadata still tell the key.
KeysWithout(S) ==
    [k \in Key |->
        IF \E t \in S : /\ keys[k] = t
                       /\ db[t].hash.key = k
                       /\ (Exists(db[t]) \/ db[t].meta # None)
        THEN None ELSE keys[k]]

\* The new entries as a script leaves them.  A script that makes an id
\* terminal also prunes a page of other lapsed ids (record_terminal_meta).
Store(new, pruned) ==
    /\ pruned \subseteq Lapsed
    /\ db' = [t \in Task |->
                 IF t \in pruned THEN DeleteTerminalEntry(new[t]) ELSE new[t]]
    /\ keys' = KeysWithout(pruned)

StoreOne(t, e, pruned) ==
    /\ pruned # {} => e.terminal /\ t \notin pruned
    /\ Store([db EXCEPT ![t] = e], pruned)

\* Fault: only a waiting record holds its key.
EnqueueBesideRunning(t, o) ==
    /\ db[t].hash.status = "absent"
    /\ o.key # None =>
          \A x \in Task : keys[o.key] = x => ~IsQueued(db[x].hash)
    /\ db' = [db EXCEPT ![t] = EnqueueScript(o)]
    /\ keys' = IF o.key = None THEN keys ELSE [keys EXCEPT ![o.key] = t]
    /\ UNCHANGED <<inflight, granted>>

\* The keyed script stores nothing while the key names an active record.
KeyIsFree(key) == \A x \in Task : keys[key] = x => ~IsActive(db[x].hash)

\* enqueue, and every request of enqueue_many.
Enqueue(t, o) ==
    /\ db[t].hash.status = "absent"
    /\ o.key # None => KeyIsFree(o.key)
    /\ db' = [db EXCEPT ![t] = EnqueueScript(o)]
    /\ keys' = IF o.key = None THEN keys ELSE [keys EXCEPT ![o.key] = t]
    /\ UNCHANGED <<inflight, granted>>

Grant(new, C) ==
    granted' = [t \in Task |->
                  IF t \in C THEN granted[t] \cup {new[t].hash.retry_count}
                  ELSE granted[t]]

\* claim_many over the ids that pass the caller's queue and backend filters.
\* It scans the ready set until the limit is granted.  A provider's reference
\* goes with an external backend, which no claiming worker selects.
ClaimMany(selected, scanned, pruned) ==
    LET due == [t \in Task |->
                  IF db[t].scheduled /\ db[t].hash.due
                  THEN PromoteDue(db[t], t \in selected) ELSE db[t]]
        new == [t \in Task |->
                  IF t \in scanned THEN ScanReady(due[t], t \in selected)
                  ELSE due[t]]
        won == {t \in scanned : due[t].hash.status = "pending"
                                /\ new[t].hash.status = "running"}
    IN  /\ \A t \in selected : db[t].ref # "provider"
        /\ \A t \in scanned : due[t].ready
        /\ Cardinality(won) <= ClaimLimit
        /\ Cardinality(won) < ClaimLimit =>
              \A t \in Task : due[t].ready => t \in scanned
        /\ pruned # {} => \E t \in Task : new[t].terminal /\ ~db[t].terminal
        /\ Store(new, pruned)
        /\ Grant(new, won)
        /\ UNCHANGED inflight

\* claim_task by id.
ClaimTaskById(t, pruned) ==
    LET new == ClaimTaskScript(db[t])
    IN  /\ IsQueued(db[t].hash) /\ db[t].ref # "reservation"
        /\ db[t].scheduled => db[t].hash.due
        /\ StoreOne(t, new, pruned)
        /\ Grant([db EXCEPT ![t] = new],
                 IF new.hash.status = "running" THEN {t} ELSE {})
        /\ UNCHANGED inflight

\* The fenced calls of an attempt of generation g.
Complete(t, g, pruned) ==
    /\ Fenced(db[t].hash, g)
    /\ StoreOne(t, CompleteScript(db[t], g), pruned)
    /\ UNCHANGED <<inflight, granted>>

Fail(t, g, retry, delayed, pruned) ==
    /\ Fenced(db[t].hash, g)
    /\ delayed => db[t].hash.backoff
    /\ StoreOne(t, FailScript(db[t], retry, delayed), pruned)
    /\ UNCHANGED <<inflight, granted>>

Assign(t, g, w) ==
    /\ Fenced(db[t].hash, g)
    /\ StoreOne(t, TransitionScript(db[t], AssignWorker(db[t].hash, w), db[t].ref, "none"), {})
    /\ UNCHANGED <<inflight, granted>>

\* touch_heartbeats runs its scripts one by one in a pipeline.
TouchHeartbeats(t, g) ==
    /\ Fenced(db[t].hash, g)
    /\ StoreOne(t, TouchScript(db[t]), {})
    /\ UNCHANGED <<inflight, granted>>

\* null_heartbeats is fenced by the generation alone.
NullHeartbeats(t, g, pruned) ==
    /\ Exists(db[t]) /\ db[t].hash.retry_count = g
    /\ StoreOne(t, TransitionScript(db[t], NullHeartbeat(db[t].hash), db[t].ref, "none"), pruned)
    /\ UNCHANGED <<inflight, granted>>

----------------------------------------------------------------------------
\* References to external executions.

\* The script compares a score that no writer sets: it does not ask for due.
ReserveExternalDispatch(t, ref) ==
    /\ IsQueued(db[t].hash) /\ ~IsOverdue(db[t].hash) /\ db[t].ref = "none"
    /\ StoreOne(t, ReserveDispatchScript(db[t], ref), {})
    /\ UNCHANGED <<inflight, granted>>

ReleaseExternalDispatch(t) ==
    /\ Exists(db[t]) /\ db[t].ref = "reservation"
    /\ StoreOne(t, ReleaseDispatchScript(db[t]), {})
    /\ UNCHANGED <<inflight, granted>>

FinalizeExternalDispatch(t) ==
    /\ IsQueued(db[t].hash) /\ db[t].ref = "reservation"
    /\ StoreOne(t, FinalizeDispatchScript(db[t]), {})
    /\ UNCHANGED <<inflight, granted>>

ClearExecutionRef(t, g) ==
    /\ IsQueued(db[t].hash) /\ db[t].hash.retry_count = g /\ db[t].ref # "none"
    /\ StoreOne(t, ClearRefScript(db[t]), {})
    /\ UNCHANGED <<inflight, granted>>

ReplaceExecutionRef(t, g) ==
    /\ IsQueued(db[t].hash) /\ db[t].hash.retry_count = g /\ db[t].ref # "none"
    /\ StoreOne(t, ReplaceRefScript(db[t]), {})
    /\ UNCHANGED <<inflight, granted>>

\* Its one caller, CloudTasksExecutionBackend._reserve_delivery_name, passes a name.
ReserveScheduledExecutionRef(t, ref) ==
    /\ IsQueued(db[t].hash) /\ ~IsOverdue(db[t].hash)
    /\ StoreOne(t, ReserveScheduledScript(db[t], ref), {})
    /\ UNCHANGED <<inflight, granted>>

\* set_execution_ref and set_execution_backend, fenced by nothing.
SetExecution(t, ref, pruned) ==
    /\ Exists(db[t])
    /\ StoreOne(t, TransitionScript(db[t], db[t].hash, ref, "none"), pruned)
    /\ UNCHANGED <<inflight, granted>>

SetExecutionRef(t, pruned) == SetExecution(t, "provider", pruned)
SetExecutionBackend(t, pruned) == SetExecution(t, "none", pruned)

ListDispatchRepairCandidates(S) ==
    /\ \A t \in S : db[t].repair
    /\ Store([t \in Task |->
                 IF t \in S
                 THEN RepairCandidateScript(db[t]) ELSE db[t]], {})
    /\ UNCHANGED <<inflight, granted>>

----------------------------------------------------------------------------
\* Operations that read a record and commit a transition of it later.

Read(op, t) ==
    /\ Cardinality(inflight) < MaxInFlight
    /\ inflight' = inflight \cup
          {[op |-> op, task |-> t, status |-> db[t].hash.status,
            gen |-> db[t].hash.retry_count, worker |-> db[t].hash.worker_id]}
    /\ UNCHANGED <<db, keys, granted>>

Commit(x, ok, e, pruned) ==
    /\ inflight' = inflight \ {x}
    /\ IF ok THEN StoreOne(x.task, e, pruned)
       ELSE pruned = {} /\ UNCHANGED <<db, keys>>
    /\ UNCHANGED granted

\* interrupt_task, by the worker that owns the attempt.
ReadInterrupt(t) ==
    /\ db[t].hash.status = "running" /\ db[t].hash.worker_id # None
    /\ db[t].hash.interruptions < MaxInterruptions
    /\ Read("interrupt", t)

CommitInterrupt(x) ==
    LET r == db[x.task].hash
    IN  /\ x.op = "interrupt"
        /\ Commit(x, Fenced(r, x.gen) /\ r.worker_id = x.worker,
                  TransitionScript(db[x.task], InterruptTask(r), "none", "ready"), {})

\* cancel_task and cancel_tasks.
ReadCancel(t, include_running) ==
    /\ IsQueued(db[t].hash) \/ (include_running /\ db[t].hash.status = "running")
    /\ Read("cancel", t)

\* A caller that expects a generation commits only to that one.
CommitCancel(x, expected, pruned) ==
    LET r == db[x.task].hash
    IN  /\ x.op = "cancel"
        /\ Commit(x, r.status = x.status /\ expected \in {None, r.retry_count},
                  TransitionScript(db[x.task], CancelTask(r), db[x.task].ref, "remove"), pruned)

\* requeue_stale_running.
ReadStale(t) ==
    /\ IsStale(db[t].hash)
    /\ Read(IF IsQueued(RecoverStale(db[t].hash)) THEN "requeue" ELSE "fail", t)

\* Fault: the requeue is fenced by the status alone.
CommitStaleRequeueByStatus(x) ==
    LET e == db[x.task]
        r == RecoverStale([e.hash EXCEPT !.retry_count = x.gen])
    IN  /\ x.op = "requeue"
        /\ Commit(x, e.hash.status = "running",
                  TransitionScript(e, r, e.ref, IndexAction(r)), {})

\* _commit_stale_requeue, fenced by the generation that was read.
CommitStaleRequeue(x) ==
    LET e == db[x.task]
        r == RecoverStale(e.hash)
    IN  /\ x.op = "requeue"
        /\ Commit(x, Fenced(e.hash, x.gen),
                  TransitionScript(e, r, e.ref, IndexAction(r)), {})

\* _commit_stale_failure, fenced by the status alone.
CommitStaleFailure(x, pruned) ==
    LET e == db[x.task]
    IN  /\ x.op = "fail"
        /\ Commit(x, e.hash.status = "running",
                  TransitionScript(e, FailTask(e.hash, FALSE, FALSE), e.ref, "remove"), pruned)

\* expire_overdue: an id of the expiry index, then its record, then either
\* the transition or the removal of the id from the index.
ListOverdue(t) ==
    /\ db[t].expiry /\ IsOverdue(db[t].hash)
    /\ Read("listed", t)

ReadOverdue(x) ==
    LET r == db[x.task].hash
    IN  /\ x.op = "listed"
        /\ inflight' =
              (inflight \ {x}) \cup
              IF IsStored(r)
              THEN {[x EXCEPT !.op = IF IsQueued(r) /\ IsOverdue(r)
                                     THEN "expire" ELSE "unindex",
                              !.status = r.status]}
              ELSE {}
        /\ UNCHANGED <<db, keys, granted>>

CommitExpire(x, pruned) ==
    LET r == db[x.task].hash
    IN  /\ x.op = "expire"
        /\ Commit(x, r.status = x.status,
                  TransitionScript(db[x.task], ExpireRecord(r), db[x.task].ref, "remove"), pruned)

CommitUnindex(x) ==
    /\ x.op = "unindex"
    /\ Commit(x, TRUE, [db[x.task] EXCEPT !.expiry = FALSE], {})

----------------------------------------------------------------------------
\* Removal.

\* cleanup_terminal: every listed id through the delete script.
CleanupTerminal(t) ==
    /\ db[t].terminal \/ IsTerminal(db[t].hash)
    /\ db' = [db EXCEPT ![t] = DeleteTerminalEntry(@)]
    /\ keys' = KeysWithout({t})
    /\ UNCHANGED <<inflight, granted>>

\* get_statistics prunes a page of lapsed ids first.
PruneExpiredTerminal(S) ==
    /\ S # {}
    /\ Store(db, S)
    /\ UNCHANGED <<inflight, granted>>

\* Redis evicts the hash of a terminal record after terminal_ttl.
HashExpires(t) ==
    /\ IsTerminal(db[t].hash)
    /\ db' = [db EXCEPT ![t].hash = EvictHash(@), ![t].ref = "none"]
    /\ UNCHANGED <<keys, inflight, granted>>

ClockTick(t) ==
    LET r == db[t].hash
    IN  /\ \/ /\ IsQueued(r) /\ ~r.due
             /\ db' = [db EXCEPT ![t].hash.due = TRUE]
          \/ /\ IsActive(r) /\ r.expires_at = "later"
             /\ db' = [db EXCEPT ![t].hash.expires_at = "overdue"]
          \/ /\ r.status = "running" /\ r.heartbeat_at = "fresh"
             /\ db' = [db EXCEPT ![t].hash.heartbeat_at = "stale"]
        /\ UNCHANGED <<keys, inflight, granted>>

----------------------------------------------------------------------------
AttemptCall(t, g) ==
    \/ \E S \in SUBSET Lapsed :
          \/ Complete(t, g, S)
          \/ \E retry, delayed \in BOOLEAN : Fail(t, g, retry, delayed, S)
          \/ NullHeartbeats(t, g, S)
    \/ \E w \in Worker : Assign(t, g, w)
    \/ TouchHeartbeats(t, g)

ExternalCall(t) ==
    \/ \E ref \in {"reservation", "provider"} : ReserveExternalDispatch(t, ref)
    \/ ReleaseExternalDispatch(t)
    \/ FinalizeExternalDispatch(t)
    \/ ClearExecutionRef(t, db[t].hash.retry_count)
    \/ ReplaceExecutionRef(t, db[t].hash.retry_count)
    \/ ReserveScheduledExecutionRef(t, "provider")
    \/ \E S \in SUBSET Lapsed : SetExecutionRef(t, S) \/ SetExecutionBackend(t, S)

ReadStep(t) ==
    \/ ReadInterrupt(t)
    \/ \E b \in BOOLEAN : ReadCancel(t, b)
    \/ ReadStale(t)
    \/ ListOverdue(t)

CommitStep(x) ==
    \/ CommitInterrupt(x)
    \/ ReadOverdue(x)
    \/ CommitUnindex(x)
    \/ CommitStaleRequeue(x)
    \/ \E S \in SUBSET Lapsed :
          \/ \E expected \in {None, x.gen} : CommitCancel(x, expected, S)
          \/ CommitStaleFailure(x, S)
          \/ CommitExpire(x, S)

Next ==
    \/ \E t \in Task :
          \/ \E o \in Options[t] : Enqueue(t, o)
          \/ \E S \in SUBSET Lapsed : ClaimTaskById(t, S)
          \/ \E g \in granted[t] : AttemptCall(t, g)
          \/ ExternalCall(t)
          \/ ReadStep(t)
          \/ CleanupTerminal(t) \/ HashExpires(t) \/ ClockTick(t)
    \/ \E F, X \in SUBSET Task, S \in SUBSET Lapsed : ClaimMany(F, X, S)
    \/ \E x \in inflight : CommitStep(x)
    \/ \E S \in SUBSET Task : ListDispatchRepairCandidates(S) \/ PruneExpiredTerminal(S)

Spec == Init /\ [][Next]_vars

----------------------------------------------------------------------------
\* Properties.

\* Every variable has the shape the scripts give it.
TypeOK ==
    /\ db \in [Task -> Entry]
    /\ keys \in [Key -> Task \cup {None}]
    /\ inflight \subseteq InFlight
    /\ granted \in [Task -> SUBSET Nat]

\* An id is in exactly one of the two sorted sets the claim script reads while
\* its record is queued, in the ready set only when it is due, and otherwise
\* in neither.
Placed(e) ==
    /\ IsQueued(e.hash) <=> (e.ready \/ e.scheduled)
    /\ ~(e.ready /\ e.scheduled)
    /\ e.ready => e.hash.status = "pending" /\ e.hash.due

\* No queued record is lost to the claim script, and no other record is
\* offered to it (enqueue, fail, claim and transition scripts).
QueuedIsPlaced == \A t \in Task : Placed(db[t])

\* A reference that clear_execution_ref emptied: no index was told.
ClearedRef(e) == e.external /\ IsQueued(e.hash) /\ e.ref = "none"

\* The indexes of a stored record against those of a rebuild, both ways.  The
\* second lines are all that a rebuild may change: what was cleared stays
\* listed as external; what is overdue stays listed for repair until a page
\* drops it; a retry, a cleared reference and a late removal by expire_overdue
\* leave a deadline unlisted; and most scripts list it under a reference, too.
Indexed(e) ==
    LET r == Rebuilt(e)
    IN  /\ e.statuses = {e.hash.status}
        /\ (e.running <=> r.running) /\ (e.terminal <=> r.terminal) /\ e.meta = r.meta
        /\ r.external => e.external
        /\ e.external => r.external \/ ClearedRef(e)
        /\ r.repair => e.repair
        /\ e.repair => r.repair \/ (IsQueued(e.hash) /\ IsOverdue(e.hash))
        /\ r.expiry => e.expiry \/ e.hash.retry_count > 0 \/ ClearedRef(e)
        /\ e.expiry => r.expiry \/ (IsQueued(e.hash) /\ HasDeadline(e.hash) /\ e.ref # "none")

\* What rebuild_maintenance_indexes would add to and take from the indexes of
\* a stored record is one of five named gaps and nothing else, whatever
\* scripts, stale reads and late commits came before.  In particular status
\* sets, stale sweeps, retention and reconciliation miss no record, and
\* expire_overdue misses only one that was retried or had its reference cleared.
OnlyKnownGaps == \A t \in Task : Exists(db[t]) => Indexed(db[t])

\* An id without a hash is in the terminal index with its metadata and in the
\* status set that names, or in no index at all.
Sweepable(e) ==
    /\ ~e.ready /\ ~e.scheduled /\ ~e.running
    /\ ~e.external /\ ~e.expiry /\ ~e.repair
    /\ e.terminal <=> (e.meta # None)
    /\ e.statuses = IF e.terminal THEN {e.meta} ELSE {}

\* What an evicted or deleted hash leaves behind can be found and removed by
\* pruning and cleanup (record_terminal_meta, delete_terminal_entry).
OrphansAreSweepable == \A t \in Task : ~Exists(db[t]) => Sweepable(db[t])

\* At most one active record holds a deduplication key, although holders are
\* evicted, pruned and cleaned up while newer ones take the key.
OneActivePerKey ==
    \A s, t \in Task :
        /\ IsActive(db[s].hash) /\ IsActive(db[t].hash)
        /\ db[s].hash.key # None /\ db[s].hash.key = db[t].hash.key
        => s = t

\* The records as their life cycle shows them.
LifeOf(t) == LifeOfRecord(db[t].hash, MaxInterruptions, granted[t])

Lifecycle == INSTANCE TaskLifecycle WITH life <- [t \in Task |-> LifeOf(t)]

\* Scripts and read-then-commit operations together give every record the
\* promised life: no generation is granted twice, none beyond the budget is
\* started, and a record ends once, however stale the reads are.
LivesThePromisedLife == Lifecycle!Spec
=============================================================================
