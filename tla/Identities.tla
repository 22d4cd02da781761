----------------------------- MODULE Identities -----------------------------
(***************************************************************************)
(* unique_until="forever": an identity that runs once, until an operator   *)
(* resets it.  enqueue() reserves the identity for a task id of its own,   *)
(* then stores the task under that id; the two writes are not one          *)
(* transaction, so what fails in between is undone by hand.  Other tasks   *)
(* may use the same key with the default lifetime.                         *)
(***************************************************************************)
EXTENDS Integers, FiniteSets

CONSTANTS
    Caller,      \* concurrent enqueue() calls for one identity
    MaxTasks,    \* bound: tasks under the key
    MaxEpochs    \* bound: operator resets

ASSUME IdentitiesAssumption == MaxTasks \in Nat /\ MaxEpochs \in Nat

VARIABLES
    reserved,    \* the task id that the reservation names, or 0
    tasks,       \* per task id, the task under the key
    callers,     \* per caller, its call
    epoch        \* operator resets so far

identityVars == <<reserved, tasks, callers, epoch>>

TaskId == 1..MaxTasks
NoTask == [state |-> "none", forever |-> FALSE, epoch |-> 0]
IdleCaller == [pc |-> "idle", id |-> 0, forever |-> FALSE, epoch |-> 0]

IdentityInit ==
    /\ reserved = 0
    /\ tasks = [t \in TaskId |-> NoTask]
    /\ callers = [c \in Caller |-> IdleCaller]
    /\ epoch = 0

Goes(c, pc) == callers' = [callers EXCEPT ![c].pc = pc]
Returns(c) == callers' = [callers EXCEPT ![c] = IdleCaller]

\* uuid4 for a reserved task, the store's own id for another.
EnqueueStarts(c, forever) ==
    \E t \in TaskId :
        /\ callers[c] = IdleCaller
        /\ tasks[t] = NoTask /\ reserved # t /\ \A d \in Caller : callers[d].id # t
        /\ \A u \in 1..(t - 1) : tasks[u] # NoTask \/ reserved = u \/ \E d \in Caller : callers[d].id = u
        /\ callers' = [callers EXCEPT ![c] = [pc |-> IF forever THEN "reserve" ELSE "store", id |-> t,
                                              forever |-> forever, epoch |-> epoch]]
        /\ UNCHANGED <<reserved, tasks, epoch>>

----------------------------------------------------------------------------
\* reserve_identity.

Won(c) ==
    /\ reserved' = callers[c].id
    /\ callers' = [callers EXCEPT ![c].pc = "store", ![c].epoch = epoch]

\* An owner is there: the call returns a handle to its task.
Lost(c) == Returns(c) /\ UNCHANGED reserved

\* The lock of the memory store, Redis' script, a SQLite transaction.
ReserveAtomically(c) ==
    /\ callers[c].pc = "reserve"
    /\ IF reserved = 0 THEN Won(c) ELSE Lost(c)
    /\ UNCHANGED <<tasks, epoch>>

\* The SQL stores read first...
ReserveSelects(c) ==
    /\ callers[c].pc = "reserve"
    /\ IF reserved = 0 THEN Goes(c, "insert") /\ UNCHANGED reserved ELSE Lost(c)
    /\ UNCHANGED <<tasks, epoch>>

\* ... then insert; a violation of the primary key means that another won.
ReserveInserts(c) ==
    /\ callers[c].pc = "insert"
    /\ IF reserved = 0 THEN Won(c) ELSE Goes(c, "owner") /\ UNCHANGED reserved
    /\ UNCHANGED <<tasks, epoch>>

\* has_identity after the violation.  When the owner has been reset since,
\* SQLSpec tries again, a bounded number of times, and Advanced Alchemy raises.
SqlSpecReadsOwner(c) ==
    /\ callers[c].pc = "owner"
    /\ Returns(c) \/ (reserved = 0 /\ Goes(c, "reserve"))
    /\ UNCHANGED <<reserved, tasks, epoch>>

AlchemyReadsOwner(c) ==
    /\ callers[c].pc = "owner"
    /\ Returns(c)
    /\ UNCHANGED <<reserved, tasks, epoch>>

----------------------------------------------------------------------------
\* The store's enqueue: an active task under the key is returned instead.

KeyIsActive == \E t \in TaskId : tasks[t].state = "active"

Stored(c) ==
    [tasks EXCEPT ![callers[c].id] = [state |-> "active", forever |-> callers[c].forever, epoch |-> callers[c].epoch]]

Store(c) ==
    /\ callers[c].pc = "store"
    /\ IF KeyIsActive THEN UNCHANGED tasks ELSE tasks' = Stored(c)
    /\ IF KeyIsActive /\ callers[c].forever THEN Goes(c, "reset") ELSE Returns(c)
    /\ UNCHANGED <<reserved, epoch>>

\* It raises, or is cancelled, before or after its effect.
StoreRaises(c) ==
    /\ callers[c].pc = "store"
    /\ UNCHANGED tasks \/ (~KeyIsActive /\ tasks' = Stored(c))
    /\ IF callers[c].forever THEN Goes(c, "verify") ELSE Returns(c)
    /\ UNCHANGED <<reserved, epoch>>

\* get_task: the reservation goes only if its task is known not to exist.
Unpersisted(c) == tasks[callers[c].id].state \in {"none", "deleted"}

Verify(c) ==
    /\ callers[c].pc = "verify"
    /\ IF Unpersisted(c) THEN Goes(c, "reset") ELSE Returns(c)
    /\ UNCHANGED <<reserved, tasks, epoch>>

\* Fault: the reservation is deleted whoever owns it.
ResetAnyOwner(c) == 0

\* reset_identity with expected_task_id.
ResetExpected(c) == IF reserved = callers[c].id THEN 0 ELSE reserved

ResetReservation(c) ==
    /\ callers[c].pc = "reset"
    /\ reserved' = ResetExpected(c)
    /\ Returns(c)
    /\ UNCHANGED <<tasks, epoch>>

\* The process dies, or the clean-up call raises and is suppressed.
CallerDies(c) ==
    /\ callers[c] # IdleCaller
    /\ Returns(c)
    /\ UNCHANGED <<reserved, tasks, epoch>>

----------------------------------------------------------------------------
\* reset_task_identity, by an operator.
OperatorResets ==
    /\ reserved # 0 /\ epoch < MaxEpochs
    /\ reserved' = 0 /\ epoch' = epoch + 1
    /\ UNCHANGED <<tasks, callers>>

TaskEnds(t) ==
    /\ tasks[t].state = "active"
    /\ tasks' = [tasks EXCEPT ![t].state = "ended"]
    /\ UNCHANGED <<reserved, callers, epoch>>

\* cleanup_terminal does not touch the reservation.  The retention is longer
\* than a call of enqueue().
CleanupTask(t) ==
    /\ tasks[t].state = "ended" /\ \A c \in Caller : callers[c].id # t
    /\ tasks' = [tasks EXCEPT ![t].state = "deleted"]
    /\ UNCHANGED <<reserved, callers, epoch>>

----------------------------------------------------------------------------
\* Between two resets an identity stores one task at most: through races for
\* the reservation, failed enqueues, collisions and clean-ups that come late.
OncePerEpoch ==
    \A e \in 0..MaxEpochs : Cardinality({t \in TaskId : tasks[t].forever /\ tasks[t].epoch = e}) <= 1
=============================================================================
