------------------------------ MODULE SqlTable ------------------------------
(***************************************************************************)
(* The queue table that the SQLSpec, Advanced Alchemy and ephemeral stores *)
(* share in design: one row per task, a unique deduplication key, and      *)
(* UPDATE statements whose WHERE clause repeats what the caller read.      *)
(*                                                                         *)
(* A statement is one atomic step.  So is the tail of a transaction from   *)
(* its first UPDATE on: the rows it wrote are locked until it commits.     *)
(* What a transaction SELECTs before that is a step of its own, and any    *)
(* other transaction may commit in between (read committed).               *)
(*                                                                         *)
(* The callers are arbitrary: every attempt that was ever granted a claim  *)
(* may call any operation at any time, late and repeated calls included.   *)
(***************************************************************************)
EXTENDS QueueRecord, FiniteSets, Sequences

CONSTANTS
    Task,             \* row ids
    Options,          \* per id, the enqueue() options its callers use
    ClaimLimit,       \* the limit of one claim_many call
    TouchLimit,       \* the largest batch of one touch_heartbeats call
    MaxInterruptions, \* WorkerConfig.max_interruptions, checked by the caller
    ReliableRowcount, \* the driver tells an update of no row from an unknown count
    MaxInFlight       \* bound: transactions between SELECT and UPDATE, by kind

ASSUME SqlTableAssumption ==
    /\ None \notin Task
    /\ Options \in [Task -> SUBSET EnqueueOptions]
    /\ ClaimLimit \in Nat \ {0}
    /\ TouchLimit \in Nat \ {0}
    /\ MaxInterruptions \in Nat
    /\ ReliableRowcount \in BOOLEAN
    /\ MaxInFlight \in [{"producer", "heartbeat", "other"} -> Nat]

VARIABLES
    rows,      \* per id, its row
    inflight,  \* transactions that have read and not yet written
    claims,    \* per id, the generations that claims returned, in order
    expiries   \* per id, how many calls reported that they expired it

vars == <<rows, inflight, claims, expiries>>

----------------------------------------------------------------------------
\* execution_ref: NULL, a reservation of this queue, or a provider's name.
ExecutionRef == {"none", "reservation", "provider"}

\* The key the row was enqueued under is in rec; holds_key says whether the
\* column still has it or a later enqueue has set it to NULL.
Row == [rec : QueuedTaskRecord, ref : ExecutionRef, holds_key : BOOLEAN]

NoRow == [rec |-> NoRecord, ref |-> "none", holds_key |-> FALSE]

\* A transaction under way: of an enqueue, the rows to insert and the ended
\* rows whose key is to be freed; of any other call, the rows that were read
\* and the generation they had.
IsCall(x) ==
    IF x.op = "enqueue"
    THEN x \in [op : {"enqueue"}, tasks : SUBSET Task, found : SUBSET Task,
                options : [x.tasks -> EnqueueOptions]]
    ELSE x \in [op : {"claim", "claim_expired", "expire", "touch", "null", "stale"},
                tasks : SUBSET Task, gen : Nat \cup {None}]

Init ==
    /\ rows = [t \in Task |-> NoRow]
    /\ inflight = {}
    /\ claims = [t \in Task |-> <<>>]
    /\ expiries = [t \in Task |-> 0]

----------------------------------------------------------------------------
\* Producers, heartbeats and the rest are bounded apart, so that each kind
\* can overlap the others.
KindOf(op) ==
    IF op = "enqueue" THEN "producer" ELSE IF op = "touch" THEN "heartbeat" ELSE "other"

\* A SELECT whose result a later UPDATE of the same transaction uses.
Select(x) ==
    /\ Cardinality({y \in inflight : KindOf(y.op) = KindOf(x.op)}) < MaxInFlight[KindOf(x.op)]
    /\ inflight' = inflight \cup {x}
    /\ UNCHANGED <<rows, claims, expiries>>

\* UPDATE rows SET ... WHERE id IN S, as new says.
Update(S, new(_)) == rows' = [t \in Task |-> IF t \in S THEN new(rows[t]) ELSE rows[t]]

SetRecord(row, r) == [row EXCEPT !.rec = r]

\* The claims and expiries that a call returns to its caller.
ReturnClaims(S) ==
    claims' = [t \in Task |->
                 IF t \in S THEN Append(claims[t], rows[t].rec.retry_count) ELSE claims[t]]

ReturnExpired(S) ==
    expiries' = [t \in Task |-> IF t \in S THEN expiries[t] + 1 ELSE expiries[t]]

\* A new id: enqueue() draws a fresh UUID.
IsFresh(t) ==
    rows[t] = NoRow /\ \A x \in inflight : x.op = "enqueue" => t \notin x.tasks

\* A single statement of a call that reads nothing first.
Statement(t, row) ==
    /\ rows' = [rows EXCEPT ![t] = row]
    /\ UNCHANGED <<inflight, claims, expiries>>

\* The rows whose key column has the key k.
HolderOf(k) ==
    {t \in Task : rows[t].holds_key /\ IsStored(rows[t].rec) /\ rows[t].rec.key = k}

GenerationsClaimed(t) == {claims[t][i] : i \in DOMAIN claims[t]}

\* Wall-clock time passes for one row.
ClockTick(t) ==
    LET r == rows[t].rec
    IN  \/ /\ IsQueued(r) /\ ~r.due
           /\ Statement(t, [rows[t] EXCEPT !.rec.due = TRUE])
        \/ /\ IsActive(r) /\ r.expires_at = "later"
           /\ Statement(t, [rows[t] EXCEPT !.rec.expires_at = "overdue"])
        \/ /\ r.status = "running" /\ r.heartbeat_at = "fresh"
           /\ Statement(t, [rows[t] EXCEPT !.rec.heartbeat_at = "stale"])

----------------------------------------------------------------------------
\* Properties of the table, whichever store writes it.

\* Every variable has the shape the stores give it.
TypeOK ==
    /\ rows \in [Task -> Row]
    /\ \A x \in inflight : IsCall(x)
    /\ claims \in [Task -> Seq(Nat)]
    /\ expiries \in [Task -> Nat]

\* Claims that race for one row, by id and in batches, late ones included:
\* no generation is returned to two callers.
ClaimIsExclusive ==
    \A t \in Task : \A i, j \in DOMAIN claims[t] : claims[t][i] = claims[t][j] => i = j

\* Claims and sweeps race to expire one row, and the one that did it reports
\* it: the expiry event of a task is published at most once.
ExpiryReportedOnce ==
    \A t \in Task :
        /\ expiries[t] <= 1
        /\ expiries[t] = 1 => rows[t].rec.status \in {"expired", "deleted"}

\* Producers that read the key at the same time, and free it from ended rows,
\* leave at most one active row that was enqueued under it.
OneActivePerKey ==
    \A s, t \in Task :
        /\ IsActive(rows[s].rec) /\ IsActive(rows[t].rec)
        /\ rows[s].rec.key # None /\ rows[s].rec.key = rows[t].rec.key
        => s = t

\* The rows as their life cycle shows them.
LifeOf(t) == LifeOfRecord(rows[t].rec, MaxInterruptions, GenerationsClaimed(t))

Lifecycle == INSTANCE TaskLifecycle WITH life <- [t \in Task |-> LifeOf(t)]

\* Guarded updates give every row the promised life: no generation is started
\* twice, none beyond the budget, and a row ends once, however stale the
\* reads are that the updates rest on.
LivesThePromisedLife == Lifecycle!Spec

\* A recovery that has read a stale heartbeat leaves a row alone whose owner
\* has touched it since (the heartbeat_cutoff in the update).
LiveClaimIsNotRecovered ==
    [][\A x \in inflight : x.op = "stale" /\ x \notin inflight' =>
          \A t \in x.tasks : rows'[t] # rows[t] => IsStale(rows[t].rec)]_vars
=============================================================================
