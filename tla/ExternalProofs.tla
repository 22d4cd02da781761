--------------------------- MODULE ExternalProofs ---------------------------
(***************************************************************************)
(* What goes on outside the queue: attempts that others run, and those who *)
(* look at it.                                                             *)
(*                                                                         *)
(* Execution through a broker or as Cloud Run jobs implements              *)
(* TaskLifecycle.  What the provider does with carriers and references     *)
(* plays no part: whoever writes the record, under whatever expectation,   *)
(* writes it by an operation that keeps it in step with its generations.   *)
(*                                                                         *)
(* Of the waits (Waits), how late a worker and a caller may be.  Neither   *)
(* bound is inductive: what bounds the time that has passed is the instant *)
(* at which the one who waits last looked, and until when they lie down.   *)
(*                                                                         *)
(* Of the streams (EventStreams), that a browser is shown the first        *)
(* payload of each key, once, and what alone it is not shown.  The keys    *)
(* that a stream remembers are tied to all it has ever read.               *)
(***************************************************************************)
EXTENDS MCExternalExecution, Waits, EventStreams, QueueRecordProofs,
        FiniteSetTheorems, SequenceTheorems, WellFoundedInduction

RecordInStep == InStep(rec, started)

\* What a step does to the record.
RecordGoes == Goes(rec, started, rec', started')

LEMMA Unmoved ==
    ASSUME RecordInStep, rec' = rec, started' = started
    PROVE  RecordGoes
  BY QuietGoes DEF RecordInStep, RecordGoes

----------------------------------------------------------------------------
\* consume_one.

\* A claim starts the record, ends one that is overdue, or leaves it.
LEMMA BodyStarts ==
    ASSUME RecordInStep, NEW c \in Runner, CanClaim, StartBody(c)
    PROVE  RecordGoes
  BY WaitingGoes DEF RecordInStep, RecordGoes, CanClaim, StartBody

LEMMA ClaimExpires ==
    ASSUME RecordInStep, ExpiresAtClaim, rec' = ExpireRecord(rec), started' = started
    PROVE  RecordGoes
  BY WaitingGoes DEF RecordInStep, RecordGoes, ExpiresAtClaim

LEMMA Claims ==
    ASSUME RecordInStep, NEW c \in Runner, NEW expects \in BOOLEAN,
           Claim(c, expects) \/ Reclaim(c)
    PROVE  RecordGoes
<1>1. CASE Claim(c, expects)
  BY <1>1, BodyStarts, ClaimExpires, Unmoved DEF Claim
<1>2. CASE Reclaim(c)
  BY <1>2, BodyStarts, ClaimExpires, Unmoved DEF Reclaim
<1> QED
  BY <1>1, <1>2

\* The recovery of a silent owner's record, inline or by a sweep.
LEMMA Recoveries ==
    ASSUME RecordInStep, NEW c \in Runner, RecoverInline(c) \/ RecoverStaleTasks
    PROVE  RecordGoes
<1>1. /\ started' = started
      /\ rec' = rec \/ (IsStale(rec) /\ rec' = RecoverStale(rec))
  BY DEF RecoverInline, RecoverStaleTasks, UnchangedButRecord
<1>2. CASE rec' = rec
  BY <1>1, <1>2, Unmoved
<1>3. CASE IsStale(rec) /\ rec' = RecoverStale(rec)
  BY <1>1, <1>3, RunningGoes DEF RecordInStep, RecordGoes, IsStale
<1> QED
  BY <1>1, <1>2, <1>3

\* An outcome is written only by the attempt that has the record's generation.
LEMMA Outcomes ==
    ASSUME RecordInStep, NEW c \in Runner, NEW retry \in BOOLEAN,
           BodyReturns(c) \/ BodyFails(c, retry) \/ Retire(c)
    PROVE  RecordGoes
<1> DEFINE own == Fenced(rec, runners[c].gen)
<1>1. rec.backoff \in BOOLEAN
  BY DEF RecordInStep, InStep, QueuedTaskRecord
<1>2. started' = started
  BY DEF BodyReturns, BodyFails, Retire, BodyEnds
<1>3. CASE ~own
  BY <1>2, <1>3, Unmoved DEF BodyReturns, BodyFails, Retire, BodyEnds
<1>4. CASE own
  <2>1. rec.status = "running" /\ runners[c].gen = rec.retry_count
    BY <1>4 DEF Fenced
  <2>2. \/ rec' = CompleteTask(rec, rec.retry_count)
        \/ rec' = FailTask(rec, retry, rec.backoff)
        \/ rec' = FailTask(rec, FALSE, FALSE)
    BY <1>4, <2>1 DEF BodyReturns, BodyFails, Retire, BodyEnds
  <2> QED
    BY <1>1, <1>2, <2>1, <2>2, RunningGoes DEF RecordInStep, RecordGoes
<1> QED
  BY <1>3, <1>4

\* Beats, and the process that ends between two of them.
LEMMA Beats ==
    ASSUME RecordInStep, NEW c \in Runner, Heartbeat(c) \/ RunnerDies(c)
    PROVE  RecordGoes
<1>1. started' = started
  BY DEF Heartbeat, RunnerDies
<1>2. rec' \in {rec, TouchHeartbeat(rec), NullHeartbeat(rec)}
  BY DEF Heartbeat, RunnerDies
<1> QED
  BY <1>1, <1>2, QuietGoes DEF RecordInStep, RecordGoes

----------------------------------------------------------------------------
\* The rest of the fleet, and the clock.

LEMMA Cancels ==
    ASSUME RecordInStep, CancelDurably, started' = started
    PROVE  RecordGoes
<1>1. rec' = rec \/ (IsActive(rec) /\ rec' = CancelTask(rec))
  BY DEF CancelDurably, IsActive
<1> QED
  BY <1>1, Unmoved, CancelGoes DEF RecordInStep, RecordGoes

LEMMA FleetGoes ==
    ASSUME RecordInStep, FleetStep
    PROVE  RecordGoes
<1>1. CASE RecoverStaleTasks
  BY <1>1, RunningGoes DEF RecoverStaleTasks, UnchangedButRecord, RecordInStep, RecordGoes, IsStale
<1>2. CASE CancelRecord
  BY <1>2, Cancels DEF CancelRecord, UnchangedButRecord
<1>3. CASE ExpireOverdue
  BY <1>3, WaitingGoes DEF ExpireOverdue, UnchangedButRecord, RecordInStep, RecordGoes
<1>4. CASE CleanupTerminal
  BY <1>4, DeleteGoes DEF CleanupTerminal, RecordInStep, RecordGoes
<1>5. CASE BecomesDue \/ PassesExpiry \/ HeartbeatAges
  BY <1>5, QuietGoes
  DEF BecomesDue, PassesExpiry, HeartbeatAges, UnchangedButRecord, RecordInStep, RecordGoes
<1>6. CASE RefAges
  BY <1>6, Unmoved DEF RefAges
<1>7. ASSUME NEW c \in Runner, ConsumeOneStep(c) \/ Heartbeat(c) \/ RunnerDies(c)
      PROVE  RecordGoes
  BY <1>7, Claims, Recoveries, Outcomes, Beats DEF ConsumeOneStep
<1> QED
  BY <1>1, <1>2, <1>3, <1>4, <1>5, <1>6, <1>7 DEF FleetStep

----------------------------------------------------------------------------
\* The backends.

LEMMA BrokerGoes ==
    ASSUME RecordInStep, BrokerNext
    PROVE  RecordGoes
<1>1. ASSUME NEW d \in Dispatcher,
             Dispatch(d) \/ Repair(d) \/ SendArrives(d) \/ SendRefused(d) \/ SendLost(d)
      PROVE  RecordGoes
  BY <1>1, Unmoved
  DEF Dispatch, Repair, SendArrives, SendRefused, SendLost, UnchangedByBroker
<1>2. ASSUME NEW i \in DOMAIN carriers, Redeliver(i) \/ \E c \in Runner : Deliver(c, i)
      PROVE  RecordGoes
  BY <1>2, Unmoved DEF Redeliver, Deliver, UnchangedByBroker
<1>3. ASSUME NEW c \in Runner, ConsumerStep(c)
      PROVE  RecordGoes
  <2>1. CASE ClaimDelivery(c)
    BY <2>1, Claims DEF ClaimDelivery, Expects
  <2>2. CASE Acknowledge(c) \/ AfterFailure(c) \/ ClearAfterRetry(c)
    BY <2>2, Unmoved DEF Acknowledge, AfterFailure, ClearAfterRetry, UnchangedByBroker
  <2> QED
    BY <1>3, <2>1, <2>2 DEF ConsumerStep
<1> QED
  BY <1>1, <1>2, <1>3, FleetGoes DEF BrokerNext

\* reconcile() completes, cancels or retries a record that is running.
LEMMA ReconcileGoes ==
    ASSUME RecordInStep, NEW d \in Reconciler, ReconcileSettle(d)
    PROVE  RecordGoes
<1>1. started' = started
  BY DEF ReconcileSettle, UnchangedByCloudRun
<1>2. \/ rec' = rec
      \/ /\ rec.status = "running"
         /\ \/ rec' = CompleteTask(rec, None)
            \/ rec' = CancelTask(rec)
            \/ rec' = FailTask(rec, TRUE, FALSE)
  BY DEF ReconcileSettle, Settleable
<1>3. CASE rec' = rec
  BY <1>1, <1>3, Unmoved
<1>4. CASE rec.status = "running" /\ rec' = CompleteTask(rec, None)
  BY <1>1, <1>4, CompletedOutsideGoes DEF RecordInStep, RecordGoes
<1>5. CASE rec.status = "running" /\ rec' = CancelTask(rec)
  BY <1>1, <1>5, CancelGoes DEF RecordInStep, RecordGoes, IsActive
<1>6. CASE rec.status = "running" /\ rec' = FailTask(rec, TRUE, FALSE)
  BY <1>1, <1>6, RunningGoes DEF RecordInStep, RecordGoes
<1> QED
  BY <1>2, <1>3, <1>4, <1>5, <1>6

LEMMA CloudRunGoes ==
    ASSUME RecordInStep, CloudRunNext
    PROVE  RecordGoes
<1>1. ASSUME NEW d \in Dispatcher,
             \/ Schedule(d) \/ RepairDispatch(d) \/ Reserve(d) \/ RunJob(d)
             \/ RunJobRaises(d) \/ Finalize(d) \/ DispatcherDies(d)
             \/ CancelExternalAttempt(d)
      PROVE  RecordGoes
  BY <1>1, Unmoved
  DEF Schedule, RepairDispatch, Reserve, RunJob, RunJobRaises, Finalize, DispatcherDies,
      CancelExternalAttempt, UnchangedByCloudRun
<1>2. ASSUME NEW d \in Dispatcher, CancelTaskDurably(d)
      PROVE  RecordGoes
  BY <1>2, Cancels DEF CancelTaskDurably, UnchangedByCloudRun
<1>3. ASSUME NEW d \in Reconciler, ListExternal(d) \/ ReconcileRead(d) \/ ReconcileClear(d)
      PROVE  RecordGoes
  BY <1>3, Unmoved DEF ListExternal, ReconcileRead, ReconcileClear, UnchangedByCloudRun
<1>4. ASSUME NEW d \in Reconciler, RecoverReservation(d)
      PROVE  RecordGoes
  <2>1. /\ started' = started
        /\ rec' = rec \/ (IsQueued(rec) /\ rec' = ExpireRecord(rec))
    BY <1>4 DEF RecoverReservation, UnchangedByCloudRun
  <2> QED
    BY <2>1, Unmoved, WaitingGoes DEF RecordInStep, RecordGoes
<1>5. ASSUME NEW i \in DOMAIN carriers,
             ExecutionEnds(i) \/ \E c \in Runner : StartContainer(c, i)
      PROVE  RecordGoes
  BY <1>5, Unmoved DEF ExecutionEnds, StartContainer, UnchangedByCloudRun
<1>6. ASSUME NEW c \in Runner, ClaimAny(c) \/ ExitContainer(c)
      PROVE  RecordGoes
  BY <1>6, Claims, Unmoved DEF ClaimAny, ExitContainer, UnchangedByCloudRun
<1> QED
  BY <1>1, <1>2, <1>3, <1>4, <1>5, <1>6, ReconcileGoes, FleetGoes DEF CloudRunNext

LEMMA EveryStep == RecordInStep /\ [ExternalNext]_vars => RecordInStep' /\ RecordGoes
<1> SUFFICES ASSUME RecordInStep, [ExternalNext]_vars PROVE RecordInStep' /\ RecordGoes
  OBVIOUS
<1>1. RecordGoes
  BY BrokerGoes, CloudRunGoes, Unmoved DEF ExternalNext, vars
<1>2. RecordInStep'
  BY <1>1, GoesInStep DEF RecordInStep, RecordGoes
<1> QED
  BY <1>1, <1>2

LEMMA Initially == Init => RecordInStep
<1> SUFFICES ASSUME Init PROVE RecordInStep
  OBVIOUS
<1>1. Options[transport] \in EnqueueOptions
  BY ExternalAttemptAssumption DEF Init
<1>2. Goes(NoRecord, {}, rec, started)
  BY <1>1, NoRecordInStep, NewRecordGoes DEF Init, NoRecord
<1> QED
  BY <1>2, NoRecordInStep, GoesInStep DEF RecordInStep

----------------------------------------------------------------------------
LEMMA PromisedMove ==
    ASSUME NEW x, NEW y, Promised!Move(x, y)
    PROVE  Lifecycle!Move(x, y)
  BY DEF Promised!Move, Promised!Enqueued, Promised!Started, Promised!Requeued,
         Promised!Ended, Promised!Purged, Promised!Unborn,
         Lifecycle!Move, Lifecycle!Enqueued, Lifecycle!Started, Lifecycle!Requeued,
         Lifecycle!Ended, Lifecycle!Purged, Lifecycle!Unborn

\* A record that a broker or Cloud Run executes takes every step along the
\* promised life: messages and executions that are lost, repeated, early or
\* late, runners and dispatchers that die, and a reconciler that settles beside
\* them start no generation twice or beyond the budget, and the record ends
\* once.
THEOREM RecordLivesThePromisedLife == ExternalSpec => LivesThePromisedLife
<1>1. RecordInStep /\ [ExternalNext]_vars => [Lifecycle!Next]_rec
  <2> SUFFICES ASSUME RecordInStep, [ExternalNext]_vars
               PROVE  LifeOf' = LifeOf \/ Lifecycle!Move(LifeOf, LifeOf')
    BY DEF Lifecycle!Next
  <2>1. InStep(rec, started) /\ Goes(rec, started, rec', started')
    BY EveryStep DEF RecordInStep, RecordGoes
  <2> QED
    BY <2>1, GoesAlongLife, PromisedMove DEF LifeOf
<1> QED
  BY <1>1, Initially, EveryStep, PTL DEF ExternalSpec, LivesThePromisedLife

----------------------------------------------------------------------------
\* Those who wait: the values of what they keep.

TaskWait ==
    [status : {"none", "queued", "running", "done", "cancelled"}, due : Nat, born : Nat,
     telling : BOOLEAN, heard : BOOLEAN, ended : Nat]
LoopState ==
    [pc : {"claim", "look", "listen", "reconcile", "wait", "backoff"}, deadline : Nat,
     interval : Nat, timeout : Nat, known : SUBSET Task, completion : BOOLEAN]
ChannelState == [listening : BOOLEAN, messages : Nat, hint : BOOLEAN, table : BOOLEAN]
JobState == [task : Task \cup {Absent}, freed : Nat, checked : Nat, retries : Nat]
CallerState ==
    [pc : {"none", "refresh", "register", "check", "blocked", "returned", "timeout"},
     task : Task \cup {Absent}, until : Nat, start : Nat, answer : BOOLEAN \cup {Absent}]
ReaderState == [alive : BOOLEAN, messages : SUBSET Task, lost : BOOLEAN]

WaitType ==
    /\ clock \in Nat /\ failures \in Nat
    /\ tasks \in [Task -> TaskWait]
    /\ loop \in LoopState
    /\ channel \in ChannelState
    /\ job \in JobState
    /\ caller \in CallerState
    /\ reader \in ReaderState

Awaits(t) == tasks[t].status = "queued"

\* Nothing has happened later than now; what runs is the worker's.
Past ==
    /\ job.freed <= clock /\ job.checked <= clock
    /\ job.task # Absent => tasks[job.task].status \in {"running", "cancelled"}
    /\ \A t \in Task :
          /\ tasks[t].born <= clock /\ tasks[t].ended <= clock
          /\ tasks[t].telling /\ Awaits(t) => tasks[t].born = clock

\* The worker on its way from a look at the store to the end of its wait, and
\* the instant of that look.
Going == loop.pc \in {"look", "listen", "reconcile", "wait"}
LookedAt == IF loop.pc = "wait" THEN loop.deadline - loop.timeout ELSE clock

LoopInv ==
    /\ config.transport \in Transport
    /\ ~config.backoff => loop.interval = PollInterval
    /\ config.transport # "table" => channel.table
    /\ loop.pc \in {"listen", "reconcile", "wait"} => loop.timeout <= MaxWait
    /\ loop.pc = "wait" =>
          /\ loop.timeout <= loop.deadline /\ LookedAt <= clock
          /\ \/ clock <= loop.deadline
             \/ /\ clock = loop.deadline + 1 /\ loop.timeout = 0
                /\ job.task # Absent \/ job.freed = clock
    /\ loop.pc = "backoff" => clock <= loop.deadline /\ loop.deadline <= clock + PollInterval
    /\ loop.pc \in {"claim", "look", "backoff"} => loop.known = {}
    /\ \A t \in loop.known : tasks[t].status \in {"queued", "cancelled"}

\* x is no later than what Since(t) is.
Reaches(x, t) == x <= tasks[t].due \/ x <= tasks[t].born \/ x <= job.freed

Slack == PollInterval * failures

\* The worker does not lie down when it is free and something is due.
Prompt(t) ==
    /\ Reaches(clock - MaxWait - Slack, t)
    /\ Going => Reaches(LookedAt, t)
    /\ loop.pc = "backoff" => Reaches(loop.deadline - MaxWait - Slack, t)
Promptness == job.task = Absent => \A t \in Task : Awaits(t) => Prompt(t)

\* What was told of is still to be read.
Heard(t) ==
    /\ tasks[t].due <= clock
    /\ HasWakeups /\ channel.table /\ loop.pc # "backoff"
    /\ channel.listening \/ KeepsMessages
    /\ job.task = Absent =>
          /\ Reaches(clock, t)
          /\ Going => channel.messages > 0 \/ loop.completion
Hearing == \A t \in Task : Awaits(t) /\ tasks[t].heard => Heard(t)

\* A wait ends before what was known at its beginning comes due.
Known(t) ==
    /\ LookedAt < tasks[t].due
    /\ loop.pc \in {"listen", "reconcile"} => clock + loop.timeout <= tasks[t].due
    /\ loop.pc = "wait" => loop.deadline <= tasks[t].due
Knowing == config.backoff => \A t \in loop.known : Awaits(t) => Known(t)

\* The ephemeral store's worker looks all the time.
Seeing ==
    config.transport = "exists" =>
        /\ loop.pc # "backoff"
        /\ job.task = Absent => \A t \in Due : Reaches(clock, t)

\* A cancelled job is looked at with the first look after its check is due.
Cutting ==
    CancelsRunning =>
        LET limit == tasks[job.task].ended + CancelInterval
        IN  /\ job.checked <= tasks[job.task].ended
            /\ clock <= limit + MaxWait + Slack
            /\ Going => LookedAt <= limit
            /\ loop.pc = "backoff" => loop.deadline <= limit + MaxWait + Slack

\* The caller of TaskResult.wait.
IsWaiting == caller.pc \notin {"none", "returned", "timeout"}
IsTimed == caller.pc \in {"register", "check", "blocked"}
\* No later than so long after the end that the caller waits for.
SoonAfter(x, delay) ==
    x <= tasks[caller.task].ended + delay \/ x <= caller.start + delay

Attending ==
    /\ caller.pc # "none" => caller.task \in Task /\ caller.start <= clock
    /\ caller.pc = "register" => config.transport = "pubsub"
    /\ IsWaiting => clock <= caller.start + CallerTimeout
    /\ IsTimed =>
          /\ clock <= caller.until /\ caller.until <= caller.start + CallerTimeout
          /\ caller.until <= clock + CallerPoll
    /\ caller.pc \in {"check", "blocked"} /\ config.transport = "pubsub" /\ caller.answer = Absent
          => reader.alive
    /\ IsWaiting /\ Ended(caller.task) =>
          /\ SoonAfter(clock, CallerPoll)
          /\ IsTimed => SoonAfter(caller.until, CallerPoll)
          /\ config.transport = "pubsub" /\ ~reader.lost =>
                /\ SoonAfter(clock, 0)
                /\ caller.pc = "blocked" => caller.answer # Absent \/ caller.task \in reader.messages

WaitInv ==
    WaitType /\ Past /\ LoopInv /\ Promptness /\ Hearing /\ Knowing /\ Seeing /\ Cutting /\ Attending

WorkerInv == Past /\ LoopInv /\ Promptness /\ Hearing /\ Knowing /\ Seeing /\ Cutting

----------------------------------------------------------------------------
\* Numbers.

LEMMA GreatestOfTwo ==
    ASSUME NEW a \in Int, NEW b \in Int
    PROVE  Max({a, b}) \in {a, b} /\ Max({a, b}) >= a /\ Max({a, b}) >= b
<1>1. \E x \in {a, b} : \A y \in {a, b} : x >= y
  <2>1. CASE a >= b
    BY <2>1
  <2>2. CASE b >= a
    BY <2>2
  <2> QED
    BY <2>1, <2>2
<1> QED
  BY <1>1 DEF Max

LEMMA GreatestOfThree ==
    ASSUME NEW a \in Int, NEW b \in Int, NEW c \in Int
    PROVE  /\ Max({a, b, c}) \in {a, b, c}
           /\ Max({a, b, c}) >= a /\ Max({a, b, c}) >= b /\ Max({a, b, c}) >= c
<1>1. \E x \in {a, b, c} : \A y \in {a, b, c} : x >= y
  <2>1. CASE a >= b /\ a >= c
    BY <2>1
  <2>2. CASE b >= a /\ b >= c
    BY <2>2
  <2>3. CASE c >= a /\ c >= b
    BY <2>3
  <2> QED
    BY <2>1, <2>2, <2>3
<1> QED
  BY <1>1 DEF Max

LEMMA LeastOfTwo ==
    ASSUME NEW a \in Int, NEW b \in Int
    PROVE  Min({a, b}) \in {a, b} /\ Min({a, b}) <= a /\ Min({a, b}) <= b
<1>1. \E x \in {a, b} : \A y \in {a, b} : x =< y
  <2>1. CASE a <= b
    BY <2>1
  <2>2. CASE b <= a
    BY <2>2
  <2> QED
    BY <2>1, <2>2
<1> QED
  BY <1>1 DEF Min

LEMMA LeastOfMany ==
    ASSUME NEW S \in SUBSET Nat, S # {}
    PROVE  Min(S) \in S /\ \A y \in S : Min(S) <= y
<1> DEFINE less == OpToRel(<, Nat)
<1>1. less = {p \in Nat \X Nat : p[1] < p[2]} /\ IsWellFoundedOn(less, Nat)
  BY NatLessThanWellFounded DEF OpToRel
<1> HIDE DEF less
<1>2. PICK x \in S : \A y \in S : <<y, x>> \notin less
  BY <1>1, WFMin
<1>3. \A y \in S : x <= y
  <2> TAKE y \in S
  <2>1. x \in Nat /\ y \in Nat /\ ~(y < x)
    BY <1>1, <1>2
  <2> QED
    BY <2>1
<1> QED
  BY <1>3 DEF Min

----------------------------------------------------------------------------
\* What the operators yield.

LEMMA Settings ==
    /\ PollInterval \in Nat /\ PollInterval >= 1
    /\ PollBackoffMax \in Nat /\ PollInterval <= PollBackoffMax
    /\ Multiplier \in Nat /\ CancelInterval \in Nat
    /\ MaxWait \in Nat /\ PollInterval <= MaxWait
    /\ config.backoff => MaxWait = PollBackoffMax
    /\ ~config.backoff => MaxWait = PollInterval
    /\ DueIn \subseteq Nat /\ CallerPoll \in Nat /\ CallerTimeout \in Nat
    /\ Absent \notin Task /\ Absent \notin BOOLEAN /\ Absent \notin Nat
  BY WaitsAssumption DEF MaxWait

LEMMA ProductGrows ==
    ASSUME NEW p \in Nat, NEW a \in Nat, NEW b \in Nat, a <= b
    PROVE  /\ p * a \in Nat /\ p * b \in Nat /\ p * a <= p * b
           /\ a < b => p * a + p <= p * b
<1>1. PICK k \in Nat : b = a + k
  <2>1. b - a \in Nat /\ b = a + (b - a)
    OBVIOUS
  <2> QED
    BY <2>1
<1>2. p * b = p * a + p * k /\ p * k \in Nat /\ p * a \in Nat
  BY <1>1
<1>3. CASE k = 0
  BY <1>1, <1>2, <1>3
<1>4. CASE k # 0
  <2>1. k - 1 \in Nat /\ p * k = p * (k - 1) + p
    BY <1>4
  <2>2. p * (k - 1) \in Nat
    BY <2>1
  <2> QED
    BY <1>2, <2>1, <2>2
<1> QED
  BY <1>3, <1>4

LEMMA SlackGrows ==
    ASSUME failures \in Nat, failures' \in Nat, failures <= failures'
    PROVE  /\ Slack \in Nat /\ Slack' \in Nat /\ Slack <= Slack'
           /\ failures < failures' => Slack + PollInterval <= Slack'
  BY ProductGrows, Settings DEF Slack

LEMMA PromotedFacts ==
    ASSUME WaitType
    PROVE  /\ Promoted \in [Task -> TaskWait]
           /\ \A t \in Task :
                 /\ Promoted[t].status = tasks[t].status /\ Promoted[t].due = tasks[t].due
                 /\ Promoted[t].telling = tasks[t].telling
                 /\ Promoted[t].heard = tasks[t].heard /\ Promoted[t].ended = tasks[t].ended
                 /\ Promoted[t].born = tasks[t].born
                    \/ (IsDue(t) /\ Promoted[t].born = tasks[t].due /\ tasks[t].born <= tasks[t].due)
<1>1. ASSUME NEW t \in Task
      PROVE  /\ Promoted[t] \in TaskWait
             /\ Promoted[t].status = tasks[t].status /\ Promoted[t].due = tasks[t].due
             /\ Promoted[t].telling = tasks[t].telling
             /\ Promoted[t].heard = tasks[t].heard /\ Promoted[t].ended = tasks[t].ended
             /\ Promoted[t].born = tasks[t].born
                \/ (IsDue(t) /\ Promoted[t].born = tasks[t].due /\ tasks[t].born <= tasks[t].due)
  <2>1. tasks[t] \in TaskWait /\ tasks[t].born \in Nat /\ tasks[t].due \in Nat
    BY DEF WaitType, TaskWait
  <2> DEFINE m == Max({tasks[t].born, tasks[t].due})
  <2>2. m \in {tasks[t].born, tasks[t].due} /\ m >= tasks[t].born /\ m >= tasks[t].due
    <3>1. tasks[t].born \in Int /\ tasks[t].due \in Int
      BY <2>1
    <3> QED
      BY <3>1, GreatestOfTwo
  <2>3. CASE IsDue(t)
    <3>1. Promoted[t] = [tasks[t] EXCEPT !.born = m]
      BY <2>3 DEF Promoted
    <3> HIDE DEF m
    <3> QED
      BY <2>1, <2>2, <2>3, <3>1 DEF TaskWait
  <2>4. CASE ~IsDue(t)
    BY <2>1, <2>4 DEF Promoted
  <2> QED
    BY <2>3, <2>4
<1>2. Promoted \in [Task -> TaskWait]
  BY <1>1 DEF Promoted
<1> QED
  BY <1>1, <1>2

LEMMA UpcomingFacts ==
    ASSUME WaitType, NEW S \in SUBSET Task, S # {}
    PROVE  /\ Until(S) \in Nat
           /\ \A t \in S : tasks[t].due > clock => clock + Until(S) <= tasks[t].due
<1> DEFINE dues == {tasks[t].due : t \in S}
           m == Min(dues)
<1>1. dues \in SUBSET Nat /\ dues # {} /\ clock \in Nat
  BY DEF WaitType, TaskWait
<1> HIDE DEF dues
<1>2. m \in dues /\ \A y \in dues : m <= y
  BY <1>1, LeastOfMany
<1>3. m \in Nat
  BY <1>1, <1>2
<1>4. Until(S) = Max({m - clock, 0})
  BY DEF Until, dues
<1> HIDE DEF m
<1>5. Until(S) \in {m - clock, 0} /\ Until(S) >= m - clock /\ Until(S) >= 0
  <2>1. m - clock \in Int /\ 0 \in Int
    BY <1>1, <1>3
  <2> QED
    BY <1>4, <2>1, GreatestOfTwo
<1>6. \A t \in S : m <= tasks[t].due /\ tasks[t].due \in Nat
  BY <1>2 DEF dues, WaitType, TaskWait
<1> QED
  BY <1>1, <1>3, <1>5, <1>6

LEMMA NextDueFacts ==
    ASSUME WaitType, Past
    PROVE  IF TimeUntilNextDue = Absent THEN Upcoming = {}
           ELSE /\ TimeUntilNextDue \in Nat
                /\ \A t \in Upcoming : clock + TimeUntilNextDue <= tasks[t].due
<1>1. Upcoming \subseteq Promotable /\ Promotable \subseteq Task /\ Upcoming \subseteq Task
  BY DEF Upcoming, Promotable, Past, WaitType, TaskWait
<1>2. \A t \in Upcoming : tasks[t].due > clock
  BY DEF Upcoming
<1>3. TimeUntilNextDue \in {Until(Promotable), Until(Upcoming)}
  BY DEF TimeUntilNextDue, RedisNextDue, MemoryNextDue, SqlSpecNextDue, AlchemyNextDue,
         EphemeralNextDue
<1>4. ASSUME NEW S \in {Promotable, Upcoming}
      PROVE  IF Until(S) = Absent THEN Upcoming = {}
             ELSE Until(S) \in Nat /\ \A t \in Upcoming : clock + Until(S) <= tasks[t].due
  <2>1. CASE S = {}
    BY <1>1, <2>1 DEF Until
  <2>2. CASE S # {}
    BY <1>1, <1>2, <2>2, UpcomingFacts, Settings
  <2> QED
    BY <2>1, <2>2
<1> QED
  BY <1>3, <1>4

LEMMA TimeoutFacts ==
    ASSUME WaitType, Past, LoopInv, NEW timeout \in CurrentWaitTimeout(loop.interval)
    PROVE  /\ timeout \in Nat /\ timeout <= MaxWait
           /\ config.backoff => \A t \in Upcoming : clock + timeout <= tasks[t].due
<1>1. loop.interval \in Nat /\ clock \in Nat /\ \A t \in Upcoming : tasks[t].due \in Nat
  BY DEF WaitType, LoopState, TaskWait, Upcoming
<1>2. CASE ~config.backoff
  BY <1>1, <1>2, Settings DEF CurrentWaitTimeout, LoopInv
<1>3. CASE config.backoff
  <2>1. \A i \in Jittered(loop.interval) : i \in Nat /\ i <= MaxWait
    BY <1>1, <1>3, Settings DEF Jittered
  <2>2. CASE TimeUntilNextDue = Absent
    BY <1>3, <2>1, <2>2, NextDueFacts DEF CurrentWaitTimeout
  <2>3. CASE TimeUntilNextDue # Absent
    <3>1. PICK i \in Jittered(loop.interval) : timeout = Min({i, TimeUntilNextDue})
      BY <1>3, <2>3 DEF CurrentWaitTimeout
    <3>2. /\ TimeUntilNextDue \in Nat
          /\ \A t \in Upcoming : clock + TimeUntilNextDue <= tasks[t].due
      BY <2>3, NextDueFacts
    <3>3. timeout \in {i, TimeUntilNextDue} /\ timeout <= i /\ timeout <= TimeUntilNextDue
      BY <2>1, <3>1, <3>2, LeastOfTwo
    <3> QED
      BY <1>1, <2>1, <3>2, <3>3, Settings
  <2> QED
    BY <2>2, <2>3
<1> QED
  BY <1>2, <1>3

LEMMA AdvancedFacts ==
    ASSUME WaitType, LoopInv
    PROVE  /\ Advanced(loop.interval) \in Nat
           /\ ~config.backoff => Advanced(loop.interval) = PollInterval
<1>1. loop.interval \in Nat
  BY DEF WaitType, LoopState
<1>2. CASE config.backoff
  <2> DEFINE next == loop.interval * Multiplier
  <2>1. next \in Nat /\ PollBackoffMax \in Nat
    BY <1>1, Settings
  <2>2. Advanced(loop.interval) = Min({next, PollBackoffMax})
    BY <1>2 DEF Advanced
  <2> HIDE DEF next
  <2>3. next \in Int /\ PollBackoffMax \in Int
    BY <2>1
  <2>4. Min({next, PollBackoffMax}) \in {next, PollBackoffMax}
    BY <2>3, LeastOfTwo
  <2> QED
    BY <1>2, <2>1, <2>2, <2>4
<1>3. CASE ~config.backoff
  BY <1>1, <1>3 DEF Advanced, LoopInv
<1> QED
  BY <1>2, <1>3

----------------------------------------------------------------------------
\* The types.

LEMMA Fails == ASSUME failures \in Nat, Failure PROVE failures' \in Nat /\ failures' = failures + 1
  BY DEF Failure

LEMMA FreedFits == ASSUME job \in JobState, clock \in Nat PROVE Freed \in JobState
  BY DEF Freed, JobState

LEMMA StoreTypes ==
    ASSUME WaitType, NEW t \in Task,
           Enqueue(t) \/ NotifyNewTask(t) \/ NotificationLost(t) \/ CancelsTask(t) \/ CallerStarts(t)
    PROVE  WaitType'
<1>1. clock \in Nat
  BY DEF WaitType
<1>2. tasks \in [Task -> TaskWait]
  BY DEF WaitType
<1>3. channel \in ChannelState
  BY DEF WaitType
<1>4. CASE Enqueue(t)
  <2>1. PICK delay \in DueIn : Queued(t, delay)
    BY <1>4 DEF Enqueue
  <2>2. clock + delay \in Nat
    BY <1>1, <2>1, Settings
  <2>3. tasks' \in [Task -> TaskWait]
    BY <1>1, <1>2, <2>1, <2>2 DEF Queued, TaskWait
  <2> QED
    BY <1>4, <2>3 DEF Enqueue, WaitType
<1>5. CASE NotifyNewTask(t)
  <2>1. Tells(t) \in Nat
    BY <1>3 DEF Tells, MemoryTells, RedisTells, SqlSpecTells, AlchemyTells, EphemeralTells, ChannelState
  <2>2. channel' \in ChannelState
    BY <1>3, <1>5, <2>1 DEF NotifyNewTask, ChannelState
  <2> DEFINE told == /\ HasWakeups /\ IsDue(t) /\ EnsureEventsQueueTable
                     /\ (channel.listening \/ KeepsMessages) /\ loop.pc # "backoff"
  <2>3. told \in BOOLEAN
    OBVIOUS
  <2>4. tasks' = [tasks EXCEPT ![t].telling = FALSE, ![t].heard = told]
    BY <1>5 DEF NotifyNewTask
  <2> HIDE DEF told
  <2>5. tasks' \in [Task -> TaskWait]
    BY <1>2, <2>3, <2>4 DEF TaskWait
  <2> QED
    BY <1>5, <2>2, <2>5 DEF NotifyNewTask, WaitType
<1>6. CASE NotificationLost(t)
  <2>1. tasks' \in [Task -> TaskWait]
    BY <1>2, <1>6 DEF NotificationLost, TaskWait
  <2> QED
    BY <1>6, <2>1, Fails DEF NotificationLost, WaitType
<1>7. CASE CancelsTask(t)
  <2>1. tasks' = [tasks EXCEPT ![t].status = "cancelled", ![t].ended = clock, ![t].telling = FALSE]
    BY <1>7 DEF CancelsTask
  <2>2. tasks' \in [Task -> TaskWait]
    <3>1. [tasks[t] EXCEPT !.status = "cancelled", !.ended = clock, !.telling = FALSE] \in TaskWait
      BY <1>1, <1>2 DEF TaskWait
    <3>2. tasks' = [tasks EXCEPT ![t] = [tasks[t] EXCEPT !.status = "cancelled", !.ended = clock, !.telling = FALSE]]
      BY <1>2, <2>1
    <3> QED
      BY <1>2, <3>1, <3>2
  <2>3. failures' \in Nat
    BY <1>7, Fails DEF CancelsTask, WaitType
  <2>4. reader' \in ReaderState
    BY <1>7 DEF CancelsTask, Publishes, ReaderState, WaitType
  <2>5. channel' \in ChannelState
    BY <1>3, <1>7 DEF CancelsTask, ChannelState
  <2> QED
    BY <1>7, <2>2, <2>3, <2>4, <2>5 DEF CancelsTask, WaitType
<1>8. CASE CallerStarts(t)
  <2>1. caller' \in CallerState
    BY <1>1, <1>8 DEF CallerStarts, CallerState, WaitType
  <2> QED
    BY <1>8, <2>1 DEF CallerStarts, WaitType
<1> QED
  BY <1>4, <1>5, <1>6, <1>7, <1>8

LEMMA LoopMoves ==
    ASSUME loop \in LoopState, clock \in Nat
    PROVE  /\ \A i \in Nat : Wakes(i) => loop' \in LoopState
           /\ \A i \in Nat : [loop EXCEPT !.pc = "claim", !.interval = i, !.known = {}] \in LoopState
           /\ \A i \in Nat : \A k \in SUBSET Task :
                 [loop EXCEPT !.pc = "listen", !.timeout = i, !.known = k] \in LoopState
           /\ PausesAfterError \in LoopState
           /\ [loop EXCEPT !.pc = "wait", !.deadline = clock + loop.timeout] \in LoopState
           /\ [loop EXCEPT !.interval = Reset] \in LoopState
           /\ \A pc \in {"claim", "look", "reconcile"} : [loop EXCEPT !.pc = pc] \in LoopState
           /\ [loop EXCEPT !.completion = TRUE] \in LoopState
           /\ [loop EXCEPT !.completion = FALSE, !.pc = "claim"] \in LoopState
<1>1. ASSUME NEW i \in Nat, Wakes(i) PROVE loop' \in LoopState
  BY <1>1 DEF Wakes, LoopState
<1>2. ASSUME NEW i \in Nat PROVE [loop EXCEPT !.pc = "claim", !.interval = i, !.known = {}] \in LoopState
  BY DEF LoopState
<1>3. ASSUME NEW i \in Nat, NEW k \in SUBSET Task
      PROVE  [loop EXCEPT !.pc = "listen", !.timeout = i, !.known = k] \in LoopState
  BY DEF LoopState
<1>4. PausesAfterError \in LoopState
  <2>1. clock + PollInterval \in Nat /\ PollInterval \in Nat
    BY Settings
  <2> QED
    BY <2>1 DEF PausesAfterError, Reset, LoopState
<1>5. [loop EXCEPT !.pc = "wait", !.deadline = clock + loop.timeout] \in LoopState
  <2>1. clock + loop.timeout \in Nat
    BY DEF LoopState
  <2> QED
    BY <2>1 DEF LoopState
<1>6. [loop EXCEPT !.interval = Reset] \in LoopState
  BY Settings DEF Reset, LoopState
<1>7. ASSUME NEW pc \in {"claim", "look", "reconcile"} PROVE [loop EXCEPT !.pc = pc] \in LoopState
  BY DEF LoopState
<1>8. [loop EXCEPT !.completion = TRUE] \in LoopState
  BY DEF LoopState
<1>9. [loop EXCEPT !.completion = FALSE, !.pc = "claim"] \in LoopState
  BY DEF LoopState
<1> QED
  BY <1>1, <1>2, <1>3, <1>4, <1>5, <1>6, <1>7, <1>8, <1>9

LEMMA LoopTypes ==
    ASSUME WaitType, Past, LoopInv, config' = config, LoopStep \/ ReadFails \/ ControlReadFails
    PROVE  WaitType'
<1>1. clock \in Nat
  BY DEF WaitType
<1>2. tasks \in [Task -> TaskWait]
  BY DEF WaitType
<1>3. channel \in ChannelState
  BY DEF WaitType
<1>4. loop \in LoopState
  BY DEF WaitType
<1>5. job \in JobState
  BY DEF WaitType
<1>6. /\ [channel EXCEPT !.listening = TRUE] \in ChannelState
      /\ [channel EXCEPT !.hint = FALSE] \in ChannelState
      /\ Unsubscribed \in ChannelState
      /\ \A n \in Nat : [channel EXCEPT !.messages = n] \in ChannelState
  BY <1>3 DEF Unsubscribed, ChannelState
<1>7. loop.interval \in Nat /\ Advanced(loop.interval) \in Nat /\ Reset \in Nat
  BY <1>4, AdvancedFacts, Settings DEF LoopState, Reset
<1>8. [job EXCEPT !.checked = clock] \in JobState /\ Freed \in JobState
  BY <1>1, <1>5, FreedFits DEF JobState
<1>10. CASE Iterate
  <2>1. CASE Checks /\ CancelsRunning
    <3>1. job' \in JobState /\ loop' \in LoopState /\ tasks' = tasks
      BY <1>1, <1>4, <1>8, <1>10, <2>1, LoopMoves DEF Iterate
    <3> QED
      BY <1>10, <3>1 DEF Iterate, WaitType
  <2>2. CASE ~(Checks /\ CancelsRunning) /\ job.task = Absent /\ Due # {}
    <3>1. PICK t \in Due :
              /\ job' = [job EXCEPT !.task = t, !.checked = clock]
              /\ tasks' = [Promoted EXCEPT ![t] = [@ EXCEPT !.status = "running", !.due = 0, !.born = 0, !.heard = FALSE]]
              /\ loop' = [loop EXCEPT !.interval = Reset]
      BY <1>10, <2>2 DEF Iterate
    <3>2. t \in Task
      BY DEF Due
    <3>3. Promoted \in [Task -> TaskWait]
      BY PromotedFacts
    <3>4. [Promoted[t] EXCEPT !.status = "running", !.due = 0, !.born = 0, !.heard = FALSE] \in TaskWait
      BY <3>2, <3>3 DEF TaskWait
    <3>5. tasks' \in [Task -> TaskWait]
      BY <3>1, <3>2, <3>3, <3>4
    <3>6. loop' \in LoopState
      BY <1>1, <1>4, <3>1, LoopMoves
    <3>7. job' \in JobState
      BY <1>1, <1>5, <3>1, <3>2 DEF JobState
    <3> QED
      BY <1>10, <3>5, <3>6, <3>7 DEF Iterate, WaitType
  <2>3. CASE ~(Checks /\ CancelsRunning) /\ ~(job.task = Absent /\ Due # {})
    <3>1. job' \in JobState /\ loop' \in LoopState /\ tasks' = tasks
      BY <1>1, <1>4, <1>5, <1>8, <1>10, <2>3, LoopMoves DEF Iterate
    <3> QED
      BY <1>10, <3>1 DEF Iterate, WaitType
  <2> QED
    BY <2>1, <2>2, <2>3
<1>11. CASE LooksForWork
  <2>1. loop' \in LoopState
    <3>1. CASE loop.completion
      BY <1>1, <1>4, <1>11, <3>1, LoopMoves DEF LooksForWork
    <3>2. CASE ~loop.completion
      <4>1. PICK timeout \in CurrentWaitTimeout(loop.interval) :
                loop' = [loop EXCEPT !.pc = "listen", !.timeout = timeout, !.known = Upcoming]
        BY <1>11, <3>2 DEF LooksForWork
      <4>2. timeout \in Nat /\ Upcoming \in SUBSET Task
        BY TimeoutFacts DEF Upcoming
      <4> QED
        BY <1>1, <1>4, <4>1, <4>2, LoopMoves
    <3> QED
      BY <3>1, <3>2
  <2> QED
    BY <1>11, <2>1 DEF LooksForWork, WaitType
<1>12. CASE Listens
  <2>1. channel' \in ChannelState
    BY <1>3, <1>6, <1>12 DEF Listens, Subscribes, PubSubSubscribed, StreamOpened, AsyncpgStarted, PsycopgStarted
  <2>2. loop' \in LoopState
    BY <1>1, <1>4, <1>12, LoopMoves DEF Listens, StartsWaiting
  <2> QED
    BY <1>12, <2>1, <2>2 DEF Listens, WaitType
<1>13. CASE Reconciles
  <2>1. loop' \in LoopState
    BY <1>1, <1>4, <1>7, <1>13, LoopMoves DEF Reconciles, StartsWaiting
  <2> QED
    BY <1>13, <2>1 DEF Reconciles, WaitType
<1>14. CASE WaitEnds
  <2>1. loop' \in LoopState
    BY <1>1, <1>4, <1>7, <1>14, LoopMoves DEF WaitEnds
  <2>2. Told => AfterRead \in Nat
    BY <1>3 DEF Told, AfterRead, MemoryRead, AsyncpgRead, PubSubRead, StreamRead, PsycopgRead, ChannelState
  <2>3. RetainedRead \in Nat
    BY <1>3 DEF RetainedRead, ChannelState
  <2>4. channel' \in ChannelState
    BY <1>3, <1>6, <1>14, <2>2, <2>3 DEF WaitEnds
  <2> QED
    BY <1>14, <2>1, <2>4 DEF WaitEnds, WaitType
<1>15. CASE HintArrives
  <2>1. loop' \in LoopState /\ job' \in JobState /\ channel' \in ChannelState
    BY <1>1, <1>4, <1>5, <1>6, <1>7, <1>8, <1>15, LoopMoves DEF HintArrives
  <2> QED
    BY <1>15, <2>1 DEF HintArrives, WaitType
<1>16. CASE BackoffEnds
  <2>1. loop' \in LoopState
    BY <1>1, <1>4, <1>16, LoopMoves DEF BackoffEnds
  <2> QED
    BY <1>16, <2>1 DEF BackoffEnds, WaitType
<1>17. CASE ReadFails
  <2>1. loop' \in LoopState /\ channel' \in ChannelState
    BY <1>1, <1>4, <1>6, <1>7, <1>17, LoopMoves DEF ReadFails, ResetPubSub, CloseNotificationStream, PsycopgCloses, AsyncpgDrops
  <2>2. \A t \in Task : [tasks[t] EXCEPT !.heard = FALSE] \in TaskWait
    BY <1>2 DEF TaskWait
  <2>3. tasks' \in [Task -> TaskWait]
    BY <1>17, <2>2 DEF ReadFails, Unheard
  <2> QED
    BY <1>17, <2>1, <2>3, Fails DEF ReadFails, WaitType
<1>18. CASE ControlReadFails
  <2>1. loop' \in LoopState /\ channel' \in ChannelState
    BY <1>1, <1>4, <1>6, <1>7, <1>18, LoopMoves DEF ControlReadFails, ResetControlPubSub, CloseControlStream
  <2> QED
    BY <1>18, <2>1, Fails DEF ControlReadFails, WaitType
<1> QED
  BY <1>10, <1>11, <1>12, <1>13, <1>14, <1>15, <1>16, <1>17, <1>18 DEF LoopStep

LEMMA OtherTypes ==
    ASSUME WaitType, CallerStep \/ CreateEventsQueueTable \/ JobEnds \/ ReaderDies \/ MessageLost \/ Tick
    PROVE  WaitType'
<1>0. clock \in Nat
  BY DEF WaitType
<1>1. CASE CallerRefreshes
  <2>1. caller \in CallerState
    BY DEF WaitType
  <2>2. CASE Ended(caller.task) \/ Remaining <= 0
    <3>1. caller' \in CallerState
      BY <1>1, <2>1, <2>2 DEF CallerRefreshes, CallerState
    <3> QED
      BY <1>1, <3>1 DEF CallerRefreshes, WaitType
  <2>3. CASE ~Ended(caller.task) /\ ~(Remaining <= 0)
    <3>1. Remaining \in Int /\ CallerPoll \in Int
      BY <1>0, <2>1, Settings DEF Remaining, CallerState
    <3>2. Min({CallerPoll, Remaining}) \in {CallerPoll, Remaining}
      BY <3>1, LeastOfTwo
    <3> DEFINE m == Min({CallerPoll, Remaining})
               pc == IF config.transport = "pubsub" THEN "register" ELSE "blocked"
    <3> HIDE DEF m
    <3>3. clock + m \in Nat
      BY <1>0, <2>3, <3>1, <3>2, Settings DEF m
    <3>4. caller' = [caller EXCEPT !.pc = pc, !.until = clock + m, !.answer = Absent]
      BY <1>1, <2>3 DEF CallerRefreshes, m
    <3>5. pc \in {"register", "blocked"}
      OBVIOUS
    <3> HIDE DEF pc
    <3>6. caller' \in CallerState
      BY <2>1, <3>3, <3>4, <3>5 DEF CallerState
    <3> QED
      BY <1>1, <3>6 DEF CallerRefreshes, WaitType
  <2> QED
    BY <2>2, <2>3
<1>2. CASE CallerRegisters
  <2>1. caller' \in CallerState
    BY <1>2 DEF CallerRegisters, AfterRegistration, CallerState, WaitType
  <2>2. reader' \in ReaderState
    BY <1>2 DEF CallerRegisters, ReaderState, WaitType
  <2> QED
    BY <1>2, <2>1, <2>2 DEF CallerRegisters, WaitType
<1>3. CASE CallerChecks
  <2>1. caller' \in CallerState
    BY <1>3 DEF CallerChecks, CallerState, WaitType
  <2> QED
    BY <1>3, <2>1 DEF CallerChecks, WaitType
<1>4. CASE CallerWakes
  <2>1. caller' \in CallerState
    BY <1>4 DEF CallerWakes, CallerState, WaitType
  <2> QED
    BY <1>4, <2>1 DEF CallerWakes, WaitType
<1>5. CASE ReaderReads
  <2>1. caller' \in CallerState
    BY <1>5 DEF ReaderReads, CallerState, WaitType
  <2>2. reader' \in ReaderState
    BY <1>5 DEF ReaderReads, ReaderState, WaitType
  <2> QED
    BY <1>5, <2>1, <2>2 DEF ReaderReads, WaitType
<1>6. CASE CreateEventsQueueTable
  <2>1. channel' \in ChannelState
    BY <1>6 DEF CreateEventsQueueTable, ChannelState, WaitType
  <2> QED
    BY <1>6, <2>1 DEF CreateEventsQueueTable, WaitType
<1>7. CASE JobEnds
  <2>1. job \in JobState /\ tasks \in [Task -> TaskWait] /\ loop \in LoopState /\ reader \in ReaderState
    BY DEF WaitType
  <2>2. job.task \in Task
    BY <1>7, <2>1 DEF JobEnds, JobState
  <2>3. loop' \in LoopState
    BY <1>0, <1>7, <2>1, LoopMoves DEF JobEnds
  <2>4. reader' \in ReaderState
    BY <1>7, <2>1, <2>2 DEF JobEnds, Publishes, ReaderState
  <2>5. Freed \in JobState /\ [Freed EXCEPT !.retries = @ + 1] \in JobState
    BY <1>0, <2>1, FreedFits DEF JobState
  <2>6. ASSUME NEW delay \in DueIn, Queued(job.task, delay) PROVE tasks' \in [Task -> TaskWait]
    <3>1. clock + delay \in Nat
      BY <1>0, Settings
    <3> QED
      BY <1>0, <2>1, <2>2, <2>6, <3>1 DEF Queued, TaskWait
  <2>7. [tasks EXCEPT ![job.task].status = "done", ![job.task].ended = clock] \in [Task -> TaskWait]
    BY <1>0, <2>1, <2>2 DEF TaskWait
  <2>8. tasks' \in [Task -> TaskWait]
    BY <1>7, <2>6, <2>7 DEF JobEnds
  <2> QED
    BY <1>7, <2>3, <2>4, <2>5, <2>8 DEF JobEnds, WaitType
<1>8. CASE ReaderDies
  <2>1. caller' \in CallerState
    BY <1>8 DEF ReaderDies, CallerState, WaitType
  <2>2. reader' \in ReaderState
    BY <1>8 DEF ReaderDies, ReaderState, WaitType
  <2> QED
    BY <1>8, <2>1, <2>2, Fails DEF ReaderDies, WaitType
<1>9. CASE MessageLost
  <2>1. reader' \in ReaderState
    BY <1>9 DEF MessageLost, ReaderState, WaitType
  <2> QED
    BY <1>9, <2>1, Fails DEF MessageLost, WaitType
<1>10. CASE Tick
  BY <1>10 DEF Tick, WaitType
<1> QED
  BY <1>1, <1>2, <1>3, <1>4, <1>5, <1>6, <1>7, <1>8, <1>9, <1>10 DEF CallerStep

LEMMA TypesKept ==
    ASSUME WaitType, Past, LoopInv, WaitNext, config' = config
    PROVE  WaitType'
  BY StoreTypes, LoopTypes, OtherTypes DEF WaitNext

----------------------------------------------------------------------------
\* The worker's side of the invariant.

\* All numbers that it speaks of.
LEMMA Numbers ==
    ASSUME WaitType
    PROVE  /\ clock \in Nat /\ failures \in Nat /\ Slack \in Nat
           /\ loop.deadline \in Nat /\ loop.timeout \in Nat /\ LookedAt \in Int
           /\ job.freed \in Nat /\ job.checked \in Nat
           /\ \A t \in Task : tasks[t].due \in Nat /\ tasks[t].born \in Nat /\ tasks[t].ended \in Nat
<1>1. clock \in Nat /\ failures \in Nat
  BY DEF WaitType
<1>2. Slack \in Nat
  BY <1>1, SlackGrows, Settings DEF Slack
<1>3. loop.deadline \in Nat /\ loop.timeout \in Nat
  BY DEF WaitType, LoopState
<1>4. LookedAt \in Int
  BY <1>1, <1>3 DEF LookedAt
<1>5. job.freed \in Nat /\ job.checked \in Nat
  BY DEF WaitType, JobState
<1>6. \A t \in Task : tasks[t].due \in Nat /\ tasks[t].born \in Nat /\ tasks[t].ended \in Nat
  BY DEF WaitType, TaskWait
<1> QED
  BY <1>1, <1>2, <1>3, <1>4, <1>5, <1>6

\* A task that waits as long as it did, to which a wake-up may be lost.
Same(t) ==
    /\ tasks'[t].status = tasks[t].status /\ tasks'[t].due = tasks[t].due
    /\ tasks'[t].born = tasks[t].born /\ tasks'[t].ended = tasks[t].ended
    /\ tasks'[t].telling => tasks[t].telling

\* The worker does not move.
LEMMA LoopStays ==
    ASSUME WaitType, WaitType', WorkerInv, UNCHANGED <<clock, loop, job, config>>,
           failures <= failures', \A t \in Task : Same(t), channel.table => channel'.table, Hearing'
    PROVE  WorkerInv'
<1> USE DEF Same
<1>1. /\ clock' = clock /\ loop' = loop /\ job' = job /\ config' = config
      /\ MaxWait' = MaxWait /\ LookedAt' = LookedAt /\ (Going' <=> Going)
  BY DEF MaxWait, LookedAt, Going
<1>2. Slack <= Slack' /\ Slack' \in Nat
  BY SlackGrows DEF WaitType
<1>3. /\ clock \in Nat /\ Slack \in Nat /\ Slack' \in Nat /\ MaxWait \in Nat /\ loop.deadline \in Nat
      /\ CancelInterval \in Nat /\ job.freed \in Nat
  BY <1>1, <1>2, Numbers, Settings
<1>4. \A t \in Task : tasks[t].due \in Nat /\ tasks[t].born \in Nat /\ tasks[t].ended \in Nat
  BY Numbers
<1>5. job.task # Absent => job.task \in Task
  BY DEF WaitType, JobState
<1>6. loop.known \in SUBSET Task
  BY DEF WaitType, LoopState
<1>7. Past'
  BY <1>1, <1>5 DEF WorkerInv, Past, Awaits
<1>8. LoopInv'
  BY <1>1, <1>6 DEF WorkerInv, LoopInv
<1>9. Promptness'
  <2> SUFFICES ASSUME job.task = Absent, NEW t \in Task, Awaits(t) PROVE Prompt(t)'
    BY <1>1 DEF Promptness, Awaits
  <2>1. Prompt(t)
    BY DEF WorkerInv, Promptness
  <2> QED
    BY <1>1, <1>2, <1>3, <1>4, <2>1 DEF Prompt, Reaches
<1>10. Knowing'
  <2> SUFFICES ASSUME config.backoff, NEW t \in loop.known, Awaits(t) PROVE Known(t)'
    BY <1>1, <1>6 DEF Knowing, Awaits
  <2>1. Known(t)
    BY DEF WorkerInv, Knowing
  <2> QED
    BY <1>1, <1>6, <2>1 DEF Known
<1>11. Seeing'
  <2> SUFFICES ASSUME config.transport = "exists", job.task = Absent, NEW t \in Due PROVE Reaches(clock, t)'
    BY <1>1 DEF WorkerInv, Seeing, Due, IsDue
  <2> QED
    BY <1>1 DEF WorkerInv, Seeing, Reaches, Due
<1>12. Cutting'
  <2> SUFFICES ASSUME CancelsRunning
               PROVE  /\ job.checked <= tasks[job.task].ended
                      /\ clock <= tasks[job.task].ended + CancelInterval + MaxWait + Slack'
                      /\ Going => LookedAt <= tasks[job.task].ended + CancelInterval
                      /\ loop.pc = "backoff" => loop.deadline <= tasks[job.task].ended + CancelInterval + MaxWait + Slack'
    BY <1>1, <1>5 DEF Cutting, CancelsRunning
  <2>1. job.task \in Task
    BY <1>5 DEF CancelsRunning
  <2> QED
    BY <1>2, <1>3, <1>4, <2>1 DEF WorkerInv, Cutting
<1> QED
  BY <1>7, <1>8, <1>9, <1>10, <1>11, <1>12 DEF WorkerInv

\* What a step does to the job, apart from a claim.
JobStays ==
    \/ job' = job
    \/ job' = Freed
    \/ ~CancelsRunning /\ job.task # Absent /\ job' = [job EXCEPT !.checked = clock]

\* The worker goes to claim.
LEMMA GoesToClaim ==
    ASSUME WaitType, WaitType', WorkerInv, UNCHANGED <<clock, config>>, failures <= failures',
           \A t \in Task : Same(t),
           \A t \in Task : Awaits(t) /\ tasks'[t].heard => Heard(t) /\ (channel'.listening \/ KeepsMessages),
           channel'.table = channel.table, JobStays,
           loop'.pc = "claim", loop'.known = {}, ~config.backoff => loop'.interval = PollInterval
    PROVE  WorkerInv'
<1> USE DEF Same
<1>1. /\ clock' = clock /\ config' = config
      /\ MaxWait' = MaxWait /\ ~Going'
  BY DEF MaxWait, Going
<1>2. Slack <= Slack' /\ Slack' \in Nat
  BY SlackGrows DEF WaitType
<1>3. /\ clock \in Nat /\ Slack \in Nat /\ Slack' \in Nat /\ MaxWait \in Nat
      /\ CancelInterval \in Nat /\ job.freed \in Nat
  BY <1>1, <1>2, Numbers, Settings
<1>4. \A t \in Task : tasks[t].due \in Nat /\ tasks[t].born \in Nat /\ tasks[t].ended \in Nat
  BY Numbers
<1>5. job.task # Absent => job.task \in Task
  BY DEF WaitType, JobState
<1>6. /\ job'.task # Absent => job'.task = job.task
      /\ job'.freed <= clock /\ job'.checked <= clock
      /\ job'.task = Absent => job'.freed = clock \/ (job.task = Absent /\ job'.freed = job.freed)
  <2>1. Freed.task = Absent /\ Freed.freed = clock /\ Freed.checked = 0
    BY DEF Freed, WaitType, JobState
  <2>2. job.freed <= clock /\ job.checked <= clock
    BY DEF WorkerInv, Past
  <2>3. CASE job' = job
    BY <2>2, <2>3
  <2>4. CASE job' = Freed
    BY <1>3, <2>1, <2>4
  <2>5. CASE job.task # Absent /\ job' = [job EXCEPT !.checked = clock]
    <3>1. job'.task = job.task /\ job'.freed = job.freed /\ job'.checked = clock
      BY <2>5 DEF WaitType, JobState
    <3> QED
      BY <1>3, <2>2, <2>5, <3>1
  <2> QED
    BY <2>3, <2>4, <2>5 DEF JobStays
<1>7. Past'
  BY <1>1, <1>5, <1>6 DEF WorkerInv, Past, Awaits
<1>8. LoopInv'
  BY <1>1 DEF WorkerInv, LoopInv
<1>9. \A t \in Task : \A x \in Int : x <= clock /\ job'.task = Absent /\ (job.task = Absent => Reaches(x, t)) => Reaches(x, t)'
  BY <1>3, <1>6 DEF Reaches
<1>10. Promptness'
  <2> SUFFICES ASSUME job'.task = Absent, NEW t \in Task, Awaits(t) PROVE Prompt(t)'
    BY DEF Promptness, Awaits
  <2>1. job.task = Absent => Reaches(clock - MaxWait - Slack, t)
    BY DEF WorkerInv, Promptness, Prompt
  <2>2. Reaches(clock - MaxWait - Slack, t)'
    <3>1. job.task = Absent => Reaches(clock - MaxWait - Slack', t)
      BY <1>2, <1>3, <1>4, <2>1 DEF Reaches
    <3>2. clock - MaxWait - Slack' \in Int /\ clock - MaxWait - Slack' <= clock
      <4>1. \A a, b, c \in Nat : a - b - c \in Int /\ a - b - c <= a
        OBVIOUS
      <4> QED
        BY <1>3, <4>1
    <3> QED
      BY <1>1, <1>9, <3>1, <3>2 DEF Reaches
  <2> QED
    BY <1>1, <2>2 DEF Prompt
<1>11. Hearing'
  <2> SUFFICES ASSUME NEW t \in Task, Awaits(t), tasks'[t].heard PROVE Heard(t)'
    BY DEF Hearing, Awaits
  <2>1. Heard(t) /\ (channel'.listening \/ KeepsMessages)
    OBVIOUS
  <2>2. (HasWakeups' <=> HasWakeups) /\ (KeepsMessages' <=> KeepsMessages)
    BY <1>1 DEF HasWakeups, KeepsMessages
  <2>3. job'.task = Absent => Reaches(clock, t)'
    BY <1>1, <1>3, <1>9, <2>1 DEF Heard, Reaches
  <2> QED
    BY <1>1, <2>1, <2>2, <2>3 DEF Heard
<1>12. Knowing' /\ Seeing'
  <2>1. Due' = Due
    BY <1>1 DEF Due, IsDue
  <2>2. ASSUME config.transport = "exists", job'.task = Absent, NEW t \in Due PROVE Reaches(clock, t)'
    <3>1. job.task = Absent => Reaches(clock, t)
      BY <2>2 DEF WorkerInv, Seeing
    <3>2. t \in Task
      BY DEF Due
    <3> QED
      BY <1>1, <1>3, <1>9, <2>2, <3>1, <3>2 DEF Reaches
  <2> QED
    BY <1>1, <2>1, <2>2 DEF Knowing, Seeing
<1>13. Cutting'
  <2> SUFFICES ASSUME CancelsRunning'
               PROVE  /\ job'.checked <= tasks'[job'.task].ended
                      /\ clock <= tasks'[job'.task].ended + CancelInterval + MaxWait + Slack'
    BY <1>1 DEF Cutting
  <2>1. job'.task = job.task /\ job.task \in Task /\ CancelsRunning
    BY <1>5, <1>6 DEF CancelsRunning
  <2>2. job' = job
    BY <2>1 DEF JobStays, Freed, CancelsRunning, WaitType, JobState
  <2> QED
    BY <1>2, <1>3, <1>4, <2>1, <2>2 DEF WorkerInv, Cutting
<1> QED
  BY <1>7, <1>8, <1>10, <1>11, <1>12, <1>13 DEF WorkerInv

\* The worker pauses after an error.
LEMMA PausesNow ==
    ASSUME WaitType, WaitType', WorkerInv, UNCHANGED <<clock, config, job>>, failures <= failures',
           \A t \in Task : Same(t),
           \A t \in Task : Awaits(t) => ~tasks'[t].heard,
           channel'.table = channel.table, loop' = PausesAfterError, config.transport # "exists",
           loop.pc = "listen" \/ failures < failures'
    PROVE  WorkerInv'
<1> USE DEF Same
<1>1. /\ clock' = clock /\ config' = config /\ job' = job
      /\ MaxWait' = MaxWait /\ ~Going' /\ loop'.pc = "backoff" /\ loop'.known = {}
      /\ loop'.interval = PollInterval /\ loop'.deadline = clock + PollInterval
  BY DEF MaxWait, Going, PausesAfterError, Reset, WaitType, LoopState
<1>2. Slack <= Slack' /\ Slack' \in Nat /\ (failures < failures' => Slack + PollInterval <= Slack')
  BY SlackGrows DEF WaitType
<1>3. /\ clock \in Nat /\ Slack \in Nat /\ Slack' \in Nat /\ MaxWait \in Nat
      /\ CancelInterval \in Nat /\ job.freed \in Nat /\ PollInterval \in Nat /\ PollInterval <= MaxWait
  BY <1>1, <1>2, Numbers, Settings
<1>4. \A t \in Task : tasks[t].due \in Nat /\ tasks[t].born \in Nat /\ tasks[t].ended \in Nat
  BY Numbers
<1>5. job.task # Absent => job.task \in Task
  BY DEF WaitType, JobState
<1>6. loop.pc = "listen" => Going /\ LookedAt = clock
  BY DEF Going, LookedAt
<1>7. Past'
  BY <1>1, <1>5 DEF WorkerInv, Past, Awaits
<1>8. LoopInv'
  BY <1>1, <1>3 DEF WorkerInv, LoopInv
<1>9. Promptness'
  <2> SUFFICES ASSUME job.task = Absent, NEW t \in Task, Awaits(t) PROVE Prompt(t)'
    BY <1>1 DEF Promptness, Awaits
  <2>1. Prompt(t)
    BY DEF WorkerInv, Promptness
  <2>2. Reaches(clock - MaxWait - Slack, t)
    BY <2>1 DEF Prompt
  <2>3. loop.pc = "listen" => Reaches(clock, t)
    BY <1>6, <2>1 DEF Prompt
  <2>4. Reaches(clock - MaxWait - Slack', t)
    BY <1>2, <1>3, <1>4, <2>2 DEF Reaches
  <2>5. Reaches(clock + PollInterval - MaxWait - Slack', t)
    BY <1>2, <1>3, <1>4, <2>2, <2>3 DEF Reaches
  <2>6. Reaches(clock - MaxWait - Slack, t)'
    BY <1>1, <2>4 DEF Reaches
  <2>7. Reaches(loop.deadline - MaxWait - Slack, t)'
    BY <1>1, <1>3, <2>5 DEF Reaches
  <2> QED
    BY <1>1, <2>6, <2>7 DEF Prompt
<1>10. Hearing' /\ Knowing' /\ Seeing'
  BY <1>1 DEF Hearing, Knowing, Seeing, Awaits
<1>11. Cutting'
  <2> SUFFICES ASSUME CancelsRunning
               PROVE  /\ job.checked <= tasks[job.task].ended
                      /\ clock <= tasks[job.task].ended + CancelInterval + MaxWait + Slack'
                      /\ clock + PollInterval <= tasks[job.task].ended + CancelInterval + MaxWait + Slack'
    BY <1>1, <1>5 DEF Cutting, CancelsRunning
  <2>1. job.task \in Task
    BY <1>5 DEF CancelsRunning
  <2>2. /\ job.checked <= tasks[job.task].ended
        /\ clock <= tasks[job.task].ended + CancelInterval + MaxWait + Slack
        /\ loop.pc = "listen" => clock <= tasks[job.task].ended + CancelInterval
    BY <1>6 DEF WorkerInv, Cutting
  <2> QED
    BY <1>2, <1>3, <1>4, <2>1, <2>2
<1> QED
  BY <1>7, <1>8, <1>9, <1>10, <1>11 DEF WorkerInv

----------------------------------------------------------------------------
\* The steps of the worker.

LEMMA CallerKeepsWorker ==
    ASSUME WaitType, WaitType', WorkerInv, UNCHANGED <<clock, tasks, loop, channel, job, config>>, failures <= failures'
    PROVE  WorkerInv'
<1>1. Hearing'
  BY DEF WorkerInv, Hearing, Awaits, Heard, HasWakeups, KeepsMessages, Reaches, Going
<1>2. \A t \in Task : Same(t)
  BY DEF Same
<1> QED
  BY <1>1, <1>2, LoopStays

\* A step of the worker that leaves the store alone.
LEMMA SameWhenUnchanged ==
    ASSUME tasks' = tasks
    PROVE  \A t \in Task : Same(t)
  BY DEF Same

LEMMA NotesFailure ==
    ASSUME WaitType, failures' = failures \/ Failure
    PROVE  failures <= failures' /\ (Failure => failures < failures')
<1>1. failures \in Nat
  BY DEF WaitType
<1> QED
  BY <1>1, Fails

LEMMA WaitEndsKeeps ==
    ASSUME WaitType, WaitType', WorkerInv, config' = config, WaitEnds \/ HintArrives \/ BackoffEnds \/ ControlReadFails
    PROVE  WorkerInv'
<1>1. UNCHANGED <<clock, tasks>> /\ failures <= failures'
  BY NotesFailure DEF WaitEnds, HintArrives, BackoffEnds, ControlReadFails
<1>2. channel'.table = channel.table /\ channel'.listening = channel.listening
  <2>1. channel \in ChannelState
    BY DEF WaitType
  <2>2. \/ channel' = channel
        \/ \E n : channel' = [channel EXCEPT !.messages = n]
        \/ channel' = [channel EXCEPT !.hint = FALSE]
    BY DEF WaitEnds, HintArrives, BackoffEnds, ControlReadFails, ResetControlPubSub, CloseControlStream
  <2> QED
    BY <2>1, <2>2 DEF ChannelState
<1>3. JobStays
  BY DEF JobStays, WaitEnds, HintArrives, BackoffEnds, ControlReadFails
<1>4. loop'.pc = "claim" /\ loop'.known = {} /\ (~config.backoff => loop'.interval = PollInterval)
  <2>1. loop \in LoopState
    BY DEF WaitType
  <2>2. ~config.backoff => loop.interval = PollInterval /\ Advanced(loop.interval) = PollInterval
    BY AdvancedFacts DEF WorkerInv, LoopInv
  <2>3. \A i : Wakes(i) => loop'.pc = "claim" /\ loop'.known = {} /\ loop'.interval = i
    BY <2>1 DEF Wakes, LoopState
  <2>4. CASE WaitEnds
    BY <2>2, <2>3, <2>4 DEF WaitEnds, Reset
  <2>5. CASE HintArrives \/ ControlReadFails
    BY <2>2, <2>3, <2>5 DEF HintArrives, ControlReadFails
  <2>6. CASE BackoffEnds
    <3>1. loop' = [loop EXCEPT !.pc = "claim"] /\ loop.known = {}
      BY <2>6 DEF BackoffEnds, WorkerInv, LoopInv
    <3> QED
      BY <2>1, <2>2, <3>1 DEF LoopState
  <2> QED
    BY <2>4, <2>5, <2>6
<1>5. \A t \in Task : Awaits(t) /\ tasks'[t].heard => Heard(t) /\ (channel'.listening \/ KeepsMessages)
  BY <1>1, <1>2 DEF WorkerInv, Hearing, Heard
<1> QED
  BY <1>1, <1>2, <1>3, <1>4, <1>5, SameWhenUnchanged, GoesToClaim

LEMMA ReadFailsKeeps ==
    ASSUME WaitType, WaitType', WorkerInv, config' = config, ReadFails
    PROVE  WorkerInv'
<1>1. failures <= failures' /\ failures < failures' /\ UNCHANGED <<clock, job>>
  BY NotesFailure DEF ReadFails
<1>2. \A t \in Task : Same(t) /\ ~tasks'[t].heard
  <2>1. tasks \in [Task -> TaskWait] /\ tasks' = Unheard
    BY DEF WaitType, ReadFails
  <2> TAKE t \in Task
  <2>2. tasks'[t] = [tasks[t] EXCEPT !.heard = FALSE] /\ tasks[t] \in TaskWait
    BY <2>1 DEF Unheard
  <2> QED
    BY <2>2 DEF Same, TaskWait
<1>3. channel'.table = channel.table
  BY DEF ReadFails, ResetPubSub, CloseNotificationStream, PsycopgCloses, AsyncpgDrops, Unsubscribed, WaitType, ChannelState
<1>4. CASE loop' = PausesAfterError /\ config.transport # "exists"
  BY <1>1, <1>2, <1>3, <1>4, PausesNow
<1>5. CASE PsycopgCloses
  <2>1. loop'.pc = "claim" /\ loop'.known = {} /\ loop'.interval = Advanced(loop.interval)
    BY <1>5 DEF PsycopgCloses, WaitType, LoopState
  <2>2. ~config.backoff => loop'.interval = PollInterval
    BY <2>1, AdvancedFacts DEF WorkerInv
  <2> QED
    BY <1>1, <1>2, <1>3, <2>1, <2>2, GoesToClaim DEF JobStays
<1>6. CASE AsyncpgDrops
  <2>1. loop' = loop
    BY <1>6 DEF AsyncpgDrops
  <2>2. Hearing'
    BY <1>2 DEF Hearing, Awaits
  <2> QED
    BY <1>1, <1>2, <1>3, <2>1, <2>2, LoopStays
<1> QED
  BY <1>4, <1>5, <1>6 DEF ReadFails, ResetPubSub, CloseNotificationStream

\* The worker goes on from a look at the store to its wait.
LEMMA GoesOn ==
    ASSUME WaitType, WaitType', WorkerInv, UNCHANGED <<clock, tasks, job, failures, config>>,
           loop.pc \in {"look", "listen", "reconcile"}, loop'.pc \in {"listen", "reconcile", "wait"},
           loop'.interval = loop.interval, loop'.completion = loop.completion,
           loop'.timeout <= MaxWait, loop'.pc = "wait" => loop'.deadline = clock + loop'.timeout,
           \A t \in loop'.known : tasks[t].status \in {"queued", "cancelled"},
           config.backoff => \A t \in loop'.known :
               Awaits(t) => clock < tasks[t].due /\ clock + loop'.timeout <= tasks[t].due,
           channel'.table = channel.table, channel'.messages = channel.messages,
           channel.listening => channel'.listening
    PROVE  WorkerInv'
<1>1. /\ clock' = clock /\ tasks' = tasks /\ job' = job /\ config' = config /\ failures' = failures
      /\ MaxWait' = MaxWait /\ Slack' = Slack /\ Going /\ Going' /\ LookedAt = clock
  BY DEF MaxWait, Slack, Going, LookedAt
<1>2. /\ clock \in Nat /\ loop'.timeout \in Nat /\ MaxWait \in Nat /\ Slack \in Nat
  BY Numbers, Settings DEF WaitType, LoopState
<1>3. LookedAt' = clock
  <2>1. CASE loop'.pc = "wait"
    BY <1>1, <1>2, <2>1 DEF LookedAt
  <2>2. CASE loop'.pc # "wait"
    BY <1>1, <2>2 DEF LookedAt
  <2> QED
    BY <2>1, <2>2
<1>4. Past'
  BY <1>1 DEF WorkerInv, Past, Awaits
<1>5. LoopInv'
  BY <1>1, <1>2, <1>3 DEF WorkerInv, LoopInv
<1>6. \A t \in Task : \A x : Reaches(x, t)' <=> Reaches(x', t)
  BY <1>1 DEF Reaches
<1>7. Promptness'
  <2> SUFFICES ASSUME job.task = Absent, NEW t \in Task, Awaits(t) PROVE Prompt(t)'
    BY <1>1 DEF Promptness, Awaits
  <2>1. Prompt(t)
    BY DEF WorkerInv, Promptness
  <2> QED
    BY <1>1, <1>3, <2>1 DEF Prompt, Reaches
<1>8. Hearing'
  <2> SUFFICES ASSUME NEW t \in Task, Awaits(t), tasks[t].heard PROVE Heard(t)'
    BY <1>1 DEF Hearing, Awaits
  <2>1. Heard(t)
    BY DEF WorkerInv, Hearing
  <2> QED
    BY <1>1, <2>1 DEF Heard, HasWakeups, KeepsMessages, Reaches
<1>9. Knowing'
  <2> SUFFICES ASSUME config.backoff, NEW t \in loop'.known, Awaits(t) PROVE Known(t)'
    BY <1>1 DEF Knowing, Awaits
  <2> QED
    BY <1>1, <1>3 DEF Known
<1>10. Seeing'
  BY <1>1 DEF WorkerInv, Seeing, Due, IsDue, Reaches
<1>11. Cutting'
  BY <1>1, <1>3 DEF WorkerInv, Cutting, CancelsRunning
<1> QED
  BY <1>4, <1>5, <1>7, <1>8, <1>9, <1>10, <1>11 DEF WorkerInv

LEMMA LooksForWorkKeeps ==
    ASSUME WaitType, WaitType', WorkerInv, config' = config, LooksForWork
    PROVE  WorkerInv'
<1>1. loop \in LoopState /\ UNCHANGED <<clock, tasks, channel, job, failures>> /\ loop.pc = "look"
  BY DEF WaitType, LooksForWork
<1>2. CASE loop.completion
  <2>1. loop' = [loop EXCEPT !.completion = FALSE, !.pc = "claim"] /\ loop.known = {}
    BY <1>1, <1>2 DEF LooksForWork, WorkerInv, LoopInv
  <2>2. loop'.pc = "claim" /\ loop'.known = {} /\ loop'.interval = loop.interval
    BY <1>1, <2>1 DEF LoopState
  <2>3. \A t \in Task : Awaits(t) /\ tasks'[t].heard => Heard(t) /\ (channel'.listening \/ KeepsMessages)
    BY <1>1 DEF WorkerInv, Hearing, Heard
  <2>4. failures <= failures'
    BY <1>1, NotesFailure
  <2> QED
    BY <1>1, <2>2, <2>3, <2>4, GoesToClaim, SameWhenUnchanged DEF JobStays, WorkerInv, LoopInv
<1>3. CASE ~loop.completion
  <2>1. PICK timeout \in CurrentWaitTimeout(loop.interval) :
            loop' = [loop EXCEPT !.pc = "listen", !.timeout = timeout, !.known = Upcoming]
    BY <1>3 DEF LooksForWork
  <2>2. /\ timeout \in Nat /\ timeout <= MaxWait
        /\ config.backoff => \A t \in Upcoming : clock + timeout <= tasks[t].due
    BY TimeoutFacts DEF WorkerInv
  <2>3. /\ loop'.pc = "listen" /\ loop'.interval = loop.interval /\ loop'.completion = loop.completion
        /\ loop'.timeout = timeout /\ loop'.known = Upcoming
    BY <1>1, <2>1 DEF LoopState
  <2>4. \A t \in Upcoming : tasks[t].status = "queued" /\ clock < tasks[t].due
    <3>1. \A t \in Task : tasks[t].due \in Nat /\ clock \in Nat
      BY Numbers
    <3> QED
      BY <3>1 DEF Upcoming
  <2> QED
    BY <1>1, <2>2, <2>3, <2>4, GoesOn
<1> QED
  BY <1>2, <1>3

\* A wait that begins from where the worker already was on its way.
LEMMA LoopGoesOn ==
    ASSUME WaitType, WaitType', WorkerInv, UNCHANGED <<clock, tasks, job, failures, config>>,
           loop.pc \in {"listen", "reconcile"}, StartsWaiting \/ loop' = [loop EXCEPT !.pc = "reconcile"],
           channel'.table = channel.table, channel'.messages = channel.messages,
           channel.listening => channel'.listening
    PROVE  WorkerInv'
<1>1. loop \in LoopState /\ clock \in Nat
  BY DEF WaitType
<1>2. /\ loop'.pc \in {"reconcile", "wait"} /\ loop'.interval = loop.interval /\ loop'.completion = loop.completion
      /\ loop'.timeout = loop.timeout /\ loop'.known = loop.known
      /\ loop'.pc = "wait" => loop'.deadline = clock + loop.timeout
  BY <1>1 DEF StartsWaiting, LoopState
<1>3. loop.timeout <= MaxWait /\ \A t \in loop.known : tasks[t].status \in {"queued", "cancelled"}
  BY DEF WorkerInv, LoopInv
<1>4. config.backoff => \A t \in loop.known : Awaits(t) => clock < tasks[t].due /\ clock + loop.timeout <= tasks[t].due
  BY DEF WorkerInv, Knowing, Known, LookedAt
<1> QED
  BY <1>2, <1>3, <1>4, GoesOn

LEMMA ListensKeeps ==
    ASSUME WaitType, WaitType', WorkerInv, config' = config, Listens
    PROVE  WorkerInv'
<1>1. loop \in LoopState /\ channel \in ChannelState /\ UNCHANGED <<clock, tasks, job, failures>> /\ loop.pc = "listen"
  BY DEF WaitType, Listens
<1>2. CASE ~EnsureEventsQueueTable
  <2>1. channel' = channel /\ loop' = PausesAfterError /\ ~channel.table
    BY <1>2 DEF Listens, EnsureEventsQueueTable
  <2>2. config.transport = "table"
    BY <2>1 DEF WorkerInv, LoopInv
  <2>3. \A t \in Task : Awaits(t) => ~tasks'[t].heard
    BY <1>1, <2>1 DEF WorkerInv, Hearing, Heard
  <2>4. failures <= failures'
    BY <1>1, NotesFailure
  <2> QED
    BY <1>1, <2>1, <2>2, <2>3, <2>4, SameWhenUnchanged, PausesNow
<1>3. CASE EnsureEventsQueueTable
  <2>1. Subscribes /\ (StartsWaiting \/ loop' = [loop EXCEPT !.pc = "reconcile"])
    BY <1>3 DEF Listens
  <2>2. channel' = channel \/ channel' = [channel EXCEPT !.listening = TRUE]
    BY <2>1 DEF Subscribes, PubSubSubscribed, StreamOpened, AsyncpgStarted, PsycopgStarted
  <2>3. /\ channel'.table = channel.table /\ channel'.messages = channel.messages
        /\ channel.listening => channel'.listening
    BY <1>1, <2>2 DEF ChannelState
  <2> QED
    BY <1>1, <2>1, <2>3, LoopGoesOn
<1> QED
  BY <1>2, <1>3

LEMMA ReconcilesKeeps ==
    ASSUME WaitType, WaitType', WorkerInv, config' = config, Reconciles
    PROVE  WorkerInv'
<1>1. loop \in LoopState /\ UNCHANGED <<clock, tasks, channel, job, failures>> /\ loop.pc = "reconcile"
  BY DEF WaitType, Reconciles
<1>2. CASE StartsWaiting
  BY <1>1, <1>2, LoopGoesOn
<1>3. CASE Wakes(Reset)
  <2>1. loop'.pc = "claim" /\ loop'.known = {} /\ loop'.interval = PollInterval
    BY <1>1, <1>3 DEF Wakes, Reset, LoopState
  <2>2. \A t \in Task : Awaits(t) /\ tasks'[t].heard => Heard(t) /\ (channel'.listening \/ KeepsMessages)
    BY <1>1 DEF WorkerInv, Hearing, Heard
  <2>3. failures <= failures'
    BY <1>1, NotesFailure
  <2> QED
    BY <1>1, <2>1, <2>2, <2>3, SameWhenUnchanged, GoesToClaim DEF JobStays
<1> QED
  BY <1>2, <1>3 DEF Reconciles

\* The worker claims, looks at its job, or finds nothing to do.
LEMMA IterateKeeps ==
    ASSUME WaitType, WaitType', WorkerInv, config' = config, Iterate
    PROVE  WorkerInv'
<1>1. UNCHANGED <<clock, channel, failures>> /\ loop.pc = "claim" /\ loop.known = {}
  BY DEF Iterate, WorkerInv, LoopInv
<1>2. failures <= failures'
  BY <1>1, NotesFailure
<1>3. loop \in LoopState /\ job \in JobState /\ tasks \in [Task -> TaskWait]
  BY DEF WaitType
<1>4. CASE Checks /\ CancelsRunning
  <2>1. job' = Freed /\ loop' = [loop EXCEPT !.completion = TRUE] /\ tasks' = tasks
    BY <1>4 DEF Iterate
  <2>2. loop'.pc = "claim" /\ loop'.known = {} /\ loop'.interval = loop.interval
    BY <1>1, <1>3, <2>1 DEF LoopState
  <2>3. \A t \in Task : Awaits(t) /\ tasks'[t].heard => Heard(t) /\ (channel'.listening \/ KeepsMessages)
    BY <1>1, <2>1 DEF WorkerInv, Hearing, Heard
  <2> QED
    BY <1>1, <1>2, <2>1, <2>2, <2>3, SameWhenUnchanged, GoesToClaim DEF JobStays, WorkerInv, LoopInv
<1>5. CASE ~(Checks /\ CancelsRunning) /\ job.task = Absent /\ Due # {}
  <2>1. PICK c \in Due :
            /\ job' = [job EXCEPT !.task = c, !.checked = clock]
            /\ tasks' = [Promoted EXCEPT ![c] = [@ EXCEPT !.status = "running", !.due = 0, !.born = 0, !.heard = FALSE]]
            /\ loop' = [loop EXCEPT !.interval = Reset]
    BY <1>5 DEF Iterate
  <2>2. c \in Task /\ c # Absent
    BY Settings DEF Due
  <2>3. Promoted \in [Task -> TaskWait]
    BY PromotedFacts
  <2>4. /\ tasks'[c].status = "running" /\ tasks'[c].ended = tasks[c].ended /\ tasks'[c].born = 0
    BY <2>1, <2>2, <2>3, PromotedFacts DEF TaskWait
  <2>5. \A t \in Task \ {c} : tasks'[t] = Promoted[t]
    BY <2>1, <2>2, <2>3
  <2>6. job'.task = c /\ job'.checked = clock /\ job'.freed = job.freed
    BY <1>3, <2>1 DEF JobState
  <2>7. loop'.pc = "claim" /\ loop'.known = {} /\ loop'.interval = PollInterval
    BY <1>1, <1>3, <2>1 DEF LoopState, Reset
  <2>8. Past'
    <3>1. clock \in Nat /\ job.freed <= clock
      BY Numbers DEF WorkerInv, Past
    <3>2. ASSUME NEW t \in Task
          PROVE  /\ tasks'[t].born <= clock /\ tasks'[t].ended <= clock
                 /\ tasks'[t].telling /\ tasks'[t].status = "queued" => tasks'[t].born = clock
      <4>1. tasks[t].born \in Nat /\ tasks[t].due \in Nat
        BY Numbers
      <4>2. /\ tasks[t].born <= clock /\ tasks[t].ended <= clock
            /\ tasks[t].telling /\ tasks[t].status = "queued" => tasks[t].born = clock
        BY DEF WorkerInv, Past, Awaits
      <4>3. CASE t = c
        BY <2>4, <3>1, <4>2, <4>3
      <4>4. CASE t # c /\ Promoted[t].born = tasks[t].born
        BY <2>5, <4>2, <4>4, PromotedFacts
      <4>5. CASE t # c /\ IsDue(t) /\ Promoted[t].born = tasks[t].due /\ tasks[t].born <= tasks[t].due
        <5>1. tasks'[t].born = tasks[t].due /\ tasks'[t].ended = tasks[t].ended
          BY <2>5, <4>5, PromotedFacts
        <5>2. tasks'[t].telling /\ tasks'[t].status = "queued" => tasks[t].telling /\ tasks[t].status = "queued"
          BY <2>5, <4>5, PromotedFacts
        <5>3. tasks[t].due <= clock
          BY <4>5 DEF IsDue
        <5> QED
          BY <3>1, <4>1, <4>2, <4>5, <5>1, <5>2, <5>3
      <4> QED
        BY <4>3, <4>4, <4>5, PromotedFacts
    <3> QED
      BY <1>1, <2>4, <2>6, <3>1, <3>2 DEF Past, Awaits
  <2>9. LoopInv'
    BY <1>1, <2>7 DEF LoopInv, WorkerInv, MaxWait
  <2>10. Promptness' /\ Knowing' /\ Seeing'
    BY <2>2, <2>6, <2>7 DEF Promptness, Knowing, Seeing
  <2>11. Hearing'
    <3> SUFFICES ASSUME NEW t \in Task, Awaits(t)', tasks'[t].heard PROVE Heard(t)'
      BY DEF Hearing
    <3>1. t # c
      BY <2>4 DEF Awaits
    <3>2. tasks'[t].due = tasks[t].due /\ Awaits(t) /\ tasks[t].heard
      BY <2>5, <3>1, PromotedFacts DEF Awaits
    <3>3. Heard(t)
      BY <3>2 DEF WorkerInv, Hearing
    <3> QED
      BY <1>1, <2>2, <2>6, <2>7, <3>2, <3>3 DEF Heard, HasWakeups, KeepsMessages
  <2>12. Cutting'
    BY <2>4, <2>6 DEF Cutting, CancelsRunning
  <2> QED
    BY <2>8, <2>9, <2>10, <2>11, <2>12 DEF WorkerInv
<1>6. CASE ~(Checks /\ CancelsRunning) /\ ~(job.task = Absent /\ Due # {})
  <2>1. /\ loop' = [loop EXCEPT !.pc = "look"] /\ tasks' = tasks
        /\ job' = IF Checks THEN [job EXCEPT !.checked = clock] ELSE job
    BY <1>6 DEF Iterate
  <2>2. loop'.pc = "look" /\ loop'.known = {} /\ loop'.interval = loop.interval
    BY <1>1, <1>3, <2>1 DEF LoopState
  <2>3. job'.task = job.task /\ job'.freed = job.freed /\ (job'.checked = job.checked \/ (Checks /\ job'.checked = clock))
    BY <1>3, <2>1 DEF JobState
  <2>4. clock \in Nat /\ job.checked \in Nat /\ CancelInterval \in Nat
    BY Numbers, Settings
  <2>5. Past'
    BY <1>1, <2>1, <2>3, <2>4 DEF WorkerInv, Past, Awaits
  <2>6. MaxWait' = MaxWait /\ Slack' = Slack /\ LookedAt' = clock
    BY <1>1, <2>2 DEF MaxWait, Slack, LookedAt
  <2>7. LoopInv'
    BY <1>1, <2>2, <2>6 DEF WorkerInv, LoopInv
  <2>8. ASSUME job.task = Absent, NEW t \in Task, Awaits(t) PROVE ~(tasks[t].due <= clock)
    BY <1>6, <2>8 DEF Due, IsDue, Awaits
  <2>9. Promptness'
    <3> SUFFICES ASSUME job.task = Absent, NEW t \in Task, Awaits(t) PROVE Prompt(t)'
      BY <2>1, <2>3 DEF Promptness, Awaits
    <3>1. Prompt(t)
      BY DEF WorkerInv, Promptness
    <3>2. clock <= tasks[t].due
      BY <2>4, <2>8, Numbers
    <3> QED
      BY <1>1, <2>1, <2>2, <2>3, <2>6, <3>1, <3>2 DEF Prompt, Reaches
  <2>10. Hearing'
    <3> SUFFICES ASSUME NEW t \in Task, Awaits(t), tasks[t].heard PROVE Heard(t)'
      BY <2>1 DEF Hearing, Awaits
    <3>1. Heard(t)
      BY DEF WorkerInv, Hearing
    <3>2. job.task # Absent
      BY <2>8, <3>1 DEF Heard
    <3> QED
      BY <1>1, <2>1, <2>2, <2>3, <3>1, <3>2 DEF Heard, HasWakeups, KeepsMessages
  <2>11. Knowing' /\ Seeing'
    BY <1>1, <2>1, <2>2, <2>3 DEF Knowing, Seeing, WorkerInv, Due, IsDue, Reaches
  <2>12. Cutting'
    <3> SUFFICES ASSUME CancelsRunning
                 PROVE  /\ job'.checked <= tasks[job.task].ended
                        /\ clock <= tasks[job.task].ended + CancelInterval + MaxWait + Slack
                        /\ clock <= tasks[job.task].ended + CancelInterval
      BY <1>1, <2>1, <2>2, <2>3, <2>6 DEF Cutting, CancelsRunning
    <3>1. job.task \in Task /\ tasks[job.task].ended \in Nat
      BY <1>3, Numbers DEF CancelsRunning, JobState
    <3>2. /\ job.checked <= tasks[job.task].ended
          /\ clock <= tasks[job.task].ended + CancelInterval + MaxWait + Slack
      BY DEF WorkerInv, Cutting
    <3>3. ~Checks
      BY <1>6
    <3>4. ~(clock - job.checked >= CancelInterval)
      BY <3>3 DEF Checks, CancelsRunning
    <3> QED
      BY <2>3, <2>4, <3>1, <3>2, <3>3, <3>4
  <2> QED
    BY <2>5, <2>7, <2>9, <2>10, <2>11, <2>12 DEF WorkerInv
<1> QED
  BY <1>4, <1>5, <1>6

----------------------------------------------------------------------------
\* The steps of those who use the store.

\* Only one task's wait changes.
OthersSame(t) == \A s \in Task \ {t} : tasks'[s] = tasks[s]

LEMMA EnqueueKeeps ==
    ASSUME WaitType, WaitType', WorkerInv, config' = config, NEW t \in Task, Enqueue(t)
    PROVE  WorkerInv'
<1>1. UNCHANGED <<clock, loop, channel, job, failures>> /\ tasks[t].status = "none"
  BY DEF Enqueue
<1>2. /\ MaxWait' = MaxWait /\ Slack' = Slack /\ LookedAt' = LookedAt /\ (Going' <=> Going)
  BY <1>1 DEF MaxWait, Slack, LookedAt, Going
<1>3. /\ tasks'[t].status = "queued" /\ tasks'[t].born = clock /\ ~tasks'[t].heard /\ tasks'[t].ended = 0
      /\ OthersSame(t)
  BY DEF Enqueue, Queued, WaitType, OthersSame
<1>4. /\ clock \in Nat /\ Slack \in Nat /\ MaxWait \in Nat /\ loop.deadline \in Nat /\ LookedAt \in Int
      /\ loop.timeout \in Nat /\ PollInterval \in Nat /\ PollInterval <= MaxWait
  BY Numbers, Settings
<1>5. job.task # Absent => job.task \in Task \ {t}
  BY <1>1 DEF WaitType, JobState, WorkerInv, Past
<1>6. t \notin loop.known /\ loop.known \in SUBSET Task
  BY <1>1 DEF WorkerInv, LoopInv, WaitType, LoopState
<1>7. Past'
  BY <1>1, <1>3, <1>4, <1>5 DEF WorkerInv, Past, Awaits, OthersSame
<1>8. LoopInv'
  BY <1>1, <1>2, <1>3, <1>6 DEF WorkerInv, LoopInv, OthersSame
<1>9. Promptness'
  <2> SUFFICES ASSUME job.task = Absent, NEW s \in Task, Awaits(s)' PROVE Prompt(s)'
    BY <1>1 DEF Promptness
  <2>1. CASE s = t
    <3>1. clock - MaxWait - Slack <= clock
      BY <1>4
    <3>2. Going => LookedAt <= clock
      BY <1>4 DEF Going, LookedAt, WorkerInv, LoopInv
    <3>3. loop.pc = "backoff" => loop.deadline - MaxWait - Slack <= clock
      BY <1>4 DEF WorkerInv, LoopInv
    <3> QED
      BY <1>1, <1>2, <1>3, <2>1, <3>1, <3>2, <3>3 DEF Prompt, Reaches
  <2>2. CASE s # t
    <3>1. tasks'[s] = tasks[s] /\ Prompt(s)
      BY <1>3, <2>2 DEF OthersSame, WorkerInv, Promptness, Awaits
    <3> QED
      BY <1>1, <1>2, <3>1 DEF Prompt, Reaches
  <2> QED
    BY <2>1, <2>2
<1>10. Hearing'
  <2> SUFFICES ASSUME NEW s \in Task, Awaits(s)', tasks'[s].heard PROVE Heard(s)'
    BY DEF Hearing
  <2>1. tasks'[s] = tasks[s] /\ Heard(s)
    BY <1>3 DEF OthersSame, WorkerInv, Hearing, Awaits
  <2> QED
    BY <1>1, <1>2, <2>1 DEF Heard, HasWakeups, KeepsMessages, Reaches
<1>11. Knowing'
  <2> SUFFICES ASSUME config.backoff, NEW s \in loop.known, Awaits(s)' PROVE Known(s)'
    BY <1>1 DEF Knowing
  <2>1. tasks'[s] = tasks[s] /\ Known(s)
    BY <1>3, <1>6 DEF OthersSame, WorkerInv, Knowing, Awaits
  <2> QED
    BY <1>1, <1>2, <2>1 DEF Known
<1>12. Seeing'
  <2> SUFFICES ASSUME config.transport = "exists", job.task = Absent, NEW s \in Due' PROVE Reaches(clock, s)'
    BY <1>1 DEF WorkerInv, Seeing
  <2>1. CASE s = t
    BY <1>1, <1>3, <1>4, <2>1 DEF Reaches
  <2>2. CASE s # t
    <3>1. s \in Task /\ tasks'[s] = tasks[s] /\ s \in Due
      BY <1>1, <1>3, <2>2 DEF OthersSame, Due, IsDue
    <3>2. Reaches(clock, s)
      BY <3>1 DEF WorkerInv, Seeing
    <3> QED
      BY <1>1, <3>1, <3>2 DEF Reaches
  <2> QED
    BY <2>1, <2>2
<1>13. Cutting'
  BY <1>1, <1>2, <1>3, <1>5 DEF WorkerInv, Cutting, CancelsRunning, OthersSame
<1> QED
  BY <1>7, <1>8, <1>9, <1>10, <1>11, <1>12, <1>13 DEF WorkerInv

LEMMA NotifyKeeps ==
    ASSUME WaitType, WaitType', WorkerInv, config' = config, NEW t \in Task, NotifyNewTask(t)
    PROVE  WorkerInv'
<1>1. UNCHANGED <<clock, loop, job, failures>> /\ tasks[t].telling
  BY DEF NotifyNewTask
<1>2. channel \in ChannelState /\ tasks \in [Task -> TaskWait] /\ channel.messages \in Nat
  BY DEF WaitType, ChannelState
<1>3. channel'.messages = Tells(t) /\ channel'.table = channel.table /\ channel'.listening = channel.listening
  BY <1>2 DEF NotifyNewTask, ChannelState
<1>4. \A s \in Task : Same(s) /\ (s # t => tasks'[s] = tasks[s])
  BY <1>2 DEF NotifyNewTask, Same, TaskWait
<1>5. tasks'[t].heard <=> /\ HasWakeups /\ IsDue(t) /\ EnsureEventsQueueTable
                          /\ (channel.listening \/ KeepsMessages) /\ loop.pc # "backoff"
  BY <1>2 DEF NotifyNewTask, TaskWait
<1>6. Going' <=> Going
  BY <1>1 DEF Going
\* A message more never leaves none to read.
<1>7. channel.messages > 0 /\ (channel.listening \/ KeepsMessages) => channel'.messages > 0
  BY <1>2, <1>3 DEF Tells, MemoryTells, RedisTells, SqlSpecTells, AlchemyTells, EphemeralTells, IsListener, KeepsMessages
<1>8. tasks'[t].heard => channel'.messages > 0
  <2>1. config.transport \in Transport
    BY DEF WorkerInv, LoopInv
  <2> QED
    BY <1>2, <1>3, <1>5, <2>1 DEF Transport, Tells, MemoryTells, RedisTells, SqlSpecTells, AlchemyTells, EphemeralTells, IsListener,
                                          KeepsMessages, HasWakeups, EnsureEventsQueueTable
<1>9. Hearing'
  <2> SUFFICES ASSUME NEW s \in Task, Awaits(s)', tasks'[s].heard PROVE Heard(s)'
    BY DEF Hearing
  <2>0. Awaits(s) /\ tasks'[s].due = tasks[s].due /\ tasks'[s].born = tasks[s].born
    BY <1>4 DEF Awaits, Same
  <2>1. CASE s = t
    <3>1. HasWakeups /\ IsDue(t) /\ channel.table /\ (channel.listening \/ KeepsMessages) /\ loop.pc # "backoff"
      BY <1>5, <2>1 DEF EnsureEventsQueueTable
    <3>2. tasks[t].born = clock /\ clock \in Nat
      BY <1>1, <2>0, <2>1, Numbers DEF WorkerInv, Past
    <3> QED
      BY <1>1, <1>3, <1>8, <2>0, <2>1, <3>1, <3>2 DEF Heard, IsDue, HasWakeups, KeepsMessages, Reaches
  <2>2. CASE s # t
    <3>1. Heard(s)
      BY <1>4, <2>0, <2>2 DEF WorkerInv, Hearing
    <3> QED
      BY <1>1, <1>3, <1>6, <1>7, <2>0, <3>1 DEF Heard, HasWakeups, KeepsMessages, Reaches
  <2> QED
    BY <2>1, <2>2
<1>10. failures <= failures'
  BY <1>1, NotesFailure
<1> QED
  BY <1>1, <1>3, <1>4, <1>9, <1>10, LoopStays

LEMMA NotificationLostKeeps ==
    ASSUME WaitType, WaitType', WorkerInv, config' = config, NEW t \in Task, NotificationLost(t)
    PROVE  WorkerInv'
<1>1. UNCHANGED <<clock, loop, channel, job>>
  BY DEF NotificationLost
<1>2. \A s \in Task : Same(s) /\ tasks'[s].heard = tasks[s].heard
  BY DEF WaitType, NotificationLost, Same, TaskWait
<1>3. Hearing'
  BY <1>1, <1>2 DEF WorkerInv, Hearing, Awaits, Same, Heard, HasWakeups, KeepsMessages, Reaches, Going
<1>4. failures <= failures'
  BY NotesFailure DEF NotificationLost
<1> QED
  BY <1>1, <1>2, <1>3, <1>4, LoopStays

LEMMA CreateTableKeeps ==
    ASSUME WaitType, WaitType', WorkerInv, config' = config, CreateEventsQueueTable
    PROVE  WorkerInv'
<1>1. UNCHANGED <<clock, tasks, loop, job, failures>> /\ ~channel.table
  BY DEF CreateEventsQueueTable
<1>2. channel'.table
  BY DEF CreateEventsQueueTable, WaitType, ChannelState
<1>3. Hearing'
  BY <1>1 DEF WorkerInv, Hearing, Awaits, Heard
<1>4. failures <= failures'
  BY <1>1, NotesFailure
<1> QED
  BY <1>1, <1>2, <1>3, <1>4, SameWhenUnchanged, LoopStays

LEMMA CancelsTaskKeeps ==
    ASSUME WaitType, WaitType', WorkerInv, config' = config, NEW t \in Task, CancelsTask(t)
    PROVE  WorkerInv'
<1>1. UNCHANGED <<clock, loop, job>> /\ tasks[t].status \in {"queued", "running"}
  BY DEF CancelsTask
<1>2. channel \in ChannelState /\ tasks \in [Task -> TaskWait]
  BY DEF WaitType
<1>3. channel'.messages = channel.messages /\ channel'.table = channel.table /\ channel'.listening = channel.listening
  BY <1>2 DEF CancelsTask, ChannelState
<1>4. tasks'[t].status = "cancelled" /\ tasks'[t].ended = clock /\ tasks'[t].born = tasks[t].born /\ OthersSame(t)
  BY <1>2 DEF CancelsTask, TaskWait, OthersSame
<1>5. failures' = failures \/ Failure
  BY DEF CancelsTask
<1>6. failures <= failures' /\ Slack <= Slack' /\ Slack' \in Nat
  BY <1>5, NotesFailure, SlackGrows DEF WaitType
<1>7. /\ MaxWait' = MaxWait /\ LookedAt' = LookedAt /\ (Going' <=> Going)
  BY <1>1 DEF MaxWait, LookedAt, Going
<1>8. /\ clock \in Nat /\ Slack \in Nat /\ MaxWait \in Nat /\ loop.deadline \in Nat /\ LookedAt \in Int /\ job.freed \in Nat
      /\ loop.timeout \in Nat /\ PollInterval \in Nat /\ PollInterval <= MaxWait /\ CancelInterval \in Nat
  BY Numbers, Settings
<1>9. job.task # Absent => job.task \in Task
  BY DEF WaitType, JobState
<1>10. loop.known \in SUBSET Task
  BY DEF WaitType, LoopState
<1>11. \A s \in Task : Awaits(s)' => s # t /\ tasks'[s] = tasks[s] /\ Awaits(s)
  BY <1>4 DEF Awaits, OthersSame
<1>12. Past'
  BY <1>1, <1>4, <1>8, <1>9 DEF WorkerInv, Past, Awaits, OthersSame
<1>13. LoopInv'
  BY <1>1, <1>3, <1>4, <1>7, <1>10 DEF WorkerInv, LoopInv, OthersSame
<1>14. Promptness'
  <2> SUFFICES ASSUME job.task = Absent, NEW s \in Task, Awaits(s)' PROVE Prompt(s)'
    BY <1>1 DEF Promptness
  <2>1. tasks'[s] = tasks[s] /\ Prompt(s)
    BY <1>11 DEF WorkerInv, Promptness
  <2>2. tasks[s].due \in Nat /\ tasks[s].born \in Nat
    BY Numbers
  <2>3. Reaches(clock - MaxWait - Slack', s)
    BY <1>6, <1>8, <2>1, <2>2 DEF Prompt, Reaches
  <2>4. loop.pc = "backoff" => Reaches(loop.deadline - MaxWait - Slack', s)
    BY <1>6, <1>8, <2>1, <2>2 DEF Prompt, Reaches
  <2>5. Reaches(clock - MaxWait - Slack, s)'
    BY <1>1, <1>7, <2>1, <2>3 DEF Reaches
  <2>6. loop.pc = "backoff" => Reaches(loop.deadline - MaxWait - Slack, s)'
    BY <1>1, <1>7, <2>1, <2>4 DEF Reaches
  <2>7. Going => Reaches(LookedAt, s)'
    BY <1>1, <1>7, <2>1 DEF Prompt, Reaches
  <2> QED
    BY <1>1, <1>7, <2>5, <2>6, <2>7 DEF Prompt
<1>15. Hearing'
  <2> SUFFICES ASSUME NEW s \in Task, Awaits(s)', tasks'[s].heard PROVE Heard(s)'
    BY DEF Hearing
  <2>1. tasks'[s] = tasks[s] /\ Heard(s)
    BY <1>11 DEF WorkerInv, Hearing
  <2> QED
    BY <1>1, <1>3, <1>7, <2>1 DEF Heard, HasWakeups, KeepsMessages, Reaches
<1>16. Knowing'
  <2> SUFFICES ASSUME config.backoff, NEW s \in loop.known, Awaits(s)' PROVE Known(s)'
    BY <1>1 DEF Knowing
  <2>1. tasks'[s] = tasks[s] /\ Known(s)
    BY <1>10, <1>11 DEF WorkerInv, Knowing
  <2> QED
    BY <1>1, <1>7, <2>1 DEF Known
<1>17. Seeing'
  <2> SUFFICES ASSUME config.transport = "exists", job.task = Absent, NEW s \in Due' PROVE Reaches(clock, s)'
    BY <1>1 DEF WorkerInv, Seeing
  <2>1. s \in Task /\ tasks'[s] = tasks[s] /\ s \in Due
    BY <1>1, <1>11 DEF Due, IsDue, Awaits
  <2>2. Reaches(clock, s)
    BY <2>1 DEF WorkerInv, Seeing
  <2> QED
    BY <1>1, <2>1, <2>2 DEF Reaches
<1>18. Cutting'
  <2> SUFFICES ASSUME job.task \in Task, tasks'[job.task].status = "cancelled"
               PROVE  /\ job.checked <= tasks'[job.task].ended
                      /\ clock <= tasks'[job.task].ended + CancelInterval + MaxWait + Slack'
                      /\ Going => LookedAt <= tasks'[job.task].ended + CancelInterval
                      /\ loop.pc = "backoff" => loop.deadline <= tasks'[job.task].ended + CancelInterval + MaxWait + Slack'
    BY <1>1, <1>7, <1>9 DEF Cutting, CancelsRunning
  <2>1. CASE job.task = t
    <3>1. Going => LookedAt <= clock
      BY <1>8 DEF Going, LookedAt, WorkerInv, LoopInv
    <3>2. loop.pc = "backoff" => loop.deadline <= clock + PollInterval
      BY DEF WorkerInv, LoopInv
    <3>3. job.checked <= clock
      BY DEF WorkerInv, Past
    <3> QED
      BY <1>4, <1>6, <1>8, <2>1, <3>1, <3>2, <3>3
  <2>2. CASE job.task # t
    <3>1. tasks'[job.task] = tasks[job.task] /\ CancelsRunning /\ tasks[job.task].ended \in Nat
      BY <1>4, <2>2, Settings, Numbers DEF OthersSame, CancelsRunning
    <3> QED
      BY <1>6, <1>8, <3>1 DEF WorkerInv, Cutting
  <2> QED
    BY <2>1, <2>2
<1> QED
  BY <1>12, <1>13, <1>14, <1>15, <1>16, <1>17, <1>18 DEF WorkerInv

LEMMA JobEndsKeeps ==
    ASSUME WaitType, WaitType', WorkerInv, config' = config, JobEnds
    PROVE  WorkerInv'
<1> DEFINE t == job.task
<1>1. UNCHANGED <<clock, channel, failures>> /\ t # Absent /\ tasks[t].status = "running"
  BY DEF JobEnds
<1>2. loop \in LoopState /\ job \in JobState /\ tasks \in [Task -> TaskWait] /\ t \in Task
  BY <1>1 DEF WaitType, JobState
<1>3. /\ loop'.completion /\ loop'.pc = loop.pc /\ loop'.deadline = loop.deadline /\ loop'.timeout = loop.timeout
      /\ loop'.interval = loop.interval /\ loop'.known = loop.known
  BY <1>2 DEF JobEnds, LoopState
<1>4. job'.task = Absent /\ job'.freed = clock /\ job'.checked = 0
  BY <1>2 DEF JobEnds, Freed, JobState
<1>5. OthersSame(t)
  BY <1>2 DEF JobEnds, Queued, OthersSame
<1>6. /\ clock \in Nat /\ Slack \in Nat /\ MaxWait \in Nat /\ loop.deadline \in Nat /\ LookedAt \in Int
      /\ loop.timeout \in Nat /\ PollInterval \in Nat /\ PollInterval <= MaxWait
  BY Numbers, Settings
<1>7. /\ tasks'[t].status \in {"done", "queued"} /\ tasks'[t].born <= clock /\ tasks'[t].ended <= clock
      /\ tasks'[t].status = "queued" => ~tasks'[t].heard /\ tasks'[t].born = clock
  <2>1. CASE tasks' = [tasks EXCEPT ![job.task].status = "done", ![job.task].ended = clock]
    <3>1. tasks[t].born <= clock
      BY <1>2 DEF WorkerInv, Past
    <3>2. tasks'[t].status = "done" /\ tasks'[t].born = tasks[t].born /\ tasks'[t].ended = clock
      BY <1>2, <2>1 DEF TaskWait
    <3> QED
      BY <1>6, <3>1, <3>2
  <2>2. CASE \E delay \in DueIn : Queued(job.task, delay)
    <3>1. tasks'[t].status = "queued" /\ tasks'[t].born = clock /\ ~tasks'[t].heard /\ tasks'[t].ended = 0
      BY <1>2, <2>2 DEF Queued
    <3> QED
      BY <1>6, <3>1
  <2> QED
    BY <2>1, <2>2 DEF JobEnds
<1>8. t \notin loop.known /\ loop.known \in SUBSET Task
  BY <1>1, <1>2 DEF WorkerInv, LoopInv, LoopState
<1>9. MaxWait' = MaxWait /\ Slack' = Slack /\ LookedAt' = LookedAt /\ (Going' <=> Going)
  BY <1>1, <1>3 DEF MaxWait, Slack, LookedAt, Going
<1> HIDE DEF t
<1>10. Past'
  <2>1. \A s \in Task : /\ tasks'[s].born <= clock /\ tasks'[s].ended <= clock
                        /\ tasks'[s].telling /\ tasks'[s].status = "queued" => tasks'[s].born = clock
    BY <1>5, <1>7 DEF WorkerInv, Past, OthersSame, Awaits
  <2> QED
    BY <1>1, <1>4, <1>6, <2>1 DEF Past, Awaits
<1>11. LoopInv'
  <2>1. \A s \in loop.known : tasks'[s].status \in {"queued", "cancelled"}
    BY <1>5, <1>8 DEF WorkerInv, LoopInv, OthersSame
  <2>2. loop.pc = "wait" /\ clock = loop.deadline + 1 => job'.freed = clock
    BY <1>4
  <2> QED
    BY <1>1, <1>3, <1>4, <1>9, <2>1, <2>2 DEF WorkerInv, LoopInv
<1>12. \A s \in Task : \A x \in Int : x <= clock => Reaches(x, s)'
  BY <1>4 DEF Reaches
<1>13. Promptness'
  <2> SUFFICES ASSUME NEW s \in Task PROVE Prompt(s)'
    BY DEF Promptness
  <2>1. clock - MaxWait - Slack \in Int /\ clock - MaxWait - Slack <= clock
    BY <1>6
  <2>2. Going => LookedAt <= clock
    BY <1>6 DEF Going, LookedAt, WorkerInv, LoopInv
  <2>3. loop.pc = "backoff" => loop.deadline - MaxWait - Slack \in Int /\ loop.deadline - MaxWait - Slack <= clock
    BY <1>6 DEF WorkerInv, LoopInv
  <2>4. Reaches(clock - MaxWait - Slack, s)'
    BY <1>1, <1>9, <1>12, <2>1 DEF Reaches
  <2>5. Going => Reaches(LookedAt, s)'
    BY <1>6, <1>9, <1>12, <2>2 DEF Reaches
  <2>6. loop.pc = "backoff" => Reaches(loop.deadline - MaxWait - Slack, s)'
    BY <1>3, <1>9, <1>12, <2>3 DEF Reaches
  <2> QED
    BY <1>3, <1>9, <2>4, <2>5, <2>6 DEF Prompt
<1>14. Hearing'
  <2> SUFFICES ASSUME NEW s \in Task, Awaits(s)', tasks'[s].heard PROVE Heard(s)'
    BY DEF Hearing
  <2>1. s # t /\ tasks'[s] = tasks[s] /\ Heard(s)
    BY <1>5, <1>7 DEF WorkerInv, Hearing, OthersSame, Awaits
  <2>2. Reaches(clock, s)'
    BY <1>1, <1>6, <1>12 DEF Reaches
  <2> QED
    BY <1>1, <1>3, <2>1, <2>2 DEF Heard, HasWakeups, KeepsMessages
<1>15. Knowing'
  <2> SUFFICES ASSUME config.backoff, NEW s \in loop.known, Awaits(s)' PROVE Known(s)'
    BY <1>3 DEF Knowing
  <2>1. tasks'[s] = tasks[s] /\ Known(s)
    BY <1>5, <1>8 DEF OthersSame, WorkerInv, Knowing, Awaits
  <2> QED
    BY <1>1, <1>3, <1>9, <2>1 DEF Known
<1>16. Seeing'
  <2>1. \A s \in Due' : Reaches(clock, s)'
    BY <1>1, <1>6, <1>12 DEF Due, Reaches
  <2> QED
    BY <1>3, <2>1 DEF WorkerInv, Seeing
<1>17. Cutting'
  BY <1>4 DEF Cutting, CancelsRunning
<1> QED
  BY <1>10, <1>11, <1>13, <1>14, <1>15, <1>16, <1>17 DEF WorkerInv

\* Time passes only while the worker rests.
LEMMA TickKeeps ==
    ASSUME WaitType, WaitType', WorkerInv, config' = config, Tick
    PROVE  WorkerInv'
<1>1. UNCHANGED <<tasks, loop, channel, job, failures>> /\ clock' = clock + 1 /\ \A t \in Task : ~tasks[t].telling
  BY DEF Tick
<1>2. /\ clock \in Nat /\ Slack \in Nat /\ MaxWait \in Nat /\ loop.deadline \in Nat /\ LookedAt \in Int /\ job.freed \in Nat
      /\ loop.timeout \in Nat /\ PollInterval \in Nat /\ PollInterval <= MaxWait /\ CancelInterval \in Nat /\ PollInterval >= 1
      /\ job.checked \in Nat
  BY Numbers, Settings
<1>3. \A t \in Task : tasks[t].due \in Nat /\ tasks[t].born \in Nat /\ tasks[t].ended \in Nat
  BY Numbers
<1>4. MaxWait' = MaxWait /\ Slack' = Slack /\ (Going' <=> Going)
  BY <1>1 DEF MaxWait, Slack, Going
<1>5. \/ loop.pc = "wait" /\ clock < loop.deadline /\ ~Told /\ ~Sees /\ ~loop.completion
      \/ loop.pc = "backoff" /\ clock < loop.deadline
      \/ loop.pc = "wait" /\ loop.timeout = 0 /\ clock = loop.deadline /\ job.task # Absent
  BY <1>2 DEF Tick, LoopRests, TimeIsOver
<1>6. loop.pc = "wait" => /\ Going /\ LookedAt' = LookedAt /\ LookedAt = loop.deadline - loop.timeout
                          /\ loop.timeout <= MaxWait /\ loop.timeout <= loop.deadline /\ LookedAt <= clock
  BY <1>1 DEF Going, LookedAt, WorkerInv, LoopInv
<1>7. loop.pc = "backoff" => ~Going /\ loop.known = {} /\ loop.deadline <= clock + PollInterval
  BY DEF Going, WorkerInv, LoopInv
<1>8. Past'
  <2>1. job.freed <= clock /\ job.checked <= clock /\ \A t \in Task : tasks[t].born <= clock /\ tasks[t].ended <= clock
    BY DEF WorkerInv, Past
  <2>2. job.freed <= clock + 1 /\ job.checked <= clock + 1 /\ \A t \in Task : tasks[t].born <= clock + 1 /\ tasks[t].ended <= clock + 1
    BY <1>2, <1>3, <2>1
  <2> QED
    BY <1>1, <2>2 DEF WorkerInv, Past, Awaits
<1>9. LoopInv'
  <2>1. loop.pc = "wait" => /\ LookedAt <= clock + 1
                            /\ \/ clock + 1 <= loop.deadline
                               \/ clock + 1 = loop.deadline + 1 /\ loop.timeout = 0 /\ job.task # Absent
    BY <1>2, <1>5, <1>6
  <2>2. loop.pc = "backoff" => clock + 1 <= loop.deadline /\ loop.deadline <= clock + 1 + PollInterval
    BY <1>2, <1>5, <1>7
  <2> QED
    BY <1>1, <1>4, <1>6, <2>1, <2>2 DEF WorkerInv, LoopInv
<1>10. Promptness'
  <2> SUFFICES ASSUME job.task = Absent, NEW t \in Task, Awaits(t) PROVE Prompt(t)'
    BY <1>1 DEF Promptness, Awaits
  <2>1. Prompt(t)
    BY DEF WorkerInv, Promptness
  <2>2. CASE loop.pc = "wait"
    <3>1. Reaches(LookedAt, t) /\ clock + 1 <= loop.deadline
      BY <1>2, <1>5, <1>6, <2>1, <2>2 DEF Prompt
    <3>2. clock + 1 - MaxWait - Slack <= LookedAt
      BY <1>2, <1>6, <2>2, <3>1
    <3>3. Reaches(clock + 1 - MaxWait - Slack, t)
      BY <1>2, <1>3, <3>1, <3>2 DEF Reaches
    <3>4. Reaches(clock - MaxWait - Slack, t)'
      BY <1>1, <1>2, <1>4, <3>3 DEF Reaches
    <3>5. Reaches(LookedAt, t)'
      BY <1>1, <1>6, <2>2, <3>1 DEF Reaches
    <3> QED
      BY <1>1, <2>2, <3>4, <3>5 DEF Prompt
  <2>3. CASE loop.pc = "backoff"
    <3>1. Reaches(loop.deadline - MaxWait - Slack, t) /\ clock + 1 <= loop.deadline
      BY <1>2, <1>5, <2>1, <2>3 DEF Prompt
    <3>2. clock + 1 - MaxWait - Slack <= loop.deadline - MaxWait - Slack
      BY <1>2, <3>1
    <3>3. Reaches(clock + 1 - MaxWait - Slack, t)
      BY <1>2, <1>3, <3>1, <3>2 DEF Reaches
    <3>4. Reaches(clock - MaxWait - Slack, t)'
      BY <1>1, <1>2, <1>4, <3>3 DEF Reaches
    <3>5. Reaches(loop.deadline - MaxWait - Slack, t)'
      BY <1>1, <1>4, <3>1 DEF Reaches
    <3> QED
      BY <1>4, <1>7, <2>3, <3>4, <3>5 DEF Prompt
  <2> QED
    BY <1>5, <2>2, <2>3
<1>11. Hearing'
  <2> SUFFICES ASSUME NEW t \in Task, Awaits(t), tasks[t].heard PROVE Heard(t)'
    BY <1>1 DEF Hearing, Awaits
  <2>1. Heard(t)
    BY DEF WorkerInv, Hearing
  <2>2. loop.pc = "wait" /\ job.task # Absent
    BY <1>5, <1>6, <2>1 DEF Heard, Told
  <2>3. tasks[t].due <= clock + 1
    BY <1>2, <1>3, <2>1 DEF Heard
  <2> QED
    BY <1>1, <2>1, <2>2, <2>3 DEF Heard, HasWakeups, KeepsMessages
<1>12. Knowing'
  <2> SUFFICES ASSUME config.backoff, NEW t \in loop.known, Awaits(t) PROVE Known(t)'
    BY <1>1 DEF Knowing, Awaits
  <2>1. loop.pc = "wait" /\ Known(t)
    BY <1>5, <1>7 DEF WorkerInv, Knowing
  <2> QED
    BY <1>1, <1>6, <2>1 DEF Known
<1>13. Seeing'
  <2> SUFFICES ASSUME config.transport = "exists", job.task = Absent, NEW t \in Due' PROVE Reaches(clock, t)'
    BY <1>1 DEF WorkerInv, Seeing
  <2>1. loop.pc = "wait" /\ Due = {}
    BY <1>5 DEF WorkerInv, Seeing, Sees
  <2>2. t \in Task /\ tasks[t].status = "queued" /\ tasks[t].due <= clock + 1
    BY <1>1 DEF Due, IsDue
  <2>3. ~(tasks[t].due <= clock)
    BY <2>1, <2>2 DEF Due, IsDue
  <2>4. clock + 1 <= tasks[t].due
    BY <1>2, <1>3, <2>2, <2>3
  <2> QED
    BY <1>1, <2>4 DEF Reaches
<1>14. Cutting'
  <2> SUFFICES ASSUME CancelsRunning
               PROVE  /\ job.checked <= tasks[job.task].ended
                      /\ clock + 1 <= tasks[job.task].ended + CancelInterval + MaxWait + Slack
                      /\ Going => LookedAt' <= tasks[job.task].ended + CancelInterval
                      /\ loop.pc = "backoff" => loop.deadline <= tasks[job.task].ended + CancelInterval + MaxWait + Slack
    BY <1>1, <1>4 DEF Cutting, CancelsRunning
  <2>1. tasks[job.task].ended \in Nat
    BY Numbers DEF CancelsRunning, WaitType, JobState
  <2>2. /\ job.checked <= tasks[job.task].ended
        /\ Going => LookedAt <= tasks[job.task].ended + CancelInterval
        /\ loop.pc = "backoff" => loop.deadline <= tasks[job.task].ended + CancelInterval + MaxWait + Slack
    BY DEF WorkerInv, Cutting
  <2>3. clock + 1 <= tasks[job.task].ended + CancelInterval + MaxWait + Slack
    BY <1>2, <1>5, <1>6, <2>1, <2>2
  <2> QED
    BY <1>5, <1>6, <1>7, <2>2, <2>3
<1> QED
  BY <1>8, <1>9, <1>10, <1>11, <1>12, <1>13, <1>14 DEF WorkerInv

LEMMA WorkerGoesOn ==
    ASSUME WaitType, WaitType', WorkerInv, WaitNext, config' = config
    PROVE  WorkerInv'
<1>1. ASSUME NEW t \in Task, CallerStarts(t) PROVE WorkerInv'
  BY <1>1, CallerKeepsWorker, NotesFailure DEF CallerStarts
<1>2. ASSUME CallerStep \/ ReaderDies \/ MessageLost PROVE WorkerInv'
  BY <1>2, CallerKeepsWorker, NotesFailure
     DEF CallerStep, CallerRefreshes, CallerRegisters, CallerChecks, CallerWakes, ReaderReads, ReaderDies, MessageLost
<1> QED
  BY <1>1, <1>2, EnqueueKeeps, NotifyKeeps, NotificationLostKeeps, CancelsTaskKeeps, IterateKeeps, LooksForWorkKeeps,
     ListensKeeps, ReconcilesKeeps, WaitEndsKeeps, ReadFailsKeeps, CreateTableKeeps, JobEndsKeeps, TickKeeps
     DEF WaitNext, LoopStep

----------------------------------------------------------------------------
\* The caller's side.

LEMMA CallerNumbers ==
    ASSUME WaitType
    PROVE  /\ clock \in Nat /\ caller.start \in Nat /\ caller.until \in Nat
           /\ CallerPoll \in Nat /\ CallerTimeout \in Nat
           /\ \A t \in Task : tasks[t].ended \in Nat
  BY Settings, Numbers DEF WaitType, CallerState

\* Steps that do not concern the caller, in which nothing ends that it waits for.
LEMMA CallerStays ==
    ASSUME WaitType, Attending, UNCHANGED <<clock, caller, config>>,
           \A t \in Task : Ended(t)' => Ended(t) /\ tasks'[t].ended = tasks[t].ended,
           reader' = reader \/ (reader'.alive = reader.alive /\ reader'.messages = reader.messages /\ reader'.lost)
    PROVE  Attending'
<1>1. clock' = clock /\ caller' = caller /\ config' = config
  OBVIOUS
<1>2. /\ reader'.alive = reader.alive /\ reader'.messages = reader.messages /\ (reader.lost => reader'.lost)
  OBVIOUS
<1>3. (IsWaiting' <=> IsWaiting) /\ (IsTimed' <=> IsTimed)
  BY <1>1 DEF IsWaiting, IsTimed
<1>4. IsWaiting /\ Ended(caller.task)' => Ended(caller.task) /\ tasks'[caller.task].ended = tasks[caller.task].ended
  BY DEF Attending, IsWaiting
<1> QED
  BY <1>1, <1>2, <1>3, <1>4 DEF Attending, SoonAfter

\* A task ends, and its end is published.
LEMMA EndIsPublished ==
    ASSUME WaitType, Attending, UNCHANGED <<clock, caller, config>>, NEW t \in Task, ~Ended(t), tasks'[t].ended = clock,
           OthersSame(t), Publishes(t)
    PROVE  Attending'
<1>1. clock' = clock /\ caller' = caller /\ config' = config /\ clock \in Nat /\ CallerPoll \in Nat
  BY CallerNumbers
<1>2. /\ reader'.alive = reader.alive /\ reader'.lost = reader.lost
      /\ reader.messages \subseteq reader'.messages /\ (reader.alive => t \in reader'.messages)
  BY DEF Publishes, WaitType, ReaderState
<1>3. (IsWaiting' <=> IsWaiting) /\ (IsTimed' <=> IsTimed)
  BY <1>1 DEF IsWaiting, IsTimed
<1>4. CASE caller.task = t
  <2>1. SoonAfter(clock, 0)'
    BY <1>1, <1>4 DEF SoonAfter
  <2>2. SoonAfter(clock, CallerPoll)'
    BY <1>1, <1>4 DEF SoonAfter
  <2>3. IsTimed => SoonAfter(caller.until, CallerPoll)'
    BY <1>1, <1>4 DEF SoonAfter, Attending
  <2>4. caller.pc = "blocked" /\ config.transport = "pubsub" => caller.answer # Absent \/ caller.task \in reader'.messages
    BY <1>2, <1>4 DEF Attending
  <2> QED
    BY <1>1, <1>2, <1>3, <2>1, <2>2, <2>3, <2>4 DEF Attending
<1>5. CASE caller.task # t
  <2>1. IsWaiting /\ Ended(caller.task)' => Ended(caller.task) /\ tasks'[caller.task] = tasks[caller.task]
    BY <1>5 DEF Attending, IsWaiting, OthersSame, Ended
  <2>2. IsWaiting /\ Ended(caller.task)' => SoonAfter(clock, CallerPoll)' /\ (IsTimed => SoonAfter(caller.until, CallerPoll)')
    BY <1>1, <2>1 DEF Attending, SoonAfter
  <2>3. IsWaiting /\ Ended(caller.task)' /\ config.transport = "pubsub" /\ ~reader.lost
          => SoonAfter(clock, 0)' /\ (caller.pc = "blocked" => caller.answer # Absent \/ caller.task \in reader'.messages)
    BY <1>1, <1>2, <2>1 DEF Attending, SoonAfter
  <2> QED
    BY <1>1, <1>2, <1>3, <2>2, <2>3 DEF Attending
<1> QED
  BY <1>4, <1>5

LEMMA StoreKeepsCaller ==
    ASSUME WaitType, Past, Attending, config' = config,
           \/ \E t \in Task : Enqueue(t) \/ NotifyNewTask(t) \/ NotificationLost(t)
           \/ LoopStep \/ ReadFails \/ ControlReadFails \/ CreateEventsQueueTable \/ MessageLost
    PROVE  Attending'
<1>0. tasks \in [Task -> TaskWait] /\ reader \in ReaderState
  BY DEF WaitType
<1>1. CASE \E t \in Task : Enqueue(t) \/ NotifyNewTask(t) \/ NotificationLost(t)
  <2>1. PICK t \in Task : Enqueue(t) \/ NotifyNewTask(t) \/ NotificationLost(t)
    BY <1>1
  <2>2. UNCHANGED <<clock, caller, reader>>
    BY <2>1 DEF Enqueue, NotifyNewTask, NotificationLost
  <2>3. \A s \in Task : Ended(s)' => Ended(s) /\ tasks'[s].ended = tasks[s].ended
    BY <1>0, <2>1 DEF Enqueue, NotifyNewTask, NotificationLost, Queued, Ended, TaskWait
  <2> QED
    BY <2>2, <2>3, CallerStays
<1>2. CASE LoopStep \/ ReadFails \/ ControlReadFails \/ CreateEventsQueueTable
  <2>1. UNCHANGED <<clock, caller, reader>>
    BY <1>2 DEF LoopStep, Iterate, LooksForWork, Listens, Reconciles, WaitEnds, HintArrives, BackoffEnds, ReadFails, ControlReadFails,
                CreateEventsQueueTable
  <2>2. tasks' = tasks \/ tasks' = Unheard \/ Iterate
    BY <1>2 DEF LoopStep, LooksForWork, Listens, Reconciles, WaitEnds, HintArrives, BackoffEnds, ReadFails, ControlReadFails,
                CreateEventsQueueTable
  <2>3. CASE tasks' = tasks
    <3>1. \A s \in Task : Ended(s)' => Ended(s) /\ tasks'[s].ended = tasks[s].ended
      BY <2>3 DEF Ended
    <3> QED
      BY <2>1, <3>1, CallerStays
  <2>4. CASE tasks' = Unheard
    <3>1. \A s \in Task : Ended(s)' => Ended(s) /\ tasks'[s].ended = tasks[s].ended
      BY <1>0, <2>4 DEF Ended, Unheard, TaskWait
    <3> QED
      BY <2>1, <3>1, CallerStays
  <2>5. CASE Iterate /\ tasks' # tasks
    <3>1. PICK c \in Due :
              tasks' = [Promoted EXCEPT ![c] = [@ EXCEPT !.status = "running", !.due = 0, !.born = 0, !.heard = FALSE]]
      BY <2>5 DEF Iterate
    <3>2. c \in Task
      BY DEF Due
    <3>3. Promoted \in [Task -> TaskWait]
      BY PromotedFacts
    <3>4. tasks'[c].status = "running" /\ \A s \in Task \ {c} : tasks'[s] = Promoted[s]
      BY <3>1, <3>2, <3>3 DEF TaskWait
    <3>5. \A s \in Task : Ended(s)' => Ended(s) /\ tasks'[s].ended = tasks[s].ended
      BY <3>4, PromotedFacts DEF Ended
    <3> QED
      BY <2>1, <3>5, CallerStays
  <2> QED
    BY <2>2, <2>3, <2>4, <2>5
<1>3. CASE MessageLost
  <2>1. UNCHANGED <<clock, tasks, caller>> /\ reader'.lost /\ reader'.alive = reader.alive
    BY <1>0, <1>3 DEF MessageLost, ReaderState
  <2>2. SoonAfter(clock, CallerPoll)' = SoonAfter(clock, CallerPoll) /\ SoonAfter(caller.until, CallerPoll)' = SoonAfter(caller.until, CallerPoll)
    BY <2>1 DEF SoonAfter
  <2> QED
    BY <2>1, <2>2 DEF Attending, IsWaiting, IsTimed, Ended
<1> QED
  BY <1>1, <1>2, <1>3

LEMMA EndsKeepCaller ==
    ASSUME WaitType, Past, Attending, config' = config, JobEnds \/ \E t \in Task : CancelsTask(t)
    PROVE  Attending'
<1>0. tasks \in [Task -> TaskWait] /\ job \in JobState
  BY DEF WaitType
<1>1. CASE JobEnds
  <2>1. job.task \in Task /\ ~Ended(job.task) /\ UNCHANGED <<clock, caller>>
    BY <1>0, <1>1 DEF JobEnds, Ended, JobState
  <2>2. CASE tasks' = [tasks EXCEPT ![job.task].status = "done", ![job.task].ended = clock] /\ Publishes(job.task)
    <3>1. tasks'[job.task].ended = clock /\ OthersSame(job.task)
      BY <1>0, <2>1, <2>2 DEF OthersSame, TaskWait
    <3> QED
      BY <2>1, <2>2, <3>1, EndIsPublished
  <2>3. CASE (\E delay \in DueIn : Queued(job.task, delay)) /\ reader' = reader
    <3>1. \A s \in Task : Ended(s)' => Ended(s) /\ tasks'[s].ended = tasks[s].ended
      BY <1>0, <2>1, <2>3 DEF Queued, Ended
    <3> QED
      BY <2>1, <2>3, <3>1, CallerStays
  <2> QED
    BY <1>1, <2>2, <2>3 DEF JobEnds
<1>2. CASE \E t \in Task : CancelsTask(t)
  <2>1. PICK t \in Task : CancelsTask(t)
    BY <1>2
  <2>2. ~Ended(t) /\ UNCHANGED <<clock, caller>> /\ Publishes(t)
    BY <2>1 DEF CancelsTask, Ended
  <2>3. tasks'[t].ended = clock /\ OthersSame(t)
    <3>1. tasks' = [tasks EXCEPT ![t].status = "cancelled", ![t].ended = clock, ![t].telling = FALSE]
      BY <2>1 DEF CancelsTask
    <3>2. tasks'[t] = [tasks[t] EXCEPT !.status = "cancelled", !.ended = clock, !.telling = FALSE]
      BY <1>0, <3>1
    <3>3. tasks'[t].ended = clock
      BY <1>0, <3>2 DEF TaskWait
    <3>4. OthersSame(t)
      BY <1>0, <3>1 DEF OthersSame
    <3> QED
      BY <3>3, <3>4
  <2> QED
    BY <2>2, <2>3, EndIsPublished
<1> QED
  BY <1>1, <1>2

LEMMA CallerGoesOn ==
    ASSUME WaitType, Past, Attending, config' = config, CallerStep \/ ReaderDies \/ \E t \in Task : CallerStarts(t)
    PROVE  Attending'
<1>0. caller \in CallerState /\ reader \in ReaderState
  BY DEF WaitType
<1> USE CallerNumbers
<1>1. CASE \E t \in Task : CallerStarts(t)
  <2>1. PICK t \in Task : CallerStarts(t)
    BY <1>1
  <2>2. UNCHANGED <<clock, tasks, reader>> /\ caller'.pc = "refresh" /\ caller'.task = t /\ caller'.start = clock
    BY <1>0, <2>1 DEF CallerStarts, CallerState
  <2>3. SoonAfter(clock, CallerPoll)' /\ SoonAfter(clock, 0)'
    BY <2>2 DEF SoonAfter
  <2> QED
    BY <2>2, <2>3 DEF Attending, IsWaiting, IsTimed
<1>2. CASE CallerRefreshes
  <2>1. UNCHANGED <<clock, tasks, reader>> /\ caller.pc = "refresh"
    BY <1>2 DEF CallerRefreshes
  <2>2. CASE Ended(caller.task) \/ Remaining <= 0
    <3>1. caller'.pc \in {"returned", "timeout"} /\ caller'.task = caller.task /\ caller'.start = caller.start
      BY <1>0, <1>2, <2>2 DEF CallerRefreshes, CallerState
    <3> QED
      BY <2>1, <3>1 DEF Attending, IsWaiting, IsTimed
  <2>3. CASE ~Ended(caller.task) /\ ~(Remaining <= 0)
    <3> DEFINE m == Min({CallerPoll, Remaining})
    <3>1. Remaining = caller.start + CallerTimeout - clock
      BY DEF Remaining
    <3>2. Remaining \in Int /\ CallerPoll \in Int
      BY <3>1
    <3>3. m \in {CallerPoll, Remaining} /\ m <= CallerPoll /\ m <= Remaining
      BY <3>2, LeastOfTwo
    <3>4. /\ caller'.pc = IF config.transport = "pubsub" THEN "register" ELSE "blocked"
          /\ caller'.task = caller.task /\ caller'.start = caller.start /\ caller'.until = clock + m /\ caller'.answer = Absent
      BY <1>0, <1>2, <2>3 DEF CallerRefreshes, CallerState
    <3> HIDE DEF m
    <3>5. clock <= clock + m /\ clock + m <= caller.start + CallerTimeout /\ clock + m <= clock + CallerPoll
      BY <2>3, <3>1, <3>2, <3>3
    <3>6. caller.task \in Task /\ caller.start <= clock /\ clock <= caller.start + CallerTimeout
      BY <2>1 DEF Attending, IsWaiting
    <3>7. ~Ended(caller.task)'
      BY <2>1, <2>3, <3>4 DEF Ended
    <3>8. caller'.pc \in {"register", "blocked"} /\ (caller'.pc = "register" <=> config.transport = "pubsub")
      BY <3>4
    <3> QED
      BY <2>1, <3>4, <3>5, <3>6, <3>7, <3>8 DEF Attending
  <2> QED
    BY <2>2, <2>3
<1>3. ASSUME UNCHANGED <<clock, tasks>>, caller'.task = caller.task, caller'.start = caller.start, caller'.until = caller.until
      PROVE  /\ Ended(caller.task)' <=> Ended(caller.task)
             /\ SoonAfter(clock, CallerPoll)' <=> SoonAfter(clock, CallerPoll)
             /\ SoonAfter(clock, 0)' <=> SoonAfter(clock, 0)
             /\ SoonAfter(caller.until, CallerPoll)' <=> SoonAfter(caller.until, CallerPoll)
  BY <1>3 DEF Ended, SoonAfter
<1>4. CASE CallerRegisters
  <2>1. UNCHANGED <<clock, tasks>> /\ caller.pc = "register" /\ reader'.alive /\ reader'.lost = reader.lost
    BY <1>0, <1>4 DEF CallerRegisters, ReaderState
  <2>2. caller'.pc = "check" /\ caller'.task = caller.task /\ caller'.start = caller.start /\ caller'.until = caller.until
    BY <1>0, <1>4 DEF CallerRegisters, AfterRegistration, CallerState
  <2> QED
    BY <1>3, <2>1, <2>2 DEF Attending, IsWaiting, IsTimed
<1>5. CASE CallerChecks
  <2>1. UNCHANGED <<clock, tasks, reader>> /\ caller.pc = "check"
    BY <1>5 DEF CallerChecks
  <2>2. /\ caller'.pc = IF Ended(caller.task) THEN "refresh" ELSE "blocked"
        /\ caller'.task = caller.task /\ caller'.start = caller.start /\ caller'.until = caller.until /\ caller'.answer = caller.answer
    BY <1>0, <1>5 DEF CallerChecks, CallerState
  <2> QED
    BY <1>3, <2>1, <2>2 DEF Attending, IsWaiting, IsTimed
<1>6. CASE CallerWakes
  <2>1. UNCHANGED <<clock, tasks, reader>> /\ caller.pc = "blocked"
    BY <1>6 DEF CallerWakes
  <2>2. caller'.pc = "refresh" /\ caller'.task = caller.task /\ caller'.start = caller.start /\ caller'.until = caller.until
    BY <1>0, <1>6 DEF CallerWakes, CallerState
  <2> QED
    BY <1>3, <2>1, <2>2 DEF Attending, IsWaiting, IsTimed
<1>7. CASE ReaderReads
  <2>1. UNCHANGED <<clock, tasks>>
    BY <1>7 DEF ReaderReads
  <2>2. /\ caller'.pc = caller.pc /\ caller'.task = caller.task /\ caller'.start = caller.start /\ caller'.until = caller.until
        /\ caller'.answer # Absent \/ caller'.answer = caller.answer
    BY <1>0, <1>7, Settings DEF ReaderReads, CallerState
  <2>3. /\ reader'.alive = reader.alive /\ reader'.lost = reader.lost
        /\ IsRegistered /\ caller.task \in reader.messages => caller'.answer # Absent \/ caller.task \in reader'.messages
    <3>1. PICK t \in reader.messages :
              /\ reader' = [reader EXCEPT !.messages = @ \ {t}]
              /\ caller' = IF IsRegistered /\ caller.task = t THEN [caller EXCEPT !.answer = TRUE] ELSE caller
      BY <1>7 DEF ReaderReads
    <3>2. reader'.alive = reader.alive /\ reader'.lost = reader.lost /\ reader'.messages = reader.messages \ {t}
      BY <1>0, <3>1 DEF ReaderState
    <3>3. IsRegistered /\ caller.task = t => caller'.answer = TRUE
      BY <1>0, <3>1 DEF CallerState
    <3>4. TRUE # Absent
      BY Settings
    <3> QED
      BY <3>2, <3>3, <3>4
  <2>4. caller'.answer = Absent => caller.answer = Absent
    <3>1. caller' = caller \/ caller' = [caller EXCEPT !.answer = TRUE]
      BY <1>7 DEF ReaderReads
    <3>2. TRUE # Absent
      BY Settings
    <3> QED
      BY <1>0, <3>1, <3>2 DEF CallerState
  <2>5. caller.pc = "blocked" /\ config.transport = "pubsub" => IsRegistered
    BY DEF IsRegistered
  <2> QED
    BY <1>3, <2>1, <2>2, <2>3, <2>4, <2>5 DEF Attending, IsWaiting, IsTimed
<1>8. CASE ReaderDies
  <2>1. UNCHANGED <<clock, tasks>> /\ reader'.lost = reader.lost
    BY <1>0, <1>8 DEF ReaderDies, ReaderState
  <2>2. /\ caller'.pc = caller.pc /\ caller'.task = caller.task /\ caller'.start = caller.start /\ caller'.until = caller.until
    BY <1>0, <1>8 DEF ReaderDies, CallerState
  <2>3. caller.pc \in {"check", "blocked"} /\ config.transport = "pubsub" => caller'.answer # Absent
    <3>1. caller.pc \in {"check", "blocked"} /\ config.transport = "pubsub" => caller' = [caller EXCEPT !.answer = FALSE]
      BY <1>8 DEF ReaderDies, IsRegistered
    <3>2. FALSE # Absent
      BY Settings
    <3> QED
      BY <1>0, <3>1, <3>2 DEF CallerState
  <2> QED
    BY <1>3, <2>1, <2>2, <2>3 DEF Attending, IsWaiting, IsTimed
<1> QED
  BY <1>1, <1>2, <1>4, <1>5, <1>6, <1>7, <1>8 DEF CallerStep

LEMMA TickKeepsCaller ==
    ASSUME WaitType, Attending, config' = config, Tick
    PROVE  Attending'
<1>1. UNCHANGED <<tasks, caller, reader>> /\ clock' = clock + 1 /\ reader.messages = {}
  BY DEF Tick
<1>2. ~IsWaiting \/ (caller.pc = "blocked" /\ caller.answer = Absent /\ clock < caller.until)
  BY DEF Tick, CallerRests, IsWaiting
<1>3. (IsWaiting' <=> IsWaiting) /\ (IsTimed' <=> IsTimed) /\ (Ended(caller.task)' <=> Ended(caller.task))
  BY <1>1 DEF IsWaiting, IsTimed, Ended
<1>4. CASE ~IsWaiting
  <2>1. ~IsTimed
    BY <1>4 DEF IsWaiting, IsTimed
  <2>2. caller.pc # "none" => caller.start <= clock + 1
    BY CallerNumbers DEF Attending
  <2> QED
    BY <1>1, <1>3, <1>4, <2>1, <2>2 DEF Attending, IsWaiting
<1>5. CASE IsWaiting
  <2>1. caller.pc = "blocked" /\ caller.answer = Absent /\ clock < caller.until /\ IsTimed
    BY <1>2, <1>5 DEF IsTimed
  <2>2. /\ caller.start <= clock + 1 /\ clock + 1 <= caller.until /\ clock + 1 <= caller.start + CallerTimeout
        /\ caller.until <= clock + 1 + CallerPoll
    BY <1>5, <2>1, CallerNumbers DEF Attending
  <2>3. ASSUME Ended(caller.task)
        PROVE  ~(config.transport = "pubsub" /\ ~reader.lost) /\ SoonAfter(caller.until, CallerPoll)
    BY <1>1, <1>5, <2>1, <2>3 DEF Attending
  <2>4. SoonAfter(caller.until, CallerPoll) => SoonAfter(clock + 1, CallerPoll)
    BY <2>1, <2>2, CallerNumbers DEF SoonAfter, Attending
  <2>5. SoonAfter(clock + 1, CallerPoll) => SoonAfter(clock, CallerPoll)'
    BY <1>1 DEF SoonAfter
  <2>6. SoonAfter(caller.until, CallerPoll) => SoonAfter(caller.until, CallerPoll)'
    BY <1>1 DEF SoonAfter
  <2> QED
    BY <1>1, <1>3, <2>1, <2>2, <2>3, <2>4, <2>5, <2>6 DEF Attending
<1> QED
  BY <1>4, <1>5

LEMMA AttendingGoesOn ==
    ASSUME WaitType, Past, Attending, WaitNext, config' = config
    PROVE  Attending'
  BY StoreKeepsCaller, EndsKeepCaller, CallerGoesOn, TickKeepsCaller DEF WaitNext

----------------------------------------------------------------------------
\* What the invariant promises.

LEMMA WaitStarts == config \in Configs /\ failures = 0 /\ WaitInit => WaitInv
<1> SUFFICES ASSUME config \in Configs, failures = 0, WaitInit
             PROVE  WaitInv
  OBVIOUS
<1>1. PICK table \in BOOLEAN :
          /\ channel = [listening |-> config.transport \in {"event", "table"}, messages |-> 0, hint |-> FALSE, table |-> table]
          /\ config.transport # "table" => table
  BY DEF WaitInit
<1>2. channel \in ChannelState
  <2> DEFINE l == config.transport \in {"event", "table"}
  <2>1. l \in BOOLEAN
    OBVIOUS
  <2>2. channel = [listening |-> l, messages |-> 0, hint |-> FALSE, table |-> table]
    BY <1>1
  <2> HIDE DEF l
  <2> QED
    BY <2>1, <2>2 DEF ChannelState
<1>3. tasks = [t \in Task |-> [status |-> "none", due |-> 0, born |-> 0, telling |-> FALSE, heard |-> FALSE, ended |-> 0]]
  BY DEF WaitInit
<1>4. tasks \in [Task -> TaskWait]
  BY <1>3 DEF TaskWait
<1>5. loop = [pc |-> "claim", deadline |-> 0, interval |-> PollInterval, timeout |-> 0, known |-> {}, completion |-> FALSE]
  BY DEF WaitInit
<1>6. loop \in LoopState
  BY <1>5, Settings DEF LoopState
<1>7. job = [task |-> Absent, freed |-> 0, checked |-> 0, retries |-> 0] /\ job \in JobState
  BY DEF WaitInit, JobState
<1>8. caller = [pc |-> "none", task |-> Absent, until |-> 0, start |-> 0, answer |-> Absent] /\ caller \in CallerState
  BY DEF WaitInit, CallerState
<1>9. reader \in ReaderState
  BY DEF WaitInit, ReaderState
<1>10. clock = 0
  BY DEF WaitInit
<1>11. WaitType
  BY <1>2, <1>4, <1>6, <1>7, <1>8, <1>9, <1>10 DEF WaitType
<1>12. Past
  BY <1>3, <1>7, <1>10 DEF Past, Awaits
<1>13. LoopInv
  BY <1>1, <1>5, WaitsAssumption DEF LoopInv
<1>14. Promptness /\ Hearing /\ Knowing
  BY <1>3, <1>5 DEF Promptness, Hearing, Knowing, Awaits
<1>15. Seeing /\ Cutting
  BY <1>3, <1>5, <1>7 DEF Seeing, Cutting, CancelsRunning, Due, IsDue
<1>16. Attending
  BY <1>8 DEF Attending, IsWaiting, IsTimed
<1> QED
  BY <1>11, <1>12, <1>13, <1>14, <1>15, <1>16 DEF WaitInv

LEMMA WaitGoesOn ==
    ASSUME WaitInv, [WaitNext /\ UNCHANGED config]_<<config, failures, waitVars>>
    PROVE  WaitInv'
<1>1. WaitType /\ WorkerInv /\ Past /\ LoopInv /\ Attending
  BY DEF WaitInv, WorkerInv
<1>2. CASE WaitNext /\ config' = config
  <2>1. WaitType'
    BY <1>1, <1>2, TypesKept
  <2>2. WorkerInv'
    BY <1>1, <1>2, <2>1, WorkerGoesOn
  <2>3. Attending'
    BY <1>1, <1>2, AttendingGoesOn
  <2> QED
    BY <2>1, <2>2, <2>3 DEF WaitInv, WorkerInv
<1>3. CASE UNCHANGED <<config, failures, waitVars>>
  <2>1. UNCHANGED <<config, failures, clock, tasks, loop, channel, job, caller, reader>>
    BY <1>3 DEF waitVars
  <2>2. WaitType'
    BY <1>1, <2>1 DEF WaitType
  <2>3. WorkerInv'
    <3>1. failures <= failures'
      BY <1>1, <2>1, NotesFailure
    <3> QED
      BY <1>1, <2>1, <2>2, <3>1, CallerKeepsWorker
  <2>4. Attending'
    <3>1. \A s \in Task : Ended(s)' => Ended(s) /\ tasks'[s].ended = tasks[s].ended
      BY <2>1 DEF Ended
    <3> QED
      BY <1>1, <2>1, <3>1, CallerStays
  <2> QED
    BY <2>2, <2>3, <2>4 DEF WaitInv, WorkerInv
<1> QED
  BY <1>2, <1>3

LEMMA InvBoundsLateness == WaitInv => LatenessIsBounded
<1> SUFFICES ASSUME WaitInv PROVE LatenessIsBounded
  OBVIOUS
<1>0. WaitType /\ WorkerInv
  BY DEF WaitInv, WorkerInv
<1>1. /\ clock \in Nat /\ Slack \in Nat /\ MaxWait \in Nat /\ loop.deadline \in Nat /\ LookedAt \in Int /\ job.freed \in Nat
      /\ loop.timeout \in Nat /\ CancelInterval \in Nat
  BY <1>0, Numbers, Settings
<1>2. ASSUME NEW t \in Due, job.task = Absent
      PROVE  /\ clock - Since(t) <= MaxWait + PollInterval * failures
             /\ tasks[t].heard => clock = Since(t)
             /\ (config.backoff /\ loop.pc = "wait" /\ t \in loop.known) => clock <= Max({tasks[t].due, loop.deadline - loop.timeout})
             /\ config.transport = "exists" => clock = Since(t)
  <2>1. t \in Task /\ Awaits(t) /\ tasks[t].due <= clock
    BY DEF Due, IsDue, Awaits
  <2>2. tasks[t].due \in Int /\ tasks[t].born \in Int /\ job.freed \in Int
    BY <1>0, <2>1, Numbers
  <2>3. tasks[t].born <= clock /\ job.freed <= clock
    BY <2>1 DEF WaitInv, Past
  <2> DEFINE since == Since(t)
  <2>4. /\ since \in {tasks[t].due, tasks[t].born, job.freed}
        /\ since >= tasks[t].due /\ since >= tasks[t].born /\ since >= job.freed
    BY <2>2, GreatestOfThree DEF Since
  <2>5. since \in Int /\ since <= clock /\ \A x \in Int : Reaches(x, t) => x <= since
    <3> HIDE DEF since
    <3> QED
      BY <2>1, <2>2, <2>3, <2>4 DEF Reaches
  <2>6. Prompt(t)
    BY <1>2, <2>1 DEF WaitInv, Promptness
  <2>7. clock - MaxWait - Slack \in Int /\ Reaches(clock - MaxWait - Slack, t)
    BY <1>1, <2>6 DEF Prompt
  <2>8. clock - since <= MaxWait + PollInterval * failures
    <3>1. clock - MaxWait - Slack <= since
      BY <2>5, <2>7
    <3>2. Slack = PollInterval * failures
      BY DEF Slack
    <3> HIDE DEF since
    <3>3. clock - since <= MaxWait + Slack
      BY <1>1, <2>5, <3>1
    <3> QED
      BY <3>2, <3>3
  <2>9. Reaches(clock, t) => clock = since
    <3>1. Reaches(clock, t) => clock <= since
      BY <1>1, <2>5
    <3> HIDE DEF since
    <3> QED
      BY <1>1, <2>5, <3>1
  <2>10. tasks[t].heard => clock = since
    BY <1>2, <2>1, <2>9 DEF WaitInv, Hearing, Heard
  <2>11. config.transport = "exists" => clock = since
    BY <1>2, <2>9 DEF WaitInv, Seeing
  <2>12. ASSUME config.backoff, loop.pc = "wait", t \in loop.known
         PROVE  clock <= Max({tasks[t].due, loop.deadline - loop.timeout})
    <3>1. loop.deadline - loop.timeout < tasks[t].due /\ loop.deadline <= tasks[t].due
      BY <2>1, <2>12 DEF WaitInv, Knowing, Known, LookedAt
    <3>2. clock <= loop.deadline \/ (clock = loop.deadline + 1 /\ loop.timeout = 0)
      BY <2>12 DEF WaitInv, LoopInv
    <3>3. clock <= tasks[t].due
      BY <1>1, <2>2, <3>1, <3>2
    <3>4. loop.deadline - loop.timeout \in Int
      BY <1>1
    <3> DEFINE m == Max({tasks[t].due, loop.deadline - loop.timeout})
    <3>5. m >= tasks[t].due /\ m \in {tasks[t].due, loop.deadline - loop.timeout}
      BY <2>2, <3>4, GreatestOfTwo
    <3> HIDE DEF m
    <3>6. clock <= m
      BY <1>1, <2>2, <3>3, <3>4, <3>5
    <3> QED
      BY <3>6 DEF m
  <2> QED
    BY <2>8, <2>10, <2>11, <2>12
<1>3. CancelsRunning => clock - tasks[job.task].ended <= MaxWait + CancelInterval + PollInterval * failures
  <2> SUFFICES ASSUME CancelsRunning
               PROVE  clock - tasks[job.task].ended <= MaxWait + CancelInterval + Slack
    BY DEF Slack
  <2>1. tasks[job.task].ended \in Nat
    BY <1>0, Numbers DEF CancelsRunning, WaitType, JobState
  <2>2. clock <= tasks[job.task].ended + CancelInterval + MaxWait + Slack
    BY DEF WaitInv, Cutting
  <2> QED
    BY <1>1, <2>1, <2>2
<1> QED
  BY <1>2, <1>3 DEF LatenessIsBounded

LEMMA InvShowsResult == WaitInv => ResultIsSeen
<1> SUFFICES ASSUME WaitInv, IsWaiting
             PROVE  /\ clock <= caller.start + CallerTimeout
                    /\ Ended(caller.task) =>
                         clock - Max({tasks[caller.task].ended, caller.start})
                             <= IF config.transport = "pubsub" /\ ~reader.lost THEN 0 ELSE CallerPoll
  BY DEF ResultIsSeen, IsWaiting
<1>1. /\ clock \in Nat /\ caller.start \in Int /\ CallerPoll \in Nat /\ tasks[caller.task].ended \in Int
      /\ clock <= caller.start + CallerTimeout
  BY CallerNumbers DEF WaitInv, Attending, IsWaiting
<1> DEFINE ended == Max({tasks[caller.task].ended, caller.start})
<1>2. ended \in {tasks[caller.task].ended, caller.start} /\ ended >= tasks[caller.task].ended /\ ended >= caller.start
  BY <1>1, GreatestOfTwo
<1>3. Ended(caller.task) => SoonAfter(clock, CallerPoll) /\ (config.transport = "pubsub" /\ ~reader.lost => SoonAfter(clock, 0))
  BY DEF WaitInv, Attending
<1> HIDE DEF ended
<1>4. Ended(caller.task) => clock - ended <= IF config.transport = "pubsub" /\ ~reader.lost THEN 0 ELSE CallerPoll
  <2>1. SoonAfter(clock, CallerPoll) => clock - ended <= CallerPoll
    BY <1>1, <1>2 DEF SoonAfter
  <2>2. SoonAfter(clock, 0) => clock - ended <= 0
    BY <1>1, <1>2 DEF SoonAfter
  <2> QED
    BY <1>3, <2>1, <2>2
<1> QED
  BY <1>1, <1>4 DEF ended

LEMMA WaitsKeepInv == WaitSpec => []WaitInv
<1>1. config \in Configs /\ failures = 0 /\ WaitInit => WaitInv
  BY WaitStarts
<1>2. WaitInv /\ [WaitNext /\ UNCHANGED config]_<<config, failures, waitVars>> => WaitInv'
  BY WaitGoesOn
<1> QED
  BY <1>1, <1>2, PTL DEF WaitSpec

\* However many messages are lost, reads fail and tables are missing, a free
\* worker claims what is due within a poll and a pause per failed read; at once
\* if it was told or saw it; and a cancelled job is cut within a poll and a check.
THEOREM WorkIsTakenInTime == WaitSpec => []LatenessIsBounded
<1>1. WaitInv => LatenessIsBounded
  BY InvBoundsLateness
<1> QED
  BY <1>1, WaitsKeepInv, PTL

\* A caller of TaskResult.wait has the result at once where ends are published
\* and no message is lost, within its poll interval anyway, and its timeout.
THEOREM CallersSeeResults == WaitSpec => []ResultIsSeen
<1>1. WaitInv => ResultIsSeen
  BY InvShowsResult
<1> QED
  BY <1>1, WaitsKeepInv, PTL

----------------------------------------------------------------------------
\* Those who watch events: what a stream keeps.

IsSeq(s) == s \in Seq(Range(s))

\* The keys behind a position, and the keys remembered later than one.
Later(read, p) == {DedupKey(read[m]) : m \in (p + 1)..Len(read)}
Newer(seen, i) == {seen[m] : m \in (i + 1)..Len(seen)}

\* What is remembered are the last keys that differ, in the order in which they
\* were last read; what is not was followed by as many others.
Remembers(seen, read) ==
    /\ IsSeq(seen) /\ Len(seen) <= Window
    /\ \A i, j \in 1..Len(seen) : seen[i] = seen[j] => i = j
    /\ \A i \in 1..Len(seen) : \E p \in 1..Len(read) :
          DedupKey(read[p]) = seen[i] /\ Later(read, p) = Newer(seen, i)
    /\ \A p \in 1..Len(read) :
          DedupKey(read[p]) \notin Range(seen) => Len(seen) = Window /\ Range(seen) \subseteq Later(read, p)

Rank(positions, j) == Cardinality({i \in positions : i <= j})

\* Every number up to that of the positions is the rank of one.
Counted(positions) == \A n \in 1..Cardinality(positions) : \E j \in positions : Rank(positions, j) = n

StreamType ==
    /\ DOMAIN stream = {"pc", "transport", "wire", "next", "seen", "read", "sending", "sent", "ping", "writers"}
    /\ stream.pc \in {"none", "denied", "replay", "open", "ended"}
    /\ IsSeq(stream.read) /\ IsSeq(stream.sent)
    /\ stream.writers \in {{}, {"event"}, {"ping"}}

StreamInv ==
    /\ StreamType
    /\ Remembers(stream.seen, stream.read) /\ Counted(NewPositions(stream.read))
    /\ "event" \in stream.writers => stream.sending # Nothing
    /\ stream.pc \in {"none", "denied", "replay"} =>
          stream.read = <<>> /\ stream.sent = <<>> /\ stream.sending = Nothing
    /\ stream.pc = "open" => NewEvents(stream.read) = Shown
    /\ stream.pc = "ended" =>
          IsPrefix(stream.sent, NewEvents(stream.read)) /\ Len(stream.sent) >= Len(NewEvents(stream.read)) - 1

----------------------------------------------------------------------------
\* Sequences, whatever they hold.

LEMMA SequenceFacts ==
    ASSUME NEW S, NEW s \in Seq(S)
    PROVE  /\ IsSeq(s) /\ Len(s) \in Nat /\ DOMAIN s = 1..Len(s)
           /\ \A i \in 1..Len(s) : s[i] \in Range(s)
           /\ \A x \in Range(s) : \E i \in 1..Len(s) : s[i] = x
<1>1. Len(s) \in Nat /\ DOMAIN s = 1..Len(s) /\ s \in [1..Len(s) -> S]
  BY LenProperties
<1>2. \A i \in 1..Len(s) : s[i] \in Range(s)
  BY <1>1 DEF Range
<1>3. \A x \in Range(s) : \E i \in 1..Len(s) : s[i] = x
  BY <1>1 DEF Range
<1>4. IsSeq(s)
  <2>1. s \in [1..Len(s) -> Range(s)]
    BY <1>1, <1>2
  <2> QED
    BY <1>1, <2>1 DEF IsSeq
<1> QED
  BY <1>1, <1>2, <1>3, <1>4

LEMMA AppendFacts ==
    ASSUME NEW s, IsSeq(s), NEW e
    PROVE  /\ IsSeq(Append(s, e)) /\ Len(s) \in Nat /\ Len(Append(s, e)) = Len(s) + 1
           /\ \A i \in 1..Len(s) : Append(s, e)[i] = s[i]
           /\ Append(s, e)[Len(s) + 1] = e
           /\ Range(Append(s, e)) = Range(s) \cup {e}
<1> DEFINE S == Range(s) \cup {e}
           t == Append(s, e)
<1>1. s \in Seq(S)
  BY SeqMonotonic DEF IsSeq
<1> HIDE DEF S
<1>2. e \in S
  BY DEF S
<1>3. /\ t \in Seq(S) /\ Len(s) \in Nat /\ Len(t) = Len(s) + 1
      /\ \A i \in 1..Len(s) : t[i] = s[i]
      /\ t[Len(s) + 1] = e
  BY <1>1, <1>2
<1>4. IsSeq(t) /\ DOMAIN t = 1..Len(t) /\ DOMAIN s = 1..Len(s)
  BY <1>1, <1>3, SequenceFacts
<1> HIDE DEF t
<1>5. Range(t) = Range(s) \cup {e}
  <2>1. \A x \in Range(t) : x \in Range(s) \cup {e}
    <3> SUFFICES ASSUME NEW i \in 1..Len(t) PROVE t[i] \in Range(s) \cup {e}
      BY <1>4 DEF Range
    <3>1. i \in 1..Len(s) \/ i = Len(s) + 1
      BY <1>3
    <3> QED
      BY <1>3, <1>4, <3>1 DEF Range
  <2>2. \A i \in 1..Len(s) : i \in 1..Len(t) /\ t[i] = s[i]
    BY <1>3
  <2>3. Len(t) \in 1..Len(t) /\ t[Len(t)] = e
    BY <1>3
  <2> QED
    BY <1>4, <2>1, <2>2, <2>3 DEF Range
<1> QED
  BY <1>3, <1>4, <1>5 DEF t

LEMMA RangeOfDistinct ==
    ASSUME NEW s, IsSeq(s), \A i, j \in 1..Len(s) : s[i] = s[j] => i = j
    PROVE  IsFiniteSet(Range(s)) /\ Cardinality(Range(s)) = Len(s)
<1>1. Len(s) \in Nat /\ DOMAIN s = 1..Len(s) /\ s \in [1..Len(s) -> Range(s)]
  BY LenProperties DEF IsSeq
<1>2. s \in Bijection(1..Len(s), Range(s))
  BY <1>1 DEF Bijection, Injection, Surjection, IsInjective, Range
<1>3. ExistsBijection(1..Len(s), Range(s))
  BY <1>2 DEF ExistsBijection
<1>4. IsFiniteSet(1..Len(s)) /\ Cardinality(1..Len(s)) = Len(s)
  BY <1>1, FS_Interval
<1> QED
  BY <1>3, <1>4, FS_Bijection

----------------------------------------------------------------------------
\* Positions in order.

LEMMA RankGrows ==
    ASSUME NEW S, IsFiniteSet(S), S \subseteq Nat, NEW i \in S, NEW j \in S, i < j
    PROVE  Rank(S, i) \in Nat /\ Rank(S, j) \in Nat /\ Rank(S, i) < Rank(S, j)
<1> DEFINE A == {m \in S : m <= i}
           B == {m \in S : m <= j}
<1>1. A \subseteq B /\ j \in B /\ j \notin A /\ B \subseteq S
  <2>1. i \in Nat /\ j \in Nat
    OBVIOUS
  <2>2. \A m \in S : m <= i => m <= j
    BY <2>1
  <2>3. j <= j /\ ~(j <= i)
    BY <2>1
  <2>4. \A m : (m \in A <=> m \in S /\ m <= i) /\ (m \in B <=> m \in S /\ m <= j)
    OBVIOUS
  <2> HIDE DEF A, B
  <2> QED
    BY <2>2, <2>3, <2>4
<1> HIDE DEF A, B
<1>2. IsFiniteSet(B) /\ IsFiniteSet(A) /\ Cardinality(A) <= Cardinality(B)
      /\ (Cardinality(A) = Cardinality(B) => A = B)
  <2>1. IsFiniteSet(B)
    BY <1>1, FS_Subset
  <2> QED
    BY <1>1, <2>1, FS_Subset
<1>3. Cardinality(A) \in Nat /\ Cardinality(B) \in Nat
  BY <1>2, FS_CardinalityType
<1> QED
  BY <1>1, <1>2, <1>3 DEF Rank, A, B

LEMMA RankIsBounded ==
    ASSUME NEW S, IsFiniteSet(S), NEW j \in S
    PROVE  Rank(S, j) \in Nat /\ Cardinality(S) \in Nat /\ Rank(S, j) <= Cardinality(S)
<1> DEFINE A == {m \in S : m <= j}
<1>1. A \subseteq S
  OBVIOUS
<1> HIDE DEF A
<1> QED
  BY <1>1, FS_Subset, FS_CardinalityType DEF Rank, A

LEMMA NthFacts ==
    ASSUME NEW S, IsFiniteSet(S), S \subseteq Nat, NEW j \in S
    PROVE  Nth(S, Rank(S, j)) = j
<1> DEFINE i == Nth(S, Rank(S, j))
<1>1. i \in S /\ Rank(S, i) = Rank(S, j)
  BY DEF Nth, Rank
<1> HIDE DEF i
<1>2. i \in Nat /\ j \in Nat
  BY <1>1
<1>3. ASSUME i < j PROVE FALSE
  <2>1. Rank(S, i) \in Nat /\ Rank(S, j) \in Nat /\ Rank(S, i) < Rank(S, j)
    BY <1>1, <1>3, RankGrows
  <2> QED
    BY <1>1, <2>1
<1>4. ASSUME j < i PROVE FALSE
  <2>1. Rank(S, i) \in Nat /\ Rank(S, j) \in Nat /\ Rank(S, j) < Rank(S, i)
    BY <1>1, <1>4, RankGrows
  <2> QED
    BY <1>1, <2>1
<1>5. i = j
  BY <1>2, <1>3, <1>4
<1> QED
  BY <1>5 DEF i

\* One more position behind the others has the next rank and leaves theirs.
LEMMA OneMorePosition ==
    ASSUME NEW n \in Nat, NEW S, S \subseteq 1..n, Counted(S)
    PROVE  LET T == S \cup {n + 1}
           IN  /\ IsFiniteSet(S) /\ Cardinality(S) \in Nat
               /\ Cardinality(T) = Cardinality(S) + 1 /\ Counted(T)
               /\ \A k \in 1..Cardinality(S) : Nth(T, k) = Nth(S, k) /\ Nth(S, k) \in S
               /\ Nth(T, Cardinality(S) + 1) = n + 1
<1> DEFINE T == S \cup {n + 1}
<1>1. IsFiniteSet(S)
  <2>1. IsFiniteSet(1..n)
    BY FS_Interval
  <2> QED
    BY <2>1, FS_Subset
<1>2. n + 1 \notin S /\ S \subseteq Nat /\ T \subseteq Nat
  OBVIOUS
<1>3. IsFiniteSet(T) /\ Cardinality(T) = Cardinality(S) + 1 /\ Cardinality(S) \in Nat
  BY <1>1, <1>2, FS_AddElement, FS_CardinalityType
<1>4. \A j \in S : Rank(T, j) = Rank(S, j)
  <2> TAKE j \in S
  <2>1. {m \in T : m <= j} = {m \in S : m <= j}
    OBVIOUS
  <2> QED
    BY <2>1 DEF Rank
<1>5. Rank(T, n + 1) = Cardinality(S) + 1
  <2>1. {m \in T : m <= n + 1} = T
    <3>1. \A m \in T : m \in Nat /\ m <= n + 1
      OBVIOUS
    <3> HIDE DEF T
    <3> QED
      BY <3>1
  <2> QED
    BY <1>3, <2>1 DEF Rank
<1>6. Counted(T)
  <2> SUFFICES ASSUME NEW k \in 1..Cardinality(T) PROVE \E j \in T : Rank(T, j) = k
    BY DEF Counted
  <2>1. CASE k = Cardinality(S) + 1
    BY <1>5, <2>1
  <2>2. CASE k # Cardinality(S) + 1
    <3>1. k \in 1..Cardinality(S)
      BY <1>3, <2>2
    <3>2. PICK j \in S : Rank(S, j) = k
      BY <3>1 DEF Counted
    <3> QED
      BY <1>4, <3>2
  <2> QED
    BY <2>1, <2>2
<1>7. ASSUME NEW k \in 1..Cardinality(S) PROVE Nth(T, k) = Nth(S, k) /\ Nth(S, k) \in S
  <2>1. PICK j \in S : Rank(S, j) = k
    BY DEF Counted
  <2>2. Nth(S, k) = j
    BY <1>1, <1>2, <2>1, NthFacts
  <2>3. j \in T /\ Rank(T, j) = k
    BY <1>4, <2>1
  <2> HIDE DEF T
  <2>4. Nth(T, k) = j
    BY <1>2, <1>3, <2>3, NthFacts
  <2> QED
    BY <2>1, <2>2, <2>4
<1>8. Nth(T, Cardinality(S) + 1) = n + 1
  <2>1. n + 1 \in T
    OBVIOUS
  <2> HIDE DEF T
  <2> QED
    BY <1>2, <1>3, <1>5, <2>1, NthFacts
<1> QED
  BY <1>1, <1>3, <1>6, <1>7, <1>8

----------------------------------------------------------------------------
\* What a stream remembers.

LEMMA RemoveAtFacts ==
    ASSUME NEW s, IsSeq(s), NEW q \in 1..Len(s)
    PROVE  /\ RemoveAt(s, q) \in Seq(Range(s)) /\ Len(RemoveAt(s, q)) = Len(s) - 1
           /\ \A i \in 1..(Len(s) - 1) : RemoveAt(s, q)[i] = IF i < q THEN s[i] ELSE s[i + 1]
<1> DEFINE front == SubSeq(s, 1, q - 1)
           back == SubSeq(s, q + 1, Len(s))
<1>1. Len(s) \in Nat /\ q \in Nat /\ \A i \in 1..Len(s) : s[i] \in Range(s)
  BY SequenceFacts DEF IsSeq
<1>2. /\ front \in Seq(Range(s)) /\ Len(front) = q - 1
      /\ \A i \in 1..(q - 1) : front[i] = s[i]
  <2>1. 1 \in Int /\ q - 1 \in Int /\ \A i \in 1..(q - 1) : s[i] \in Range(s)
    BY <1>1
  <2>2. /\ front \in Seq(Range(s)) /\ Len(front) = IF 1 <= q - 1 THEN q - 1 - 1 + 1 ELSE 0
        /\ \A i \in 1..(q - 1 - 1 + 1) : front[i] = s[1 + i - 1]
    BY <2>1, SubSeqProperties
  <2> HIDE DEF front
  <2> QED
    BY <1>1, <2>2
<1>3. /\ back \in Seq(Range(s)) /\ Len(back) = Len(s) - q
      /\ \A i \in 1..(Len(s) - q) : back[i] = s[q + i]
  <2>1. q + 1 \in Int /\ Len(s) \in Int /\ \A i \in (q + 1)..Len(s) : s[i] \in Range(s)
    BY <1>1
  <2>2. /\ back \in Seq(Range(s)) /\ Len(back) = IF q + 1 <= Len(s) THEN Len(s) - (q + 1) + 1 ELSE 0
        /\ \A i \in 1..(Len(s) - (q + 1) + 1) : back[i] = s[q + 1 + i - 1]
    BY <2>1, SubSeqProperties
  <2> HIDE DEF back
  <2>3. Len(back) = Len(s) - q
    BY <1>1, <2>2
  <2>4. ASSUME NEW i \in 1..(Len(s) - q) PROVE back[i] = s[q + i]
    <3>1. i \in 1..(Len(s) - (q + 1) + 1) /\ q + 1 + i - 1 = q + i
      BY <1>1
    <3> QED
      BY <2>2, <3>1
  <2> QED
    BY <2>2, <2>3, <2>4
<1> HIDE DEF front, back
<1>4. RemoveAt(s, q) = front \o back
  BY DEF RemoveAt, front, back
<1>5. /\ front \o back \in Seq(Range(s)) /\ Len(front \o back) = Len(s) - 1
      /\ \A i \in 1..(Len(s) - 1) : (front \o back)[i] = IF i <= q - 1 THEN front[i] ELSE back[i - (q - 1)]
  <2>1. /\ front \o back \in Seq(Range(s)) /\ Len(front \o back) = Len(front) + Len(back)
        /\ \A i \in 1..(Len(front) + Len(back)) :
              (front \o back)[i] = IF i <= Len(front) THEN front[i] ELSE back[i - Len(front)]
    BY <1>2, <1>3, ConcatProperties
  <2>2. Len(front) + Len(back) = Len(s) - 1
    BY <1>1, <1>2, <1>3
  <2> QED
    BY <1>2, <2>1, <2>2
<1>6. ASSUME NEW i \in 1..(Len(s) - 1) PROVE (front \o back)[i] = IF i < q THEN s[i] ELSE s[i + 1]
  <2>1. CASE i < q
    <3>1. i \in 1..(q - 1) /\ i <= q - 1
      BY <1>1, <2>1
    <3> QED
      BY <1>2, <1>5, <2>1, <3>1
  <2>2. CASE ~(i < q)
    <3>1. i - (q - 1) \in 1..(Len(s) - q) /\ q + (i - (q - 1)) = i + 1 /\ ~(i <= q - 1)
      BY <1>1, <2>2
    <3> QED
      BY <1>3, <1>5, <2>2, <3>1
  <2> QED
    BY <2>1, <2>2
<1> QED
  BY <1>4, <1>5, <1>6

\* A key that takes the place of another moves it out and stands last.
Replaces(seen, key, q, after) ==
    /\ IsSeq(after) /\ Len(after) = Len(seen)
    /\ \A i \in 1..Len(seen) :
          after[i] = IF i < q THEN seen[i] ELSE IF i < Len(seen) THEN seen[i + 1] ELSE key

LEMMA SeenCases ==
    ASSUME NEW s, IsSeq(s), Len(s) <= Window, NEW key
    PROVE  \/ /\ key \notin Range(s) /\ Len(s) < Window /\ Seen(s, key) = Append(s, key)
           \/ \E q \in 1..Len(s) :
                 /\ s[q] = key \/ (q = 1 /\ key \notin Range(s) /\ Len(s) = Window)
                 /\ Replaces(s, key, q, Seen(s, key))
<1>1. /\ Len(s) \in Nat /\ Window \in Nat /\ Window >= 1
      /\ \A i \in 1..Len(s) : s[i] \in Range(s)
      /\ \A x \in Range(s) : \E i \in 1..Len(s) : s[i] = x
      /\ DOMAIN s = 1..Len(s)
  BY SequenceFacts, WindowAssumption DEF IsSeq
<1> DEFINE n == Len(s)
<1>n. n = Len(s) /\ n \in Nat
  BY <1>1
<1> HIDE DEF n
<1>2. CASE key \in Range(s)
  <2> DEFINE q == Place(s, key)
             t == RemoveAt(s, q)
             u == Append(t, key)
  <2>1. Contains(s, key) /\ q \in 1..Len(s) /\ s[q] = key
    BY <1>1, <1>2 DEF Contains, Place
  <2> HIDE DEF q
  <2>2. /\ t \in Seq(Range(s)) /\ Len(t) = Len(s) - 1
        /\ \A i \in 1..(Len(s) - 1) : t[i] = IF i < q THEN s[i] ELSE s[i + 1]
    BY <2>1, RemoveAtFacts
  <2>3. IsSeq(t)
    BY <2>2, SequenceFacts
  <2> HIDE DEF t
  <2>4. /\ IsSeq(u) /\ Len(u) = Len(t) + 1 /\ u[Len(t) + 1] = key
        /\ \A i \in 1..Len(t) : u[i] = t[i]
    BY <2>3, AppendFacts
  <2>5. Seen(s, key) = u
    <3>1. OtherKeys(s, key) = t
      BY <2>1 DEF OtherKeys, t, q
    <3>2. Len(u) = Len(s)
      BY <1>1, <2>2, <2>4
    <3>3. ~(Len(u) > Window)
      BY <1>1, <3>2
    <3> QED
      BY <3>1, <3>3 DEF Seen
  <2> HIDE DEF u
  <2>6. Replaces(s, key, q, u)
    <3>1. Len(u) = Len(s)
      BY <1>1, <2>2, <2>4
    <3>2. ASSUME NEW i \in 1..Len(s)
          PROVE  u[i] = IF i < q THEN s[i] ELSE IF i < Len(s) THEN s[i + 1] ELSE key
      <4>0. i \in 1..n /\ q \in 1..n /\ Len(t) = n - 1
        BY <1>n, <2>1, <2>2
      <4>1. CASE i < Len(s)
        <5>1. i \in 1..(n - 1)
          BY <1>n, <4>0, <4>1
        <5> QED
          BY <1>n, <2>2, <2>4, <4>0, <4>1, <5>1
      <4>2. CASE ~(i < Len(s))
        <5>1. i = n /\ ~(i < q)
          BY <1>n, <4>0, <4>2
        <5>2. n = (n - 1) + 1
          BY <1>n
        <5> QED
          BY <2>4, <4>0, <4>2, <5>1, <5>2
      <4> QED
        BY <4>1, <4>2
    <3> QED
      BY <2>4, <3>1, <3>2 DEF Replaces
  <2> QED
    BY <2>1, <2>5, <2>6
<1>3. CASE key \notin Range(s)
  <2> DEFINE u == Append(s, key)
  <2>1. OtherKeys(s, key) = s
    BY <1>1, <1>3 DEF OtherKeys, Contains
  <2>2. /\ IsSeq(u) /\ Len(u) = Len(s) + 1 /\ u[Len(s) + 1] = key
        /\ \A i \in 1..Len(s) : u[i] = s[i]
    BY AppendFacts
  <2>3. Seen(s, key) = IF Len(u) > Window THEN Tail(u) ELSE u
    BY <2>1 DEF Seen
  <2>4. CASE Len(s) < Window
    <3>1. ~(Len(u) > Window)
      BY <1>1, <2>2, <2>4
    <3> QED
      BY <1>3, <2>3, <2>4, <3>1
  <2>5. CASE ~(Len(s) < Window)
    <3>0. n <= Window /\ ~(n < Window) /\ Window \in Nat
      BY <1>1, <1>n, <2>5
    <3>9. Len(u) = n + 1 /\ Window >= 1
      BY <1>1, <1>n, <2>2
    <3> HIDE DEF u
    <3>1. n = Window /\ Len(u) > Window /\ n >= 1
      BY <1>n, <3>0, <3>9
    <3>2. u \in Seq(Range(u)) /\ u # <<>>
      <4>1. Len(u) # 0
        BY <1>n, <2>2
      <4>2. Len(<<>>) = 0
        OBVIOUS
      <4> QED
        BY <2>2, <4>1, <4>2 DEF IsSeq
    <3>3. /\ Tail(u) \in Seq(Range(u)) /\ Len(Tail(u)) = Len(u) - 1
          /\ \A i \in 1..Len(Tail(u)) : Tail(u)[i] = u[i + 1]
      BY <3>2, HeadTailProperties
    <3>4. IsSeq(Tail(u)) /\ Len(Tail(u)) = n
      <4>1. Len(Tail(u)) = n
        BY <1>n, <2>2, <3>3
      <4> QED
        BY <3>3, <4>1, SequenceFacts
    <3>5. ASSUME NEW i \in 1..Len(s)
          PROVE  Tail(u)[i] = IF i < 1 THEN s[i] ELSE IF i < Len(s) THEN s[i + 1] ELSE key
      <4>0. i \in 1..n
        BY <1>n
      <4>1. Tail(u)[i] = u[i + 1] /\ ~(i < 1)
        BY <1>n, <3>3, <3>4, <4>0
      <4>2. CASE i < n
        <5>1. i + 1 \in 1..n
          BY <1>n, <4>0, <4>2
        <5> QED
          BY <1>n, <2>2, <4>1, <4>2, <5>1
      <4>3. CASE ~(i < n)
        <5>1. i = n
          BY <1>n, <4>0, <4>3
        <5> QED
          BY <1>n, <2>2, <4>1, <4>3, <5>1
      <4> QED
        BY <4>2, <4>3
    <3>6. Replaces(s, key, 1, Tail(u))
      BY <1>n, <3>4, <3>5 DEF Replaces
    <3>7. 1 \in 1..Len(s) /\ Len(s) = Window
      BY <1>n, <3>1
    <3>8. Seen(s, key) = Tail(u)
      BY <2>3, <3>1
    <3> QED
      BY <1>3, <3>6, <3>7, <3>8
  <2> QED
    BY <2>4, <2>5
<1> QED
  BY <1>2, <1>3

\* Of what was remembered, all but one key is still, in the same order, and the
\* key just read is the last.
LEMMA SeenFacts ==
    ASSUME NEW s, IsSeq(s), Len(s) <= Window, NEW key,
           \A i, j \in 1..Len(s) : s[i] = s[j] => i = j
    PROVE  LET t == Seen(s, key)
           IN  /\ IsSeq(t) /\ Len(t) \in Nat /\ Len(s) <= Len(t) /\ Len(t) <= Window /\ Len(t) >= 1
               /\ \A i, j \in 1..Len(t) : t[i] = t[j] => i = j
               /\ t[Len(t)] = key
               /\ \A i \in 1..(Len(t) - 1) : \E o \in 1..Len(s) :
                     t[i] = s[o] /\ Newer(t, i) = Newer(s, o) \cup {key}
               /\ \A o \in 1..Len(s) : s[o] \notin Range(t) =>
                     o = 1 /\ Len(t) = Window /\ Range(t) = Newer(s, 1) \cup {key}
               /\ Range(t) \subseteq Range(s) \cup {key}
<1> DEFINE t == Seen(s, key)
<1>1. /\ Len(s) \in Nat /\ Window \in Nat /\ Window >= 1
      /\ \A i \in 1..Len(s) : s[i] \in Range(s)
      /\ DOMAIN s = 1..Len(s)
  BY SequenceFacts, WindowAssumption DEF IsSeq
<1>2. CASE key \notin Range(s) /\ Len(s) < Window /\ t = Append(s, key)
  <2> HIDE DEF t
  <2>1. /\ IsSeq(t) /\ Len(t) = Len(s) + 1 /\ t[Len(s) + 1] = key
        /\ \A i \in 1..Len(s) : t[i] = s[i]
        /\ Range(t) = Range(s) \cup {key}
    BY <1>2, AppendFacts
  <2>2. \A i, j \in 1..Len(t) : t[i] = t[j] => i = j
    <3>1. \A i \in 1..Len(t) : i \in 1..Len(s) \/ i = Len(s) + 1
      BY <1>1, <2>1
    <3> QED
      BY <1>1, <1>2, <2>1, <3>1
  <2>3. ASSUME NEW i \in 1..Len(s) PROVE Newer(t, i) = Newer(s, i) \cup {key}
    <3>1. \A m : m \in (i + 1)..Len(t) <=> m \in (i + 1)..Len(s) \/ m = Len(s) + 1
      BY <1>1, <2>1
    <3>2. \A m \in (i + 1)..Len(s) : m \in 1..Len(s)
      BY <1>1
    <3> QED
      BY <2>1, <3>1, <3>2 DEF Newer
  <2>4. Len(t) \in Nat /\ Len(s) <= Len(t) /\ Len(t) <= Window /\ Len(t) >= 1 /\ Len(t) - 1 = Len(s)
    BY <1>1, <1>2, <2>1
  <2>5. \A i \in 1..Len(s) : s[i] \in Range(t)
    BY <1>1, <2>1
  <2> QED
    BY <1>1, <2>1, <2>2, <2>3, <2>4, <2>5 DEF t
<1>3. CASE \E q \in 1..Len(s) :
              /\ s[q] = key \/ (q = 1 /\ key \notin Range(s) /\ Len(s) = Window)
              /\ Replaces(s, key, q, t)
  <2> HIDE DEF t
  <2>1. PICK q \in 1..Len(s) :
              /\ s[q] = key \/ (q = 1 /\ key \notin Range(s) /\ Len(s) = Window)
              /\ Replaces(s, key, q, t)
    BY <1>3
  <2> DEFINE n == Len(s)
             old(i) == IF i < q THEN i ELSE i + 1
  <2>14. n = Len(s) /\ n \in Nat
    BY <1>1
  <2> HIDE DEF n
  <2>15. q \in 1..n /\ q \in Nat /\ q >= 1 /\ q <= n /\ n >= 1
    BY <2>14
  <2>2. /\ IsSeq(t) /\ Len(t) = n /\ n \in Nat /\ n >= 1 /\ q \in Nat /\ q >= 1 /\ q <= n
        /\ DOMAIN t = 1..n
    <3>1. IsSeq(t) /\ Len(t) = n
      BY <2>1, <2>14 DEF Replaces
    <3>2. DOMAIN t = 1..Len(t)
      BY <3>1, SequenceFacts DEF IsSeq
    <3> QED
      BY <2>14, <2>15, <3>1, <3>2
  <2>16. \A i \in 1..n : t[i] = IF i < q THEN s[i] ELSE IF i < n THEN s[i + 1] ELSE key
    BY <2>1, <2>14 DEF Replaces
  <2>3. t[n] = key
    <3>1. n \in 1..n /\ ~(n < q) /\ ~(n < n)
      BY <2>14, <2>15
    <3> QED
      BY <2>16, <3>1
  <2>4. \A i \in 1..(n - 1) : t[i] = s[old(i)] /\ old(i) \in 1..n /\ old(i) # q
    <3> TAKE i \in 1..(n - 1)
    <3>1. i \in 1..n /\ i < n /\ old(i) \in 1..n /\ old(i) # q
      BY <2>14, <2>15
    <3> QED
      BY <2>16, <3>1
  <2>22. \A i, j \in 1..n : s[i] \in Range(s) /\ (s[i] = s[j] => i = j)
    BY <1>1, <2>14
  <2>5. \A i \in 1..(n - 1) : s[old(i)] # key
    <3> TAKE i \in 1..(n - 1)
    <3>1. old(i) \in 1..n /\ old(i) # q
      BY <2>4
    <3> HIDE DEF old
    <3> QED
      BY <2>1, <2>15, <2>22, <3>1
  <2>6. \A i, j \in 1..(n - 1) : old(i) = old(j) => i = j
    BY <2>2
  <2>7. \A o \in 1..n : o = q \/ \E i \in 1..(n - 1) : old(i) = o
    <3> TAKE o \in 1..n
    <3>1. CASE o < q
      <4>1. o \in 1..(n - 1) /\ old(o) = o
        BY <2>2, <3>1
      <4> QED
        BY <4>1
    <3>2. CASE o > q
      <4>1. o - 1 \in 1..(n - 1) /\ old(o - 1) = o
        BY <2>2, <3>2
      <4> QED
        BY <4>1
    <3> QED
      BY <2>2, <3>1, <3>2
  <2>8. \A i, j \in 1..(n - 1) : i < j <=> old(i) < old(j)
    BY <2>2
  <2> HIDE DEF old
  <2>9. \A i \in 1..n : i = n \/ i \in 1..(n - 1)
    BY <2>2
  <2>10. \A i, j \in 1..n : t[i] = t[j] => i = j
    <3> SUFFICES ASSUME NEW i \in 1..n, NEW j \in 1..n, t[i] = t[j] PROVE i = j
      OBVIOUS
    <3>1. i \in 1..(n - 1) /\ j \in 1..(n - 1) => old(i) = old(j)
      BY <2>4, <2>22
    <3> QED
      BY <2>3, <2>4, <2>5, <2>6, <2>9, <3>1
  <2>11. ASSUME NEW i \in 1..(n - 1) PROVE Newer(t, i) = Newer(s, old(i)) \cup {key}
    <3>1. ASSUME NEW m \in (i + 1)..n PROVE t[m] \in Newer(s, old(i)) \cup {key}
      <4>1. CASE m = n
        BY <2>3, <4>1
      <4>2. CASE m # n
        <5>1. m \in 1..(n - 1) /\ i < m
          BY <2>2, <4>2
        <5>2. old(m) \in (old(i) + 1)..n
          BY <2>4, <2>8, <5>1
        <5> QED
          BY <2>4, <2>14, <5>1, <5>2 DEF Newer
      <4> QED
        BY <4>1, <4>2
    <3>2. n \in (i + 1)..n
      BY <2>2
    <3>3. ASSUME NEW o \in (old(i) + 1)..n PROVE s[o] \in Newer(t, i)
      <4>1. o \in 1..n /\ old(i) < o
        BY <2>4
      <4>2. CASE o = q
        <5>1. s[q] = key
          <6>1. q # 1
            BY <2>4, <4>1, <4>2
          <6> QED
            BY <2>1, <6>1
        <5> QED
          BY <2>2, <2>3, <3>2, <4>2, <5>1 DEF Newer
      <4>3. CASE o # q
        <5>1. PICK j \in 1..(n - 1) : old(j) = o
          BY <2>7, <4>1, <4>3
        <5>2. i < j /\ j \in (i + 1)..n
          <6>1. i < j
            BY <2>8, <4>1, <5>1
          <6> QED
            BY <2>2, <6>1
        <5> QED
          BY <2>2, <2>4, <5>1, <5>2 DEF Newer
      <4> QED
        BY <4>2, <4>3
    <3>4. key \in Newer(t, i)
      BY <2>2, <2>3, <3>2 DEF Newer
    <3>5. Newer(t, i) \subseteq Newer(s, old(i)) \cup {key}
      BY <2>2, <3>1 DEF Newer
    <3>6. Newer(s, old(i)) \subseteq Newer(t, i)
      BY <2>14, <3>3 DEF Newer
    <3> QED
      BY <3>4, <3>5, <3>6
  <2>12. ASSUME NEW o \in 1..n, s[o] \notin Range(t)
         PROVE  o = 1 /\ Len(t) = Window /\ Range(t) = Newer(s, 1) \cup {key}
    <3>1. \A i \in 1..n : t[i] \in Range(t)
      BY <2>2 DEF Range
    <3>2. o = q
      <4> SUFFICES ASSUME o # q PROVE FALSE
        OBVIOUS
      <4>1. PICK i \in 1..(n - 1) : old(i) = o
        BY <2>7
      <4>2. i \in 1..n /\ t[i] = s[o]
        BY <2>2, <2>4, <4>1
      <4> QED
        BY <2>12, <3>1, <4>2
    <3>3. s[q] # key
      <4>1. n \in 1..n
        BY <2>2
      <4> QED
        BY <2>3, <2>12, <3>1, <3>2, <4>1
    <3>4. q = 1 /\ Len(s) = Window
      BY <2>1, <3>3
    <3>5. \A i \in 1..(n - 1) : t[i] = s[i + 1]
      BY <2>2, <2>4, <3>4 DEF old
    <3>6. \A m \in 2..n : m - 1 \in 1..(n - 1) /\ (m - 1) + 1 = m
      BY <2>2
    <3>7. \A i \in 1..(n - 1) : i + 1 \in 2..n /\ i \in 1..n
      BY <2>2
    <3>8. \A m \in 2..n : s[m] \in Range(t)
      BY <2>2, <3>1, <3>5, <3>6, <3>7
    <3>9. Newer(s, 1) = {s[m] : m \in 2..n}
      BY <2>14 DEF Newer
    <3>10. key \in Range(t)
      BY <2>2, <2>3, <3>1
    <3>11. \A i \in 1..n : t[i] \in Newer(s, 1) \cup {key}
      BY <2>3, <2>9, <3>5, <3>7, <3>9
    <3>12. Range(t) \subseteq Newer(s, 1) \cup {key}
      BY <2>2, <3>11 DEF Range
    <3>13. Newer(s, 1) \subseteq Range(t)
      BY <3>8, <3>9
    <3>14. Range(t) = Newer(s, 1) \cup {key}
      BY <3>10, <3>12, <3>13
    <3>15. o = 1 /\ Len(t) = Window
      BY <2>2, <2>14, <3>2, <3>4
    <3> QED
      BY <3>14, <3>15
  <2>13. Range(t) \subseteq Range(s) \cup {key}
    <3>1. \A i \in 1..n : t[i] \in Range(s) \cup {key}
      BY <1>1, <2>3, <2>4, <2>9, <2>14
    <3> QED
      BY <2>2, <3>1 DEF Range
  <2>17. Len(t) = Len(s) /\ Len(t) \in Nat /\ Len(s) <= Len(t) /\ Len(t) <= Window /\ Len(t) >= 1
    BY <1>1, <2>2, <2>14
  <2>18. \A i \in 1..(Len(t) - 1) : \E o \in 1..Len(s) : t[i] = s[o] /\ Newer(t, i) = Newer(s, o) \cup {key}
    BY <2>2, <2>4, <2>11, <2>14
  <2>19. \A o \in 1..Len(s) : s[o] \notin Range(t) =>
                     o = 1 /\ Len(t) = Window /\ Range(t) = Newer(s, 1) \cup {key}
    BY <2>12, <2>14
  <2>20. \A i, j \in 1..Len(t) : t[i] = t[j] => i = j
    BY <2>2, <2>10
  <2>21. IsSeq(t) /\ t[Len(t)] = key
    BY <2>2, <2>3
  <2> QED
    BY <2>13, <2>17, <2>18, <2>19, <2>20, <2>21 DEF t
<1> QED
  BY <1>2, <1>3, SeenCases

LEMMA LaterGrows ==
    ASSUME NEW read, IsSeq(read), NEW event
    PROVE  LET more == Append(read, event)
           IN  /\ Len(read) \in Nat /\ Len(more) = Len(read) + 1
               /\ more[Len(read) + 1] = event
               /\ \A p \in 1..Len(read) :
                     more[p] = read[p] /\ Later(more, p) = Later(read, p) \cup {DedupKey(event)}
               /\ Later(more, Len(read) + 1) = {}
               /\ \A p, o \in 1..Len(read) : p <= o => Later(read, o) \subseteq Later(read, p)
               /\ \A p, o \in 1..Len(read) : p < o => DedupKey(read[o]) \in Later(read, p)
<1> DEFINE more == Append(read, event)
           n == Len(read)
<1>1. /\ n = Len(read) /\ n \in Nat /\ Len(more) = n + 1 /\ more[n + 1] = event
      /\ \A p \in 1..n : more[p] = read[p]
  BY AppendFacts
<1> HIDE DEF more, n
<1>2. ASSUME NEW p \in 1..n PROVE Later(more, p) = Later(read, p) \cup {DedupKey(event)}
  <2>1. \A m : m \in (p + 1)..(n + 1) <=> m \in (p + 1)..n \/ m = n + 1
    BY <1>1
  <2>2. \A m \in (p + 1)..n : m \in 1..n
    BY <1>1
  <2> QED
    BY <1>1, <2>1, <2>2 DEF Later
<1>3. Later(more, n + 1) = {}
  <2>1. (n + 1 + 1)..(n + 1) = {}
    BY <1>1
  <2> QED
    BY <1>1, <2>1 DEF Later
<1>4. ASSUME NEW p \in 1..n, NEW o \in 1..n, p <= o PROVE Later(read, o) \subseteq Later(read, p)
  <2>1. (o + 1)..n \subseteq (p + 1)..n
    BY <1>1, <1>4
  <2> QED
    BY <1>1, <2>1 DEF Later
<1>5. ASSUME NEW p \in 1..n, NEW o \in 1..n, p < o PROVE DedupKey(read[o]) \in Later(read, p)
  <2>1. o \in (p + 1)..n
    BY <1>1, <1>5
  <2> QED
    BY <1>1, <2>1 DEF Later
<1> QED
  BY <1>1, <1>2, <1>3, <1>4, <1>5 DEF more

LEMMA ReadingIsRemembered ==
    ASSUME NEW seen, NEW read, IsSeq(read), Remembers(seen, read), NEW event
    PROVE  Remembers(Seen(seen, DedupKey(event)), Append(read, event))
<1> DEFINE key == DedupKey(event)
           t == Seen(seen, key)
           more == Append(read, event)
           n == Len(read)
<1>1. /\ IsSeq(seen) /\ Len(seen) <= Window
      /\ \A i, j \in 1..Len(seen) : seen[i] = seen[j] => i = j
  BY DEF Remembers
<1>2. /\ \A i \in 1..Len(seen) : \E p \in 1..n :
            DedupKey(read[p]) = seen[i] /\ Later(read, p) = Newer(seen, i)
      /\ \A p \in 1..n :
            DedupKey(read[p]) \notin Range(seen) => Len(seen) = Window /\ Range(seen) \subseteq Later(read, p)
  BY DEF Remembers
<1>3. /\ n \in Nat /\ Len(more) = n + 1 /\ more[n + 1] = event
      /\ \A p \in 1..n : more[p] = read[p] /\ Later(more, p) = Later(read, p) \cup {key}
      /\ Later(more, n + 1) = {}
      /\ \A p, o \in 1..n : p <= o => Later(read, o) \subseteq Later(read, p)
      /\ \A p, o \in 1..n : p < o => DedupKey(read[o]) \in Later(read, p)
  BY LaterGrows
<1> HIDE DEF key
<1>4. /\ IsSeq(t) /\ Len(t) \in Nat /\ Len(seen) <= Len(t) /\ Len(t) <= Window /\ Len(t) >= 1
      /\ \A i, j \in 1..Len(t) : t[i] = t[j] => i = j
      /\ t[Len(t)] = key
      /\ \A i \in 1..(Len(t) - 1) : \E o \in 1..Len(seen) :
            t[i] = seen[o] /\ Newer(t, i) = Newer(seen, o) \cup {key}
      /\ \A o \in 1..Len(seen) : seen[o] \notin Range(t) =>
            o = 1 /\ Len(t) = Window /\ Range(t) = Newer(seen, 1) \cup {key}
      /\ Range(t) \subseteq Range(seen) \cup {key}
  BY <1>1, SeenFacts
<1>5. /\ Len(seen) \in Nat /\ DOMAIN seen = 1..Len(seen) /\ DOMAIN t = 1..Len(t)
      /\ Window \in Nat
      /\ \A x \in Range(seen) : \E i \in 1..Len(seen) : seen[i] = x
  BY <1>1, <1>4, SequenceFacts, WindowAssumption DEF IsSeq
<1> HIDE DEF t, more, n
<1>10. /\ Len(t) \in Nat /\ Len(seen) \in Nat /\ Window \in Nat
       /\ Len(seen) <= Len(t) /\ Len(t) <= Window /\ Len(t) >= 1
  BY <1>4, <1>5
<1>6. key \in Range(t)
  <2>1. Len(t) \in DOMAIN t
    BY <1>5, <1>10
  <2> QED
    BY <1>4, <2>1 DEF Range
<1>7. ASSUME NEW i \in 1..Len(t)
      PROVE  \E p \in 1..(n + 1) : DedupKey(more[p]) = t[i] /\ Later(more, p) = Newer(t, i)
  <2>1. CASE i = Len(t)
    <3>1. Newer(t, i) = {}
      <4>1. (i + 1)..Len(t) = {}
        BY <1>4, <2>1
      <4> QED
        BY <4>1 DEF Newer
    <3>2. n + 1 \in 1..(n + 1) /\ DedupKey(more[n + 1]) = t[i]
      BY <1>3, <1>4, <2>1 DEF key
    <3> QED
      BY <1>3, <3>1, <3>2
  <2>2. CASE i # Len(t)
    <3>1. i \in 1..(Len(t) - 1)
      BY <1>4, <2>2
    <3>2. PICK o \in 1..Len(seen) : t[i] = seen[o] /\ Newer(t, i) = Newer(seen, o) \cup {key}
      BY <1>4, <3>1
    <3>3. PICK p \in 1..n : DedupKey(read[p]) = seen[o] /\ Later(read, p) = Newer(seen, o)
      BY <1>2
    <3>4. p \in 1..(n + 1)
      BY <1>3
    <3> QED
      BY <1>3, <3>2, <3>3, <3>4
  <2> QED
    BY <2>1, <2>2
<1>8. ASSUME NEW p \in 1..(n + 1), DedupKey(more[p]) \notin Range(t)
      PROVE  Len(t) = Window /\ Range(t) \subseteq Later(more, p)
  <2>1. p \in 1..n
    <3>1. p # n + 1
      BY <1>3, <1>6, <1>8 DEF key
    <3> QED
      BY <1>3, <3>1
  <2>2. more[p] = read[p] /\ Later(more, p) = Later(read, p) \cup {key}
    BY <1>3, <2>1
  <2>3. CASE DedupKey(read[p]) \notin Range(seen)
    <3>1. Len(seen) = Window /\ Range(seen) \subseteq Later(read, p)
      BY <1>2, <2>1, <2>3
    <3>2. Len(t) = Window
      BY <1>10, <3>1
    <3> QED
      BY <1>4, <2>2, <3>1, <3>2
  <2>4. CASE DedupKey(read[p]) \in Range(seen)
    <3>1. PICK o \in 1..Len(seen) : seen[o] = DedupKey(read[p])
      BY <1>5, <2>4
    <3>2. o = 1 /\ Len(t) = Window /\ Range(t) = Newer(seen, 1) \cup {key}
      BY <1>4, <1>8, <2>2, <3>1
    <3>3. PICK r \in 1..n : DedupKey(read[r]) = seen[o] /\ Later(read, r) = Newer(seen, o)
      BY <1>2
    <3>4. seen[o] \notin Newer(seen, o)
      <4>1. \A m \in (o + 1)..Len(seen) : m \in 1..Len(seen) /\ m # o
        BY <1>5
      <4> QED
        BY <1>1, <4>1 DEF Newer
    <3>5. ~(r < p)
      BY <1>3, <2>1, <3>1, <3>3, <3>4
    <3>6. p <= r
      <4>1. p \in Nat /\ r \in Nat
        BY <1>3, <2>1
      <4> QED
        BY <3>5, <4>1
    <3>7. Newer(seen, o) \subseteq Later(read, p)
      BY <1>3, <2>1, <3>3, <3>6
    <3> QED
      BY <2>2, <3>2, <3>7
  <2> QED
    BY <2>3, <2>4
<1>9. Remembers(t, more)
  BY <1>3, <1>4, <1>7, <1>8 DEF Remembers
<1> QED
  BY <1>9 DEF t, more, key

----------------------------------------------------------------------------
\* What is new.

LEMMA LaterIsFinite ==
    ASSUME NEW read, IsSeq(read), NEW p \in 1..Len(read)
    PROVE  IsFiniteSet(Later(read, p)) /\ Cardinality(Later(read, p)) \in Nat
<1> DEFINE I == (p + 1)..Len(read)
           f == [m \in I |-> DedupKey(read[m])]
<1>1. Len(read) \in Nat
  BY SequenceFacts DEF IsSeq
<1>2. IsFiniteSet(I)
  <2>1. p + 1 \in Int /\ Len(read) \in Int
    BY <1>1
  <2> QED
    BY <2>1, FS_Interval
<1>3. f \in Surjection(I, Later(read, p))
  BY DEF Surjection, Later
<1> HIDE DEF f, I
<1>4. IsFiniteSet(Later(read, p))
  BY <1>2, <1>3, FS_Surjection
<1> QED
  BY <1>4, FS_CardinalityType

\* An event is new exactly when its key is not remembered.
LEMMA RememberedIsNotNew ==
    ASSUME NEW seen, NEW read, IsSeq(read), Remembers(seen, read), NEW event
    PROVE  IsNew(Append(read, event), Len(read) + 1) <=> DedupKey(event) \notin Range(seen)
<1> DEFINE key == DedupKey(event)
           more == Append(read, event)
           n == Len(read)
<1>1. /\ IsSeq(seen) /\ Len(seen) <= Window /\ Window \in Nat
      /\ \A i, j \in 1..Len(seen) : seen[i] = seen[j] => i = j
      /\ \A i \in 1..Len(seen) : \E p \in 1..n :
            DedupKey(read[p]) = seen[i] /\ Later(read, p) = Newer(seen, i)
      /\ \A p \in 1..n :
            DedupKey(read[p]) \notin Range(seen) => Len(seen) = Window /\ Range(seen) \subseteq Later(read, p)
  BY WindowAssumption DEF Remembers
<1>2. /\ n \in Nat /\ Len(more) = n + 1 /\ more[n + 1] = event
      /\ \A p \in 1..n : more[p] = read[p]
  BY AppendFacts
<1>3. /\ Len(seen) \in Nat /\ \A x \in Range(seen) : \E i \in 1..Len(seen) : seen[i] = x
      /\ \A i \in 1..Len(seen) : seen[i] \in Range(seen)
  BY <1>1, SequenceFacts DEF IsSeq
<1>4. IsFiniteSet(Range(seen)) /\ Cardinality(Range(seen)) = Len(seen)
  BY <1>1, RangeOfDistinct
<1> HIDE DEF more, key
<1>5. \A p \in 1..n : Between(more, p, n + 1) = Later(read, p)
  <2> TAKE p \in 1..n
  <2>1. (p + 1)..(n + 1 - 1) = (p + 1)..n
    BY <1>2
  <2>2. \A m \in (p + 1)..n : m \in 1..n
    BY <1>2
  <2> QED
    BY <1>2, <2>1, <2>2 DEF Between, Later
<1>6. \A p \in 1..n : IsFiniteSet(Later(read, p)) /\ Cardinality(Later(read, p)) \in Nat
  BY LaterIsFinite
<1> HIDE DEF n
<1>7. IsNew(more, n + 1) <=>
        ~\E p \in 1..n : DedupKey(read[p]) = key /\ key \notin Later(read, p)
                         /\ Cardinality(Later(read, p)) < Window
  <2>1. 1..(n + 1 - 1) = 1..n
    BY <1>2
  <2> QED
    BY <1>2, <1>5, <2>1 DEF IsNew, key
<1>8. ASSUME key \notin Range(seen),
             NEW p \in 1..n, DedupKey(read[p]) = key, Cardinality(Later(read, p)) < Window
      PROVE  FALSE
  <2>1. Len(seen) = Window /\ Range(seen) \subseteq Later(read, p)
    BY <1>1, <1>8
  <2>2. Cardinality(Range(seen)) <= Cardinality(Later(read, p))
    BY <1>6, <2>1, FS_Subset
  <2> QED
    BY <1>1, <1>3, <1>4, <1>6, <1>8, <2>1, <2>2
<1>9. ASSUME key \in Range(seen)
      PROVE  \E p \in 1..n : DedupKey(read[p]) = key /\ key \notin Later(read, p)
                             /\ Cardinality(Later(read, p)) < Window
  <2>1. PICK i \in 1..Len(seen) : seen[i] = key
    BY <1>3, <1>9
  <2>2. PICK p \in 1..n : DedupKey(read[p]) = seen[i] /\ Later(read, p) = Newer(seen, i)
    BY <1>1
  <2>3. \A m \in (i + 1)..Len(seen) : m \in 1..Len(seen) /\ m # i
    BY <1>3
  <2>4. key \notin Newer(seen, i) /\ Newer(seen, i) \subseteq Range(seen)
    BY <1>1, <1>3, <2>1, <2>3 DEF Newer
  <2>5. Cardinality(Newer(seen, i)) <= Cardinality(Range(seen)) /\ Newer(seen, i) # Range(seen)
        /\ (Cardinality(Range(seen)) = Cardinality(Newer(seen, i)) => Range(seen) = Newer(seen, i))
    BY <1>4, <1>9, <2>4, FS_Subset
  <2>6. Cardinality(Newer(seen, i)) \in Nat
    BY <1>6, <2>2
  <2>7. Cardinality(Newer(seen, i)) < Window
    BY <1>1, <1>3, <1>4, <2>5, <2>6
  <2> QED
    BY <2>1, <2>2, <2>4, <2>7
<1> QED
  BY <1>7, <1>8, <1>9 DEF more, key, n

LEMMA NewEventsGrow ==
    ASSUME NEW read, IsSeq(read), Counted(NewPositions(read)), NEW event
    PROVE  LET more == Append(read, event)
           IN  /\ Counted(NewPositions(more))
               /\ IsNew(more, Len(read) + 1) => NewEvents(more) = Append(NewEvents(read), event)
               /\ ~IsNew(more, Len(read) + 1) => NewEvents(more) = NewEvents(read)
               /\ IsSeq(NewEvents(read))
<1> DEFINE more == Append(read, event)
           n == Len(read)
           S == NewPositions(read)
           T == NewPositions(more)
           c == Cardinality(S)
<1>1. /\ n \in Nat /\ Len(more) = n + 1 /\ more[n + 1] = event
      /\ \A p \in 1..n : more[p] = read[p]
  BY AppendFacts
<1> HIDE DEF more
<1>2. \A j \in 1..n : IsNew(more, j) <=> IsNew(read, j)
  <2> TAKE j \in 1..n
  <2>1. \A i \in 1..(j - 1) : i \in 1..n
    BY <1>1
  <2>2. \A i \in 1..(j - 1) : Between(more, i, j) = Between(read, i, j)
    <3> TAKE i \in 1..(j - 1)
    <3>1. \A m \in (i + 1)..(j - 1) : m \in 1..n
      BY <1>1
    <3> QED
      BY <1>1, <3>1 DEF Between
  <2> QED
    BY <1>1, <2>1, <2>2 DEF IsNew
<1>3. S \subseteq 1..n /\ Counted(S)
  BY DEF NewPositions
<1>4. T = IF IsNew(more, n + 1) THEN S \cup {n + 1} ELSE S
  <2>1. \A j : j \in 1..(n + 1) <=> j \in 1..n \/ j = n + 1
    BY <1>1
  <2>2. \A j : j \in T <=> j \in 1..(n + 1) /\ IsNew(more, j)
    BY <1>1 DEF NewPositions
  <2>3. \A j : j \in S <=> j \in 1..n /\ IsNew(read, j)
    BY DEF NewPositions
  <2> HIDE DEF S, T, n
  <2>4. \A j : j \in T <=> j \in IF IsNew(more, n + 1) THEN S \cup {n + 1} ELSE S
    BY <1>2, <2>1, <2>2, <2>3
  <2> QED
    BY <2>4
<1>5. NewEvents(read) = [k \in 1..c |-> read[Nth(S, k)]]
      /\ NewEvents(more) = [k \in 1..Cardinality(T) |-> more[Nth(T, k)]]
  BY DEF NewEvents
<1>6. n = Len(read)
  OBVIOUS
<1> HIDE DEF n, S, T
<1> DEFINE U == S \cup {n + 1}
<1>7. /\ c \in Nat /\ Cardinality(U) = c + 1 /\ Counted(U)
      /\ \A k \in 1..c : Nth(U, k) = Nth(S, k) /\ Nth(S, k) \in S
      /\ Nth(U, c + 1) = n + 1
  BY <1>1, <1>3, OneMorePosition
<1> HIDE DEF U, c
<1>8. \A k \in 1..c : Nth(S, k) \in 1..n /\ more[Nth(S, k)] = read[Nth(S, k)]
  BY <1>1, <1>3, <1>7
<1>9. /\ IsSeq(NewEvents(read)) /\ Len(NewEvents(read)) = c
      /\ \A k \in 1..c : NewEvents(read)[k] = read[Nth(S, k)]
  <2>1. \A k \in 1..c : read[Nth(S, k)] \in Range(read)
    <3>1. \A i \in 1..n : read[i] \in Range(read)
      BY <1>6, SequenceFacts DEF IsSeq
    <3> QED
      BY <1>8, <3>1
  <2>2. NewEvents(read) \in [1..c -> Range(read)]
    BY <1>5, <2>1
  <2>3. NewEvents(read) \in Seq(Range(read)) /\ Len(NewEvents(read)) = c
    BY <1>7, <2>2
  <2> QED
    BY <1>5, <2>3, SequenceFacts
<1>10. CASE IsNew(more, n + 1)
  <2>1. T = U
    BY <1>4, <1>10 DEF U
  <2> DEFINE a == Append(NewEvents(read), event)
  <2>2. /\ IsSeq(a) /\ Len(a) = c + 1 /\ a[c + 1] = event
        /\ \A k \in 1..c : a[k] = NewEvents(read)[k]
    BY <1>9, AppendFacts
  <2> HIDE DEF a
  <2>3. a = [k \in 1..(c + 1) |-> a[k]]
    BY <2>2, LenProperties DEF IsSeq
  <2>4. NewEvents(more) = [k \in 1..(c + 1) |-> more[Nth(U, k)]]
    BY <1>5, <1>7, <2>1
  <2>5. \A k \in 1..(c + 1) : more[Nth(U, k)] = a[k]
    <3> TAKE k \in 1..(c + 1)
    <3>1. k \in 1..c \/ k = c + 1
      BY <1>7
    <3> QED
      BY <1>1, <1>7, <1>8, <1>9, <2>2, <3>1
  <2>6. NewEvents(more) = a
    BY <2>3, <2>4, <2>5
  <2> QED
    BY <1>6, <1>7, <1>9, <1>10, <2>1, <2>6 DEF a, more, T
<1>11. CASE ~IsNew(more, n + 1)
  <2>1. T = S
    BY <1>4, <1>11
  <2>2. NewEvents(more) = NewEvents(read)
    BY <1>5, <1>8, <2>1 DEF c
  <2> QED
    BY <1>3, <1>6, <1>9, <1>11, <2>1, <2>2 DEF more, T
<1> QED
  BY <1>10, <1>11

----------------------------------------------------------------------------
\* The steps of a stream.

LEMMA NothingRead ==
    /\ IsSeq(<<>>) /\ Len(<<>>) = 0 /\ Remembers(<<>>, <<>>)
    /\ NewPositions(<<>>) = {} /\ Counted({}) /\ NewEvents(<<>>) = <<>>
<1>1. IsSeq(<<>>) /\ Len(<<>>) = 0
  <2>1. <<>> \in Seq(Range(<<>>)) /\ Len(<<>>) = 0
    BY EmptySeq
  <2> QED
    BY <2>1 DEF IsSeq
<1>2. 1..0 = {} /\ Window \in Nat
  BY WindowAssumption
<1>3. Remembers(<<>>, <<>>)
  BY <1>1, <1>2 DEF Remembers
<1>4. NewPositions(<<>>) = {} /\ Cardinality({}) = 0
  BY <1>1, <1>2, FS_EmptySet DEF NewPositions
<1>5. Counted({})
  BY <1>2, <1>4 DEF Counted
<1>6. NewEvents(<<>>) = <<>>
  <2>1. NewEvents(<<>>) = [k \in 1..0 |-> <<>>[Nth(NewPositions(<<>>), k)]]
    BY <1>4 DEF NewEvents
  <2> QED
    BY <1>2, <2>1
<1> QED
  BY <1>1, <1>3, <1>4, <1>5, <1>6

LEMMA StreamStarts ==
    ASSUME StreamInit
    PROVE  StreamInv
<1>1. /\ StreamType /\ stream.pc = "none" /\ stream.seen = <<>> /\ stream.read = <<>>
      /\ stream.sent = <<>> /\ stream.sending = Nothing /\ stream.writers = {}
  BY NothingRead DEF StreamInit, StreamType
<1> QED
  BY <1>1, NothingRead DEF StreamInv

\* What is read, remembered and sent is left as it is.
LEMMA NothingShown ==
    ASSUME StreamInv, DOMAIN stream' = DOMAIN stream,
           stream'.seen = stream.seen, stream'.read = stream.read, stream'.sent = stream.sent,
           stream'.sending = stream.sending, stream'.writers = stream.writers,
           \/ stream'.pc = stream.pc
           \/ stream.pc = "none" /\ stream'.pc \in {"denied", "replay"}
           \/ stream.pc = "replay" /\ stream'.pc = "open"
    PROVE  StreamInv'
<1>1. StreamType'
  BY DEF StreamInv, StreamType
<1>2. Shown' = Shown
  BY DEF Shown
<1>3. CASE stream'.pc = stream.pc
  BY <1>1, <1>2, <1>3 DEF StreamInv
<1>4. CASE stream.pc = "none" /\ stream'.pc \in {"denied", "replay"}
  BY <1>1, <1>2, <1>4 DEF StreamInv
<1>5. CASE stream.pc = "replay" /\ stream'.pc = "open"
  <2>1. stream.read = <<>> /\ stream.sent = <<>> /\ stream.sending = Nothing
    BY <1>5 DEF StreamInv
  <2>2. Shown = <<>> \o <<>> /\ <<>> \o <<>> = <<>>
    BY <2>1 DEF Shown
  <2> QED
    BY <1>1, <1>2, <1>5, <2>1, <2>2, NothingRead DEF StreamInv
<1> QED
  BY <1>3, <1>4, <1>5

LEMMA EventIsRead ==
    ASSUME StreamInv, NEW s, NEW event, stream.pc = "open", stream.sending = Nothing,
           DOMAIN s = DOMAIN stream, s.pc = "open", s.sending = Nothing,
           s.seen = stream.seen, s.read = stream.read, s.sent = stream.sent, s.writers = stream.writers,
           stream' = Relayed(s, event)
    PROVE  StreamInv'
<1> DEFINE key == DedupKey(event)
<1>1. CASE event = Nothing
  <2>1. stream' = s
    BY <1>1 DEF Relayed
  <2> QED
    BY <2>1, NothingShown
<1>2. CASE event # Nothing
  <2>1. stream' = [s EXCEPT !.seen = Seen(stream.seen, key), !.read = Append(stream.read, event),
                            !.sending = IF Contains(stream.seen, key) THEN Nothing ELSE event]
    BY <1>2 DEF Relayed
  <2> HIDE DEF key
  <2>2. /\ DOMAIN stream' = DOMAIN stream /\ stream'.pc = "open"
        /\ stream'.seen = Seen(stream.seen, key) /\ stream'.read = Append(stream.read, event)
        /\ stream'.sending = IF Contains(stream.seen, key) THEN Nothing ELSE event
        /\ stream'.sent = stream.sent /\ stream'.writers = stream.writers
    BY <2>1 DEF StreamInv, StreamType
  <2>3. /\ IsSeq(stream.read) /\ IsSeq(stream.sent) /\ IsSeq(stream.seen)
        /\ Remembers(stream.seen, stream.read) /\ Counted(NewPositions(stream.read))
        /\ NewEvents(stream.read) = Shown
    BY DEF StreamInv, StreamType, Remembers
  <2>4. Remembers(stream'.seen, stream'.read)
    BY <2>2, <2>3, ReadingIsRemembered DEF key
  <2>5. Contains(stream.seen, key) <=> key \in Range(stream.seen)
    <3>1. /\ \A x \in Range(stream.seen) : \E i \in 1..Len(stream.seen) : stream.seen[i] = x
          /\ \A i \in 1..Len(stream.seen) : stream.seen[i] \in Range(stream.seen)
      BY <2>3, SequenceFacts DEF IsSeq
    <3> QED
      BY <3>1 DEF Contains
  <2>6. IsNew(stream'.read, Len(stream.read) + 1) <=> ~Contains(stream.seen, key)
    BY <2>2, <2>3, <2>5, RememberedIsNotNew DEF key
  <2>7. /\ Counted(NewPositions(stream'.read))
        /\ IsNew(stream'.read, Len(stream.read) + 1) => NewEvents(stream'.read) = Append(Shown, event)
        /\ ~IsNew(stream'.read, Len(stream.read) + 1) => NewEvents(stream'.read) = Shown
    BY <2>2, <2>3, NewEventsGrow
  <2>8. Shown = stream.sent
    <3>1. Shown = stream.sent \o <<>>
      BY DEF Shown
    <3> QED
      BY <2>3, <3>1, ConcatEmptySeq DEF IsSeq
  <2>9. NewEvents(stream'.read) = Shown'
    <3>1. CASE Contains(stream.seen, key)
      <4>1. Shown' = stream.sent \o <<>>
        BY <2>2, <3>1 DEF Shown
      <4> QED
        BY <2>3, <2>6, <2>7, <2>8, <3>1, <4>1, ConcatEmptySeq DEF IsSeq
    <3>2. CASE ~Contains(stream.seen, key)
      <4>1. Shown' = stream.sent \o <<event>>
        BY <1>2, <2>2, <3>2 DEF Shown
      <4>2. Append(stream.sent, event) = stream.sent \o <<event>>
        BY <2>3, AppendIsConcat DEF IsSeq
      <4> QED
        BY <2>6, <2>7, <2>8, <3>2, <4>1, <4>2
    <3> QED
      BY <3>1, <3>2
  <2>10. IsSeq(stream'.read)
    BY <2>2, <2>3, AppendFacts
  <2>11. "event" \notin stream.writers
    BY DEF StreamInv
  <2> QED
    BY <2>2, <2>3, <2>4, <2>7, <2>9, <2>10, <2>11 DEF StreamInv, StreamType
<1> QED
  BY <1>1, <1>2

LEMMA EventIsSent ==
    ASSUME StreamInv, NEW writer \in {"event", "ping"}, SendStarts(writer) \/ SendEnds(writer)
    PROVE  StreamInv'
<1>1. CASE SendStarts(writer)
  <2>1. /\ stream.pc = "open" /\ stream.writers = {} /\ (writer = "event" => stream.sending # Nothing)
        /\ stream' = [stream EXCEPT !.writers = stream.writers \cup {writer}]
    BY <1>1 DEF SendStarts, LockFree
  <2>2. /\ DOMAIN stream' = DOMAIN stream /\ stream'.pc = stream.pc /\ stream'.seen = stream.seen
        /\ stream'.read = stream.read /\ stream'.sent = stream.sent /\ stream'.sending = stream.sending
        /\ stream'.writers = {writer}
    BY <2>1 DEF StreamInv, StreamType
  <2>3. Shown' = Shown
    BY <2>2 DEF Shown
  <2> QED
    BY <2>1, <2>2, <2>3 DEF StreamInv, StreamType
<1>2. CASE SendEnds(writer) /\ writer = "event"
  <2>1. /\ stream.pc = "open" /\ "event" \in stream.writers
        /\ stream' = [stream EXCEPT !.writers = stream.writers \ {"event"},
                                    !.sent = Append(stream.sent, stream.sending), !.sending = Nothing]
    BY <1>2 DEF SendEnds
  <2>2. /\ DOMAIN stream' = DOMAIN stream /\ stream'.pc = stream.pc /\ stream'.seen = stream.seen
        /\ stream'.read = stream.read /\ stream'.sent = Append(stream.sent, stream.sending)
        /\ stream'.sending = Nothing /\ stream'.writers = {}
    BY <2>1 DEF StreamInv, StreamType
  <2>3. IsSeq(stream.sent) /\ IsSeq(stream'.sent) /\ stream.sending # Nothing
    BY <2>1, <2>2, AppendFacts DEF StreamInv, StreamType
  <2>4. Shown' = Shown
    <3>1. Shown = stream.sent \o <<stream.sending>> /\ Shown' = stream'.sent \o <<>>
      BY <2>2, <2>3 DEF Shown
    <3>2. Append(stream.sent, stream.sending) = stream.sent \o <<stream.sending>>
      BY <2>3, AppendIsConcat DEF IsSeq
    <3>3. stream'.sent \o <<>> = stream'.sent
      BY <2>3, ConcatEmptySeq DEF IsSeq
    <3> QED
      BY <2>2, <3>1, <3>2, <3>3
  <2> QED
    BY <2>1, <2>2, <2>3, <2>4 DEF StreamInv, StreamType
<1>3. CASE SendEnds(writer) /\ writer = "ping"
  <2>1. /\ stream.pc = "open" /\ "ping" \in stream.writers
        /\ stream' = [stream EXCEPT !.writers = stream.writers \ {"ping"}, !.ping = "asleep"]
    BY <1>3 DEF SendEnds
  <2>2. /\ DOMAIN stream' = DOMAIN stream /\ stream'.pc = stream.pc /\ stream'.seen = stream.seen
        /\ stream'.read = stream.read /\ stream'.sent = stream.sent /\ stream'.sending = stream.sending
        /\ stream'.writers = {}
    BY <2>1 DEF StreamInv, StreamType
  <2>3. Shown' = Shown
    BY <2>2 DEF Shown
  <2> QED
    BY <2>1, <2>2, <2>3 DEF StreamInv, StreamType
<1> QED
  BY <1>1, <1>2, <1>3

\* A connection that ends while a frame is sent may have lost the last event.
LEMMA StreamStops ==
    ASSUME StreamInv, StreamEnds
    PROVE  StreamInv'
<1> DEFINE sent == stream.sent
           new == NewEvents(stream.read)
<1>1. /\ stream.pc = "open"
      /\ DOMAIN stream' = DOMAIN stream /\ stream'.pc = "ended" /\ stream'.seen = stream.seen
      /\ stream'.read = stream.read /\ stream'.sent = sent /\ stream'.sending = Nothing
      /\ stream'.writers = {}
  BY DEF StreamEnds, StreamInv, StreamType
<1>2. IsSeq(sent) /\ new = Shown /\ Counted(NewPositions(stream.read)) /\ IsSeq(stream.read)
  BY <1>1 DEF StreamInv, StreamType
<1>3. IsPrefix(sent, new) /\ Len(sent) >= Len(new) - 1
  <2> DEFINE rest == IF stream.sending = Nothing THEN <<>> ELSE <<stream.sending>>
             S == Range(sent) \cup {stream.sending}
  <2>1. sent \in Seq(S) /\ rest \in Seq(S) /\ Len(rest) <= 1 /\ Len(rest) \in Nat
    <3>1. sent \in Seq(S)
      BY <1>2, SeqMonotonic DEF IsSeq
    <3>2. stream.sending \in S
      OBVIOUS
    <3> HIDE DEF S
    <3> QED
      BY <3>1, <3>2
  <2> HIDE DEF rest, S
  <2>2. new = sent \o rest
    BY <1>2 DEF Shown, rest
  <2>3. /\ new \in Seq(S) /\ Len(new) = Len(sent) + Len(rest)
        /\ \A i \in 1..(Len(sent) + Len(rest)) : new[i] = IF i <= Len(sent) THEN sent[i] ELSE rest[i - Len(sent)]
    BY <2>1, <2>2, ConcatProperties
  <2> HIDE DEF new, sent
  <2> DEFINE n == Len(sent)
  <2>4. n \in Nat /\ n <= Len(new) /\ n >= Len(new) - 1 /\ Len(new) \in Nat
    BY <2>1, <2>3
  <2>5. \A i \in 1..n : sent[i] \in S /\ new[i] = sent[i] /\ new[i] \in S
    <3> TAKE i \in 1..n
    <3>1. i \in 1..(Len(sent) + Len(rest)) /\ i <= Len(sent)
      BY <2>1
    <3>2. sent[i] \in S
      BY <2>1, ElementOfSeq
    <3> QED
      BY <2>3, <3>1, <3>2
  <2>6. SubSeq(sent, 1, n) = SubSeq(new, 1, n)
    <3>0. 1 \in Int /\ n \in Int
      BY <2>4
    <3>1. /\ SubSeq(sent, 1, n) \in Seq(S) /\ Len(SubSeq(sent, 1, n)) = IF 1 <= n THEN n - 1 + 1 ELSE 0
          /\ \A i \in 1..(n - 1 + 1) : SubSeq(sent, 1, n)[i] = sent[1 + i - 1]
      BY <2>5, <3>0, SubSeqProperties
    <3>2. /\ SubSeq(new, 1, n) \in Seq(S) /\ Len(SubSeq(new, 1, n)) = IF 1 <= n THEN n - 1 + 1 ELSE 0
          /\ \A i \in 1..(n - 1 + 1) : SubSeq(new, 1, n)[i] = new[1 + i - 1]
      BY <2>5, <3>0, SubSeqProperties
    <3> DEFINE f == SubSeq(sent, 1, n)
               g == SubSeq(new, 1, n)
    <3> HIDE DEF f, g, n
    <3>3. Len(f) = n /\ Len(g) = n /\ f \in Seq(S) /\ g \in Seq(S)
      BY <2>4, <3>1, <3>2 DEF f, g
    <3>4. \A i \in 1..n : f[i] = g[i]
      <4> TAKE i \in 1..n
      <4>1. i \in 1..(n - 1 + 1) /\ 1 + i - 1 = i
        BY <2>4
      <4> QED
        BY <2>5, <3>1, <3>2, <4>1 DEF f, g
    <3>5. f = g
      BY <3>3, <3>4, SeqEqual
    <3> QED
      BY <3>5 DEF f, g
  <2> QED
    BY <2>4, <2>6 DEF IsPrefix
<1> QED
  BY <1>1, <1>3 DEF StreamInv, StreamType

LEMMA StreamGoesOn ==
    ASSUME StreamInv, [StreamNext /\ UNCHANGED config]_<<config, streamVars>>
    PROVE  StreamInv'
<1> DEFINE Kept(s) ==
              /\ DOMAIN s = DOMAIN stream /\ s.seen = stream.seen /\ s.read = stream.read
              /\ s.sent = stream.sent /\ s.sending = stream.sending /\ s.writers = stream.writers
<1>1. CASE UNCHANGED <<config, streamVars>>
  <2>1. stream' = stream
    BY <1>1 DEF streamVars
  <2> QED
    BY <2>1, NothingShown
<1>2. CASE (\E batch \in config.batches : PublishMany(batch)) \/ PublishFails
  <2>1. stream' = stream
    BY <1>2 DEF PublishMany, PublishFails
  <2> QED
    BY <2>1, NothingShown
<1>3. CASE PublishOne \/ ForeignPublishes
  <2>1. stream' = stream \/ \E wire : stream' = [stream EXCEPT !.wire = wire]
    BY <1>3 DEF PublishOne, ForeignPublishes, Delivered
  <2>2. Kept(stream') /\ stream'.pc = stream.pc
    BY <2>1 DEF StreamInv, StreamType
  <2> QED
    BY <2>2, NothingShown
<1>4. CASE Connect
  <2>1. stream.pc = "none" /\ Kept(stream') /\ stream'.pc \in {"denied", "replay"}
    BY <1>4 DEF Connect, StreamInv, StreamType
  <2> QED
    BY <2>1, NothingShown
<1>5. CASE Replay
  <2>1. stream.pc = "replay" /\ Kept(stream') /\ stream'.pc = "open"
    BY <1>5 DEF Replay, StreamInv, StreamType
  <2> QED
    BY <2>1, NothingShown
<1>6. CASE PumpReads
  <2> DEFINE s == [stream EXCEPT !.wire = Tail(stream.wire)]
  <2>1. /\ stream.pc = "open" /\ stream.sending = Nothing /\ stream' = Relayed(s, Head(stream.wire))
        /\ Kept(s) /\ s.pc = "open"
    BY <1>6 DEF PumpReads, StreamInv, StreamType
  <2> HIDE DEF s
  <2> QED
    BY <2>1, EventIsRead
<1>7. CASE SseFrame
  <2> DEFINE s == [stream EXCEPT !.next = Nothing]
  <2>1. /\ stream.pc = "open" /\ stream.sending = Nothing /\ stream' = Relayed(s, stream.next.raw)
        /\ Kept(s) /\ s.pc = "open"
    BY <1>7 DEF SseFrame, StreamInv, StreamType
  <2> HIDE DEF s
  <2> QED
    BY <2>1, EventIsRead
<1>8. CASE SseReadsAhead \/ HeartbeatDue
  <2>1. Kept(stream') /\ stream'.pc = stream.pc
    BY <1>8 DEF SseReadsAhead, HeartbeatDue, StreamInv, StreamType
  <2> QED
    BY <2>1, NothingShown
<1>9. CASE StreamEnds
  BY <1>9, StreamStops
<1>10. CASE \E writer \in {"event", "ping"} : SendStarts(writer) \/ SendEnds(writer)
  BY <1>10, EventIsSent
<1> QED
  BY <1>1, <1>2, <1>3, <1>4, <1>5, <1>6, <1>7, <1>8, <1>9, <1>10 DEF StreamNext

\* The first payload of a key is new, and new payloads are shown.
LEMMA FirstIsShown ==
    ASSUME StreamInv, stream.pc = "open", NEW j \in 1..Len(stream.read)
    PROVE  \E i \in 1..j : /\ DedupKey(stream.read[i]) = DedupKey(stream.read[j])
                           /\ stream.read[i] \in Range(Shown)
<1> DEFINE read == stream.read
           S == NewPositions(read)
           P == {m \in 1..j : DedupKey(read[m]) = DedupKey(read[j])}
           i == Min(P)
<1>1. Len(read) \in Nat /\ j \in Nat /\ 1 <= j /\ j <= Len(read)
  BY SequenceFacts DEF StreamInv, StreamType, IsSeq
<1>2. P \in SUBSET Nat /\ P # {}
  BY <1>1
<1>3. i \in P /\ \A m \in P : i <= m
  BY <1>2, LeastOfMany
<1>4. /\ i \in 1..j /\ i \in 1..Len(read) /\ DedupKey(read[i]) = DedupKey(read[j])
      /\ \A m \in 1..(i - 1) : DedupKey(read[m]) # DedupKey(read[i])
  <2> HIDE DEF i
  <2>1. i \in 1..j /\ DedupKey(read[i]) = DedupKey(read[j])
    BY <1>3
  <2>2. i \in Nat /\ 1 <= i /\ i <= j /\ i <= Len(read)
    BY <1>1, <2>1
  <2>3. ASSUME NEW m \in 1..(i - 1), DedupKey(read[m]) = DedupKey(read[i]) PROVE FALSE
    <3>1. m \in 1..j /\ m < i
      BY <1>1, <2>2
    <3>2. m \in P
      BY <2>1, <2>3, <3>1
    <3> QED
      BY <1>3, <2>2, <3>1, <3>2
  <2> QED
    BY <1>1, <2>1, <2>2, <2>3
<1> HIDE DEF i, P
<1>5. i \in S
  BY <1>4 DEF NewPositions, IsNew
<1>6. IsFiniteSet(S) /\ S \subseteq Nat
  <2> DEFINE n == Len(read)
  <2>1. S \subseteq 1..n
    BY DEF NewPositions
  <2>2. 1 \in Int /\ n \in Int
    BY <1>1
  <2> HIDE DEF n, S
  <2>3. IsFiniteSet(1..n)
    BY <2>2, FS_Interval
  <2>4. 1..n \subseteq Nat
    BY <2>2
  <2> QED
    BY <2>1, <2>3, <2>4, FS_Subset
<1> DEFINE k == Rank(S, i)
<1>7. k \in 1..Cardinality(S)
  <2> DEFINE A == {m \in S : m <= i}
  <2>1. A \subseteq S /\ i \in A
    BY <1>4, <1>5
  <2> HIDE DEF A
  <2>2. IsFiniteSet(A) /\ Cardinality(A) \in Nat /\ Cardinality(A) # 0
    BY <1>6, <2>1, FS_Subset, FS_CardinalityType, FS_EmptySet
  <2>3. k = Cardinality(A)
    BY DEF Rank, A
  <2>4. k \in Nat /\ Cardinality(S) \in Nat /\ k <= Cardinality(S)
    BY <1>5, <1>6, RankIsBounded
  <2> HIDE DEF k
  <2> QED
    BY <2>2, <2>3, <2>4
<1>8. Nth(S, k) = i
  BY <1>5, <1>6, NthFacts
<1> HIDE DEF k, S
<1>9. k \in DOMAIN NewEvents(read) /\ NewEvents(read)[k] = read[i]
  BY <1>7, <1>8 DEF NewEvents, S
<1>10. NewEvents(read) = Shown
  BY DEF StreamInv
<1>11. read[i] \in Range(Shown)
  BY <1>9, <1>10 DEF Range
<1> QED
  BY <1>4, <1>11

LEMMA InvShowsOnce ==
    ASSUME StreamInv
    PROVE  StreamShowsOnce
<1>1. Cardinality(stream.writers) <= 1
  <2>1. Cardinality({}) = 0 /\ Cardinality({"event"}) = 1 /\ Cardinality({"ping"}) = 1
    BY FS_EmptySet, FS_Singleton
  <2>2. \/ stream.writers = {} \/ stream.writers = {"event"} \/ stream.writers = {"ping"}
    BY DEF StreamInv, StreamType
  <2>3. Cardinality(stream.writers) = 0 \/ Cardinality(stream.writers) = 1
    BY <2>1, <2>2
  <2> QED
    BY <2>3
<1>2. ASSUME stream.pc = "open" PROVE OnlyNamesakesAreLost(stream.read, Range(Shown))
  <2> SUFFICES ASSUME NEW j \in 1..Len(stream.read), stream.read[j] \notin Range(Shown)
               PROVE  \E i \in 1..(j - 1) :
                         /\ DedupKey(stream.read[i]) = DedupKey(stream.read[j])
                         /\ stream.read[i] # stream.read[j] /\ stream.read[i] \in Range(Shown)
    BY DEF OnlyNamesakesAreLost
  <2>1. PICK i \in 1..j : /\ DedupKey(stream.read[i]) = DedupKey(stream.read[j])
                          /\ stream.read[i] \in Range(Shown)
    BY <1>2, FirstIsShown
  <2>2. Len(stream.read) \in Nat
    BY SequenceFacts DEF StreamInv, StreamType, IsSeq
  <2>3. i # j
    BY <2>1
  <2>4. i \in 1..(j - 1)
    BY <2>2, <2>3
  <2> QED
    BY <2>1, <2>4
<1> QED
  BY <1>1, <1>2 DEF StreamInv, StreamShowsOnce

\* A stream shows the first payload of every key it reads, in order, and once
\* while the key is remembered, in whatever order events are published, replayed
\* and repeated and wherever publishing or the connection breaks off; and it
\* loses nothing but payloads that share the key of one that was shown, as the
\* later pieces of a cut event do.
THEOREM StreamsShowOnce == StreamSpec => []StreamShowsOnce
<1>1. config \in Configs /\ StreamInit => StreamInv
  BY StreamStarts
<1>2. StreamInv /\ [StreamNext /\ UNCHANGED config]_<<config, streamVars>> => StreamInv'
  BY StreamGoesOn
<1>3. StreamInv => StreamShowsOnce
  BY InvShowsOnce
<1> QED
  BY <1>1, <1>2, <1>3, PTL DEF StreamSpec
=============================================================================
