---------------------------- MODULE Housekeeping ----------------------------
(***************************************************************************)
(* What keeps a deployment going between its tasks: recurring schedules,   *)
(* the maintenance runs that repair them, and identities that run once.    *)
(* A deployment uses the parts that its configuration names.               *)
(***************************************************************************)
EXTENDS Maintenance, Identities

ASSUME ConfigsAssumption ==
    \A cfg \in Configs :
        /\ Range(cfg.schedules) \subseteq Name /\ cfg.phases \subseteq Range(PhaseOrder)
        /\ cfg.store \in {"redis", "ephemeral", "sqlspec", "alchemy"}
        /\ cfg.coordinators \subseteq Coordinator /\ cfg.callers \subseteq Caller /\ cfg.faults \in Nat

vars == <<config, recurrenceVars, maintenanceVars, identityVars>>

Init == config \in Configs /\ RecurrenceInit /\ MaintenanceInit /\ IdentityInit

Schedules(A) == A /\ UNCHANGED <<config, maintenanceVars, identityVars>>
Maintains(A) == A /\ UNCHANGED <<config, identityVars>>

Atomic == config.store \in {"redis", "ephemeral"}

IdentityStep(c) ==
    \/ \E forever \in BOOLEAN : EnqueueStarts(c, forever)
    \/ Atomic /\ ReserveAtomically(c)
    \/ ~Atomic /\ (ReserveSelects(c) \/ ReserveInserts(c))
    \/ config.store = "sqlspec" /\ SqlSpecReadsOwner(c)
    \/ config.store = "alchemy" /\ AlchemyReadsOwner(c)
    \/ Store(c) \/ Verify(c) \/ ResetReservation(c)

IdentityNext ==
    /\ \/ \E c \in config.callers : IdentityStep(c) /\ UNCHANGED faults
       \/ \E c \in config.callers : Fault /\ (StoreRaises(c) \/ CallerDies(c))
       \/ OperatorResets /\ UNCHANGED faults
       \/ \E t \in TaskId : (TaskEnds(t) \/ CleanupTask(t)) /\ UNCHANGED faults
    /\ UNCHANGED <<config, maintenanceVars, clock, deployed, occ, runners, keepers>>

Next == Schedules(RecurrenceNext) \/ Maintains(MaintenanceNext) \/ IdentityNext

\* Time passes; workers run; the trigger of maintenance (a cron job) keeps
\* coming, and a run it started goes on.
Fairness ==
    /\ WF_vars(Schedules(Tick))
    /\ \A w \in Worker : WF_vars(Schedules(RunnerStep(w)))
    /\ \A n \in Name : WF_vars(Schedules(HeartbeatAges(n)))
    /\ \A c \in Coordinator : WF_vars(Maintains(CoordinatorStep(c)))
    /\ WF_vars(Maintains(LeaseExpires))

Spec == Init /\ [][Next]_vars /\ Fairness

----------------------------------------------------------------------------
\* Every variable has the shape the code gives it.
TypeOK ==
    /\ config \in Configs /\ clock \in Instants /\ faults \in 0..config.faults
    /\ \A n \in Name : occ[n].rec \in QueuedTaskRecord /\ occ[n].wait \in Nat
    /\ \A w \in Worker : runners[w].pc \in {"idle", "executing", "ended"}
    /\ \A k \in Keeper : keepers[k].pc \in {"idle", "read", "cancel", "enqueue", "raised"}
    /\ \A c \in Coordinator : coordinators[c].pc \in {"idle", "acquire", "select", "insert", "phase"}
    /\ reserved \in 0..MaxTasks
=============================================================================
