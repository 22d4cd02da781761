---------------------------- MODULE Maintenance ----------------------------
(***************************************************************************)
(* QueueMaintenanceService: a coordinator takes an expiring ownership in   *)
(* the store, runs the enabled phases in their order and gives it back.    *)
(* Each store takes the ownership in its own way; ownership may lapse      *)
(* while its owner is still in a phase.                                    *)
(***************************************************************************)
EXTENDS Recurrence

CONSTANT SchedulesLimit   \* schedules_limit

ASSUME CoordinatorAssumption == IsFiniteSet(Coordinator)

VARIABLES
    lease,         \* the ownership in the store: [token, expired]
    coordinators   \* per coordinator, its run

maintenanceVars == <<lease, coordinators>>

PhaseOrder == <<"expire", "external", "stale", "schedules", "terminal", "events">>

NoLease == [token |-> 0, expired |-> FALSE]

\* lapsed: the time that was asked for has passed since the acquisition.
NoRun == [pc |-> "idle", token |-> 0, phase |-> 0, lapsed |-> FALSE, exhausted |-> FALSE]

MaintenanceInit ==
    /\ lease = NoLease
    /\ coordinators = [c \in Coordinator |-> NoRun]

\* uuid4: a token of its own for every run.
FreshToken ==
    LET held == {lease.token} \cup {coordinators[c].token : c \in Coordinator}
    IN  CHOOSE t \in 1..(Cardinality(held) + 1) : t \notin held

----------------------------------------------------------------------------
\* acquire_maintenance, store by store: the ownership after the call or the
\* next statement of it, and how coordinator c goes on.

Acquired(c) ==
    /\ lease' = [token |-> coordinators[c].token, expired |-> FALSE]
    /\ coordinators' = [coordinators EXCEPT ![c].pc = "phase", ![c].phase = 1]

Denied(c) == coordinators' = [coordinators EXCEPT ![c] = NoRun] /\ UNCHANGED lease

GoesOn(c, pc) == coordinators' = [coordinators EXCEPT ![c].pc = pc] /\ UNCHANGED lease

IsFree == lease = NoLease \/ lease.expired

\* SET NX PX: an expired key is gone.
RedisAcquire(c) == IF IsFree THEN Acquired(c) ELSE Denied(c)

\* One transaction; a token may ask again.
EphemeralAcquire(c) == IF IsFree \/ lease.token = coordinators[c].token THEN Acquired(c) ELSE Denied(c)

\* UPDATE of an expired row, then a read of whatever row is there.
SqlSpecAcquire(c) == IF lease # NoLease /\ lease.expired THEN Acquired(c) ELSE GoesOn(c, "select")
SqlSpecSelect(c) == IF lease = NoLease THEN GoesOn(c, "insert") ELSE Denied(c)

\* UPDATE of an expired row, then another transaction.
AlchemyAcquire(c) == IF lease # NoLease /\ lease.expired THEN Acquired(c) ELSE GoesOn(c, "insert")

\* INSERT: the primary key refuses a second row, live or expired.
InsertCoordination(c) == IF lease = NoLease THEN Acquired(c) ELSE Denied(c)

Acquire(c) ==
    CASE config.store = "redis" -> RedisAcquire(c)
      [] config.store = "ephemeral" -> EphemeralAcquire(c)
      [] config.store = "sqlspec" -> SqlSpecAcquire(c)
      [] config.store = "alchemy" -> AlchemyAcquire(c)

\* Fault: whoever ends a run gives the ownership back.
ReleasedByAnyone(c) == NoLease

\* release_maintenance deletes the ownership of this token only.
Released(c) == IF lease.token = coordinators[c].token THEN NoLease ELSE lease

----------------------------------------------------------------------------
\* run()

RunStarts(c) ==
    /\ coordinators[c] = NoRun /\ c \in config.coordinators
    /\ coordinators' = [coordinators EXCEPT ![c] = [NoRun EXCEPT !.pc = "acquire", !.token = FreshToken]]
    /\ UNCHANGED <<lease, recurrenceVars>>

AcquireStep(c) ==
    /\ \/ coordinators[c].pc = "acquire" /\ Acquire(c)
       \/ coordinators[c].pc = "select" /\ SqlSpecSelect(c)
       \/ coordinators[c].pc = "insert" /\ InsertCoordination(c)
    /\ UNCHANGED recurrenceVars

\* The phases of a run; one that is not enabled is passed over.
Phases == SelectSeq(PhaseOrder, LAMBDA phase : phase \in config.phases)

InPhase(c, phase) ==
    /\ coordinators[c].pc = "phase" /\ coordinators[c].phase <= Len(Phases)
    /\ Phases[coordinators[c].phase] = phase

PhaseEnds(c) ==
    /\ coordinators' = [coordinators EXCEPT ![c].phase = @ + 1]
    /\ UNCHANGED lease

\* A phase that finds the time budget used up.
SkipPhase(c) ==
    /\ coordinators[c].pc = "phase" /\ coordinators[c].phase <= Len(Phases)
    /\ coordinators[c].exhausted /\ PhaseEnds(c)
    /\ UNCHANGED recurrenceVars

\* The budget is looked at between phases only, and stays used up.
BudgetPasses(c) ==
    /\ coordinators[c].pc = "phase" /\ ~coordinators[c].exhausted /\ keepers[c] = IdleKeeper /\ Fault
    /\ coordinators' = [coordinators EXCEPT ![c].exhausted = TRUE]
    /\ UNCHANGED <<lease, clock, deployed, occ, runners, keepers>>

Enters(c, phase) == InPhase(c, phase) /\ ~coordinators[c].exhausted

\* A phase whose operation is one pass over the records.
Swept(sweep(_)) == occ' = [n \in Name |-> sweep(n)]

ExpirePhase(c) ==
    /\ Enters(c, "expire") /\ PhaseEnds(c)
    /\ Swept(LAMBDA n : IF IsQueued(occ[n].rec) /\ IsOverdue(occ[n].rec)
                        THEN EndedAs(n, ExpireRecord(occ[n].rec)) ELSE occ[n])
    /\ UNCHANGED <<clock, deployed, runners, keepers, faults>>

\* recover_stale_tasks: what it fails has no successor either.
StalePhase(c) ==
    /\ Enters(c, "stale") /\ PhaseEnds(c)
    /\ Swept(LAMBDA n : IF IsStale(occ[n].rec) THEN SettledAs(n, RecoverStale(occ[n].rec)) ELSE occ[n])
    /\ UNCHANGED <<clock, deployed, runners, keepers, faults>>

\* cleanup_terminal, of what is past the retention.
TerminalPhase(c) ==
    /\ Enters(c, "terminal") /\ PhaseEnds(c)
    /\ Swept(LAMBDA n : IF IsTerminal(occ[n].rec) THEN NoOccurrence ELSE occ[n])
    /\ UNCHANGED <<clock, deployed, runners, keepers, faults>>

\* reassert_schedules.
SchedulesPhase(c) ==
    /\ Enters(c, "schedules") /\ keepers[c] = IdleKeeper
    /\ KeeperStarts(c, "reassert", SchedulesLimit)
    /\ UNCHANGED <<clock, deployed, occ, runners, faults, maintenanceVars>>

\* The pass is over, or an exception ended it: the run goes on.
SchedulesEnd(c) ==
    /\ InPhase(c, "schedules") /\ keepers[c] # IdleKeeper /\ keepers[c].left = <<>>
    /\ keepers' = [keepers EXCEPT ![c] = IdleKeeper]
    /\ PhaseEnds(c)
    /\ UNCHANGED <<clock, deployed, occ, runners, faults>>

\* _run_phase contains whatever a phase raises.
PhaseFails(c) ==
    /\ coordinators[c].pc = "phase" /\ coordinators[c].phase <= Len(Phases) /\ ~coordinators[c].exhausted /\ Fault
    /\ keepers' = [keepers EXCEPT ![c] = IdleKeeper]
    /\ PhaseEnds(c)
    /\ UNCHANGED <<clock, deployed, occ, runners>>

\* The finally clause.
RunEnds(c) ==
    /\ coordinators[c].pc = "phase" /\ coordinators[c].phase > Len(Phases)
    /\ lease' = Released(c)
    /\ coordinators' = [coordinators EXCEPT ![c] = NoRun]
    /\ UNCHANGED recurrenceVars

\* The process dies; its ownership stays.
CoordinatorDies(c) ==
    /\ coordinators[c] # NoRun /\ Fault
    /\ coordinators' = [coordinators EXCEPT ![c] = NoRun]
    /\ keepers' = [keepers EXCEPT ![c] = IdleKeeper]
    /\ UNCHANGED <<lease, clock, deployed, occ, runners>>

\* coordination_timeout has passed since the acquisition.
LeaseExpires ==
    /\ lease # NoLease /\ ~lease.expired
    /\ lease' = [lease EXCEPT !.expired = TRUE]
    /\ coordinators' = [c \in Coordinator |->
                          IF coordinators[c].token = lease.token /\ coordinators[c].pc = "phase"
                          THEN [coordinators[c] EXCEPT !.lapsed = TRUE] ELSE coordinators[c]]
    /\ UNCHANGED recurrenceVars

CoordinatorStep(c) ==
    \/ RunStarts(c) \/ AcquireStep(c) \/ SkipPhase(c) \/ ExpirePhase(c) \/ StalePhase(c) \/ TerminalPhase(c)
    \/ SchedulesPhase(c) \/ (KeeperStep(c) /\ UNCHANGED maintenanceVars) \/ SchedulesEnd(c) \/ RunEnds(c)

MaintenanceNext ==
    \/ \E c \in Coordinator : CoordinatorStep(c) \/ BudgetPasses(c) \/ PhaseFails(c) \/ CoordinatorDies(c)
    \/ LeaseExpires

----------------------------------------------------------------------------
\* A coordinator works under an ownership that the store still shows as its
\* own, unless its time has run out: nobody takes it away earlier, and the
\* late release of a predecessor does not either.
RunIsCovered ==
    \A c \in Coordinator :
        coordinators[c].pc = "phase" => lease.token = coordinators[c].token \/ coordinators[c].lapsed
=============================================================================
