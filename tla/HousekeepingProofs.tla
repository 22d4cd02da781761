------------------------ MODULE HousekeepingProofs ------------------------
(***************************************************************************)
(* Proofs about Housekeeping, for every set of schedules, coordinators,    *)
(* stores and callers and every bound: what a coordinator may rely on      *)
(* while it works, and how often an identity runs.  And about the repairs  *)
(* that a coordinator starts: that their pages reach every delivery.       *)
(***************************************************************************)
EXTENDS Housekeeping, DispatchRepair, FiniteSetTheorems, WellFoundedInduction, TLAPS

----------------------------------------------------------------------------
\* Maintenance.

Lease == [token : Nat, expired : BOOLEAN]

CoordinatorRun ==
    [pc : {"idle", "acquire", "select", "insert", "phase"}, token : Nat, phase : Nat,
     lapsed : BOOLEAN, exhausted : BOOLEAN]

MaintenanceType ==
    /\ config \in Configs
    /\ lease \in Lease
    /\ coordinators \in [Coordinator -> CoordinatorRun]

\* A run has a token, and no other run has the same.
TokensDiffer ==
    /\ \A c \in Coordinator : coordinators[c].pc # "idle" => coordinators[c].token # 0
    /\ \A c, d \in Coordinator :
          coordinators[c].token # 0 /\ coordinators[c].token = coordinators[d].token => c = d

\* RunIsCovered alone does not survive an acquisition: it needs to be known
\* that an ownership which shows as expired has let its owner's time lapse.
RunHoldsLease ==
    \A c \in Coordinator :
        coordinators[c].pc = "phase" /\ ~coordinators[c].lapsed
           => lease.token = coordinators[c].token /\ ~lease.expired

MaintenanceInv == MaintenanceType /\ TokensDiffer /\ RunHoldsLease

LEMMA FreshTokenIsFree ==
    ASSUME MaintenanceInv
    PROVE  /\ FreshToken \in Nat \ {0}
           /\ FreshToken # lease.token
           /\ \A c \in Coordinator : FreshToken # coordinators[c].token
<1> DEFINE f == [c \in Coordinator |-> coordinators[c].token]
           T == {coordinators[c].token : c \in Coordinator}
           held == {lease.token} \cup T
           n == Cardinality(held)
<1>1. f \in Surjection(Coordinator, T)
  BY DEF Surjection
<1>2. IsFiniteSet(T)
  <2> HIDE DEF f, T
  <2> QED BY <1>1, CoordinatorAssumption, FS_Surjection
<1>3. IsFiniteSet(held) /\ n \in Nat
  <2>1. IsFiniteSet(T \cup {lease.token})
    <3> HIDE DEF T
    <3> QED BY <1>2, FS_AddElement
  <2>2. held = T \cup {lease.token}
    OBVIOUS
  <2> HIDE DEF held
  <2> QED BY <2>1, <2>2, FS_CardinalityType
<1>4. \E t \in 1..(n + 1) : t \notin held
  <2> SUFFICES ASSUME 1..(n + 1) \subseteq held PROVE FALSE
    OBVIOUS
  <2> HIDE DEF held, n
  <2>1. Cardinality(1..(n + 1)) = n + 1
    BY <1>3, FS_Interval
  <2>2. Cardinality(1..(n + 1)) <= n
    BY <1>3, FS_Subset DEF n
  <2> QED BY <1>3, <2>1, <2>2
<1>5. FreshToken \in 1..(n + 1) /\ FreshToken \notin held
  <2> HIDE DEF n
  <2>1. FreshToken = CHOOSE t \in 1..(n + 1) : t \notin held
    BY DEF FreshToken, n
  <2> HIDE DEF held
  <2> QED BY <1>4, <2>1
<1> QED BY <1>3, <1>5

\* A run that goes on, or ends, without touching the ownership.
LEMMA RunGoesOn ==
    ASSUME MaintenanceInv, UNCHANGED <<config, lease>>, NEW c \in Coordinator, NEW r \in CoordinatorRun,
           coordinators' = [coordinators EXCEPT ![c] = r],
           r.pc # "idle" => r.token # 0,
           r.token \in {0, coordinators[c].token},
           r.pc = "phase" => coordinators[c].pc = "phase" /\ r.lapsed = coordinators[c].lapsed
    PROVE  MaintenanceInv'
<1>1. MaintenanceType'
  BY DEF MaintenanceInv, MaintenanceType
<1>2. TokensDiffer'
  BY DEF MaintenanceInv, MaintenanceType, TokensDiffer, CoordinatorRun
<1>3. RunHoldsLease'
  BY DEF MaintenanceInv, MaintenanceType, TokensDiffer, RunHoldsLease, CoordinatorRun
<1> QED BY <1>1, <1>2, <1>3 DEF MaintenanceInv

LEMMA NoRunIsARun == NoRun \in CoordinatorRun
BY DEF NoRun, CoordinatorRun

LEMMA RunStartsPreserves ==
    ASSUME MaintenanceInv, UNCHANGED config, NEW c \in Coordinator, RunStarts(c)
    PROVE  MaintenanceInv'
<1> DEFINE r == [NoRun EXCEPT !.pc = "acquire", !.token = FreshToken]
<1>1. /\ r \in CoordinatorRun /\ r.pc = "acquire" /\ r.token = FreshToken
      /\ coordinators' = [coordinators EXCEPT ![c] = r] /\ UNCHANGED lease
  BY FreshTokenIsFree, NoRunIsARun DEF RunStarts, NoRun, CoordinatorRun
<1> HIDE DEF r
<1>2. MaintenanceType'
  BY <1>1 DEF MaintenanceInv, MaintenanceType
<1>3. TokensDiffer'
  BY <1>1, FreshTokenIsFree DEF MaintenanceInv, MaintenanceType, TokensDiffer, CoordinatorRun
<1>4. RunHoldsLease'
  BY <1>1 DEF MaintenanceInv, MaintenanceType, RunHoldsLease, CoordinatorRun
<1> QED BY <1>2, <1>3, <1>4 DEF MaintenanceInv

\* Whoever acquires finds no ownership of a run whose time has not lapsed.
LEMMA AcquiredPreserves ==
    ASSUME MaintenanceInv, UNCHANGED config, NEW c \in Coordinator, Acquired(c),
           coordinators[c].pc \in {"acquire", "select", "insert"},
           IsFree \/ lease.token = coordinators[c].token
    PROVE  MaintenanceInv'
<1> DEFINE r == [coordinators[c] EXCEPT !.pc = "phase", !.phase = 1]
<1>1. coordinators[c] \in CoordinatorRun /\ coordinators[c].token # 0
  BY DEF MaintenanceInv, MaintenanceType, TokensDiffer
<1>2. /\ r \in CoordinatorRun /\ r.token = coordinators[c].token
      /\ coordinators' = [coordinators EXCEPT ![c] = r]
      /\ lease' \in Lease /\ lease'.token = coordinators[c].token /\ ~lease'.expired
  BY <1>1 DEF Acquired, CoordinatorRun, Lease
<1>3. ASSUME NEW d \in Coordinator, d # c, coordinators[d].pc = "phase"
      PROVE  coordinators[d].lapsed
  <2>1. coordinators[d].token # 0 /\ coordinators[d].token # coordinators[c].token
    BY <1>1, <1>3 DEF MaintenanceInv, TokensDiffer
  <2> QED BY <1>3, <2>1 DEF MaintenanceInv, MaintenanceType, RunHoldsLease, IsFree, NoLease, CoordinatorRun
<1> HIDE DEF r
<1>4. MaintenanceType'
  BY <1>2 DEF MaintenanceInv, MaintenanceType
<1>5. TokensDiffer'
  BY <1>1, <1>2 DEF MaintenanceInv, MaintenanceType, TokensDiffer, CoordinatorRun
<1>6. RunHoldsLease'
  BY <1>2, <1>3 DEF MaintenanceInv, MaintenanceType, RunHoldsLease, CoordinatorRun
<1> QED BY <1>4, <1>5, <1>6 DEF MaintenanceInv

LEMMA AcquireStepPreserves ==
    ASSUME MaintenanceInv, UNCHANGED config, NEW c \in Coordinator, AcquireStep(c)
    PROVE  MaintenanceInv'
<1>1. coordinators[c].pc \in {"acquire", "select", "insert"} /\ coordinators[c] \in CoordinatorRun
  BY DEF AcquireStep, MaintenanceInv, MaintenanceType
<1>2. config.store \in {"redis", "ephemeral", "sqlspec", "alchemy"}
  BY ConfigsAssumption DEF MaintenanceInv, MaintenanceType
<1>3. \/ Acquired(c) /\ (IsFree \/ lease.token = coordinators[c].token)
      \/ Denied(c)
      \/ \E pc \in {"select", "insert"} : GoesOn(c, pc)
  BY <1>2 DEF AcquireStep, Acquire, RedisAcquire, EphemeralAcquire, SqlSpecAcquire, SqlSpecSelect, AlchemyAcquire,
              InsertCoordination, IsFree
<1>4. CASE Denied(c)
  BY <1>4, NoRunIsARun, RunGoesOn DEF Denied, NoRun
<1>5. ASSUME NEW pc \in {"select", "insert"}, GoesOn(c, pc)
      PROVE  MaintenanceInv'
  <2> DEFINE r == [coordinators[c] EXCEPT !.pc = pc]
  <2>1. /\ r \in CoordinatorRun /\ r.token = coordinators[c].token /\ r.pc = pc
        /\ coordinators' = [coordinators EXCEPT ![c] = r] /\ UNCHANGED lease
    BY <1>1, <1>5 DEF GoesOn, CoordinatorRun
  <2>2. coordinators[c].token # 0
    BY <1>1 DEF MaintenanceInv, TokensDiffer
  <2> HIDE DEF r
  <2> QED BY <2>1, <2>2, RunGoesOn
<1> QED BY <1>1, <1>3, <1>4, <1>5, AcquiredPreserves

LEMMA PhaseEndsPreserves ==
    ASSUME MaintenanceInv, UNCHANGED config, NEW c \in Coordinator, coordinators[c].pc = "phase", PhaseEnds(c)
    PROVE  MaintenanceInv'
<1> DEFINE r == [coordinators[c] EXCEPT !.phase = @ + 1]
<1>1. coordinators[c] \in CoordinatorRun /\ coordinators[c].token # 0
  BY DEF MaintenanceInv, MaintenanceType, TokensDiffer
<1>2. /\ r \in CoordinatorRun /\ r.token = coordinators[c].token /\ r.pc = "phase" /\ r.lapsed = coordinators[c].lapsed
      /\ coordinators' = [coordinators EXCEPT ![c] = r] /\ UNCHANGED lease
  BY <1>1 DEF PhaseEnds, CoordinatorRun
<1> HIDE DEF r
<1> QED BY <1>1, <1>2, RunGoesOn

LEMMA BudgetPassesPreserves ==
    ASSUME MaintenanceInv, UNCHANGED config, NEW c \in Coordinator, BudgetPasses(c)
    PROVE  MaintenanceInv'
<1> DEFINE r == [coordinators[c] EXCEPT !.exhausted = TRUE]
<1>1. coordinators[c] \in CoordinatorRun /\ coordinators[c].token # 0
  BY DEF MaintenanceInv, MaintenanceType, TokensDiffer, BudgetPasses
<1>2. /\ r \in CoordinatorRun /\ r.token = coordinators[c].token /\ r.lapsed = coordinators[c].lapsed
      /\ r.pc = coordinators[c].pc
      /\ coordinators' = [coordinators EXCEPT ![c] = r] /\ UNCHANGED lease
  BY <1>1 DEF BudgetPasses, CoordinatorRun
<1> HIDE DEF r
<1> QED BY <1>1, <1>2, RunGoesOn

\* The token of the run that ends is nobody else's: no other run loses its
\* ownership by the release.
LEMMA RunEndsPreserves ==
    ASSUME MaintenanceInv, UNCHANGED config, NEW c \in Coordinator, RunEnds(c)
    PROVE  MaintenanceInv'
<1>1. coordinators' = [coordinators EXCEPT ![c] = NoRun] /\ coordinators[c].token # 0
  BY DEF RunEnds, MaintenanceInv, TokensDiffer
<1>2. lease' \in Lease /\ (lease' = lease \/ lease.token = coordinators[c].token)
  BY DEF RunEnds, Released, NoLease, Lease, MaintenanceInv, MaintenanceType
<1>3. MaintenanceType'
  BY <1>1, <1>2, NoRunIsARun DEF MaintenanceInv, MaintenanceType
<1>4. TokensDiffer'
  BY <1>1 DEF MaintenanceInv, MaintenanceType, TokensDiffer, NoRun
<1>5. RunHoldsLease'
  <2> SUFFICES ASSUME NEW d \in Coordinator, coordinators'[d].pc = "phase", ~coordinators'[d].lapsed
               PROVE  lease'.token = coordinators'[d].token /\ ~lease'.expired
    BY DEF RunHoldsLease
  <2>1. d # c /\ coordinators'[d] = coordinators[d]
    BY <1>1 DEF MaintenanceInv, MaintenanceType, NoRun
  <2>2. lease.token = coordinators[d].token /\ ~lease.expired
    BY <2>1 DEF MaintenanceInv, RunHoldsLease
  <2>3. coordinators[d].token # coordinators[c].token
    BY <1>1, <2>1 DEF MaintenanceInv, TokensDiffer
  <2> QED BY <1>2, <2>1, <2>2, <2>3
<1> QED BY <1>3, <1>4, <1>5 DEF MaintenanceInv

LEMMA CoordinatorDiesPreserves ==
    ASSUME MaintenanceInv, UNCHANGED config, NEW c \in Coordinator, CoordinatorDies(c)
    PROVE  MaintenanceInv'
BY NoRunIsARun, RunGoesOn DEF CoordinatorDies, NoRun

LEMMA LeaseExpiresPreserves ==
    ASSUME MaintenanceInv, UNCHANGED config, LeaseExpires
    PROVE  MaintenanceInv'
<1>1. lease' \in Lease /\ lease'.token = lease.token
  BY DEF LeaseExpires, MaintenanceInv, MaintenanceType, Lease
<1>2. ASSUME NEW c \in Coordinator
      PROVE  /\ coordinators'[c] \in CoordinatorRun
             /\ coordinators'[c].pc = coordinators[c].pc /\ coordinators'[c].token = coordinators[c].token
             /\ \/ coordinators'[c].lapsed
                \/ coordinators'[c] = coordinators[c] /\ ~(lease.token = coordinators[c].token /\ coordinators[c].pc = "phase")
  <2>1. coordinators[c] \in CoordinatorRun
    BY DEF MaintenanceInv, MaintenanceType
  <2>2. coordinators'[c] = IF coordinators[c].token = lease.token /\ coordinators[c].pc = "phase"
                           THEN [coordinators[c] EXCEPT !.lapsed = TRUE] ELSE coordinators[c]
    BY DEF LeaseExpires
  <2> QED BY <2>1, <2>2 DEF CoordinatorRun
<1>3. coordinators' = [c \in Coordinator |-> coordinators'[c]]
  BY DEF LeaseExpires
<1>4. MaintenanceType'
  BY <1>1, <1>2, <1>3 DEF MaintenanceInv, MaintenanceType
<1>5. TokensDiffer'
  BY <1>2 DEF MaintenanceInv, TokensDiffer
<1>6. RunHoldsLease'
  BY <1>1, <1>2 DEF MaintenanceInv, RunHoldsLease
<1> QED BY <1>4, <1>5, <1>6 DEF MaintenanceInv

LEMMA MaintenanceStutters ==
    ASSUME MaintenanceInv, UNCHANGED <<config, lease, coordinators>>
    PROVE  MaintenanceInv'
BY DEF MaintenanceInv, MaintenanceType, TokensDiffer, RunHoldsLease

LEMMA MaintenanceNextPreserves ==
    ASSUME MaintenanceInv, UNCHANGED config, MaintenanceNext
    PROVE  MaintenanceInv'
<1>1. ASSUME NEW c \in Coordinator, CoordinatorStep(c)
      PROVE  MaintenanceInv'
  <2>1. CASE SkipPhase(c) \/ ExpirePhase(c) \/ StalePhase(c) \/ TerminalPhase(c) \/ SchedulesEnd(c)
    <3>1. coordinators[c].pc = "phase" /\ PhaseEnds(c)
      BY <2>1 DEF SkipPhase, ExpirePhase, StalePhase, TerminalPhase, SchedulesEnd, Enters, InPhase
    <3> QED BY <3>1, PhaseEndsPreserves
  <2>2. CASE SchedulesPhase(c) \/ (KeeperStep(c) /\ UNCHANGED maintenanceVars)
    <3>1. UNCHANGED <<lease, coordinators>>
      BY <2>2 DEF SchedulesPhase, maintenanceVars
    <3> QED BY <3>1, MaintenanceStutters
  <2> QED BY <1>1, <2>1, <2>2, RunStartsPreserves, AcquireStepPreserves, RunEndsPreserves DEF CoordinatorStep
<1>2. ASSUME NEW c \in Coordinator, PhaseFails(c)
      PROVE  MaintenanceInv'
  BY <1>2, PhaseEndsPreserves DEF PhaseFails
<1> QED BY <1>1, <1>2, BudgetPassesPreserves, CoordinatorDiesPreserves, LeaseExpiresPreserves DEF MaintenanceNext

\* A maintenance run works under an ownership that the store shows as its own
\* until its time has run out: for every store, any number of coordinators,
\* crashes, and releases that come after the ownership has lapsed.
THEOREM RunsAreCovered == Spec => []RunIsCovered
<1>1. Init => MaintenanceInv
  BY NoRunIsARun DEF Init, MaintenanceInit, MaintenanceInv, MaintenanceType, TokensDiffer, RunHoldsLease, NoLease, Lease, NoRun
<1>2. MaintenanceInv /\ [Next]_vars => MaintenanceInv'
  <2> SUFFICES ASSUME MaintenanceInv, [Next]_vars PROVE MaintenanceInv'
    OBVIOUS
  <2>1. CASE Schedules(RecurrenceNext) \/ IdentityNext \/ UNCHANGED vars
    <3>1. UNCHANGED <<config, lease, coordinators>>
      BY <2>1 DEF Schedules, IdentityNext, vars, maintenanceVars
    <3> QED BY <3>1, MaintenanceStutters
  <2>2. CASE Maintains(MaintenanceNext)
    BY <2>2, MaintenanceNextPreserves DEF Maintains
  <2> QED BY <2>1, <2>2 DEF Next
<1>3. MaintenanceInv => RunIsCovered
  BY DEF MaintenanceInv, MaintenanceType, RunHoldsLease, RunIsCovered, CoordinatorRun
<1> QED BY <1>1, <1>2, <1>3, PTL DEF Spec

----------------------------------------------------------------------------
\* Identities.

KeyedTask == [state : {"none", "active", "ended", "deleted"}, forever : BOOLEAN, epoch : Nat]

EnqueueCall ==
    [pc : {"idle", "reserve", "insert", "owner", "store", "verify", "reset"}, id : 0..MaxTasks,
     forever : BOOLEAN, epoch : Nat]

IdentityType ==
    /\ config \in Configs
    /\ reserved \in 0..MaxTasks /\ epoch \in Nat
    /\ tasks \in [TaskId -> KeyedTask] /\ callers \in [Caller -> EnqueueCall]

\* A call under way has a task id that no other call has.
IdsDiffer ==
    /\ \A c \in Caller : callers[c].pc # "idle" => callers[c].id \in TaskId
    /\ \A c, d \in Caller : callers[c].id # 0 /\ callers[c].id = callers[d].id => c = d

\* The task of a call is stored by that call's store step alone; one whose
\* outcome is unknown may exist, and is then not cleaned up under the call.
StoredByItsCall ==
    \A c \in Caller :
        /\ callers[c].pc \in {"reserve", "insert", "owner", "store", "reset"} => tasks[callers[c].id] = NoTask
        /\ callers[c].pc = "verify" => \/ tasks[callers[c].id] = NoTask
                                       \/ tasks[callers[c].id].state \in {"active", "ended"}

\* A call that has won the reservation and not stored its task yet.
HasWon(c) == callers[c].pc = "store" /\ callers[c].forever

EpochsPass ==
    /\ \A c \in Caller : callers[c].epoch <= epoch
    /\ \A t \in TaskId : tasks[t].epoch <= epoch

\* Who won in the present epoch is still the owner of the reservation.
WinnerIsOwner ==
    /\ \A c \in Caller : HasWon(c) /\ callers[c].epoch = epoch => reserved = callers[c].id
    /\ \A t \in TaskId : tasks[t].forever /\ tasks[t].epoch = epoch => reserved = t

\* One winner per epoch, whether its task is stored already or not.
OneWinner ==
    /\ \A t, u \in TaskId : tasks[t].forever /\ tasks[u].forever /\ tasks[t].epoch = tasks[u].epoch => t = u
    /\ \A c, d \in Caller : HasWon(c) /\ HasWon(d) /\ callers[c].epoch = callers[d].epoch => c = d
    /\ \A c \in Caller, t \in TaskId : HasWon(c) /\ tasks[t].forever => callers[c].epoch # tasks[t].epoch

IdentityInv ==
    IdentityType /\ IdsDiffer /\ StoredByItsCall /\ EpochsPass /\ WinnerIsOwner /\ OneWinner

LEMMA NothingUnderTheKey ==
    /\ NoTask \in KeyedTask /\ ~NoTask.forever
    /\ IdleCaller \in EnqueueCall /\ IdleCaller.pc = "idle" /\ IdleCaller.id = 0 /\ IdleCaller.epoch = 0
BY IdentitiesAssumption DEF NoTask, KeyedTask, IdleCaller, EnqueueCall

\* A call that moves on, or ends, without a new winner.
LEMMA CallGoesOn ==
    ASSUME IdentityInv, UNCHANGED <<config, reserved, tasks, epoch>>, NEW c \in Caller, NEW r \in EnqueueCall,
           callers' = [callers EXCEPT ![c] = r],
           r.epoch <= epoch,
           r.id \in {0, callers[c].id},
           r.pc # "idle" => r.id \in TaskId,
           ~(r.pc = "store" /\ r.forever),
           r.pc \in {"reserve", "insert", "owner", "store", "reset"} => tasks[r.id] = NoTask,
           r.pc = "verify" => callers[c].pc = "store" /\ r.id = callers[c].id
    PROVE  IdentityInv'
<1>1. IdentityType'
  BY DEF IdentityInv, IdentityType
<1>2. IdsDiffer'
  BY DEF IdentityInv, IdentityType, IdsDiffer, EnqueueCall
<1>3. StoredByItsCall'
  BY DEF IdentityInv, IdentityType, StoredByItsCall, EnqueueCall, IdsDiffer
<1>4. EpochsPass'
  BY DEF IdentityInv, IdentityType, EpochsPass
<1>5. WinnerIsOwner'
  BY DEF IdentityInv, IdentityType, WinnerIsOwner, HasWon
<1>6. OneWinner'
  BY DEF IdentityInv, IdentityType, OneWinner, HasWon
<1> QED BY <1>1, <1>2, <1>3, <1>4, <1>5, <1>6 DEF IdentityInv

LEMMA CallReturns ==
    ASSUME IdentityInv, UNCHANGED <<config, reserved, tasks, epoch>>, NEW c \in Caller, Returns(c)
    PROVE  IdentityInv'
<1> DEFINE r == IdleCaller
<1>1. r.epoch <= epoch
  BY NothingUnderTheKey DEF IdentityInv, IdentityType
<1>2. /\ r \in EnqueueCall /\ r.pc = "idle" /\ r.id = 0
      /\ callers' = [callers EXCEPT ![c] = r]
  BY NothingUnderTheKey DEF Returns
<1> HIDE DEF r
<1> QED BY <1>1, <1>2, CallGoesOn

\* A call that has not stored its task proceeds; store is reached by winning.
LEMMA CallProceeds ==
    ASSUME IdentityInv, UNCHANGED <<config, reserved, tasks, epoch>>, NEW c \in Caller,
           NEW pc \in {"reserve", "insert", "owner", "verify", "reset"}, Goes(c, pc),
           callers[c].pc # "idle",
           pc = "verify" => callers[c].pc = "store",
           callers[c].pc = "verify" => tasks[callers[c].id] = NoTask
    PROVE  IdentityInv'
<1> DEFINE r == [callers[c] EXCEPT !.pc = pc]
<1>1. callers[c] \in EnqueueCall /\ callers[c].id \in TaskId /\ callers[c].epoch <= epoch
  BY DEF IdentityInv, IdentityType, IdsDiffer, EpochsPass
<1>2. tasks[callers[c].id] = NoTask
  BY <1>1 DEF IdentityInv, StoredByItsCall, EnqueueCall
<1>3. /\ r \in EnqueueCall /\ r.pc = pc /\ r.id = callers[c].id /\ r.epoch = callers[c].epoch
      /\ callers' = [callers EXCEPT ![c] = r]
  BY <1>1 DEF Goes, EnqueueCall
<1> HIDE DEF r
<1> QED BY <1>1, <1>2, <1>3, CallGoesOn

LEMMA EnqueueStartsPreserves ==
    ASSUME IdentityInv, UNCHANGED config, NEW c \in Caller, NEW forever \in BOOLEAN, EnqueueStarts(c, forever)
    PROVE  IdentityInv'
<1>1. PICK t \in TaskId :
        /\ tasks[t] = NoTask /\ \A d \in Caller : callers[d].id # t
        /\ callers' = [callers EXCEPT ![c] = [pc |-> IF forever THEN "reserve" ELSE "store", id |-> t,
                                              forever |-> forever, epoch |-> epoch]]
        /\ UNCHANGED <<reserved, tasks, epoch>>
  BY DEF EnqueueStarts
<1> DEFINE r == [pc |-> IF forever THEN "reserve" ELSE "store", id |-> t, forever |-> forever, epoch |-> epoch]
<1>2. /\ r \in EnqueueCall /\ r.pc \in {"reserve", "store"} /\ ~(r.pc = "store" /\ r.forever)
      /\ r.id = t /\ r.epoch = epoch /\ callers' = [callers EXCEPT ![c] = r]
  BY <1>1, IdentitiesAssumption DEF EnqueueCall, TaskId, IdentityInv, IdentityType
<1> HIDE DEF r
<1>3. IdentityType'
  BY <1>1, <1>2 DEF IdentityInv, IdentityType
<1>4. IdsDiffer'
  BY <1>1, <1>2 DEF IdentityInv, IdentityType, IdsDiffer, EnqueueCall
<1>5. StoredByItsCall'
  BY <1>1, <1>2 DEF IdentityInv, IdentityType, StoredByItsCall, EnqueueCall
<1>6. EpochsPass'
  BY <1>1, <1>2 DEF IdentityInv, IdentityType, EpochsPass
<1>7. WinnerIsOwner'
  BY <1>1, <1>2 DEF IdentityInv, IdentityType, WinnerIsOwner, HasWon
<1>8. OneWinner'
  BY <1>1, <1>2 DEF IdentityInv, IdentityType, OneWinner, HasWon
<1> QED BY <1>3, <1>4, <1>5, <1>6, <1>7, <1>8 DEF IdentityInv

\* Nobody has won in this epoch while the identity is free.
LEMMA WonPreserves ==
    ASSUME IdentityInv, UNCHANGED <<config, tasks, epoch>>, NEW c \in Caller, Won(c), reserved = 0,
           callers[c].pc \in {"reserve", "insert"}
    PROVE  IdentityInv'
<1> DEFINE r == [callers[c] EXCEPT !.pc = "store", !.epoch = epoch]
<1>1. callers[c] \in EnqueueCall /\ callers[c].id \in TaskId /\ tasks[callers[c].id] = NoTask
  BY DEF IdentityInv, IdentityType, IdsDiffer, StoredByItsCall
<1>2. /\ r \in EnqueueCall /\ r.pc = "store" /\ r.id = callers[c].id /\ r.epoch = epoch
      /\ callers' = [callers EXCEPT ![c] = r] /\ reserved' = callers[c].id
  BY <1>1 DEF Won, EnqueueCall, IdentityInv, IdentityType
<1> HIDE DEF r
<1>3. ASSUME NEW d \in Caller, HasWon(d) PROVE callers[d].epoch # epoch
  <2>1. callers[d].id \in TaskId
    BY <1>3 DEF IdentityInv, IdsDiffer, HasWon
  <2> QED BY <1>3, <2>1 DEF IdentityInv, WinnerIsOwner, TaskId
<1>4. ASSUME NEW t \in TaskId, tasks[t].forever PROVE tasks[t].epoch # epoch
  BY <1>4 DEF IdentityInv, WinnerIsOwner, TaskId
<1>5. IdentityType'
  BY <1>1, <1>2 DEF IdentityInv, IdentityType, TaskId
<1>6. IdsDiffer'
  BY <1>1, <1>2 DEF IdentityInv, IdentityType, IdsDiffer, EnqueueCall
<1>7. StoredByItsCall'
  BY <1>1, <1>2 DEF IdentityInv, IdentityType, StoredByItsCall, EnqueueCall
<1>8. EpochsPass'
  BY <1>2 DEF IdentityInv, IdentityType, EpochsPass
<1>9. WinnerIsOwner'
  BY <1>2, <1>3, <1>4 DEF IdentityInv, IdentityType, HasWon, WinnerIsOwner
<1>10. OneWinner'
  BY <1>2, <1>3, <1>4 DEF IdentityInv, IdentityType, OneWinner, HasWon
<1> QED BY <1>5, <1>6, <1>7, <1>8, <1>9, <1>10 DEF IdentityInv

\* The winner's task takes its place; the call ends, or does not know.
LEMMA StoredPreserves ==
    ASSUME IdentityInv, UNCHANGED <<config, reserved, epoch>>, NEW c \in Caller, callers[c].pc = "store",
           tasks' = Stored(c), NEW r \in EnqueueCall, callers' = [callers EXCEPT ![c] = r],
           r.pc \in {"idle", "verify"}, r.id \in {0, callers[c].id}, r.epoch <= epoch,
           r.pc = "verify" => r.id = callers[c].id
    PROVE  IdentityInv'
<1> DEFINE x == [state |-> "active", forever |-> callers[c].forever, epoch |-> callers[c].epoch]
<1>1. callers[c] \in EnqueueCall /\ callers[c].id \in TaskId /\ callers[c].epoch <= epoch
  BY DEF IdentityInv, IdentityType, IdsDiffer, EpochsPass
<1>2. /\ x \in KeyedTask /\ x.forever = callers[c].forever /\ x.epoch = callers[c].epoch /\ x.state = "active"
      /\ tasks' = [tasks EXCEPT ![callers[c].id] = x]
  BY <1>1 DEF Stored, KeyedTask, EnqueueCall
<1> HIDE DEF x
<1>3. ASSUME NEW d \in Caller, d # c
      PROVE  callers'[d] = callers[d] /\ (callers[d].id # 0 => callers[d].id # callers[c].id)
  BY <1>3 DEF IdentityInv, IdentityType, IdsDiffer
<1>4. IdentityType'
  BY <1>1, <1>2 DEF IdentityInv, IdentityType
<1>5. IdsDiffer'
  BY <1>1 DEF IdentityInv, IdentityType, IdsDiffer, EnqueueCall
<1>6. StoredByItsCall'
  <2> SUFFICES ASSUME NEW d \in Caller
               PROVE  /\ callers'[d].pc \in {"reserve", "insert", "owner", "store", "reset"} => tasks'[callers'[d].id] = NoTask
                      /\ callers'[d].pc = "verify" => \/ tasks'[callers'[d].id] = NoTask
                                                      \/ tasks'[callers'[d].id].state \in {"active", "ended"}
    BY DEF StoredByItsCall
  <2>1. CASE d = c
    <3>1. callers'[d] = r
      BY <2>1 DEF IdentityInv, IdentityType
    <3>2. tasks'[callers[c].id].state = "active"
      BY <1>1, <1>2 DEF IdentityInv, IdentityType
    <3> QED BY <3>1, <3>2
  <2>2. CASE d # c /\ callers[d].pc # "idle"
    <3>1. callers[d].id \in TaskId /\ callers[d].id # callers[c].id /\ callers'[d] = callers[d]
      BY <1>3, <2>2 DEF IdentityInv, IdsDiffer, TaskId
    <3>2. tasks'[callers[d].id] = tasks[callers[d].id]
      BY <1>2, <3>1 DEF IdentityInv, IdentityType
    <3> QED BY <3>1, <3>2 DEF IdentityInv, StoredByItsCall
  <2>3. CASE d # c /\ callers[d].pc = "idle"
    BY <1>3, <2>3
  <2> QED BY <2>1, <2>2, <2>3
<1>7. EpochsPass'
  BY <1>1, <1>2 DEF IdentityInv, IdentityType, EpochsPass
<1>8. WinnerIsOwner'
  BY <1>1, <1>2 DEF IdentityInv, IdentityType, WinnerIsOwner, HasWon
<1>9. OneWinner'
  BY <1>1, <1>2 DEF IdentityInv, IdentityType, OneWinner, HasWon
<1> QED BY <1>4, <1>5, <1>6, <1>7, <1>8, <1>9 DEF IdentityInv

LEMMA StorePreserves ==
    ASSUME IdentityInv, UNCHANGED config, NEW c \in Caller, Store(c) \/ StoreRaises(c)
    PROVE  IdentityInv'
<1>1. callers[c].pc = "store" /\ callers[c] \in EnqueueCall /\ callers[c].epoch <= epoch /\ UNCHANGED <<reserved, epoch>>
  BY DEF Store, StoreRaises, IdentityInv, IdentityType, EpochsPass
<1>2. CASE UNCHANGED tasks
  <2>1. Returns(c) \/ Goes(c, "reset") \/ Goes(c, "verify")
    BY DEF Store, StoreRaises
  <2> QED BY <1>1, <1>2, <2>1, CallReturns, CallProceeds
<1>3. CASE tasks' = Stored(c) /\ Returns(c)
  <2>1. IdleCaller.epoch <= epoch
    BY NothingUnderTheKey DEF IdentityInv, IdentityType
  <2> QED BY <1>1, <1>3, <2>1, NothingUnderTheKey, StoredPreserves DEF Returns
<1>4. CASE tasks' = Stored(c) /\ Goes(c, "verify")
  <2> DEFINE r == [callers[c] EXCEPT !.pc = "verify"]
  <2>1. /\ r \in EnqueueCall /\ r.pc = "verify" /\ r.id = callers[c].id /\ r.epoch = callers[c].epoch
        /\ callers' = [callers EXCEPT ![c] = r]
    BY <1>1, <1>4 DEF Goes, EnqueueCall
  <2> HIDE DEF r
  <2> QED BY <1>1, <1>4, <2>1, StoredPreserves
<1>5. CASE Store(c)
  BY <1>2, <1>3, <1>5 DEF Store
<1>6. CASE StoreRaises(c)
  BY <1>2, <1>3, <1>4, <1>6 DEF StoreRaises
<1> QED BY <1>5, <1>6

LEMMA ReservePreserves ==
    ASSUME IdentityInv, UNCHANGED config, NEW c \in Caller,
           ReserveAtomically(c) \/ ReserveSelects(c) \/ ReserveInserts(c) \/ SqlSpecReadsOwner(c) \/ AlchemyReadsOwner(c)
    PROVE  IdentityInv'
<1>1. CASE ReserveAtomically(c)
  BY <1>1, WonPreserves, CallReturns DEF ReserveAtomically, Lost
<1>2. CASE ReserveSelects(c)
  BY <1>2, CallReturns, CallProceeds DEF ReserveSelects, Lost
<1>3. CASE ReserveInserts(c)
  BY <1>3, WonPreserves, CallProceeds DEF ReserveInserts
<1>4. CASE SqlSpecReadsOwner(c) \/ AlchemyReadsOwner(c)
  BY <1>4, CallReturns, CallProceeds DEF SqlSpecReadsOwner, AlchemyReadsOwner
<1> QED BY <1>1, <1>2, <1>3, <1>4

LEMMA VerifyPreserves ==
    ASSUME IdentityInv, UNCHANGED config, NEW c \in Caller, Verify(c)
    PROVE  IdentityInv'
<1>1. CASE Unpersisted(c)
  <2>1. tasks[callers[c].id] = NoTask
    BY <1>1 DEF Unpersisted, Verify, IdentityInv, StoredByItsCall
  <2> QED BY <1>1, <2>1, CallProceeds DEF Verify
<1>2. CASE ~Unpersisted(c)
  BY <1>2, CallReturns DEF Verify
<1> QED BY <1>1, <1>2

\* The reservation that goes is that of a call whose task does not exist.
LEMMA ResetPreserves ==
    ASSUME IdentityInv, UNCHANGED config, NEW c \in Caller, ResetReservation(c)
    PROVE  IdentityInv'
<1>1. callers[c].pc = "reset" /\ callers[c].id \in TaskId /\ tasks[callers[c].id] = NoTask
  BY DEF ResetReservation, IdentityInv, IdsDiffer, StoredByItsCall
<1>2. /\ callers' = [callers EXCEPT ![c] = IdleCaller] /\ UNCHANGED <<tasks, epoch>>
      /\ reserved' \in 0..MaxTasks /\ (reserved' = reserved \/ reserved = callers[c].id)
  BY IdentitiesAssumption DEF ResetReservation, ResetExpected, Returns, IdentityInv, IdentityType
<1>3. IdentityType'
  BY <1>2, NothingUnderTheKey DEF IdentityInv, IdentityType
<1>4. IdsDiffer'
  BY <1>2, NothingUnderTheKey DEF IdentityInv, IdentityType, IdsDiffer
<1>5. StoredByItsCall'
  BY <1>2, NothingUnderTheKey DEF IdentityInv, IdentityType, StoredByItsCall
<1>6. EpochsPass'
  BY <1>2, NothingUnderTheKey DEF IdentityInv, IdentityType, EpochsPass
<1>7. WinnerIsOwner'
  <2>1. ASSUME NEW d \in Caller, HasWon(d)', callers'[d].epoch = epoch PROVE reserved' = callers'[d].id
    <3>1. d # c /\ callers'[d] = callers[d]
      BY <1>2, <2>1, NothingUnderTheKey DEF IdentityInv, IdentityType, HasWon
    <3>2. HasWon(d) /\ reserved = callers[d].id /\ callers[d].id \in TaskId
      BY <2>1, <3>1 DEF HasWon, IdentityInv, WinnerIsOwner, IdsDiffer
    <3>3. callers[d].id # callers[c].id
      BY <3>1, <3>2 DEF IdentityInv, IdsDiffer, TaskId
    <3> QED BY <1>2, <3>1, <3>2, <3>3
  <2>2. ASSUME NEW t \in TaskId, tasks'[t].forever, tasks'[t].epoch = epoch PROVE reserved' = t
    <3>1. t # callers[c].id /\ reserved = t
      BY <1>1, <1>2, <2>2, NothingUnderTheKey DEF IdentityInv, WinnerIsOwner
    <3> QED BY <1>2, <3>1
  <2> QED BY <1>2, <2>1, <2>2 DEF WinnerIsOwner
<1>8. OneWinner'
  BY <1>2, NothingUnderTheKey DEF IdentityInv, IdentityType, OneWinner, HasWon
<1> QED BY <1>3, <1>4, <1>5, <1>6, <1>7, <1>8 DEF IdentityInv

\* No one has won in an epoch that has only begun.
LEMMA OperatorResetsPreserves ==
    ASSUME IdentityInv, UNCHANGED config, OperatorResets
    PROVE  IdentityInv'
<1>1. epoch \in Nat /\ epoch' = epoch + 1 /\ reserved' = 0 /\ UNCHANGED <<tasks, callers>>
  BY DEF OperatorResets, IdentityInv, IdentityType
<1>2. /\ \A c \in Caller : callers[c].epoch \in Nat /\ callers[c].epoch <= epoch
      /\ \A t \in TaskId : tasks[t].epoch \in Nat /\ tasks[t].epoch <= epoch
  BY DEF IdentityInv, IdentityType, EpochsPass, EnqueueCall, KeyedTask
<1>3. IdentityType'
  BY <1>1, IdentitiesAssumption DEF IdentityInv, IdentityType
<1>4. IdsDiffer' /\ StoredByItsCall'
  BY <1>1 DEF IdentityInv, IdsDiffer, StoredByItsCall
<1>5. EpochsPass'
  BY <1>1, <1>2 DEF EpochsPass
<1>6. WinnerIsOwner'
  BY <1>1, <1>2 DEF WinnerIsOwner
<1>7. OneWinner'
  BY <1>1 DEF IdentityInv, OneWinner, HasWon
<1> QED BY <1>3, <1>4, <1>5, <1>6, <1>7 DEF IdentityInv

\* A task changes its state: it ran, and is cleaned up when no call has it.
LEMMA TaskMovesPreserves ==
    ASSUME IdentityInv, UNCHANGED config, NEW t \in TaskId, TaskEnds(t) \/ CleanupTask(t)
    PROVE  IdentityInv'
<1> DEFINE x == tasks'[t]
<1>1. UNCHANGED <<reserved, callers, epoch>>
  BY DEF TaskEnds, CleanupTask
<1>2. /\ tasks[t] \in KeyedTask /\ tasks[t].state # "none"
      /\ x \in KeyedTask /\ x.forever = tasks[t].forever /\ x.epoch = tasks[t].epoch
      /\ tasks' = [tasks EXCEPT ![t] = x]
  BY DEF TaskEnds, CleanupTask, IdentityInv, IdentityType, KeyedTask
<1>3. x.state = "ended" \/ (x.state = "deleted" /\ \A c \in Caller : callers[c].id # t)
  BY DEF TaskEnds, CleanupTask, IdentityInv, IdentityType, KeyedTask
<1> HIDE DEF x
<1>4. IdentityType'
  BY <1>1, <1>2 DEF IdentityInv, IdentityType
<1>5. IdsDiffer'
  BY <1>1 DEF IdentityInv, IdsDiffer
<1>6. StoredByItsCall'
  BY <1>1, <1>2, <1>3 DEF IdentityInv, IdentityType, StoredByItsCall, NoTask
<1>7. EpochsPass'
  BY <1>1, <1>2 DEF IdentityInv, IdentityType, EpochsPass
<1>8. WinnerIsOwner'
  BY <1>1, <1>2 DEF IdentityInv, IdentityType, WinnerIsOwner, HasWon
<1>9. OneWinner'
  BY <1>1, <1>2 DEF IdentityInv, IdentityType, OneWinner, HasWon
<1> QED BY <1>4, <1>5, <1>6, <1>7, <1>8, <1>9 DEF IdentityInv

LEMMA IdentityStutters ==
    ASSUME IdentityInv, UNCHANGED <<config, identityVars>>
    PROVE  IdentityInv'
BY DEF identityVars, IdentityInv, IdentityType, IdsDiffer, StoredByItsCall, EpochsPass, WinnerIsOwner, OneWinner, HasWon

LEMMA IdentityNextPreserves ==
    ASSUME IdentityInv, IdentityNext
    PROVE  IdentityInv'
<1>1. UNCHANGED config /\ config.callers \subseteq Caller
  BY ConfigsAssumption DEF IdentityNext, IdentityInv, IdentityType
<1>2. ASSUME NEW c \in Caller, IdentityStep(c)
      PROVE  IdentityInv'
  BY <1>1, <1>2, EnqueueStartsPreserves, ReservePreserves, StorePreserves, VerifyPreserves, ResetPreserves DEF IdentityStep
<1>3. ASSUME NEW c \in Caller, CallerDies(c)
      PROVE  IdentityInv'
  BY <1>1, <1>3, CallReturns DEF CallerDies
<1> QED BY <1>1, <1>2, <1>3, StorePreserves, OperatorResetsPreserves, TaskMovesPreserves DEF IdentityNext

LEMMA OneWinnerIsOnce ==
    ASSUME IdentityInv
    PROVE  OncePerEpoch
<1> SUFFICES ASSUME NEW e \in 0..MaxEpochs
             PROVE  Cardinality({t \in TaskId : tasks[t].forever /\ tasks[t].epoch = e}) <= 1
  BY DEF OncePerEpoch
<1> DEFINE S == {t \in TaskId : tasks[t].forever /\ tasks[t].epoch = e}
<1>0. SUFFICES Cardinality(S) <= 1
  OBVIOUS
<1>1. CASE S = {}
  <2> HIDE DEF S
  <2> QED BY <1>1, FS_EmptySet
<1>2. CASE S # {}
  <2>1. PICK t : t \in S
    BY <1>2
  <2>2. S = {t}
    BY <2>1 DEF IdentityInv, OneWinner
  <2> HIDE DEF S
  <2>3. Cardinality({t}) = 1
    BY FS_Singleton
  <2> QED BY <2>2, <2>3
<1> QED BY <1>1, <1>2

\* An identity with unique_until="forever" stores one task between two resets:
\* for any number of concurrent enqueue() calls, of stores that read before
\* they insert, of failed or cancelled writes, crashes and clean-ups.
THEOREM IdentitiesRunOnce == Spec => []OncePerEpoch
<1>1. Init => IdentityInv
  BY IdentitiesAssumption, NothingUnderTheKey
     DEF Init, IdentityInit, IdentityInv, IdentityType, IdsDiffer, StoredByItsCall, EpochsPass, WinnerIsOwner, OneWinner, HasWon, NoTask
<1>2. IdentityInv /\ [Next]_vars => IdentityInv'
  <2> SUFFICES ASSUME IdentityInv, [Next]_vars PROVE IdentityInv'
    OBVIOUS
  <2>1. CASE Schedules(RecurrenceNext) \/ Maintains(MaintenanceNext) \/ UNCHANGED vars
    <3>1. UNCHANGED <<config, identityVars>>
      BY <2>1 DEF Schedules, Maintains, vars
    <3> QED BY <3>1, IdentityStutters
  <2>2. CASE IdentityNext
    BY <2>2, IdentityNextPreserves
  <2> QED BY <2>1, <2>2 DEF Next
<1>3. IdentityInv => OncePerEpoch
  BY OneWinnerIsOnce
<1> QED BY <1>1, <1>2, <1>3, PTL DEF Spec

----------------------------------------------------------------------------
\* Deliveries to repair: the turns that may still pass a delivery over.

Others == Cardinality(Delivery) - 1
Rounds == (Others + RepairLimit - 1) \div RepairLimit

\* Turn k of a repair that has f[s] deliveries ahead of it takes the k-th
\* RepairLimit of them from the end; turn 0 is one that began too early (Late).
TurnsOf(Late, f) ==
    {p \in Scanner \X (0..Rounds) : IF p[2] = 0 THEN p[1] \in Late ELSE p[2] * RepairLimit <= f[p[1]]}

LEMMA Division ==
    ASSUME NEW a \in Nat, NEW n \in Nat \ {0}
    PROVE  \E k \in Nat : k * n <= a /\ a < (k + 1) * n
<1> DEFINE k == a \div n
<1>1. a = n * k + (a % n) /\ a % n \in 0..(n - 1) /\ k \in Int
  OBVIOUS
<1>2. k \in Nat
  OBVIOUS
<1>3. k * n = n * k /\ (k + 1) * n = n * k + n
  BY <1>2
<1> HIDE DEF k
<1>4. n * k \in Int
  BY <1>2
<1>5. k * n <= a /\ a < (k + 1) * n
  BY <1>1, <1>3, <1>4
<1> QED
  BY <1>2, <1>5

LEMMA RoundsCover ==
    ASSUME Others \in Nat
    PROVE  /\ Rounds \in Nat
           /\ \A k \in Nat : k * RepairLimit <= Others => k <= Rounds
<1> DEFINE n == RepairLimit
           a == Others + n - 1
<1>1. n \in Nat \ {0} /\ a \in Nat
  BY DispatchRepairAssumption
<1> HIDE DEF n
<1>2. Rounds = a \div n
  BY DEF Rounds, n
<1>3. Rounds \in Nat /\ a = n * Rounds + (a % n) /\ a % n \in 0..(n - 1)
  BY <1>1, <1>2
<1>4. ASSUME NEW k \in Nat, k * n <= Others
      PROVE  k <= Rounds
  <2> SUFFICES ASSUME k >= Rounds + 1 PROVE FALSE
    BY <1>3
  <2>1. k * n >= (Rounds + 1) * n
    BY <1>1, <1>3
  <2>2. (Rounds + 1) * n = n * Rounds + n
    BY <1>1, <1>3
  <2>3. n * Rounds \in Int /\ k * n \in Int
    BY <1>1, <1>3
  <2> HIDE DEF a
  <2>4. n * Rounds + n <= a - n + 1
    BY <1>1, <1>4, <2>1, <2>2, <2>3 DEF a
  <2> QED
    BY <1>1, <1>3, <2>3, <2>4
<1> QED
  BY <1>3, <1>4 DEF n

LEMMA TurnsBound ==
    ASSUME Others \in Nat, NEW Late, NEW f
    PROVE  /\ IsFiniteSet(TurnsOf(Late, f)) /\ Cardinality(TurnsOf(Late, f)) \in Nat
           /\ Cardinality(TurnsOf(Late, f)) <= (Rounds + 1) * Cardinality(Scanner)
<1> DEFINE all == Scanner \X (0..Rounds)
<1>1. Rounds \in Nat /\ IsFiniteSet(Scanner)
  BY RoundsCover, DispatchRepairAssumption
<1>2. IsFiniteSet(0..Rounds) /\ Cardinality(0..Rounds) = Rounds + 1
  BY <1>1, FS_Interval
<1>3. IsFiniteSet(all) /\ Cardinality(all) = Cardinality(Scanner) * (Rounds + 1)
  BY <1>1, <1>2, FS_Product
<1>4. TurnsOf(Late, f) \in SUBSET all
  BY DEF TurnsOf
<1>5. Cardinality(Scanner) \in Nat
  BY <1>1, FS_CardinalityType
<1>6. Cardinality(Scanner) * (Rounds + 1) = (Rounds + 1) * Cardinality(Scanner)
  BY <1>1, <1>5
<1> HIDE DEF all
<1> QED
  BY <1>3, <1>4, <1>6, FS_Subset, FS_CardinalityType

\* With fewer deliveries ahead of it, fewer turns pass it over.
LEMMA FewerTurns ==
    ASSUME Others \in Nat, NEW Late, NEW f \in [Scanner -> Nat], NEW Late2 \in SUBSET Late, NEW g \in [Scanner -> Nat],
           \A s \in Scanner : g[s] <= f[s]
    PROVE  /\ TurnsOf(Late2, g) \subseteq TurnsOf(Late, f)
           /\ Cardinality(TurnsOf(Late2, g)) <= Cardinality(TurnsOf(Late, f))
<1>1. TurnsOf(Late2, g) \subseteq TurnsOf(Late, f)
  <2> SUFFICES ASSUME NEW s \in Scanner, NEW k \in 0..Rounds,
                      IF k = 0 THEN s \in Late2 ELSE k * RepairLimit <= g[s]
               PROVE  IF k = 0 THEN s \in Late ELSE k * RepairLimit <= f[s]
    BY DEF TurnsOf
  <2>1. k * RepairLimit \in Int /\ g[s] \in Nat /\ f[s] \in Nat /\ g[s] <= f[s]
    BY RoundsCover, DispatchRepairAssumption
  <2> QED
    BY <2>1
<1>2. IsFiniteSet(TurnsOf(Late, f)) /\ TurnsOf(Late2, g) \in SUBSET TurnsOf(Late, f)
  BY <1>1, TurnsBound
<1> QED
  BY <1>1, <1>2, FS_Subset

\* A turn that is taken is one less.
LEMMA TurnTaken ==
    ASSUME Others \in Nat, NEW Late, NEW f \in [Scanner -> 0..Others], NEW Late2 \in SUBSET Late, NEW g \in [Scanner -> Nat],
           \A s \in Scanner : g[s] <= f[s],
           NEW t \in Scanner, t \in Late \ Late2 \/ g[t] + RepairLimit <= f[t]
    PROVE  Cardinality(TurnsOf(Late2, g)) + 1 <= Cardinality(TurnsOf(Late, f))
<1> DEFINE T == TurnsOf(Late, f)
           U == TurnsOf(Late2, g)
<1>1. f \in [Scanner -> Nat] /\ RepairLimit \in Nat \ {0}
  BY DispatchRepairAssumption
<1>2. U \subseteq T /\ Cardinality(U) <= Cardinality(T)
  BY <1>1, FewerTurns
<1>3. \E p \in T : p \notin U
  <2>1. CASE t \in Late \ Late2
    <3>1. <<t, 0>> \in T /\ <<t, 0>> \notin U
      BY <2>1, RoundsCover DEF TurnsOf
    <3> QED
      BY <3>1
  <2>2. CASE g[t] + RepairLimit <= f[t]
    <3>1. PICK k \in Nat : k * RepairLimit <= f[t] /\ f[t] < (k + 1) * RepairLimit
      BY <1>1, Division
    <3>2. (k + 1) * RepairLimit = k * RepairLimit + RepairLimit /\ k * RepairLimit \in Nat
      BY <1>1, <3>1
    <3>3. f[t] \in 0..Others /\ g[t] \in Nat
      OBVIOUS
    <3>4. k * RepairLimit > g[t]
      BY <1>1, <2>2, <3>1, <3>2, <3>3
    <3>5. k # 0
      BY <1>1, <3>3, <3>4
    <3>6. k \in 0..Rounds
      BY <3>1, <3>2, <3>3, RoundsCover
    <3>7. <<t, k>> \in T
      BY <3>1, <3>5, <3>6 DEF TurnsOf
    <3>8. <<t, k>> \notin U
      BY <3>2, <3>3, <3>4, <3>5 DEF TurnsOf
    <3> QED
      BY <3>7, <3>8
  <2> QED
    BY <2>1, <2>2
<1>4. IsFiniteSet(T) /\ Cardinality(T) \in Nat /\ Cardinality(U) \in Nat
  BY TurnsBound
<1> HIDE DEF T, U
<1>5. Cardinality(U) # Cardinality(T)
  <2>1. U \in SUBSET T
    BY <1>2
  <2> QED
    BY <1>3, <1>4, <2>1, FS_Subset
<1>6. Cardinality(U) + 1 <= Cardinality(T)
  BY <1>2, <1>4, <1>5
<1> QED
  BY <1>6 DEF T, U

\* A delivery that comes back is one turn more for each repair.
LEMMA TurnsOfReturn ==
    ASSUME Others \in Nat, NEW Late, NEW f \in [Scanner -> Nat], NEW Late2 \in SUBSET Late, NEW g \in [Scanner -> Nat],
           \A s \in Scanner : g[s] <= f[s] + 1
    PROVE  Cardinality(TurnsOf(Late2, g)) <= Cardinality(TurnsOf(Late, f)) + Cardinality(Scanner)
<1> DEFINE T == TurnsOf(Late, f)
           U == TurnsOf(Late2, g)
           new == U \ T
           who == [p \in new |-> p[1]]
<1>1. RepairLimit \in Nat \ {0} /\ Rounds \in Nat /\ IsFiniteSet(Scanner)
  BY DispatchRepairAssumption, RoundsCover
<1>2. \A p \in new : /\ p \in Scanner \X (0..Rounds) /\ p = <<p[1], p[2]>>
                     /\ p[2] # 0 /\ p[2] * RepairLimit = f[p[1]] + 1
  <2> SUFFICES ASSUME NEW s \in Scanner, NEW k \in 0..Rounds, <<s, k>> \in new
               PROVE  k # 0 /\ k * RepairLimit = f[s] + 1
    BY DEF TurnsOf
  <2>1. k # 0 /\ k * RepairLimit <= g[s] /\ ~(k * RepairLimit <= f[s])
    BY DEF TurnsOf
  <2>2. k * RepairLimit \in Nat /\ g[s] \in Nat /\ f[s] \in Nat /\ g[s] <= f[s] + 1
    BY <1>1
  <2> QED
    BY <2>1, <2>2
<1>3. \A i, j \in Nat : i * RepairLimit = j * RepairLimit => i = j
  BY <1>1
<1>4. who \in Injection(new, Scanner)
  <2>1. who \in [new -> Scanner]
    BY <1>2
  <2>2. ASSUME NEW p \in new, NEW q \in new, p[1] = q[1]
        PROVE  p = q
    <3>1. p[2] * RepairLimit = q[2] * RepairLimit /\ p[2] \in Nat /\ q[2] \in Nat
      BY <1>2, <2>2
    <3>2. p[2] = q[2]
      BY <1>3, <3>1
    <3> QED
      BY <1>2, <2>2, <3>2
  <2> HIDE DEF new
  <2> QED
    BY <2>1, <2>2 DEF Injection, IsInjective
<1>5. /\ IsFiniteSet(T) /\ Cardinality(T) \in Nat
      /\ IsFiniteSet(U) /\ Cardinality(U) \in Nat
  BY TurnsBound
<1> HIDE DEF T, U, who
<1>6. IsFiniteSet(new)
  BY <1>5, FS_Difference
<1> HIDE DEF new
<1>7. Cardinality(new) <= Cardinality(Scanner)
  BY <1>1, <1>4, <1>6, FS_Injection
<1>8. IsFiniteSet(T \cup new) /\ Cardinality(T \cup new) = Cardinality(T) + Cardinality(new) - Cardinality(T \cap new)
  BY <1>5, <1>6, FS_Union
<1>9. /\ Cardinality(T \cup new) \in Nat /\ Cardinality(new) \in Nat /\ Cardinality(Scanner) \in Nat
      /\ Cardinality(T \cap new) \in Nat
  BY <1>1, <1>5, <1>6, <1>8, FS_CardinalityType, FS_Intersection
<1>10. U \in SUBSET (T \cup new)
  BY DEF new
<1>11. Cardinality(U) <= Cardinality(T \cup new)
  BY <1>8, <1>10, FS_Subset
<1>12. Cardinality(U) <= Cardinality(T) + Cardinality(Scanner)
  BY <1>5, <1>7, <1>8, <1>9, <1>11
<1> QED
  BY <1>12 DEF T, U

\* What is ahead of a delivery, as sets.
TurnsLeft(Late, A) == Cardinality(TurnsOf(Late, [s \in Scanner |-> Cardinality(A[s])]))

MostTurns == (Rounds + 1) * Cardinality(Scanner)

LEMMA OthersCount ==
    ASSUME NEW d \in Delivery
    PROVE  /\ Others \in Nat
           /\ \A X \in SUBSET (Delivery \ {d}) : IsFiniteSet(X) /\ Cardinality(X) \in 0..Others
<1>1. IsFiniteSet(Delivery \ {d}) /\ Cardinality(Delivery \ {d}) = Others
  BY DispatchRepairAssumption, FS_RemoveElement DEF Others
<1>2. Others \in Nat
  BY <1>1, FS_CardinalityType
<1> DEFINE D == Delivery \ {d}
<1>3. ASSUME NEW X \in SUBSET D
      PROVE  IsFiniteSet(X) /\ Cardinality(X) \in 0..Others
  <2> HIDE DEF D
  <2>1. IsFiniteSet(X) /\ Cardinality(X) <= Cardinality(D)
    BY <1>1, FS_Subset DEF D
  <2>2. Cardinality(X) \in Nat
    BY <2>1, FS_CardinalityType
  <2> QED
    BY <1>1, <1>2, <2>1, <2>2 DEF D
<1> QED
  BY <1>2, <1>3

LEMMA MostTurnsFacts ==
    ASSUME NEW d \in Delivery
    PROVE  /\ Rounds \in Nat /\ Cardinality(Scanner) \in Nat /\ MostTurns \in Nat
           /\ \A Late, A : TurnsLeft(Late, A) \in Nat /\ TurnsLeft(Late, A) <= MostTurns
           /\ \A r \in Nat : /\ (Rounds + 1 + r) * Cardinality(Scanner) = MostTurns + r * Cardinality(Scanner)
                             /\ r * Cardinality(Scanner) \in Nat
                             /\ (r + 1) * Cardinality(Scanner) = r * Cardinality(Scanner) + Cardinality(Scanner)
<1>1. Others \in Nat /\ Rounds \in Nat /\ Cardinality(Scanner) \in Nat
  BY OthersCount, RoundsCover, DispatchRepairAssumption, FS_CardinalityType
<1>2. MostTurns \in Nat
  BY <1>1 DEF MostTurns
<1>3. \A Late, A : TurnsLeft(Late, A) \in Nat /\ TurnsLeft(Late, A) <= MostTurns
  BY <1>1, TurnsBound DEF TurnsLeft, MostTurns
<1> DEFINE n == Cardinality(Scanner)
<1>4. ASSUME NEW r \in Nat
      PROVE  /\ (Rounds + 1 + r) * n = (Rounds + 1) * n + r * n
             /\ r * n \in Nat /\ (r + 1) * n = r * n + n
  <2> n \in Nat /\ Rounds \in Nat
    BY <1>1
  <2> HIDE DEF n
  <2> QED
    OBVIOUS
<1> QED
  BY <1>1, <1>2, <1>3, <1>4 DEF MostTurns

LEMMA LessIsFewer ==
    ASSUME NEW d \in Delivery, NEW Late, NEW A \in [Scanner -> SUBSET (Delivery \ {d})],
           NEW Late2 \in SUBSET Late, NEW B \in [Scanner -> SUBSET (Delivery \ {d})],
           \A s \in Scanner : B[s] \subseteq A[s]
    PROVE  TurnsLeft(Late2, B) <= TurnsLeft(Late, A)
<1> DEFINE f == [s \in Scanner |-> Cardinality(A[s])]
           g == [s \in Scanner |-> Cardinality(B[s])]
<1>1. f \in [Scanner -> Nat] /\ g \in [Scanner -> Nat]
  BY OthersCount
<1>2. \A s \in Scanner : g[s] <= f[s]
  BY OthersCount, FS_Subset
<1>3. Others \in Nat
  BY OthersCount
<1> HIDE DEF f, g
<1>4. Cardinality(TurnsOf(Late2, g)) <= Cardinality(TurnsOf(Late, f))
  BY <1>1, <1>2, <1>3, FewerTurns
<1> QED
  BY <1>4 DEF TurnsLeft, f, g

LEMMA PageIsATurn ==
    ASSUME NEW d \in Delivery, NEW Late, NEW A \in [Scanner -> SUBSET (Delivery \ {d})],
           NEW Late2 \in SUBSET Late, NEW B \in [Scanner -> SUBSET (Delivery \ {d})],
           \A s \in Scanner : B[s] \subseteq A[s],
           NEW t \in Scanner,
           \/ t \in Late \ Late2
           \/ \E P \in SUBSET A[t] : RepairLimit <= Cardinality(P) /\ B[t] \subseteq A[t] \ P
    PROVE  TurnsLeft(Late2, B) + 1 <= TurnsLeft(Late, A)
<1> DEFINE f == [s \in Scanner |-> Cardinality(A[s])]
           g == [s \in Scanner |-> Cardinality(B[s])]
<1>1. f \in [Scanner -> 0..Others] /\ g \in [Scanner -> Nat]
  BY OthersCount
<1>2. \A s \in Scanner : g[s] <= f[s]
  BY OthersCount, FS_Subset
<1>3. Others \in Nat
  BY OthersCount
<1>4. t \in Late \ Late2 \/ g[t] + RepairLimit <= f[t]
  <2> SUFFICES ASSUME NEW P \in SUBSET A[t], RepairLimit <= Cardinality(P), B[t] \subseteq A[t] \ P
               PROVE  g[t] + RepairLimit <= f[t]
    OBVIOUS
  <2> DEFINE At == A[t]
             Bt == B[t]
  <2>1. At \in SUBSET (Delivery \ {d}) /\ Bt \in SUBSET (At \ P) /\ P \in SUBSET At
    OBVIOUS
  <2> HIDE DEF At, Bt
  <2>2. IsFiniteSet(At) /\ Cardinality(At) \in Nat /\ IsFiniteSet(P) /\ Cardinality(P) \in Nat
    BY <2>1, OthersCount
  <2>3. IsFiniteSet(At \ P) /\ Cardinality(At \ P) = Cardinality(At) - Cardinality(P)
    <3>1. At \cap P = P
      BY <2>1
    <3> QED
      BY <2>2, <3>1, FS_Difference
  <2>4. Cardinality(Bt) <= Cardinality(At \ P) /\ Cardinality(Bt) \in Nat
    BY <2>1, <2>3, FS_Subset, FS_CardinalityType
  <2>5. Cardinality(Bt) + RepairLimit <= Cardinality(At)
    BY <2>2, <2>3, <2>4, DispatchRepairAssumption
  <2> QED
    BY <2>5 DEF At, Bt
<1> HIDE DEF f, g
<1>5. Cardinality(TurnsOf(Late2, g)) + 1 <= Cardinality(TurnsOf(Late, f))
  BY <1>1, <1>2, <1>3, <1>4, TurnTaken
<1> QED
  BY <1>5 DEF TurnsLeft, f, g

LEMMA OneMoreAhead ==
    ASSUME NEW d \in Delivery, NEW Late, NEW A \in [Scanner -> SUBSET (Delivery \ {d})],
           NEW Late2 \in SUBSET Late, NEW B \in [Scanner -> SUBSET (Delivery \ {d})],
           NEW e, \A s \in Scanner : B[s] \subseteq A[s] \cup {e}
    PROVE  TurnsLeft(Late2, B) <= TurnsLeft(Late, A) + Cardinality(Scanner)
<1> DEFINE f == [s \in Scanner |-> Cardinality(A[s])]
           g == [s \in Scanner |-> Cardinality(B[s])]
<1>1. f \in [Scanner -> Nat] /\ g \in [Scanner -> Nat]
  BY OthersCount
<1>2. ASSUME NEW s \in Scanner
      PROVE  g[s] <= f[s] + 1
  <2> DEFINE As == A[s]
             Bs == B[s]
  <2>1. As \in SUBSET (Delivery \ {d}) /\ Bs \in SUBSET (Delivery \ {d}) /\ Bs \in SUBSET (As \cup {e})
    OBVIOUS
  <2> HIDE DEF As, Bs
  <2>2. IsFiniteSet(As) /\ Cardinality(As) \in Nat /\ Cardinality(Bs) \in Nat
    BY <2>1, OthersCount
  <2>3. IsFiniteSet(As \cup {e}) /\ Cardinality(As \cup {e}) <= Cardinality(As) + 1
    <3>1. /\ IsFiniteSet(As \cup {e})
          /\ Cardinality(As \cup {e}) = IF e \in As THEN Cardinality(As) ELSE Cardinality(As) + 1
      BY <2>2, FS_AddElement
    <3> QED
      BY <2>2, <3>1
  <2>4. Cardinality(Bs) <= Cardinality(As \cup {e}) /\ Cardinality(As \cup {e}) \in Nat
    BY <2>1, <2>3, FS_Subset, FS_CardinalityType
  <2>5. Cardinality(Bs) <= Cardinality(As) + 1
    BY <2>2, <2>3, <2>4
  <2> QED
    BY <2>5 DEF As, Bs
<1>3. Others \in Nat
  BY OthersCount
<1> HIDE DEF f, g
<1>4. Cardinality(TurnsOf(Late2, g)) <= Cardinality(TurnsOf(Late, f)) + Cardinality(Scanner)
  BY <1>1, <1>2, <1>3, TurnsOfReturn
<1> QED
  BY <1>4 DEF TurnsLeft, f, g

\* A repair began before a time if the delivery, or a page that holds it,
\* carries a mark from then on.
NotAfter(m, d) == m <= CheckedOrder(d) \/ \E s \in Scanner : d \in scanners[s].page /\ m <= scanners[s].now

IsOld(s, d) == NotAfter(scanners[s].now, d)

\* The deliveries that a page may still take before d: those examined no later
\* than d, and those that a repair which began no later is about to mark.
InFront(d) ==
    {e \in Delivery \ {d} :
        /\ deliveries[e].waits
        /\ \/ NotAfter(CheckedOrder(e), d)
           \/ \E s \in Scanner : e \in scanners[s].page /\ IsOld(s, d) /\ deliveries[e].checked = 0}

\* A younger repair that holds a page has used its turn over it.
Rests(d) == [s \in Scanner |-> InFront(d) \ (IF IsOld(s, d) THEN {} ELSE scanners[s].page)]

LateRepairs(d) == {s \in Scanner : scanners[s].pc = "select" /\ IsOld(s, d)}

Turns(d) == TurnsLeft(LateRepairs(d), Rests(d))

RepairType ==
    /\ config \in Configs
    /\ deliveries \in [Delivery -> [waits : BOOLEAN, created : Nat, checked : Nat]]
    /\ scanners \in [Scanner -> [pc : {"idle", "select", "mark"}, now : Nat, page : SUBSET Delivery]]
    /\ time \in Nat /\ returned \in Nat /\ passed \in [Delivery -> Nat]

\* Marks and creations are past, and pages are of deliveries that exist.
PastOnly ==
    /\ time > 0
    /\ \A d \in Delivery : /\ deliveries[d].created < time /\ deliveries[d].checked < time
                           /\ deliveries[d].created = 0 => ~deliveries[d].waits /\ deliveries[d].checked = 0
                           /\ ~deliveries[d].waits => passed[d] = 0
    /\ \A s \in Scanner : /\ scanners[s].now < time
                          /\ scanners[s].pc # "mark" => scanners[s].page = {}
                          /\ \A d \in scanners[s].page : deliveries[d].created # 0

\* RepairReachesAll alone does not survive a page: the pages that have left a
\* delivery out and the turns that may still do so are bounded together.
WithinTurns == \A d \in Delivery : passed[d] + Turns(d) <= MostTurns + returned * Cardinality(Scanner)

RepairInv == RepairType /\ PastOnly /\ WithinTurns

\* A page that leaves out an eligible delivery is full, of ones that come before.
Below(d) == {e \in Eligible : CheckedBefore(e, d)}

LEMMA ChecksAreOrdered ==
    ASSUME RepairType
    PROVE  /\ \A d \in Delivery : CheckedOrder(d) \in Nat
           /\ \A d, e \in Delivery : d = e \/ CheckedBefore(d, e) \/ CheckedBefore(e, d)
           /\ \A d, e \in Delivery : ~(CheckedBefore(d, e) /\ CheckedBefore(e, d)) /\ ~CheckedBefore(d, d)
           /\ \A c, d, e \in Delivery : CheckedBefore(c, d) /\ CheckedBefore(d, e) => CheckedBefore(c, e)
<1>1. \A d \in Delivery : CheckedOrder(d) \in Nat /\ d \in Nat
  BY DispatchRepairAssumption DEF RepairType, CheckedOrder
<1> QED
  BY <1>1 DEF CheckedBefore

LEMMA BelowFacts ==
    ASSUME RepairType, NEW d \in Delivery
    PROVE  /\ Below(d) \subseteq Delivery
           /\ \A X \in SUBSET Delivery : IsFiniteSet(X) /\ Cardinality(X) \in Nat
           /\ \A X, Y \in SUBSET Delivery : X \subseteq Y => Cardinality(X) <= Cardinality(Y)
           /\ \A X, Y \in SUBSET Delivery : X \subseteq Y /\ X # Y => Cardinality(X) < Cardinality(Y)
<1>1. Below(d) \subseteq Delivery
  BY DEF Below, Eligible
<1>2. \A X \in SUBSET Delivery : IsFiniteSet(X) /\ Cardinality(X) \in Nat
  BY DispatchRepairAssumption, FS_Subset, FS_CardinalityType
<1>3. \A X, Y \in SUBSET Delivery :
         X \subseteq Y => Cardinality(X) <= Cardinality(Y) /\ (X # Y => Cardinality(X) # Cardinality(Y))
  BY <1>2, FS_Subset
<1> QED
  BY <1>1, <1>2, <1>3

LEMMA PageFacts ==
    ASSUME RepairType, NEW d \in Eligible \ Page
    PROVE  /\ \A p \in Page : p \in Eligible /\ p # d /\ CheckedOrder(p) <= CheckedOrder(d)
           /\ RepairLimit <= Cardinality(Page)
<1>1. d \in Delivery /\ RepairLimit \in Nat \ {0} /\ Page \subseteq Delivery /\ Eligible \subseteq Delivery
  BY DispatchRepairAssumption DEF Eligible, Page
<1>2. \A e \in Eligible : e \in Page <=> Cardinality(Below(e)) < RepairLimit
  BY DEF Page, Below
<1>3. ASSUME NEW p \in Page
      PROVE  p \in Eligible /\ p # d /\ CheckedOrder(p) <= CheckedOrder(d)
  <2>1. p \in Eligible /\ p # d /\ p \in Delivery
    BY <1>1 DEF Page
  <2>2. CASE CheckedBefore(d, p)
    <3>1. Below(d) \subseteq Below(p)
      BY <1>1, <2>1, <2>2, ChecksAreOrdered DEF Below
    <3>2. /\ Cardinality(Below(d)) <= Cardinality(Below(p))
          /\ Cardinality(Below(d)) \in Nat /\ Cardinality(Below(p)) \in Nat
      BY <1>1, <2>1, <3>1, BelowFacts
    <3> QED
      BY <1>1, <1>2, <2>1, <3>2
  <2>3. CASE CheckedBefore(p, d)
    BY <1>1, <2>1, <2>3, ChecksAreOrdered DEF CheckedBefore
  <2> QED
    BY <1>1, <2>1, <2>2, <2>3, ChecksAreOrdered
<1>4. RepairLimit <= Cardinality(Page)
  <2> DEFINE out == Eligible \ Page
             ranks == {Cardinality(Below(e)) : e \in out}
             less == OpToRel(<, Nat)
  <2>1. less = {ss \in Nat \X Nat : ss[1] < ss[2]} /\ IsWellFoundedOn(less, Nat)
    BY NatLessThanWellFounded DEF OpToRel
  <2>2. ranks \subseteq Nat /\ ranks # {}
    BY <1>1, BelowFacts
  <2>3. PICK r \in ranks : \A q \in ranks : <<q, r>> \notin less
    <3> HIDE DEF ranks, less
    <3> QED
      BY <2>1, <2>2, WFMin
  <2>4. \A q \in ranks : r <= q
    <3> HIDE DEF ranks, less
    <3> SUFFICES ASSUME NEW q \in ranks PROVE r <= q
      OBVIOUS
    <3>1. q \in Nat /\ r \in Nat /\ <<q, r>> \notin less
      BY <2>2, <2>3
    <3> QED
      BY <2>1, <3>1
  <2>5. PICK e \in out : r = Cardinality(Below(e))
    OBVIOUS
  <2>6. Below(e) \subseteq Page
    <3> SUFFICES ASSUME NEW x \in Below(e), x \notin Page PROVE FALSE
      OBVIOUS
    <3>1. x \in out /\ x \in Delivery /\ e \in Delivery /\ CheckedBefore(x, e)
      BY <1>1 DEF Below
    <3>2. Below(x) \subseteq Below(e) /\ x \notin Below(x)
      BY <1>1, <3>1, ChecksAreOrdered DEF Below
    <3>3. Below(x) \in SUBSET Delivery /\ Below(e) \in SUBSET Delivery /\ Below(x) # Below(e)
      BY <3>1, <3>2, BelowFacts
    <3>4. Cardinality(Below(x)) < Cardinality(Below(e)) /\ Cardinality(Below(x)) \in Nat /\ Cardinality(Below(e)) \in Nat
      BY <3>2, <3>3, BelowFacts
    <3>5. r <= Cardinality(Below(x))
      BY <2>4, <3>1
    <3> QED
      BY <2>5, <3>4, <3>5
  <2>7. e \in Eligible /\ e \in Delivery /\ e \notin Page
    BY <1>1
  <2>8. ~(Cardinality(Below(e)) < RepairLimit)
    BY <1>2, <2>7
  <2>9. Below(e) \in SUBSET Delivery /\ Page \in SUBSET Delivery
    BY <1>1, <2>7, BelowFacts
  <2>10. /\ Cardinality(Below(e)) <= Cardinality(Page)
         /\ Cardinality(Below(e)) \in Nat /\ Cardinality(Page) \in Nat
    BY <1>1, <2>6, <2>9, BelowFacts
  <2> QED
    BY <1>1, <2>8, <2>10
<1> QED
  BY <1>3, <1>4

\* What a step has to leave as it is, or make smaller, delivery by delivery.
Within(d) == passed[d] + Turns(d) <= MostTurns + returned * Cardinality(Scanner)

NotAfterNext(m, d) ==
    m <= CheckedOrder(d)' \/ \E s \in Scanner : d \in scanners'[s].page /\ m <= scanners'[s].now

NoMoreTurns(d) ==
    LateRepairs(d)' \subseteq LateRepairs(d) /\ \A s \in Scanner : Rests(d)'[s] \subseteq Rests(d)[s]

LEMMA RestsAreOthers ==
    ASSUME NEW d
    PROVE  /\ Rests(d) \in [Scanner -> SUBSET (Delivery \ {d})]
           /\ Rests(d)' \in [Scanner -> SUBSET (Delivery \ {d})]
BY DEF Rests, InFront

LEMMA StartsAgain ==
    ASSUME NEW d \in Delivery, passed'[d] = 0, returned' \in Nat
    PROVE  Within(d)'
<1>1. TurnsLeft(LateRepairs(d)', Rests(d)') \in Nat /\ TurnsLeft(LateRepairs(d)', Rests(d)') <= MostTurns
  BY MostTurnsFacts
<1>2. MostTurns \in Nat /\ returned' * Cardinality(Scanner) \in Nat
  BY MostTurnsFacts
<1> QED
  BY <1>1, <1>2 DEF Within, Turns

LEMMA NoPass ==
    ASSUME RepairType, NEW d \in Delivery, Within(d), NoMoreTurns(d), passed'[d] = passed[d], returned' = returned
    PROVE  Within(d)'
<1>1. TurnsLeft(LateRepairs(d)', Rests(d)') <= TurnsLeft(LateRepairs(d), Rests(d))
  BY RestsAreOthers, LessIsFewer DEF NoMoreTurns
<1>2. /\ TurnsLeft(LateRepairs(d)', Rests(d)') \in Nat /\ TurnsLeft(LateRepairs(d), Rests(d)) \in Nat
      /\ MostTurns \in Nat /\ returned * Cardinality(Scanner) \in Nat /\ passed[d] \in Nat
  BY MostTurnsFacts DEF RepairType
<1> QED
  BY <1>1, <1>2 DEF Within, Turns

LEMMA OnePass ==
    ASSUME RepairType, NEW d \in Delivery, Within(d), NoMoreTurns(d), passed'[d] = passed[d] + 1, returned' = returned,
           NEW t \in Scanner,
           \/ t \in LateRepairs(d) \ LateRepairs(d)'
           \/ \E P \in SUBSET Rests(d)[t] : RepairLimit <= Cardinality(P) /\ Rests(d)'[t] \subseteq Rests(d)[t] \ P
    PROVE  Within(d)'
<1>1. TurnsLeft(LateRepairs(d)', Rests(d)') + 1 <= TurnsLeft(LateRepairs(d), Rests(d))
  BY RestsAreOthers, PageIsATurn DEF NoMoreTurns
<1>2. /\ TurnsLeft(LateRepairs(d)', Rests(d)') \in Nat /\ TurnsLeft(LateRepairs(d), Rests(d)) \in Nat
      /\ MostTurns \in Nat /\ returned * Cardinality(Scanner) \in Nat /\ passed[d] \in Nat
  BY MostTurnsFacts DEF RepairType
<1> QED
  BY <1>1, <1>2 DEF Within, Turns

LEMMA OneReturn ==
    ASSUME RepairType, NEW d \in Delivery, Within(d), NEW e, passed'[d] = passed[d], returned' = returned + 1,
           LateRepairs(d)' \subseteq LateRepairs(d), \A s \in Scanner : Rests(d)'[s] \subseteq Rests(d)[s] \cup {e}
    PROVE  Within(d)'
<1>1. TurnsLeft(LateRepairs(d)', Rests(d)') <= TurnsLeft(LateRepairs(d), Rests(d)) + Cardinality(Scanner)
  BY RestsAreOthers, OneMoreAhead
<1>2. /\ TurnsLeft(LateRepairs(d)', Rests(d)') \in Nat /\ TurnsLeft(LateRepairs(d), Rests(d)) \in Nat
      /\ MostTurns \in Nat /\ passed[d] \in Nat /\ Cardinality(Scanner) \in Nat
  BY MostTurnsFacts DEF RepairType
<1>3. returned * Cardinality(Scanner) \in Nat /\ returned' * Cardinality(Scanner) = returned * Cardinality(Scanner) + Cardinality(Scanner)
  BY MostTurnsFacts DEF RepairType
<1> DEFINE x == returned * Cardinality(Scanner)
           y == returned' * Cardinality(Scanner)
<1>4. passed[d] + TurnsLeft(LateRepairs(d), Rests(d)) <= MostTurns + x
  BY DEF Within, Turns
<1>5. x \in Nat /\ y = x + Cardinality(Scanner)
  BY <1>3
<1> HIDE DEF x, y
<1>6. passed'[d] + TurnsLeft(LateRepairs(d)', Rests(d)') <= MostTurns + y
  BY <1>1, <1>2, <1>4, <1>5
<1> QED
  BY <1>6 DEF Within, Turns, y

\* Nothing comes in front of a delivery unless it is created or comes back.
LEMMA NoneComesInFront ==
    ASSUME RepairType, NEW d \in Delivery,
           \A m \in Nat : NotAfterNext(m, d) => NotAfter(m, d),
           \A e \in Delivery \ {d} : deliveries'[e].waits =>
              /\ deliveries[e].waits /\ CheckedOrder(e)' \in Nat
              /\ \/ CheckedOrder(e) <= CheckedOrder(e)'
                 \/ CheckedOrder(e) <= CheckedOrder(d)
                 \/ \E s \in Scanner : /\ e \in scanners[s].page /\ deliveries[e].checked = 0
                                       /\ CheckedOrder(e)' = scanners[s].now,
           \A s \in Scanner : /\ scanners'[s].now \in Nat
                              /\ \A e \in scanners'[s].page : deliveries'[e].waits /\ deliveries'[e].checked = 0 =>
                                    \/ CheckedOrder(e) <= CheckedOrder(d)
                                    \/ /\ e \in scanners[s].page /\ deliveries[e].checked = 0
                                       /\ scanners'[s].now = scanners[s].now
    PROVE  InFront(d)' \subseteq InFront(d)
<1> SUFFICES ASSUME NEW e, e \in InFront(d)' PROVE e \in InFront(d)
  OBVIOUS
<1>1. /\ e \in Delivery \ {d} /\ deliveries'[e].waits
      /\ \/ NotAfterNext(CheckedOrder(e)', d)
         \/ \E s \in Scanner : /\ e \in scanners'[s].page /\ deliveries'[e].checked = 0
                               /\ NotAfterNext(scanners'[s].now, d)
  BY DEF InFront, IsOld, NotAfter, NotAfterNext
<1>2. deliveries[e].waits /\ CheckedOrder(e)' \in Nat /\ \A x \in Delivery : CheckedOrder(x) \in Nat
  BY <1>1, ChecksAreOrdered
<1>3. CheckedOrder(e) <= CheckedOrder(d) => e \in InFront(d)
  BY <1>1, <1>2 DEF InFront, NotAfter
<1>4. CASE NotAfterNext(CheckedOrder(e)', d)
  <2>1. NotAfter(CheckedOrder(e)', d)
    BY <1>2, <1>4
  <2>2. CASE CheckedOrder(e) <= CheckedOrder(e)'
    <3>1. NotAfter(CheckedOrder(e), d)
      <4> DEFINE x == CheckedOrder(e)
                 y == CheckedOrder(e)'
      <4>1. x \in Nat /\ y \in Nat /\ x <= y /\ NotAfter(y, d) /\ CheckedOrder(d) \in Nat
        BY <1>1, <1>2, <2>1, <2>2
      <4>2. \A s \in Scanner : scanners[s].now \in Nat
        BY DEF RepairType
      <4> HIDE DEF x, y
      <4>3. NotAfter(x, d)
        BY <4>1, <4>2 DEF NotAfter
      <4> QED
        BY <4>3 DEF x
    <3> QED
      BY <1>1, <1>2, <3>1 DEF InFront
  <2>3. CASE \E s \in Scanner : /\ e \in scanners[s].page /\ deliveries[e].checked = 0
                                /\ CheckedOrder(e)' = scanners[s].now
    <3>1. PICK s \in Scanner : /\ e \in scanners[s].page /\ deliveries[e].checked = 0
                               /\ CheckedOrder(e)' = scanners[s].now
      BY <2>3
    <3>2. IsOld(s, d)
      BY <2>1, <3>1 DEF IsOld
    <3> QED
      BY <1>1, <1>2, <3>1, <3>2 DEF InFront
  <2> QED
    BY <1>1, <1>3, <2>2, <2>3
<1>5. CASE \E s \in Scanner : /\ e \in scanners'[s].page /\ deliveries'[e].checked = 0
                              /\ NotAfterNext(scanners'[s].now, d)
  <2>1. PICK s \in Scanner : /\ e \in scanners'[s].page /\ deliveries'[e].checked = 0
                             /\ NotAfterNext(scanners'[s].now, d)
    BY <1>5
  <2>2. NotAfter(scanners'[s].now, d)
    BY <2>1
  <2>3. CASE e \in scanners[s].page /\ deliveries[e].checked = 0 /\ scanners'[s].now = scanners[s].now
    <3>1. IsOld(s, d)
      BY <2>2, <2>3 DEF IsOld
    <3> QED
      BY <1>1, <1>2, <2>3, <3>1 DEF InFront
  <2> QED
    BY <1>1, <1>3, <2>1, <2>3
<1> QED
  BY <1>1, <1>4, <1>5

\* ... and a turn over a page is used while the page is held, or was.
LEMMA NoTurnIsAdded ==
    ASSUME NEW d \in Delivery, InFront(d)' \subseteq InFront(d), LateRepairs(d)' \subseteq LateRepairs(d),
           \A s \in Scanner : ~IsOld(s, d) => \A e \in scanners[s].page :
              \/ e \notin InFront(d)'
              \/ e \in scanners'[s].page /\ ~IsOld(s, d)'
    PROVE  NoMoreTurns(d)
BY DEF NoMoreTurns, Rests

LEMMA MarkFacts ==
    ASSUME RepairType, NEW S \in SUBSET Delivery, NEW m \in Nat, Mark(S, m)
    PROVE  /\ deliveries' \in [Delivery -> [waits : BOOLEAN, created : Nat, checked : Nat]]
           /\ \A e \in Delivery :
                 /\ deliveries'[e].waits = deliveries[e].waits
                 /\ deliveries'[e].created = deliveries[e].created
                 /\ deliveries'[e].checked = IF e \in S /\ deliveries[e].waits /\ deliveries[e].checked < m
                                             THEN m ELSE deliveries[e].checked
                 /\ CheckedOrder(e)' \in Nat
                 /\ e \notin S => CheckedOrder(e)' = CheckedOrder(e)
                 /\ \/ CheckedOrder(e) <= CheckedOrder(e)'
                    \/ e \in S /\ deliveries[e].checked = 0 /\ CheckedOrder(e)' = m
<1>1. \A e \in Delivery : deliveries[e] \in [waits : BOOLEAN, created : Nat, checked : Nat]
  BY DEF RepairType
<1>2. ASSUME NEW e \in Delivery
      PROVE  /\ deliveries'[e] \in [waits : BOOLEAN, created : Nat, checked : Nat]
             /\ deliveries'[e].waits = deliveries[e].waits
             /\ deliveries'[e].created = deliveries[e].created
             /\ deliveries'[e].checked = IF e \in S /\ deliveries[e].waits /\ deliveries[e].checked < m
                                         THEN m ELSE deliveries[e].checked
  <2>1. deliveries'[e] = IF e \in S THEN [deliveries[e] EXCEPT !.checked = Marked(e, m)] ELSE deliveries[e]
    BY DEF Mark
  <2> QED
    BY <1>1, <2>1 DEF Marked
<1>3. deliveries' \in [Delivery -> [waits : BOOLEAN, created : Nat, checked : Nat]]
  BY <1>2 DEF Mark
<1>4. ASSUME NEW e \in Delivery
      PROVE  /\ CheckedOrder(e)' \in Nat
             /\ e \notin S => CheckedOrder(e)' = CheckedOrder(e)
             /\ \/ CheckedOrder(e) <= CheckedOrder(e)'
                \/ e \in S /\ deliveries[e].checked = 0 /\ CheckedOrder(e)' = m
  BY <1>1, <1>2 DEF CheckedOrder
<1> QED
  BY <1>2, <1>3, <1>4

LEMMA TimeIsNew ==
    ASSUME RepairType, PastOnly, NEW d \in Delivery
    PROVE  ~NotAfter(time, d)
<1>1. CheckedOrder(d) < time /\ CheckedOrder(d) \in Nat /\ time \in Nat
  BY ChecksAreOrdered DEF RepairType, PastOnly, CheckedOrder
<1>2. \A s \in Scanner : scanners[s].now < time /\ scanners[s].now \in Nat
  BY DEF RepairType, PastOnly
<1> QED
  BY <1>1, <1>2 DEF NotAfter

LEMMA OldNext ==
    ASSUME NEW d, NEW s
    PROVE  IsOld(s, d)' <=> NotAfterNext(scanners'[s].now, d)
BY DEF IsOld, NotAfter, NotAfterNext

\* A page that is selected and marked in one step.
LEMMA ScanPasses ==
    ASSUME RepairType, PastOnly, NEW d \in Delivery, Within(d), returned' = returned,
           NEW t \in Scanner, NEW m \in Nat, scanners[t].page = {}, Mark(Page, m), PassesOver(Page),
           \/ scanners' = scanners /\ m = time
           \/ /\ scanners' = [scanners EXCEPT ![t] = IdleScanner]
              /\ scanners[t].pc = "select" /\ m = scanners[t].now
    PROVE  Within(d)'
<1>1. CASE d \notin Eligible \ Page
  <2>1. passed'[d] = 0
    BY <1>1 DEF PassesOver
  <2> QED
    BY <2>1, StartsAgain DEF RepairType
<1>2. CASE d \in Eligible \ Page
  <2>1. passed'[d] = passed[d] + 1
    BY <1>2 DEF PassesOver
  <2>2. Page \in SUBSET Delivery
    BY DEF Page, Eligible
  <2>3. \A e \in Delivery :
                 /\ deliveries'[e].waits = deliveries[e].waits
                 /\ deliveries'[e].checked = IF e \in Page /\ deliveries[e].waits /\ deliveries[e].checked < m
                                             THEN m ELSE deliveries[e].checked
                 /\ CheckedOrder(e)' \in Nat
                 /\ e \notin Page => CheckedOrder(e)' = CheckedOrder(e)
    BY <2>2, MarkFacts
  <2>4. \A s \in Scanner : scanners'[s] = scanners[s] \/ (s = t /\ scanners'[s] = IdleScanner)
    BY DEF RepairType
  <2>5. \A s \in Scanner : scanners'[s].page = scanners[s].page
    BY <2>4 DEF IdleScanner
  <2>6. \A x \in Nat : NotAfterNext(x, d) <=> NotAfter(x, d)
    <3>1. CheckedOrder(d)' = CheckedOrder(d)
      BY <1>2, <2>3
    <3> QED
      BY <2>4, <2>5, <3>1 DEF NotAfterNext, NotAfter
  <2>7. \A s \in Scanner : scanners[s].now \in Nat /\ scanners'[s].now \in Nat
    BY <2>4 DEF RepairType, IdleScanner
  <2>8. \A p \in Page : p \in Eligible /\ p \in Delivery /\ p # d /\ CheckedOrder(p) <= CheckedOrder(d)
    BY <1>2, <2>2, PageFacts
  <2>9. InFront(d)' \subseteq InFront(d)
    <3>1. \A e \in Delivery \ {d} : deliveries'[e].waits =>
              /\ deliveries[e].waits /\ CheckedOrder(e)' \in Nat
              /\ CheckedOrder(e) <= CheckedOrder(e)' \/ CheckedOrder(e) <= CheckedOrder(d)
      BY <2>3, <2>8, ChecksAreOrdered
    <3>2. ASSUME NEW s \in Scanner, NEW e \in scanners'[s].page, deliveries'[e].checked = 0
          PROVE  /\ e \in scanners[s].page /\ deliveries[e].checked = 0
                 /\ scanners'[s].now = scanners[s].now
      <4>1. e \in scanners[s].page /\ e \in Delivery /\ deliveries[e].checked \in Nat
        BY <2>5 DEF RepairType
      <4> QED
        BY <2>3, <2>4, <3>2, <4>1
    <3> QED
      BY <2>6, <2>7, <3>1, <3>2, NoneComesInFront
  <2>10. LateRepairs(d)' \subseteq LateRepairs(d)
    <3> SUFFICES ASSUME NEW s \in Scanner, scanners'[s].pc = "select", IsOld(s, d)'
                 PROVE  scanners[s].pc = "select" /\ IsOld(s, d)
      BY DEF LateRepairs
    <3>1. scanners'[s] = scanners[s]
      BY <2>4 DEF IdleScanner
    <3> QED
      BY <2>6, <2>7, <3>1, OldNext DEF IsOld
  <2>11. NoMoreTurns(d)
    <3>1. \A s \in Scanner : ~IsOld(s, d) => \A e \in scanners[s].page : e \in scanners'[s].page /\ ~IsOld(s, d)'
      <4> SUFFICES ASSUME NEW s \in Scanner, ~IsOld(s, d), NEW e \in scanners[s].page
                   PROVE  e \in scanners'[s].page /\ ~IsOld(s, d)'
        OBVIOUS
      <4>1. scanners'[s] = scanners[s]
        BY <2>4
      <4> QED
        BY <2>6, <2>7, <4>1, OldNext DEF IsOld
    <3> QED
      BY <2>9, <2>10, <3>1, NoTurnIsAdded
  <2>12. CASE NotAfter(m, d)
    <3>1. scanners' = [scanners EXCEPT ![t] = IdleScanner] /\ scanners[t].pc = "select" /\ m = scanners[t].now
      BY <2>12, TimeIsNew
    <3>2. t \in LateRepairs(d)
      BY <2>12, <3>1 DEF LateRepairs, IsOld
    <3>3. scanners'[t].pc = "idle"
      BY <3>1 DEF RepairType, IdleScanner
    <3>4. t \notin LateRepairs(d)'
      BY <3>3 DEF LateRepairs
    <3> QED
      BY <2>1, <2>11, <3>2, <3>4, OnePass
  <2>13. CASE ~NotAfter(m, d)
    <3>1. \A p \in Page : p \in InFront(d) /\ p \notin InFront(d)'
      <4> SUFFICES ASSUME NEW p \in Page PROVE p \in InFront(d) /\ p \notin InFront(d)'
        OBVIOUS
      <4>1. p \in Delivery \ {d} /\ deliveries[p].waits /\ CheckedOrder(p) <= CheckedOrder(d)
        BY <2>8 DEF Eligible
      <4>2. p \in InFront(d)
        BY <4>1 DEF InFront, NotAfter
      <4>3. /\ CheckedOrder(d) < m /\ CheckedOrder(d) \in Nat /\ CheckedOrder(p) \in Nat
            /\ deliveries[p].checked \in Nat
        BY <2>13, <4>1, ChecksAreOrdered DEF NotAfter, RepairType
      <4>4. deliveries[p].checked < m /\ m # 0
        BY <4>1, <4>3 DEF CheckedOrder
      <4>5. deliveries'[p].checked = m
        BY <2>3, <4>1, <4>4
      <4>6. CheckedOrder(p)' = m
        BY <4>4, <4>5 DEF CheckedOrder
      <4>7. ~NotAfterNext(CheckedOrder(p)', d)
        BY <2>6, <2>13, <4>6
      <4>8. p \notin InFront(d)'
        BY <4>4, <4>5, <4>7 DEF InFront, NotAfter, NotAfterNext
      <4> QED
        BY <4>2, <4>8
    <3>2. Rests(d)[t] = InFront(d) /\ Rests(d)'[t] \subseteq InFront(d)'
      BY DEF Rests
    <3>3. Page \in SUBSET Rests(d)[t] /\ Rests(d)'[t] \subseteq Rests(d)[t] \ Page
      BY <2>9, <3>1, <3>2
    <3>4. RepairLimit <= Cardinality(Page)
      BY <1>2, PageFacts
    <3> QED
      BY <2>1, <2>11, <3>3, <3>4, OnePass
  <2> QED
    BY <2>12, <2>13
<1> QED
  BY <1>1, <1>2

\* A page that is selected in one step and marked in another.
LEMMA SelectPasses ==
    ASSUME RepairType, PastOnly, NEW d \in Delivery, Within(d), NEW t \in Scanner, SqlSelects(t)
    PROVE  Within(d)'
<1>1. CASE d \notin Eligible \ Page
  <2>1. passed'[d] = 0
    BY <1>1 DEF SqlSelects, PassesOver
  <2> QED
    BY <2>1, StartsAgain DEF RepairType, SqlSelects
<1>2. CASE d \in Eligible \ Page
  <2>1. passed'[d] = passed[d] + 1 /\ returned' = returned /\ deliveries' = deliveries
    BY <1>2 DEF SqlSelects, PassesOver
  <2>2. /\ \A s \in Scanner : scanners'[s].now = scanners[s].now /\ (s # t => scanners'[s] = scanners[s])
        /\ scanners[t].pc = "select" /\ scanners[t].page = {} /\ scanners'[t].pc = "mark" /\ scanners'[t].page = Page
    BY DEF SqlSelects, RepairType, PastOnly
  <2>3. \A e : CheckedOrder(e)' = CheckedOrder(e)
    BY <2>1 DEF CheckedOrder
  <2>4. \A x \in Nat : NotAfterNext(x, d) <=> NotAfter(x, d)
    BY <1>2, <2>2, <2>3 DEF NotAfterNext, NotAfter
  <2>5. \A s \in Scanner : scanners[s].now \in Nat
    BY DEF RepairType
  <2>6. \A s \in Scanner : IsOld(s, d)' <=> IsOld(s, d)
    BY <2>2, <2>4, <2>5, OldNext DEF IsOld
  <2>7. \A p \in Page : p \in Delivery \ {d} /\ deliveries[p].waits /\ CheckedOrder(p) <= CheckedOrder(d)
    BY <1>2, PageFacts DEF Eligible
  <2>8. InFront(d)' \subseteq InFront(d)
    <3>1. \A e \in Delivery \ {d} : deliveries'[e].waits =>
              deliveries[e].waits /\ CheckedOrder(e)' \in Nat /\ CheckedOrder(e) <= CheckedOrder(e)'
      BY <2>1, <2>3, ChecksAreOrdered
    <3>2. ASSUME NEW s \in Scanner, NEW e \in scanners'[s].page, deliveries'[e].checked = 0
          PROVE  \/ CheckedOrder(e) <= CheckedOrder(d)
                 \/ /\ e \in scanners[s].page /\ deliveries[e].checked = 0
                    /\ scanners'[s].now = scanners[s].now
      BY <2>1, <2>2, <2>7, <3>2
    <3> QED
      BY <2>2, <2>4, <2>5, <3>1, <3>2, NoneComesInFront
  <2>9. LateRepairs(d)' \subseteq LateRepairs(d) /\ t \notin LateRepairs(d)'
    <3>1. \A s \in Scanner : scanners'[s].pc = "select" => s # t /\ scanners[s].pc = "select"
      BY <2>2
    <3>2. \A s \in LateRepairs(d)' : s \in Scanner /\ scanners'[s].pc = "select" /\ IsOld(s, d)'
      BY DEF LateRepairs
    <3> QED
      BY <2>6, <3>1, <3>2 DEF LateRepairs
  <2>10. NoMoreTurns(d)
    <3>1. \A s \in Scanner : ~IsOld(s, d) => \A e \in scanners[s].page : e \in scanners'[s].page /\ ~IsOld(s, d)'
      BY <2>2, <2>6
    <3> QED
      BY <2>8, <2>9, <3>1, NoTurnIsAdded
  <2>11. CASE IsOld(t, d)
    <3>1. t \in LateRepairs(d)
      BY <2>2, <2>11 DEF LateRepairs
    <3> QED
      BY <2>1, <2>9, <2>10, <3>1, OnePass
  <2>12. CASE ~IsOld(t, d)
    <3>1. Page \subseteq InFront(d)
      BY <2>7 DEF InFront, NotAfter
    <3>2. Rests(d)[t] = InFront(d) /\ Rests(d)'[t] = InFront(d)' \ Page
      BY <2>2, <2>6, <2>12 DEF Rests
    <3>3. Page \in SUBSET Rests(d)[t] /\ Rests(d)'[t] \subseteq Rests(d)[t] \ Page
      BY <2>8, <3>1, <3>2
    <3>4. RepairLimit <= Cardinality(Page)
      BY <1>2, PageFacts
    <3> QED
      BY <2>1, <2>10, <3>3, <3>4, OnePass
  <2> QED
    BY <2>11, <2>12
<1> QED
  BY <1>1, <1>2

LEMMA MarkPasses ==
    ASSUME RepairType, PastOnly, NEW d \in Delivery, Within(d), NEW t \in Scanner,
           NEW S \in SUBSET scanners[t].page, \A e \in scanners[t].page \ S : ~deliveries[e].waits,
           Mark(S, scanners[t].now), scanners' = [scanners EXCEPT ![t] = IdleScanner],
           passed' = passed, returned' = returned
    PROVE  Within(d)'
<1> DEFINE m == scanners[t].now
<1>1. m \in Nat /\ S \in SUBSET Delivery /\ scanners[t].page \in SUBSET Delivery
  BY DEF RepairType
<1>2. \A e \in Delivery :
                 /\ deliveries'[e].waits = deliveries[e].waits
                 /\ deliveries'[e].checked = IF e \in S /\ deliveries[e].waits /\ deliveries[e].checked < m
                                             THEN m ELSE deliveries[e].checked
                 /\ CheckedOrder(e)' \in Nat
                 /\ e \notin S => CheckedOrder(e)' = CheckedOrder(e)
                 /\ \/ CheckedOrder(e) <= CheckedOrder(e)'
                    \/ e \in S /\ deliveries[e].checked = 0 /\ CheckedOrder(e)' = m
  <2> HIDE DEF m
  <2>1. Mark(S, m)
    BY DEF m
  <2> QED
    BY <1>1, <2>1, MarkFacts
<1>3. /\ \A s \in Scanner : s # t => scanners'[s] = scanners[s]
      /\ scanners'[t].page = {} /\ scanners'[t].now = 0 /\ scanners'[t].pc = "idle"
  BY DEF RepairType, IdleScanner
<1>4. \A s \in Scanner : scanners[s].now \in Nat /\ scanners'[s].now \in Nat
  BY <1>3 DEF RepairType
<1>5. \A e \in Delivery : CheckedOrder(e) \in Nat /\ deliveries[e].checked \in Nat
  BY ChecksAreOrdered DEF RepairType
<1>6. \A x \in Nat : NotAfterNext(x, d) => NotAfter(x, d)
  <2> SUFFICES ASSUME NEW x \in Nat, NotAfterNext(x, d) PROVE NotAfter(x, d)
    OBVIOUS
  <2>1. CASE x <= CheckedOrder(d)'
    <3> DEFINE c == CheckedOrder(d)
               c2 == CheckedOrder(d)'
    <3>1. c = c2 \/ (c2 = m /\ d \in scanners[t].page) \/ c2 <= c
      <4>1. CASE deliveries'[d].checked = deliveries[d].checked /\ d \notin S
        BY <1>2, <4>1
      <4>2. CASE d \in S
        <5>1. d \in scanners[t].page
          BY <4>2
        <5>2. deliveries'[d].checked = m \/ deliveries'[d].checked = deliveries[d].checked
          BY <1>2
        <5>3. deliveries'[d].created = deliveries[d].created
          BY <1>1, MarkFacts
        <5>4. c2 = m \/ c2 = c
          BY <5>2, <5>3, <1>2, <1>5, <1>1 DEF CheckedOrder
        <5> QED
          BY <5>1, <5>4
      <4> QED
        BY <1>2, <4>1, <4>2
    <3>2. c \in Nat /\ c2 \in Nat
      BY <1>2, <1>5
    <3>3. x <= c2
      BY <2>1
    <3> HIDE DEF c, c2
    <3>4. x <= c \/ (d \in scanners[t].page /\ x <= m)
      BY <3>1, <3>2, <3>3, <1>1
    <3> QED
      BY <3>4 DEF NotAfter, c
  <2>2. CASE \E s \in Scanner : d \in scanners'[s].page /\ x <= scanners'[s].now
    BY <1>3, <2>2 DEF NotAfter
  <2> QED
    BY <2>1, <2>2 DEF NotAfterNext
<1>7. InFront(d)' \subseteq InFront(d)
  <2>1. \A e \in Delivery \ {d} : deliveries'[e].waits =>
              /\ deliveries[e].waits /\ CheckedOrder(e)' \in Nat
              /\ \/ CheckedOrder(e) <= CheckedOrder(e)'
                 \/ \E s \in Scanner : /\ e \in scanners[s].page /\ deliveries[e].checked = 0
                                       /\ CheckedOrder(e)' = scanners[s].now
    BY <1>2
  <2>2. ASSUME NEW s \in Scanner, NEW e \in scanners'[s].page, deliveries'[e].checked = 0
        PROVE  /\ e \in scanners[s].page /\ deliveries[e].checked = 0
               /\ scanners'[s].now = scanners[s].now
    <3>1. s # t /\ scanners'[s] = scanners[s] /\ e \in scanners[s].page
      BY <1>3
    <3>2. e \in Delivery
      BY <3>1 DEF RepairType
    <3> QED
      BY <1>1, <1>2, <1>5, <2>2, <3>1, <3>2
  <2> QED
    BY <1>4, <1>6, <2>1, <2>2, NoneComesInFront
<1>8. LateRepairs(d)' \subseteq LateRepairs(d)
  <2> SUFFICES ASSUME NEW s \in Scanner, scanners'[s].pc = "select", IsOld(s, d)'
               PROVE  scanners[s].pc = "select" /\ IsOld(s, d)
    BY DEF LateRepairs
  <2>1. s # t /\ scanners'[s] = scanners[s]
    BY <1>3
  <2> QED
    BY <1>4, <1>6, <2>1, OldNext DEF IsOld
<1>9. NoMoreTurns(d)
  <2>1. ASSUME NEW s \in Scanner, ~IsOld(s, d), NEW e \in scanners[s].page
        PROVE  \/ e \notin InFront(d)'
               \/ e \in scanners'[s].page /\ ~IsOld(s, d)'
    <3>1. CASE s # t
      <4>1. scanners'[s] = scanners[s] /\ scanners[s].now \in Nat
        BY <1>3, <1>4, <3>1
      <4>2. ~NotAfterNext(scanners'[s].now, d)
        BY <1>6, <2>1, <4>1 DEF IsOld
      <4> QED
        BY <4>1, <4>2, OldNext
    <3>2. CASE s = t
      <4>1. SUFFICES ASSUME e \in InFront(d)' PROVE FALSE
        OBVIOUS
      <4>2. /\ e \in Delivery \ {d} /\ deliveries'[e].waits
            /\ \/ NotAfterNext(CheckedOrder(e)', d)
               \/ deliveries'[e].checked = 0
        BY <4>1 DEF InFront, NotAfter, NotAfterNext
      <4>3. e \in S /\ deliveries[e].waits
        BY <1>2, <2>1, <3>2, <4>2
      <4>4. m # 0 /\ CheckedOrder(d) < m
        <5>1. ~(m <= CheckedOrder(d))
          BY <2>1, <3>2 DEF IsOld, NotAfter
        <5> QED
          BY <1>1, <1>5, <5>1
      <4>5. m <= deliveries'[e].checked /\ deliveries'[e].checked \in Nat /\ deliveries'[e].checked # 0
        BY <1>1, <1>2, <1>5, <4>2, <4>3, <4>4
      <4>6. CheckedOrder(e)' = deliveries'[e].checked
        BY <4>5 DEF CheckedOrder
      <4>7. NotAfterNext(CheckedOrder(e)', d)
        BY <4>2, <4>5
      <4>8. NotAfter(CheckedOrder(e)', d)
        BY <1>6, <4>5, <4>6, <4>7
      <4>9. NotAfter(m, d)
        <5> DEFINE x == CheckedOrder(e)'
        <5>1. x \in Nat /\ m <= x /\ NotAfter(x, d) /\ CheckedOrder(d) \in Nat
          BY <1>5, <4>5, <4>6, <4>8
        <5> HIDE DEF x, m
        <5> QED
          BY <1>1, <1>4, <5>1 DEF NotAfter
      <4> QED
        BY <2>1, <3>2, <4>9 DEF IsOld
    <3> QED
      BY <3>1, <3>2
  <2> QED
    BY <1>7, <1>8, <2>1, NoTurnIsAdded
<1> QED
  BY <1>9, NoPass

LEMMA BeginPasses ==
    ASSUME RepairType, PastOnly, NEW d \in Delivery, Within(d), NEW t \in Scanner, ScanBegins(t)
    PROVE  Within(d)'
<1>1. passed' = passed /\ returned' = returned /\ deliveries' = deliveries
  BY DEF ScanBegins
<1>2. /\ \A s \in Scanner : s # t => scanners'[s] = scanners[s]
      /\ scanners[t].page = {} /\ scanners'[t].page = {} /\ scanners'[t].now = time
  BY DEF ScanBegins, Begins, IdleScanner, RepairType
<1>3. \A s \in Scanner : scanners[s].now \in Nat /\ scanners'[s].now \in Nat
  BY <1>2 DEF RepairType
<1>4. \A e : CheckedOrder(e)' = CheckedOrder(e)
  BY <1>1 DEF CheckedOrder
<1>5. \A x \in Nat : NotAfterNext(x, d) <=> NotAfter(x, d)
  BY <1>2, <1>4 DEF NotAfterNext, NotAfter
<1>6. ~NotAfterNext(scanners'[t].now, d)
  BY <1>2, <1>3, <1>5, TimeIsNew
<1>7. \A s \in Scanner : s # t => (IsOld(s, d)' <=> IsOld(s, d))
  BY <1>2, <1>3, <1>5, OldNext DEF IsOld
<1>8. InFront(d)' \subseteq InFront(d)
  <2>1. \A e \in Delivery \ {d} : deliveries'[e].waits =>
            deliveries[e].waits /\ CheckedOrder(e)' \in Nat /\ CheckedOrder(e) <= CheckedOrder(e)'
    BY <1>1, <1>4, ChecksAreOrdered
  <2>2. \A s \in Scanner : \A e \in scanners'[s].page : e \in scanners[s].page /\ scanners'[s].now = scanners[s].now
    BY <1>2
  <2> QED
    BY <1>1, <1>3, <1>5, <2>1, <2>2, NoneComesInFront
<1>9. LateRepairs(d)' \subseteq LateRepairs(d)
  <2> SUFFICES ASSUME NEW s \in Scanner, scanners'[s].pc = "select", IsOld(s, d)'
               PROVE  scanners[s].pc = "select" /\ IsOld(s, d)
    BY DEF LateRepairs
  <2>1. s # t
    BY <1>6, OldNext
  <2> QED
    BY <1>2, <1>7, <2>1
<1>10. NoMoreTurns(d)
  <2>1. \A s \in Scanner : ~IsOld(s, d) => \A e \in scanners[s].page : e \in scanners'[s].page /\ ~IsOld(s, d)'
    BY <1>2, <1>7
  <2> QED
    BY <1>8, <1>9, <2>1, NoTurnIsAdded
<1> QED
  BY <1>1, <1>10, NoPass

LEMMA ArrivePasses ==
    ASSUME RepairType, PastOnly, NEW d \in Delivery, Within(d), NEW a \in Delivery, Arrives(a)
    PROVE  Within(d)'
<1>1. passed' = passed /\ returned' = returned /\ scanners' = scanners
  BY DEF Arrives
<1>2. CASE a = d
  <2>1. passed[d] = 0
    BY <1>2 DEF Arrives, PastOnly
  <2> QED
    BY <1>1, <2>1, StartsAgain DEF RepairType
<1>3. CASE a # d
  <2>1. /\ \A e \in Delivery : e # a => deliveries'[e] = deliveries[e]
        /\ deliveries'[a].created = time /\ deliveries'[a].checked = deliveries[a].checked
    BY DEF Arrives, RepairType
  <2>2. \A e \in Delivery : e # a => CheckedOrder(e)' = CheckedOrder(e)
    BY <2>1 DEF CheckedOrder
  <2>3. \A x : NotAfterNext(x, d) <=> NotAfter(x, d)
    BY <1>1, <1>3, <2>2 DEF NotAfterNext, NotAfter
  <2>4. \A s \in Scanner : a \notin scanners[s].page
    BY DEF Arrives, PastOnly
  <2>5. InFront(d)' \subseteq InFront(d)
    <3> SUFFICES ASSUME NEW e, e \in InFront(d)' PROVE e \in InFront(d)
      OBVIOUS
    <3>1. /\ e \in Delivery \ {d} /\ deliveries'[e].waits
          /\ \/ NotAfterNext(CheckedOrder(e)', d)
             \/ \E s \in Scanner : /\ e \in scanners'[s].page /\ deliveries'[e].checked = 0
                                   /\ NotAfterNext(scanners'[s].now, d)
      BY DEF InFront, IsOld, NotAfter, NotAfterNext
    <3>2. CASE e = a
      <4>1. NotAfterNext(CheckedOrder(a)', d)
        BY <1>1, <2>4, <3>1, <3>2
      <4>2. CASE deliveries[a].checked = 0
        <5>1. CheckedOrder(a)' = time
          BY <2>1, <4>2 DEF CheckedOrder
        <5> QED
          BY <2>3, <4>1, <5>1, TimeIsNew
      <4>3. CASE deliveries[a].checked # 0
        <5>1. CheckedOrder(a)' = CheckedOrder(a)
          BY <2>1, <4>3 DEF CheckedOrder
        <5> QED
          BY <4>3 DEF Arrives, PastOnly
      <4> QED
        BY <4>2, <4>3
    <3>3. CASE e # a
      BY <1>1, <2>1, <2>2, <2>3, <3>1, <3>3 DEF InFront, IsOld
    <3> QED
      BY <3>2, <3>3
  <2>6. \A s \in Scanner : IsOld(s, d)' <=> IsOld(s, d)
    BY <1>1, <2>3, OldNext DEF IsOld
  <2>7. LateRepairs(d)' \subseteq LateRepairs(d)
    BY <1>1, <2>6 DEF LateRepairs
  <2>8. NoMoreTurns(d)
    BY <1>1, <2>5, <2>6, <2>7, NoTurnIsAdded
  <2> QED
    BY <1>1, <2>8, NoPass
<1> QED
  BY <1>2, <1>3

LEMMA LeavePasses ==
    ASSUME RepairType, PastOnly, NEW d \in Delivery, Within(d), NEW a \in Delivery, Leaves(a)
    PROVE  Within(d)'
<1>1. returned' = returned /\ scanners' = scanners
  BY DEF Leaves
<1>2. CASE a = d
  <2>1. passed'[d] = 0
    BY <1>2 DEF Leaves, RepairType
  <2> QED
    BY <1>1, <2>1, StartsAgain DEF RepairType
<1>3. CASE a # d
  <2>1. passed'[d] = passed[d]
    BY <1>3 DEF Leaves, RepairType
  <2>2. /\ \A e \in Delivery : e # a => deliveries'[e] = deliveries[e]
        /\ ~deliveries'[a].waits
        /\ \A e \in Delivery : CheckedOrder(e)' = CheckedOrder(e)
    BY DEF Leaves, RepairType, CheckedOrder
  <2>3. \A x : NotAfterNext(x, d) <=> NotAfter(x, d)
    BY <1>1, <2>2 DEF NotAfterNext, NotAfter
  <2>4. InFront(d)' \subseteq InFront(d)
    <3> SUFFICES ASSUME NEW e, e \in InFront(d)' PROVE e \in InFront(d)
      OBVIOUS
    <3>1. /\ e \in Delivery \ {d} /\ deliveries'[e].waits
          /\ \/ NotAfterNext(CheckedOrder(e)', d)
             \/ \E s \in Scanner : /\ e \in scanners'[s].page /\ deliveries'[e].checked = 0
                                   /\ NotAfterNext(scanners'[s].now, d)
      BY DEF InFront, IsOld, NotAfter, NotAfterNext
    <3>2. e # a
      BY <2>2, <3>1
    <3> QED
      BY <1>1, <2>2, <2>3, <3>1, <3>2 DEF InFront, IsOld
  <2>5. \A s \in Scanner : IsOld(s, d)' <=> IsOld(s, d)
    BY <1>1, <2>3, OldNext DEF IsOld
  <2>6. LateRepairs(d)' \subseteq LateRepairs(d)
    BY <1>1, <2>5 DEF LateRepairs
  <2>7. NoMoreTurns(d)
    BY <1>1, <2>4, <2>5, <2>6, NoTurnIsAdded
  <2> QED
    BY <1>1, <2>1, <2>7, NoPass
<1> QED
  BY <1>2, <1>3

LEMMA ReturnPasses ==
    ASSUME RepairType, PastOnly, NEW d \in Delivery, Within(d), NEW a \in Delivery, ComesBack(a)
    PROVE  Within(d)'
<1>1. returned' = returned + 1 /\ scanners' = scanners /\ passed' = passed
  BY DEF ComesBack
<1>2. CASE a = d
  <2>1. passed[d] = 0
    BY <1>2 DEF ComesBack, PastOnly
  <2> QED
    BY <1>1, <2>1, StartsAgain DEF RepairType
<1>3. CASE a # d
  <2>1. /\ \A e \in Delivery : e # a => deliveries'[e] = deliveries[e]
        /\ \A e \in Delivery : CheckedOrder(e)' = CheckedOrder(e)
    BY DEF ComesBack, RepairType, CheckedOrder
  <2>2. \A x : NotAfterNext(x, d) <=> NotAfter(x, d)
    BY <1>1, <2>1 DEF NotAfterNext, NotAfter
  <2>3. \A s \in Scanner : IsOld(s, d)' <=> IsOld(s, d)
    BY <1>1, <2>2, OldNext DEF IsOld
  <2>4. InFront(d)' \subseteq InFront(d) \cup {a}
    <3> SUFFICES ASSUME NEW e, e \in InFront(d)', e # a PROVE e \in InFront(d)
      OBVIOUS
    <3>1. /\ e \in Delivery \ {d} /\ deliveries'[e].waits
          /\ \/ NotAfterNext(CheckedOrder(e)', d)
             \/ \E s \in Scanner : /\ e \in scanners'[s].page /\ deliveries'[e].checked = 0
                                   /\ NotAfterNext(scanners'[s].now, d)
      BY DEF InFront, IsOld, NotAfter, NotAfterNext
    <3> QED
      BY <1>1, <2>1, <2>2, <3>1 DEF InFront, IsOld
  <2>5. LateRepairs(d)' \subseteq LateRepairs(d)
    BY <1>1, <2>3 DEF LateRepairs
  <2>6. \A s \in Scanner : Rests(d)'[s] \subseteq Rests(d)[s] \cup {a}
    BY <1>1, <2>3, <2>4 DEF Rests
  <2> QED
    BY <1>1, <2>5, <2>6, OneReturn
<1> QED
  BY <1>2, <1>3

LEMMA RepairTypeKept ==
    ASSUME RepairType, PastOnly, RepairNext, config' = config
    PROVE  RepairType' /\ PastOnly'
<1> DEFINE Delivered == [waits : BOOLEAN, created : Nat, checked : Nat]
           Repairing == [pc : {"idle", "select", "mark"}, now : Nat, page : SUBSET Delivery]
<1>1. /\ deliveries \in [Delivery -> Delivered] /\ scanners \in [Scanner -> Repairing]
      /\ time \in Nat /\ returned \in Nat /\ passed \in [Delivery -> Nat] /\ config \in Configs /\ time > 0
      /\ IdleScanner \in Repairing
  BY DEF RepairType, PastOnly, IdleScanner
<1>2. ASSUME NEW a \in Delivery, Arrives(a)
      PROVE  RepairType' /\ PastOnly'
  BY <1>1, <1>2 DEF Arrives, RepairType, PastOnly
<1>3. ASSUME NEW a \in Delivery, Leaves(a)
      PROVE  RepairType' /\ PastOnly'
  BY <1>1, <1>3 DEF Leaves, RepairType, PastOnly
<1>4. ASSUME NEW a \in Delivery, ComesBack(a)
      PROVE  RepairType' /\ PastOnly'
  <2>1. /\ returned' = returned + 1 /\ scanners' = scanners /\ passed' = passed /\ time' = time
        /\ deliveries[a].created # 0 /\ deliveries' = [deliveries EXCEPT ![a].waits = TRUE]
    BY <1>4 DEF ComesBack
  <2>2. deliveries' \in [Delivery -> Delivered]
    BY <1>1, <2>1
  <2>3. \A d \in Delivery : /\ deliveries'[d].created = deliveries[d].created
                            /\ deliveries'[d].checked = deliveries[d].checked
                            /\ deliveries'[d].waits = (deliveries[d].waits \/ d = a)
    BY <1>1, <2>1
  <2>4. RepairType'
    BY <1>1, <2>1, <2>2 DEF RepairType
  <2>5. PastOnly'
    BY <1>1, <2>1, <2>3 DEF PastOnly
  <2> QED
    BY <2>4, <2>5
<1>5. ASSUME NEW S \in SUBSET Delivery, PassesOver(S)
      PROVE  /\ passed' \in [Delivery -> Nat]
             /\ \A d \in Delivery : ~deliveries[d].waits => passed'[d] = 0
  BY <1>1, <1>5 DEF PassesOver, Eligible
<1>6. ASSUME NEW S \in SUBSET Delivery, NEW m \in Nat, Mark(S, m), m < time', time' \in Nat, time <= time'
      PROVE  /\ deliveries' \in [Delivery -> Delivered]
             /\ \A d \in Delivery :
                   /\ deliveries'[d].created < time' /\ deliveries'[d].checked < time'
                   /\ deliveries'[d].created = 0 => ~deliveries'[d].waits /\ deliveries'[d].checked = 0
                   /\ deliveries'[d].waits = deliveries[d].waits
                   /\ deliveries'[d].created = deliveries[d].created
  <2>1. deliveries' \in [Delivery -> Delivered]
    BY <1>6, MarkFacts
  <2>2. ASSUME NEW d \in Delivery
        PROVE  /\ deliveries'[d].created < time' /\ deliveries'[d].checked < time'
               /\ deliveries'[d].created = 0 => ~deliveries'[d].waits /\ deliveries'[d].checked = 0
               /\ deliveries'[d].waits = deliveries[d].waits
               /\ deliveries'[d].created = deliveries[d].created
    <3>1. /\ deliveries'[d].waits = deliveries[d].waits
          /\ deliveries'[d].created = deliveries[d].created
          /\ deliveries'[d].checked = IF d \in S /\ deliveries[d].waits /\ deliveries[d].checked < m
                                      THEN m ELSE deliveries[d].checked
      BY <1>6, MarkFacts
    <3>2. /\ deliveries[d].created < time /\ deliveries[d].checked < time
          /\ deliveries[d].created = 0 => ~deliveries[d].waits /\ deliveries[d].checked = 0
          /\ deliveries[d].created \in Nat /\ deliveries[d].checked \in Nat
      BY <1>1 DEF PastOnly
    <3> QED
      BY <1>1, <1>6, <3>1, <3>2
  <2> QED
    BY <2>1, <2>2
<1>7. Page \in SUBSET Delivery
  BY DEF Page, Eligible
<1>8. ASSUME NEW s \in Scanner, MemoryScan(s) \/ EphemeralScan(s)
      PROVE  RepairType' /\ PastOnly'
  <2>1. /\ time' = time + 1 /\ scanners' = scanners /\ returned' = returned
        /\ PassesOver(Page) /\ Mark(Page, time)
    BY <1>8 DEF MemoryScan, EphemeralScan, Begins
  <2>2. time' \in Nat /\ time < time' /\ time <= time'
    BY <1>1, <2>1
  <2>3. RepairType'
    BY <1>1, <1>5, <1>6, <1>7, <2>1, <2>2 DEF RepairType
  <2>4. \A d \in Delivery : /\ deliveries'[d].created < time' /\ deliveries'[d].checked < time'
                            /\ deliveries'[d].created = 0 => ~deliveries'[d].waits /\ deliveries'[d].checked = 0
                            /\ ~deliveries'[d].waits => passed'[d] = 0
                            /\ deliveries'[d].created = deliveries[d].created
    BY <1>1, <1>5, <1>6, <1>7, <2>1, <2>2
  <2>5. \A s2 \in Scanner : /\ scanners'[s2].now < time'
                            /\ scanners'[s2].pc # "mark" => scanners'[s2].page = {}
                            /\ \A d \in scanners'[s2].page : d \in Delivery /\ deliveries'[d].created # 0
    BY <1>1, <2>1, <2>2, <2>4 DEF PastOnly
  <2> QED
    BY <1>1, <2>2, <2>3, <2>4, <2>5 DEF PastOnly
<1>9. ASSUME NEW s \in Scanner, ScanBegins(s)
      PROVE  RepairType' /\ PastOnly'
  BY <1>1, <1>9 DEF ScanBegins, Begins, RepairType, PastOnly
<1>10. ASSUME NEW s \in Scanner, NEW S \in SUBSET Delivery, Mark(S, scanners[s].now),
              scanners' = [scanners EXCEPT ![s] = IdleScanner], time' = time, returned' = returned,
              PassesOver(Page) \/ passed' = passed
       PROVE  RepairType' /\ PastOnly'
  <2>1. scanners[s].now \in Nat /\ scanners[s].now < time' /\ time' \in Nat /\ time <= time'
    BY <1>1, <1>10 DEF PastOnly
  <2>2. passed' \in [Delivery -> Nat] /\ \A d \in Delivery : ~deliveries[d].waits => passed'[d] = 0
    BY <1>1, <1>5, <1>7, <1>10 DEF PastOnly
  <2>3. deliveries' \in [Delivery -> Delivered]
    BY <1>6, <1>10, <2>1
  <2>4. \A d \in Delivery : /\ deliveries'[d].created < time' /\ deliveries'[d].checked < time'
                            /\ deliveries'[d].created = 0 => ~deliveries'[d].waits /\ deliveries'[d].checked = 0
                            /\ ~deliveries'[d].waits => passed'[d] = 0
                            /\ deliveries'[d].created = deliveries[d].created
    BY <1>6, <1>10, <2>1, <2>2
  <2>5. \A s2 \in Scanner : scanners'[s2] = scanners[s2] \/ scanners'[s2] = IdleScanner
    BY <1>1, <1>10
  <2>6. \A s2 \in Scanner : /\ scanners'[s2].now < time'
                            /\ scanners'[s2].pc # "mark" => scanners'[s2].page = {}
                            /\ \A d \in scanners'[s2].page : d \in Delivery /\ deliveries'[d].created # 0
    BY <1>1, <1>10, <2>4, <2>5 DEF PastOnly, IdleScanner
  <2>7. scanners' \in [Scanner -> Repairing]
    BY <1>1, <1>10
  <2>8. RepairType'
    BY <1>1, <1>10, <2>2, <2>3, <2>7 DEF RepairType
  <2> QED
    BY <1>1, <1>10, <2>4, <2>6, <2>8 DEF PastOnly
<1>11. ASSUME NEW s \in Scanner, SqlSelects(s)
       PROVE  RepairType' /\ PastOnly'
  <2>1. /\ time' = time /\ returned' = returned /\ deliveries' = deliveries /\ PassesOver(Page)
        /\ scanners' = [scanners EXCEPT ![s].pc = "mark", ![s].page = Page]
    BY <1>11 DEF SqlSelects
  <2>2. passed' \in [Delivery -> Nat] /\ \A d \in Delivery : ~deliveries[d].waits => passed'[d] = 0
    BY <1>5, <1>7, <2>1
  <2>3. RepairType'
    BY <1>1, <1>7, <2>1, <2>2 DEF RepairType
  <2>4. \A d \in Page : deliveries[d].created # 0
    BY <1>7 DEF Page, Eligible, PastOnly
  <2>5. \A s2 \in Scanner : /\ scanners'[s2].now < time'
                            /\ scanners'[s2].pc # "mark" => scanners'[s2].page = {}
                            /\ \A d \in scanners'[s2].page : deliveries'[d].created # 0
    BY <1>1, <2>1, <2>4 DEF PastOnly
  <2> QED
    BY <2>1, <2>2, <2>3, <2>5 DEF PastOnly
<1>12. ASSUME NEW s \in Scanner, RedisScan(s)
       PROVE  RepairType' /\ PastOnly'
  BY <1>7, <1>10, <1>12 DEF RedisScan
<1>13. ASSUME NEW s \in Scanner, SqlSpecMarks(s)
       PROVE  RepairType' /\ PastOnly'
  <2>1. scanners[s].page \in SUBSET Delivery
    BY <1>1
  <2> QED
    BY <2>1, <1>10, <1>13 DEF SqlSpecMarks
<1>14. ASSUME NEW s \in Scanner, AlchemyMarks(s)
       PROVE  RepairType' /\ PastOnly'
  <2>1. scanners[s].page \cap Eligible \in SUBSET Delivery
    BY <1>1
  <2> QED
    BY <2>1, <1>10, <1>14 DEF AlchemyMarks
<1> QED
  BY <1>2, <1>3, <1>4, <1>8, <1>9, <1>11, <1>12, <1>13, <1>14 DEF RepairNext

LEMMA EveryStepPasses ==
    ASSUME RepairType, PastOnly, RepairNext, NEW d \in Delivery, Within(d)
    PROVE  Within(d)'
<1>1. ASSUME NEW a \in Delivery, Arrives(a) \/ Leaves(a) \/ ComesBack(a)
      PROVE  Within(d)'
  BY <1>1, ArrivePasses, LeavePasses, ReturnPasses
<1>2. ASSUME NEW s \in Scanner, MemoryScan(s) \/ EphemeralScan(s)
      PROVE  Within(d)'
  <2>1. /\ returned' = returned /\ scanners' = scanners /\ Mark(Page, time) /\ PassesOver(Page)
        /\ scanners[s].page = {} /\ time \in Nat
    BY <1>2 DEF MemoryScan, EphemeralScan, Begins, IdleScanner, RepairType
  <2> QED
    BY <2>1, ScanPasses
<1>3. ASSUME NEW s \in Scanner, RedisScan(s)
      PROVE  Within(d)'
  <2> DEFINE m == scanners[s].now
  <2>1. /\ returned' = returned /\ Mark(Page, m) /\ PassesOver(Page)
        /\ scanners' = [scanners EXCEPT ![s] = IdleScanner] /\ scanners[s].pc = "select" /\ m = scanners[s].now
        /\ scanners[s].page = {} /\ m \in Nat
    BY <1>3 DEF RedisScan, RepairType, PastOnly
  <2> HIDE DEF m
  <2> QED
    BY <2>1, ScanPasses
<1>4. ASSUME NEW s \in Scanner, SqlSpecMarks(s)
      PROVE  Within(d)'
  <2> DEFINE S == scanners[s].page
  <2>1. /\ S \in SUBSET scanners[s].page /\ \A e \in scanners[s].page \ S : ~deliveries[e].waits
        /\ Mark(S, scanners[s].now) /\ scanners' = [scanners EXCEPT ![s] = IdleScanner]
        /\ passed' = passed /\ returned' = returned
    BY <1>4 DEF SqlSpecMarks
  <2> HIDE DEF S
  <2> QED
    BY <2>1, MarkPasses
<1>5. ASSUME NEW s \in Scanner, AlchemyMarks(s)
      PROVE  Within(d)'
  <2> DEFINE S == scanners[s].page \cap Eligible
  <2>1. /\ S \in SUBSET scanners[s].page /\ \A e \in scanners[s].page \ S : ~deliveries[e].waits
        /\ Mark(S, scanners[s].now) /\ scanners' = [scanners EXCEPT ![s] = IdleScanner]
        /\ passed' = passed /\ returned' = returned
    BY <1>5 DEF AlchemyMarks, Eligible, RepairType
  <2> HIDE DEF S
  <2> QED
    BY <2>1, MarkPasses
<1>6. ASSUME NEW s \in Scanner, ScanBegins(s) \/ SqlSelects(s)
      PROVE  Within(d)'
  BY <1>6, BeginPasses, SelectPasses
<1> QED
  BY <1>1, <1>2, <1>3, <1>4, <1>5, <1>6 DEF RepairNext

\* Repairs of any number at once, with pages of any length and any store,
\* reach every delivery that waits within the pages that the others can fill
\* once per repair, and once more for each that comes back.
THEOREM RepairPagesReachAll == RepairSpec => []RepairReachesAll
<1>1. config \in Configs /\ RepairInit => RepairInv
  <2> SUFFICES ASSUME config \in Configs, RepairInit PROVE RepairInv
    OBVIOUS
  <2>1. RepairType /\ PastOnly
    BY DEF RepairInit, FirstBatch, IdleScanner, RepairType, PastOnly
  <2>2. ASSUME NEW d \in Delivery PROVE Within(d)
    <3>1. /\ TurnsLeft(LateRepairs(d), Rests(d)) \in Nat /\ TurnsLeft(LateRepairs(d), Rests(d)) <= MostTurns
          /\ MostTurns \in Nat /\ Cardinality(Scanner) \in Nat
      BY MostTurnsFacts
    <3>2. passed[d] = 0 /\ returned = 0
      BY DEF RepairInit
    <3> QED
      BY <3>1, <3>2 DEF Within, Turns
  <2> QED
    BY <2>1, <2>2 DEF RepairInv, WithinTurns, Within
<1>2. RepairInv /\ [RepairNext /\ UNCHANGED config]_<<config, repairVars>> => RepairInv'
  <2> SUFFICES ASSUME RepairInv, [RepairNext /\ UNCHANGED config]_<<config, repairVars>> PROVE RepairInv'
    OBVIOUS
  <2>1. CASE RepairNext /\ UNCHANGED config
    <3>1. RepairType' /\ PastOnly'
      BY <2>1, RepairTypeKept DEF RepairInv
    <3>2. \A d \in Delivery : Within(d)'
      BY <2>1, EveryStepPasses DEF RepairInv, WithinTurns, Within
    <3> QED
      BY <3>1, <3>2 DEF RepairInv, WithinTurns, Within
  <2>2. CASE UNCHANGED <<config, repairVars>>
    <3>1. \A x, d : NotAfter(x, d)' <=> NotAfter(x, d)
      BY <2>2 DEF NotAfter, CheckedOrder, repairVars
    <3>2. \A d : Turns(d)' = Turns(d)
      BY <2>2 DEF repairVars, Turns, LateRepairs, Rests, InFront, IsOld, NotAfter, CheckedOrder
    <3> QED
      BY <2>2, <3>2 DEF repairVars, RepairInv, RepairType, PastOnly, WithinTurns
  <2> QED
    BY <2>1, <2>2
<1>3. RepairInv => RepairReachesAll
  <2> SUFFICES ASSUME RepairInv, NEW d \in Delivery
               PROVE  passed[d] <= (Rounds + 1 + returned) * Cardinality(Scanner)
    BY DEF RepairReachesAll, Rounds, Others
  <2>1. /\ Turns(d) \in Nat /\ MostTurns \in Nat /\ passed[d] \in Nat /\ returned \in Nat
        /\ passed[d] + Turns(d) <= MostTurns + returned * Cardinality(Scanner)
    BY MostTurnsFacts DEF RepairInv, RepairType, WithinTurns, Turns
  <2>2. /\ (Rounds + 1 + returned) * Cardinality(Scanner) = MostTurns + returned * Cardinality(Scanner)
        /\ returned * Cardinality(Scanner) \in Nat
    BY <2>1, MostTurnsFacts
  <2> DEFINE x == returned * Cardinality(Scanner)
             y == (Rounds + 1 + returned) * Cardinality(Scanner)
  <2>3. x \in Nat /\ y = MostTurns + x /\ passed[d] + Turns(d) <= MostTurns + x
    BY <2>1, <2>2
  <2> HIDE DEF x, y
  <2>4. passed[d] <= y
    BY <2>1, <2>3
  <2> QED
    BY <2>4 DEF y
<1> QED
  BY <1>1, <1>2, <1>3, PTL DEF RepairSpec
=============================================================================
