-------------------------- MODULE CloudTasksProofs --------------------------
(***************************************************************************)
(* Proofs about CloudTasks, for every set of records, options, requests    *)
(* and services, and for every bound on names and outages.                 *)
(***************************************************************************)
EXTENDS CloudTasks, QueueRecordProofs

----------------------------------------------------------------------------
\* The inductive invariant, one operator per variable.

RefsOK(rs) == rs \in [Task -> Name \cup {None}]

\* A name stands for a delivery of some record until it is used again.
DeliveriesOK(ds) ==
    /\ ds \in [Name -> Delivery]
    /\ \A n \in Name : ds[n].state # "unused" => ds[n].task \in Task

\* A dispatch under way is one of some record, and so is a request.
DispatchesOK(ds) ==
    /\ ds \in [Caller -> Dispatch]
    /\ \A x \in Caller : ds[x].pc # "idle" => ds[x].task \in Task

RequestsOK(cs) ==
    /\ cs \in [Consumer -> Request]
    /\ \A c \in Consumer : cs[c].pc # "idle" => cs[c].task \in Task

TodoOK(td) == td \in [Service -> SUBSET Task]

Surroundings ==
    /\ RefsOK(refs) /\ DeliveriesOK(deliveries) /\ DispatchesOK(dispatches)
    /\ RequestsOK(consumers) /\ TodoOK(todo) /\ outages \in Nat

\* The store: each record is in step with the generations that were granted.
StoreOK ==
    /\ records \in [Task -> QueuedTaskRecord]
    /\ granted \in [Task -> SUBSET Nat]
    /\ \A t \in Task : InStep(records[t], granted[t])

\* A request that claimed an attempt was granted it, and no other request has
\* the same attempt.
AttemptsAreExclusive ==
    \A c \in Consumer : consumers[c].gen # None =>
        /\ consumers[c].task \in Task
        /\ consumers[c].gen \in granted[consumers[c].task]
        /\ \A d \in Consumer :
              consumers[d].task = consumers[c].task /\ consumers[d].gen = consumers[c].gen
                 => d = c

\* A request under whose hand a dispatch runs waits for it.
DispatchesAwaited ==
    \A c \in Consumer : dispatches[c].pc # "idle" => consumers[c].pc = "scheduling"

IndInv == Surroundings /\ DispatchesAwaited /\ StoreOK /\ AttemptsAreExclusive

----------------------------------------------------------------------------
\* How the variables change.

LEMMA FreeName == None \notin Name /\ \A n \in Name : n \in Nat
  BY NoneAssumption, CloudTasksAssumption DEF Name

LEMMA DeliverySteps ==
    ASSUME NEW ds, DeliveriesOK(ds)
    PROVE  /\ DeliveriesOK(Mentioned(ds))
           /\ \A n, s : s \in {"held", "spent"} /\ ds[n].state # "unused"
                 => DeliveriesOK([ds EXCEPT ![n].state = s])
           /\ \A n : \A t \in Task : \A g \in Nat :
                 DeliveriesOK([ds EXCEPT ![n] = [task |-> t, gen |-> g, state |-> "reserved"]])
<1> USE DEF DeliveriesOK
<1>1. DeliveriesOK(Mentioned(ds))
  <2>1. Unused \in Delivery /\ Unused.state = "unused"
    BY DEF Unused, Delivery
  <2>2. \A n \in Name : Mentioned(ds)[n] \in {ds[n], Unused}
    BY DEF Mentioned
  <2>3. Mentioned(ds) \in [Name -> Delivery]
    <3>1. \A n \in Name : ds[n] \in Delivery
      OBVIOUS
    <3>2. Mentioned(ds) = [n \in Name |-> Mentioned(ds)[n]]
      BY DEF Mentioned
    <3> QED
      BY <2>1, <2>2, <3>1, <3>2
  <2> QED
    BY <2>1, <2>2, <2>3
<1>2. ASSUME NEW n, NEW s, s \in {"held", "spent"}, ds[n].state # "unused"
      PROVE  DeliveriesOK([ds EXCEPT ![n].state = s])
  BY <1>2 DEF Delivery
<1>3. ASSUME NEW n, NEW t \in Task, NEW g \in Nat
      PROVE  DeliveriesOK([ds EXCEPT ![n] = [task |-> t, gen |-> g, state |-> "reserved"]])
  BY <1>3 DEF Delivery
<1> QED
  BY <1>1, <1>2, <1>3

LEMMA SpendStep ==
    ASSUME NEW n, DeliveriesOK(deliveries)
    PROVE  DeliveriesOK(Spend(n))
<1>1. "spent" \in {"held", "spent"} /\ "held" # "unused"
  OBVIOUS
<1> QED
  BY <1>1, DeliverySteps DEF Spend

LEMMA HoldStep ==
    ASSUME NEW n, DeliveriesOK(deliveries), deliveries[n].state = "reserved"
    PROVE  DeliveriesOK([deliveries EXCEPT ![n].state = "held"])
<1>1. "held" \in {"held", "spent"} /\ deliveries[n].state # "unused"
  OBVIOUS
<1> QED
  BY <1>1, DeliverySteps

LEMMA DispatchSteps ==
    ASSUME NEW ds, DispatchesOK(ds), NEW x \in Caller
    PROVE  /\ DispatchesOK([ds EXCEPT ![x] = Idle])
           /\ \A pc \in DispatchPc : ds[x].pc # "idle" =>
                 DispatchesOK([ds EXCEPT ![x].pc = pc])
           /\ \A d \in Dispatch : d.task \in Task => DispatchesOK([ds EXCEPT ![x] = d])
<1> USE DEF DispatchesOK
<1>1. Idle \in Dispatch /\ Idle.pc = "idle"
  BY DEF Idle, Dispatch, DispatchPc
<1>2. DispatchesOK([ds EXCEPT ![x] = Idle])
  BY <1>1
<1>3. ASSUME NEW pc \in DispatchPc, ds[x].pc # "idle"
      PROVE  DispatchesOK([ds EXCEPT ![x].pc = pc])
  BY <1>3 DEF Dispatch
<1>4. ASSUME NEW d \in Dispatch, d.task \in Task
      PROVE  DispatchesOK([ds EXCEPT ![x] = d])
  BY <1>4
<1> QED
  BY <1>2, <1>3, <1>4

LEMMA RequestSteps ==
    ASSUME NEW cs, RequestsOK(cs), NEW c \in Consumer
    PROVE  /\ RequestsOK([cs EXCEPT ![c] = NoRequest])
           /\ \A pc \in ConsumerPc : cs[c].pc # "idle" =>
                 RequestsOK([cs EXCEPT ![c].pc = pc])
           /\ \A pc \in ConsumerPc, g \in Nat : cs[c].pc # "idle" =>
                 RequestsOK([cs EXCEPT ![c].pc = pc, ![c].gen = g])
           /\ \A r \in Request : r.task \in Task => RequestsOK([cs EXCEPT ![c] = r])
<1> USE DEF RequestsOK
<1>1. NoRequest \in Request /\ NoRequest.pc = "idle"
  BY DEF NoRequest, Request, ConsumerPc
<1>2. RequestsOK([cs EXCEPT ![c] = NoRequest])
  BY <1>1
<1>3. ASSUME NEW pc \in ConsumerPc, cs[c].pc # "idle"
      PROVE  RequestsOK([cs EXCEPT ![c].pc = pc])
  BY <1>3 DEF Request
<1>4. ASSUME NEW pc \in ConsumerPc, NEW g \in Nat, cs[c].pc # "idle"
      PROVE  RequestsOK([cs EXCEPT ![c].pc = pc, ![c].gen = g])
  BY <1>4 DEF Request
<1>5. ASSUME NEW r \in Request, r.task \in Task
      PROVE  RequestsOK([cs EXCEPT ![c] = r])
  BY <1>5
<1> QED
  BY <1>2, <1>3, <1>4, <1>5

\* Requests go on with the attempt they have, or with none.
KeepsAttempts ==
    \A c \in Consumer :
        \/ consumers'[c].gen = None
        \/ consumers'[c].gen = consumers[c].gen /\ consumers'[c].task = consumers[c].task

\* What is kept by every step that leaves the store alone.
Around == Surroundings' /\ DispatchesAwaited' /\ KeepsAttempts

LEMMA EndDispatchStep ==
    ASSUME Surroundings, DispatchesAwaited, NEW x \in Caller, NEW raised \in BOOLEAN,
           dispatches[x].pc # "idle", EndDispatch(x, raised)
    PROVE  /\ DispatchesOK(dispatches') /\ RequestsOK(consumers')
           /\ DispatchesAwaited' /\ KeepsAttempts
<1>1. dispatches' = [dispatches EXCEPT ![x] = Idle] /\ DispatchesOK(dispatches')
  BY DispatchSteps DEF EndDispatch, Surroundings
<1>2. CASE x \in Consumer
  <2>1. PICK pc \in {"ack", "nack"} : consumers' = [consumers EXCEPT ![x].pc = pc]
    BY <1>2 DEF EndDispatch, WithRequestPc
  <2>2. pc \in ConsumerPc /\ consumers[x].pc # "idle"
    BY <1>2 DEF ConsumerPc, DispatchesAwaited
  <2>3. RequestsOK(consumers')
    BY <1>2, <2>1, <2>2, RequestSteps DEF Surroundings
  <2>4. DispatchesAwaited'
    BY <1>1, <2>1 DEF DispatchesAwaited, Surroundings, DispatchesOK, RequestsOK, Idle, Caller
  <2>5. KeepsAttempts
    BY <2>1 DEF KeepsAttempts, Surroundings, RequestsOK, Request
  <2> QED
    BY <1>1, <2>3, <2>4, <2>5
<1>3. CASE x \notin Consumer
  <2>1. consumers' = consumers
    BY <1>3 DEF EndDispatch
  <2> QED
    BY <1>1, <1>3, <2>1 DEF DispatchesAwaited, KeepsAttempts, Surroundings, DispatchesOK, Caller
<1> QED
  BY <1>2, <1>3

\* A dispatch goes on to its next call.
LEMMA SetPcStep ==
    ASSUME Surroundings, DispatchesAwaited, NEW x \in Caller, NEW pc \in DispatchPc,
           dispatches[x].pc # "idle", SetPc(x, pc), consumers' = consumers
    PROVE  /\ DispatchesOK(dispatches') /\ RequestsOK(consumers')
           /\ DispatchesAwaited' /\ KeepsAttempts
<1>1. dispatches' = [dispatches EXCEPT ![x].pc = pc]
  BY DEF SetPc
<1>2. DispatchesOK(dispatches')
  BY <1>1, DispatchSteps DEF Surroundings
<1>3. \A y \in Caller : dispatches'[y].pc # "idle" => dispatches[y].pc # "idle"
  BY <1>1 DEF Surroundings, DispatchesOK
<1> QED
  BY <1>2, <1>3 DEF DispatchesAwaited, KeepsAttempts, Surroundings, Caller

\* A service's dispatch is replaced by another; the requests are left alone.
LEMMA ServiceGoesOn ==
    ASSUME Surroundings, DispatchesAwaited, NEW s \in Service, NEW d,
           d = Idle \/ (d \in Dispatch /\ d.task \in Task),
           dispatches' = [dispatches EXCEPT ![s] = d], consumers' = consumers
    PROVE  /\ DispatchesOK(dispatches') /\ RequestsOK(consumers')
           /\ DispatchesAwaited' /\ KeepsAttempts
<1>1. s \in Caller /\ s \notin Consumer
  BY CloudTasksAssumption DEF Caller
<1>2. DispatchesOK(dispatches')
  BY <1>1, DispatchSteps DEF Surroundings
<1>3. \A c \in Consumer : dispatches'[c] = dispatches[c]
  BY <1>1 DEF Surroundings, DispatchesOK, Caller
<1> QED
  BY <1>2, <1>3 DEF DispatchesAwaited, KeepsAttempts, Surroundings

\* A request goes on, and so may the dispatch that it waits for.
LEMMA RequestGoesOn ==
    ASSUME Surroundings, DispatchesAwaited, NEW c \in Consumer, NEW pc \in ConsumerPc,
           consumers[c].pc \notin {"idle", "scheduling"},
           consumers' = WithRequestPc(c, pc), dispatches' = dispatches
    PROVE  /\ DispatchesOK(dispatches') /\ RequestsOK(consumers')
           /\ DispatchesAwaited' /\ KeepsAttempts
<1>1. consumers' = [consumers EXCEPT ![c].pc = pc]
  BY DEF WithRequestPc
<1>2. RequestsOK(consumers')
  <2>1. RequestsOK(consumers) /\ consumers[c].pc # "idle"
    BY DEF Surroundings
  <2>2. RequestsOK([consumers EXCEPT ![c].pc = pc])
    BY <2>1, RequestSteps
  <2> QED
    BY <1>1, <2>2
<1>3. /\ \A d \in Consumer : d # c => consumers'[d] = consumers[d]
      /\ consumers'[c].gen = consumers[c].gen /\ consumers'[c].task = consumers[c].task
  BY <1>1 DEF Surroundings, RequestsOK, Request
<1> QED
  BY <1>2, <1>3 DEF DispatchesAwaited, KeepsAttempts, Surroundings

----------------------------------------------------------------------------
\* The dispatches.

LEMMA DispatchStepsAround ==
    ASSUME Surroundings, DispatchesAwaited, records \in [Task -> QueuedTaskRecord],
           NEW x \in Caller,
           DispatchStep(x) \/ DispatchCallFails(x) \/ \E b \in BOOLEAN : CreateFails(x, b)
    PROVE  Around
<1> USE DEF Around
<1>1. /\ RefsOK(refs) /\ DeliveriesOK(deliveries) /\ DispatchesOK(dispatches)
      /\ RequestsOK(consumers) /\ TodoOK(todo) /\ outages \in Nat
  BY DEF Surroundings
<1>2. /\ dispatches[x] \in Dispatch
      /\ dispatches[x].pc # "idle" => dispatches[x].task \in Task
  BY <1>1 DEF DispatchesOK
<1>3. CASE ScheduleRead(x)
  <2> DEFINE t == dispatches[x].task
  <2>1. t \in Task /\ records[t].retry_count \in Nat /\ refs[t] \in Name \cup {None}
    BY <1>1, <1>2, <1>3 DEF ScheduleRead, QueuedTaskRecord, RefsOK
  <2>2. CASE EndDispatch(x, FALSE)
    BY <1>1, <1>3, <2>2, EndDispatchStep DEF ScheduleRead, Surroundings
  <2>3. CASE IsQueued(records[t])
    <3>1. PICK pc \in {"check", "reserve"}, r \in Name \cup {None}, n \in Name \cup {None} :
            dispatches' = [dispatches EXCEPT ![x].gen = records[t].retry_count,
                                             ![x].ref = r, ![x].name = n, ![x].pc = pc]
      BY <1>3, <2>1, <2>3 DEF ScheduleRead
    <3> DEFINE e == [dispatches[x] EXCEPT !.gen = records[t].retry_count,
                                          !.ref = r, !.name = n, !.pc = pc]
    <3>2. dispatches' = [dispatches EXCEPT ![x] = e]
      BY <1>1, <3>1 DEF DispatchesOK
    <3>3. e \in Dispatch /\ e.task = t
      <4>1. pc \in DispatchPc
        BY DEF DispatchPc
      <4> QED
        BY <1>2, <2>1, <4>1 DEF Dispatch
    <3> HIDE DEF e
    <3>4. DispatchesOK(dispatches')
      BY <1>1, <2>1, <3>2, <3>3, DispatchSteps
    <3>5. \A y \in Caller : y # x => dispatches'[y] = dispatches[y]
      BY <1>1, <3>2 DEF DispatchesOK
    <3>6. consumers' = consumers /\ dispatches[x].pc = "read"
      BY <1>3, <2>3 DEF ScheduleRead
    <3>7. DispatchesAwaited' /\ KeepsAttempts
      BY <3>5, <3>6 DEF DispatchesAwaited, KeepsAttempts, Caller
    <3> QED
      BY <1>1, <1>3, <3>4, <3>6, <3>7 DEF ScheduleRead, Surroundings
  <2> QED
    BY <1>3, <2>2, <2>3 DEF ScheduleRead
<1>4. ASSUME NEW n \in Name, ReserveDeliveryName(x, n)
      PROVE  Around
  <2> DEFINE d == dispatches[x]
  <2>1. /\ d.pc = "reserve" /\ d.task \in Task /\ d.gen \in Nat
        /\ UNCHANGED <<todo, outages>>
    BY <1>2, <1>4 DEF ReserveDeliveryName, Dispatch
  <2>2. CASE EndDispatch(x, FALSE) /\ UNCHANGED <<refs, deliveries>>
    BY <1>1, <2>1, <2>2, EndDispatchStep DEF Surroundings
  <2>3. CASE SameAttempt(d.task, d.gen, d.ref)
    <3>1. /\ refs' = [refs EXCEPT ![d.task] = n] /\ consumers' = consumers
          /\ dispatches' = [dispatches EXCEPT ![x].pc = "check",
                                                ![x].ref = None, ![x].name = n]
          /\ deliveries' = Mentioned([deliveries EXCEPT
                                       ![n] = [task |-> d.task, gen |-> d.gen,
                                               state |-> "reserved"]])
      BY <1>4, <2>3 DEF ReserveDeliveryName
    <3>2. DeliveriesOK(deliveries')
      BY <1>1, <2>1, <3>1, DeliverySteps
    <3>3. RefsOK(refs')
      BY <1>1, <3>1 DEF RefsOK
    <3>4. /\ dispatches'[x].pc = "check" /\ dispatches'[x].task = d.task
          /\ \A y \in Caller : y # x => dispatches'[y] = dispatches[y]
      BY <1>1, <3>1 DEF DispatchesOK, Dispatch
    <3>5. DispatchesOK(dispatches')
      <4>1. dispatches'[x] \in Dispatch
        BY <1>1, <1>2, <2>1, <3>1 DEF DispatchesOK, Dispatch, DispatchPc
      <4> QED
        BY <1>1, <2>1, <3>1, <3>4, <4>1 DEF DispatchesOK
    <3> QED
      BY <1>1, <2>1, <3>1, <3>2, <3>3, <3>4, <3>5
         DEF DispatchesAwaited, KeepsAttempts, Surroundings, Caller
  <2> QED
    BY <1>4, <2>2, <2>3 DEF ReserveDeliveryName
<1>5. CASE CheckOwnership(x)
  <2>1. dispatches[x].pc # "idle" /\ "create" \in DispatchPc
    BY <1>5 DEF CheckOwnership, DispatchPc
  <2> QED
    BY <1>1, <1>5, <2>1, EndDispatchStep, SetPcStep DEF CheckOwnership, Surroundings
<1>6. CASE CreateDelivery(x)
  <2>1. dispatches[x].pc # "idle" /\ "owns" \in DispatchPc
    BY <1>6 DEF CreateDelivery, DispatchPc
  <2>2. DeliveriesOK(deliveries')
    BY <1>1, <1>6, HoldStep DEF CreateDelivery
  <2> QED
    BY <1>1, <1>6, <2>1, <2>2, EndDispatchStep, SetPcStep DEF CreateDelivery, Surroundings
<1>7. CASE OwnsDelivery(x)
  <2>1. /\ dispatches[x].pc # "idle"
        /\ \E raised \in BOOLEAN : EndDispatch(x, raised)
    BY <1>7 DEF OwnsDelivery, SameAttempt
  <2> QED
    BY <1>1, <1>7, <2>1, EndDispatchStep DEF OwnsDelivery, Surroundings
<1>8. CASE DispatchCallFails(x)
  <2>1. dispatches[x].pc # "idle" /\ EndDispatch(x, TRUE)
    BY <1>8 DEF DispatchCallFails
  <2>2. /\ DispatchesOK(dispatches') /\ RequestsOK(consumers')
        /\ DispatchesAwaited' /\ KeepsAttempts
    BY <2>1, EndDispatchStep
  <2>3. UNCHANGED <<refs, deliveries, todo>> /\ outages' \in Nat
    BY <1>1, <1>8 DEF DispatchCallFails, Outage
  <2> QED
    BY <1>1, <2>2, <2>3 DEF Surroundings
<1>9. ASSUME NEW b \in BOOLEAN, CreateFails(x, b)
      PROVE  Around
  <2>1. dispatches[x].pc # "idle" /\ EndDispatch(x, TRUE)
    BY <1>9 DEF CreateFails
  <2>2. DeliveriesOK(deliveries')
    BY <1>1, <1>9, HoldStep DEF CreateFails
  <2>3. /\ DispatchesOK(dispatches') /\ RequestsOK(consumers')
        /\ DispatchesAwaited' /\ KeepsAttempts
    BY <2>1, EndDispatchStep
  <2>4. UNCHANGED <<refs, todo>> /\ outages' \in Nat
    BY <1>1, <1>9 DEF CreateFails, Outage
  <2> QED
    BY <1>1, <2>2, <2>3, <2>4 DEF Surroundings
<1> QED
  BY <1>3, <1>4, <1>5, <1>6, <1>7, <1>8, <1>9 DEF DispatchStep

----------------------------------------------------------------------------
\* Producers, maintenance and the clock.

\* What they do beside their own dispatches.
ServiceActs(s) ==
    \/ RepairRead(s) \/ DeliveryExists(s) \/ CancelExecution(s)
    \/ \E t \in Task : RedispatchRequeued(s, t) \/ ServiceBegins(s, t)
    \/ \E b \in BOOLEAN : CancelCommit(s, b) \/ CancelRefused(s, b)
    \/ RecoverStaleTasks(s) \/ ServiceCrash(s)

LEMMA StartedDispatch ==
    ASSUME StoreOK, RefsOK(refs), NEW t \in Task, NEW pc \in DispatchPc
    PROVE  /\ [Idle EXCEPT !.pc = pc, !.task = t] \in Dispatch
           /\ [Idle EXCEPT !.pc = pc, !.task = t] .task = t
           /\ [Idle EXCEPT !.pc = pc, !.task = t, !.ref = refs[t]] \in Dispatch
           /\ [Idle EXCEPT !.pc = pc, !.task = t, !.ref = refs[t]] .task = t
           /\ [Idle EXCEPT !.pc = pc, !.task = t,
                           !.gen = records[t].retry_count, !.ref = refs[t]] \in Dispatch
           /\ [Idle EXCEPT !.pc = pc, !.task = t,
                           !.gen = records[t].retry_count, !.ref = refs[t]] .task = t
<1>1. refs[t] \in Name \cup {None} /\ records[t].retry_count \in Nat
  BY DEF StoreOK, RefsOK, QueuedTaskRecord
<1> QED
  BY <1>1 DEF Idle, Dispatch

LEMMA ServiceActsAround ==
    ASSUME Surroundings, DispatchesAwaited, StoreOK, NEW s \in Service, ServiceActs(s)
    PROVE  Around
<1>1. /\ RefsOK(refs) /\ DeliveriesOK(deliveries) /\ DispatchesOK(dispatches)
      /\ RequestsOK(consumers) /\ TodoOK(todo) /\ outages \in Nat
  BY DEF Surroundings
<1>2. /\ dispatches[s] \in Dispatch
      /\ dispatches[s].pc # "idle" => dispatches[s].task \in Task
      /\ s \in Caller
  BY <1>1 DEF DispatchesOK, Caller
<1>3. ASSUME \/ dispatches' = [dispatches EXCEPT ![s] = Idle]
             \/ \E d \in Dispatch : d.task \in Task /\ dispatches' = [dispatches EXCEPT ![s] = d]
             \/ \E pc \in DispatchPc : dispatches[s].pc # "idle" /\ SetPc(s, pc)
             \/ dispatches' = dispatches,
             consumers' = consumers
      PROVE  /\ DispatchesOK(dispatches') /\ RequestsOK(consumers')
             /\ DispatchesAwaited' /\ KeepsAttempts
  <2>1. CASE dispatches' = dispatches
    BY <1>1, <1>3, <2>1 DEF DispatchesAwaited, KeepsAttempts
  <2>2. CASE \E pc \in DispatchPc : dispatches[s].pc # "idle" /\ SetPc(s, pc)
    BY <1>2, <1>3, <2>2, SetPcStep
  <2>3. CASE \/ dispatches' = [dispatches EXCEPT ![s] = Idle]
             \/ \E d \in Dispatch : /\ d.task \in Task
                                    /\ dispatches' = [dispatches EXCEPT ![s] = d]
    BY <1>3, <2>3, ServiceGoesOn
  <2> QED
    BY <1>3, <2>1, <2>2, <2>3
<1>4. ASSUME RefsOK(refs'), DeliveriesOK(deliveries'), TodoOK(todo'), outages' \in Nat,
             DispatchesOK(dispatches'), RequestsOK(consumers'),
             DispatchesAwaited', KeepsAttempts
      PROVE  Around
  BY <1>4 DEF Around, Surroundings
<1>5. CASE RepairRead(s)
  <2>1. "reserve" \in DispatchPc /\ "exists" \in DispatchPc /\ dispatches[s].pc # "idle"
    BY <1>5 DEF DispatchPc, RepairRead
  <2> QED
    BY <1>1, <1>3, <1>4, <1>5, <2>1 DEF RepairRead
<1>6. CASE DeliveryExists(s)
  <2>1. "reserve" \in DispatchPc /\ dispatches[s].pc # "idle"
    BY <1>6 DEF DispatchPc, DeliveryExists
  <2> QED
    BY <1>1, <1>3, <1>4, <1>6, <2>1 DEF DeliveryExists
<1>7. CASE CancelExecution(s)
  <2> DEFINE d == [dispatches[s] EXCEPT !.pc = "cancel", !.ref = None]
  <2>1. dispatches' = [dispatches EXCEPT ![s] = d]
    BY <1>1, <1>7 DEF CancelExecution, DispatchesOK
  <2>2. d \in Dispatch /\ d.task \in Task
    BY <1>2, <1>7 DEF CancelExecution, Dispatch, DispatchPc
  <2>3. DeliveriesOK(deliveries')
    BY <1>1, <1>7, SpendStep DEF CancelExecution
  <2> HIDE DEF d
  <2> QED
    BY <1>1, <1>3, <1>4, <1>7, <2>1, <2>2, <2>3 DEF CancelExecution
<1>8. ASSUME NEW t \in Task, RedispatchRequeued(s, t)
      PROVE  Around
  <2> DEFINE d == [Idle EXCEPT !.pc = "read", !.task = t]
  <2>1. d \in Dispatch /\ d.task \in Task
    BY <1>1, StartedDispatch DEF DispatchPc
  <2>2. dispatches' = [dispatches EXCEPT ![s] = d]
    BY <1>8 DEF RedispatchRequeued, StartSchedule
  <2>3. TodoOK(todo')
    BY <1>1, <1>8 DEF RedispatchRequeued, TodoOK
  <2> HIDE DEF d
  <2> QED
    BY <1>1, <1>3, <1>4, <1>8, <2>1, <2>2, <2>3 DEF RedispatchRequeued
<1>9. ASSUME NEW t \in Task, ServiceBegins(s, t)
      PROVE  Around
  <2>1. /\ \E d \in Dispatch : d.task \in Task /\ dispatches' = [dispatches EXCEPT ![s] = d]
        /\ UNCHANGED <<refs, deliveries, todo, consumers, outages>>
    <3>1. /\ "read" \in DispatchPc /\ "listed" \in DispatchPc
          /\ "cancel" \in DispatchPc /\ "delete" \in DispatchPc
      BY DEF DispatchPc
    <3>2. CASE \E o \in Options : Enqueue(s, t, o)
      <4> DEFINE d == [Idle EXCEPT !.pc = "read", !.task = t]
      <4>1. d \in Dispatch /\ d.task = t
        BY <1>1, <3>1, StartedDispatch
      <4>2. dispatches' = [dispatches EXCEPT ![s] = d]
        BY <3>2 DEF Enqueue, StartSchedule
      <4> HIDE DEF d
      <4> QED
        BY <3>2, <4>1, <4>2 DEF Enqueue
    <3>3. CASE Repair(s, t)
      <4> DEFINE d == [Idle EXCEPT !.pc = "listed", !.task = t,
                                   !.gen = records[t].retry_count, !.ref = refs[t]]
      <4>1. d \in Dispatch /\ d.task = t
        BY <1>1, <3>1, StartedDispatch
      <4>2. dispatches' = [dispatches EXCEPT ![s] = d]
        BY <3>3 DEF Repair, StartFromCopy
      <4> HIDE DEF d
      <4> QED
        BY <3>3, <4>1, <4>2 DEF Repair
    <3>4. CASE CancelRead(s, t)
      <4>1. PICK pc \in DispatchPc :
              dispatches' = [dispatches EXCEPT
                               ![s] = [Idle EXCEPT !.pc = pc, !.task = t, !.ref = refs[t]]]
        BY <3>1, <3>4 DEF CancelRead
      <4> DEFINE d == [Idle EXCEPT !.pc = pc, !.task = t, !.ref = refs[t]]
      <4>2. d \in Dispatch /\ d.task = t
        BY <1>1, StartedDispatch
      <4>3. dispatches' = [dispatches EXCEPT ![s] = d]
        BY <4>1
      <4> HIDE DEF d
      <4> QED
        BY <3>4, <4>2, <4>3 DEF CancelRead
    <3> QED
      BY <1>9, <3>2, <3>3, <3>4 DEF ServiceBegins
  <2> QED
    BY <1>1, <1>3, <1>4, <2>1
<1>10. ASSUME NEW b \in BOOLEAN, CancelCommit(s, b)
       PROVE  Around
  BY <1>1, <1>3, <1>4, <1>10 DEF CancelCommit
<1>11. ASSUME NEW b \in BOOLEAN, CancelRefused(s, b)
       PROVE  Around
  <2>1. DeliveriesOK(deliveries') /\ outages' \in Nat
    BY <1>1, <1>11, SpendStep DEF CancelRefused, Outage
  <2> QED
    BY <1>1, <1>3, <1>4, <1>11, <2>1 DEF CancelRefused
<1>12. CASE RecoverStaleTasks(s)
  <2>1. TodoOK(todo')
    BY <1>1, <1>12 DEF RecoverStaleTasks, TodoOK, StaleTasks
  <2> QED
    BY <1>1, <1>3, <1>4, <1>12, <2>1 DEF RecoverStaleTasks
<1>13. CASE ServiceCrash(s)
  <2>1. TodoOK(todo') /\ outages' \in Nat
    BY <1>1, <1>13 DEF ServiceCrash, TodoOK, Outage
  <2> QED
    BY <1>1, <1>3, <1>4, <1>13, <2>1 DEF ServiceCrash
<1> QED
  BY <1>5, <1>6, <1>7, <1>8, <1>9, <1>10, <1>11, <1>12, <1>13 DEF ServiceActs

----------------------------------------------------------------------------
\* The requests.

RequestActs(c) ==
    \/ Claim(c) \/ Recheck(c) \/ Recover(c) \/ Refresh(c) \/ Reclaim(c)
    \/ BeginBody(c) \/ RetireUnresolvable(c)
    \/ BodyReturns(c) \/ BodyFails(c) \/ BodyRetries(c) \/ BodyCancels(c)
    \/ AnswerLost(c) \/ AnswerFails(c) \/ Respond(c) \/ RequestFails(c)
    \/ Heartbeat(c) \/ \E n \in Name : Deliver(c, n)
    \/ \E b \in BOOLEAN : HeartbeatMissed(c, b) \/ ConsumerCrash(c, b)

\* A request is granted the attempt that its record waits for.
IsGranted(c) ==
    LET t == consumers[c].task
        g == records[t].retry_count
    IN  /\ t \in Task /\ ClaimStarts(t)
        /\ granted' = [granted EXCEPT ![t] = @ \cup {g}]
        /\ consumers' = [consumers EXCEPT ![c].pc = "resolve", ![c].gen = g]

\* A request goes over to its dispatch.
LEMMA RequestSchedules ==
    ASSUME Surroundings, DispatchesAwaited, NEW c \in Consumer,
           consumers[c].pc # "idle",
           consumers' = WithRequestPc(c, "scheduling"),
           StartSchedule(c, consumers[c].task)
    PROVE  /\ DispatchesOK(dispatches') /\ RequestsOK(consumers')
           /\ DispatchesAwaited' /\ KeepsAttempts
<1> DEFINE t == consumers[c].task
           d == [Idle EXCEPT !.pc = "read", !.task = t]
<1>1. /\ DispatchesOK(dispatches) /\ RequestsOK(consumers)
      /\ t \in Task /\ c \in Caller /\ "scheduling" \in ConsumerPc
  BY DEF Surroundings, RequestsOK, Caller, ConsumerPc
<1>2. d \in Dispatch /\ d.task \in Task
  BY <1>1 DEF Idle, Dispatch, DispatchPc
<1>3. dispatches' = [dispatches EXCEPT ![c] = d]
  BY DEF StartSchedule
<1>4. consumers' = [consumers EXCEPT ![c].pc = "scheduling"]
  BY DEF WithRequestPc
<1> HIDE DEF d
<1>5. DispatchesOK(dispatches')
  BY <1>1, <1>2, <1>3, DispatchSteps
<1>6. RequestsOK([consumers EXCEPT ![c].pc = "scheduling"])
  BY <1>1, RequestSteps
<1>7. /\ \A e \in Consumer : e # c => /\ consumers'[e] = consumers[e]
                                      /\ dispatches'[e] = dispatches[e]
      /\ consumers'[c].gen = consumers[c].gen /\ consumers'[c].task = t
      /\ consumers'[c].pc = "scheduling"
  BY <1>1, <1>3, <1>4 DEF RequestsOK, Request, DispatchesOK, Caller
<1> QED
  BY <1>4, <1>5, <1>6, <1>7 DEF DispatchesAwaited, KeepsAttempts

\* A request ends without a dispatch.
LEMMA RequestLeaves ==
    ASSUME Surroundings, DispatchesAwaited, NEW c \in Consumer, NEW pc \in ConsumerPc,
           \/ consumers' = [consumers EXCEPT ![c] = NoRequest]
           \/ consumers[c].pc # "idle" /\ consumers' = WithRequestPc(c, pc),
           dispatches' = [dispatches EXCEPT ![c] = Idle]
    PROVE  /\ DispatchesOK(dispatches') /\ RequestsOK(consumers')
           /\ DispatchesAwaited' /\ KeepsAttempts
<1>1. DispatchesOK(dispatches) /\ RequestsOK(consumers) /\ c \in Caller
  BY DEF Surroundings, Caller
<1>2. DispatchesOK(dispatches')
  BY <1>1, DispatchSteps
<1>3. RequestsOK(consumers')
  <2>1. RequestsOK([consumers EXCEPT ![c] = NoRequest])
    BY <1>1, RequestSteps
  <2>2. consumers[c].pc # "idle" => RequestsOK([consumers EXCEPT ![c].pc = pc])
    BY <1>1, RequestSteps
  <2> QED
    BY <2>1, <2>2 DEF WithRequestPc
<1>4. /\ \A e \in Consumer : e # c => /\ consumers'[e] = consumers[e]
                                      /\ dispatches'[e] = dispatches[e]
      /\ dispatches'[c].pc = "idle"
  BY <1>1 DEF RequestsOK, DispatchesOK, Caller, WithRequestPc, Idle
<1>5. \/ consumers'[c].gen = None
      \/ consumers'[c].gen = consumers[c].gen /\ consumers'[c].task = consumers[c].task
  BY <1>1 DEF RequestsOK, Request, WithRequestPc, NoRequest
<1> QED
  BY <1>2, <1>3, <1>4, <1>5 DEF DispatchesAwaited, KeepsAttempts

LEMMA TryClaimStep ==
    ASSUME Surroundings, DispatchesAwaited, StoreOK, NEW c \in Consumer,
           consumers[c].pc \in {"claim", "reclaim"},
           NEW otherwise \in {"recheck", "lost"}, TryClaim(c, otherwise),
           UNCHANGED <<refs, deliveries, dispatches, todo, outages>>
    PROVE  Surroundings' /\ DispatchesAwaited' /\ (KeepsAttempts \/ IsGranted(c))
<1> DEFINE t == consumers[c].task
           g == records[t].retry_count
<1>1. /\ DispatchesOK(dispatches) /\ RequestsOK(consumers)
      /\ consumers[c].pc \notin {"idle", "scheduling"} /\ t \in Task
  BY DEF Surroundings, RequestsOK
<1>2. CASE ClaimStarts(t)
  <2>1. g \in Nat /\ "resolve" \in ConsumerPc
    BY <1>1 DEF StoreOK, QueuedTaskRecord, ConsumerPc
  <2>2. /\ consumers' = [consumers EXCEPT ![c].pc = "resolve", ![c].gen = g]
        /\ granted' = [granted EXCEPT ![t] = @ \cup {g}]
    BY <1>2 DEF TryClaim
  <2>3. IsGranted(c)
    BY <1>1, <1>2, <2>2 DEF IsGranted
  <2>4. RequestsOK([consumers EXCEPT ![c].pc = "resolve", ![c].gen = g])
    BY <1>1, <2>1, RequestSteps
  <2>5. \A e \in Consumer : e # c => consumers'[e] = consumers[e]
    BY <1>1, <2>2 DEF RequestsOK
  <2>6. DispatchesAwaited'
    BY <1>1, <2>5 DEF DispatchesAwaited
  <2> QED
    BY <2>2, <2>3, <2>4, <2>6 DEF Surroundings
<1>3. CASE ~ClaimStarts(t)
  <2>1. PICK pc \in {"lost", otherwise} : consumers' = WithRequestPc(c, pc)
    BY <1>3 DEF TryClaim
  <2>2. pc \in ConsumerPc
    BY <2>1 DEF ConsumerPc
  <2> QED
    BY <1>1, <2>1, <2>2, RequestGoesOn DEF Surroundings
<1> QED
  BY <1>2, <1>3

LEMMA RequestActsAround ==
    ASSUME Surroundings, DispatchesAwaited, StoreOK, NEW c \in Consumer, RequestActs(c)
    PROVE  Surroundings' /\ DispatchesAwaited' /\ (KeepsAttempts \/ IsGranted(c))
<1>1. /\ RefsOK(refs) /\ DeliveriesOK(deliveries) /\ DispatchesOK(dispatches)
      /\ RequestsOK(consumers) /\ TodoOK(todo) /\ outages \in Nat
  BY DEF Surroundings
<1>2. ASSUME RefsOK(refs'), DeliveriesOK(deliveries'), TodoOK(todo'), outages' \in Nat,
             DispatchesOK(dispatches'), RequestsOK(consumers'),
             DispatchesAwaited', KeepsAttempts
      PROVE  Surroundings' /\ DispatchesAwaited' /\ KeepsAttempts
  BY <1>2 DEF Surroundings
<1>3. ASSUME NEW pc \in ConsumerPc, consumers[c].pc \notin {"idle", "scheduling"},
             consumers' = WithRequestPc(c, pc),
             UNCHANGED <<refs, deliveries, dispatches, todo>>, outages' \in Nat
      PROVE  Surroundings' /\ DispatchesAwaited' /\ KeepsAttempts
  BY <1>1, <1>2, <1>3, RequestGoesOn
<1>4. /\ {"claim", "recheck", "recover", "refresh", "reclaim", "resolve", "body",
          "scheduling", "lost", "ack", "nack"} \subseteq ConsumerPc
      /\ outages' = outages \/ Outage => outages' \in Nat
  BY <1>1 DEF ConsumerPc, Outage
<1>5. CASE Claim(c)
  <2>1. CASE IsStored(records[consumers[c].task])
    BY <1>5, <2>1, TryClaimStep DEF Claim
  <2>2. CASE ~IsStored(records[consumers[c].task])
    BY <1>1, <1>3, <1>4, <1>5, <2>2 DEF Claim
  <2> QED
    BY <2>1, <2>2
<1>6. CASE Reclaim(c)
  BY <1>6, TryClaimStep DEF Reclaim
<1>7. CASE Recheck(c)
  BY <1>1, <1>3, <1>4, <1>7 DEF Recheck
<1>8. CASE Recover(c)
  BY <1>1, <1>3, <1>4, <1>8 DEF Recover
<1>9. CASE Refresh(c)
  <2>1. CASE consumers' = WithRequestPc(c, "scheduling") /\ StartSchedule(c, consumers[c].task)
    BY <1>1, <1>2, <1>9, <2>1, RequestSchedules DEF Refresh
  <2>2. CASE dispatches' = dispatches
    BY <1>1, <1>3, <1>4, <1>9, <2>2 DEF Refresh
  <2> QED
    BY <1>9, <2>1, <2>2 DEF Refresh
<1>10. CASE BeginBody(c)
  BY <1>1, <1>3, <1>4, <1>10 DEF BeginBody
<1>11. CASE RetireUnresolvable(c)
  BY <1>1, <1>3, <1>4, <1>11 DEF RetireUnresolvable, Settle
<1>12. CASE BodyReturns(c) \/ BodyFails(c)
  BY <1>1, <1>3, <1>4, <1>12 DEF BodyReturns, BodyFails, Settle
<1>13. CASE BodyRetries(c)
  <2>1. CASE consumers' = WithRequestPc(c, "scheduling") /\ StartSchedule(c, consumers[c].task)
    BY <1>1, <1>2, <1>13, <2>1, RequestSchedules DEF BodyRetries
  <2>2. CASE dispatches' = dispatches /\ consumers' = WithRequestPc(c, "ack")
    BY <1>1, <1>3, <1>4, <1>13, <2>2 DEF BodyRetries
  <2> QED
    BY <1>13, <2>1, <2>2 DEF BodyRetries
<1>14. CASE BodyCancels(c)
  BY <1>1, <1>3, <1>4, <1>14 DEF BodyCancels
<1>15. CASE AnswerLost(c)
  BY <1>1, <1>3, <1>4, <1>15 DEF AnswerLost
<1>16. CASE AnswerFails(c)
  BY <1>1, <1>3, <1>4, <1>16 DEF AnswerFails
<1>17. CASE Respond(c)
  <2>1. consumers' = [consumers EXCEPT ![c] = NoRequest] /\ dispatches' = dispatches
    BY <1>17 DEF Respond
  <2>2. DeliveriesOK(deliveries')
    BY <1>1, <1>17, SpendStep, DeliverySteps DEF Respond
  <2>3. dispatches[c].pc = "idle"
    BY <1>17 DEF Respond, DispatchesAwaited
  <2>4. RequestsOK(consumers')
    BY <1>1, <2>1, RequestSteps
  <2>5. /\ \A e \in Consumer : e # c => consumers'[e] = consumers[e]
        /\ consumers'[c].gen = None
    BY <1>1, <2>1 DEF RequestsOK, NoRequest
  <2> QED
    BY <1>1, <1>2, <1>17, <2>1, <2>2, <2>3, <2>4, <2>5
       DEF Respond, DispatchesAwaited, KeepsAttempts
<1>18. CASE RequestFails(c)
  <2>1. /\ consumers' = WithRequestPc(c, "nack")
        /\ consumers[c].pc \notin {"idle", "scheduling"}
        /\ UNCHANGED <<refs, deliveries, dispatches, todo>> /\ Outage
    BY <1>18 DEF RequestFails
  <2> QED
    BY <1>3, <1>4, <2>1
<1>19. CASE Heartbeat(c)
  BY <1>1, <1>2, <1>19 DEF Heartbeat, DispatchesAwaited, KeepsAttempts
<1>20. ASSUME NEW n \in Name, Deliver(c, n)
       PROVE  Surroundings' /\ DispatchesAwaited' /\ KeepsAttempts
  <2> DEFINE r == [NoRequest EXCEPT !.pc = "claim", !.name = n, !.task = deliveries[n].task]
  <2>1. deliveries[n].task \in Task
    BY <1>1, <1>20 DEF Deliver, DeliveriesOK
  <2>2. r \in Request /\ r.task \in Task /\ r.gen = None
    BY <2>1 DEF NoRequest, Request, ConsumerPc
  <2>3. consumers' = [consumers EXCEPT ![c] = r] /\ consumers[c].pc = "idle"
    BY <1>20 DEF Deliver
  <2> HIDE DEF r
  <2>4. RequestsOK(consumers')
    BY <1>1, <2>2, <2>3, RequestSteps
  <2>5. /\ \A e \in Consumer : e # c => consumers'[e] = consumers[e]
        /\ consumers'[c].gen = None
    BY <1>1, <2>2, <2>3 DEF RequestsOK
  <2>6. dispatches[c].pc = "idle"
    BY <2>3 DEF DispatchesAwaited
  <2> QED
    BY <1>1, <1>2, <1>20, <2>4, <2>5, <2>6 DEF Deliver, DispatchesAwaited, KeepsAttempts
<1>21. ASSUME NEW b \in BOOLEAN, HeartbeatMissed(c, b)
       PROVE  Surroundings' /\ DispatchesAwaited' /\ KeepsAttempts
  <2>1. DeliveriesOK(deliveries')
    BY <1>1, <1>21, HoldStep DEF HeartbeatMissed
  <2>2. /\ consumers' = WithRequestPc(c, "lost") /\ consumers[c].pc # "idle"
        /\ dispatches' = [dispatches EXCEPT ![c] = Idle]
        /\ UNCHANGED <<refs, todo, outages>>
    BY <1>21 DEF HeartbeatMissed
  <2> QED
    BY <1>1, <1>2, <1>4, <2>1, <2>2, RequestLeaves
<1>22. ASSUME NEW b \in BOOLEAN, ConsumerCrash(c, b)
       PROVE  Surroundings' /\ DispatchesAwaited' /\ KeepsAttempts
  <2>1. /\ consumers' = [consumers EXCEPT ![c] = NoRequest]
        /\ dispatches' = [dispatches EXCEPT ![c] = Idle]
        /\ UNCHANGED <<refs, deliveries, todo>> /\ Outage
    BY <1>22 DEF ConsumerCrash
  <2> QED
    BY <1>1, <1>2, <1>4, <2>1, RequestLeaves
<1> QED
  BY <1>5, <1>6, <1>7, <1>8, <1>9, <1>10, <1>11, <1>12, <1>13, <1>14, <1>15, <1>16,
     <1>17, <1>18, <1>19, <1>20, <1>21, <1>22 DEF RequestActs

----------------------------------------------------------------------------
\* The store.

\* Every record goes one step of its course, or stays.
Progress ==
    /\ records' \in [Task -> QueuedTaskRecord]
    /\ granted' \in [Task -> SUBSET Nat]
    /\ \A t \in Task : Goes(records[t], granted[t], records'[t], granted'[t])

LEMMA StoreIsLeft ==
    ASSUME StoreOK, UNCHANGED <<records, granted>>
    PROVE  Progress
  BY QuietGoes DEF StoreOK, Progress

LEMMA OneRecordGoes ==
    ASSUME StoreOK, NEW t \in Task, NEW q, Goes(records[t], granted[t], q, granted[t]),
           records' = [records EXCEPT ![t] = q], granted' = granted
    PROVE  Progress
<1>1. q \in QueuedTaskRecord
  BY DEF Goes
<1>2. \A u \in Task : Goes(records[u], granted[u], records[u], granted[u])
  BY QuietGoes DEF StoreOK
<1> QED
  BY <1>1, <1>2 DEF StoreOK, Progress

LEMMA OneRecordStarts ==
    ASSUME StoreOK, NEW t \in Task, IsQueued(records[t]),
           records' = [records EXCEPT ![t] = ClaimTask(@)],
           granted' = [granted EXCEPT ![t] = @ \cup {records[t].retry_count}]
    PROVE  Progress
<1> DEFINE q == ClaimTask(records[t])
           T == granted[t] \cup {records[t].retry_count}
<1>1. Goes(records[t], granted[t], q, T)
  BY WaitingGoes DEF StoreOK
<1>2. q \in QueuedTaskRecord
  BY <1>1 DEF Goes
<1>3. T \in SUBSET Nat
  BY DEF StoreOK, QueuedTaskRecord
<1>4. \A u \in Task : Goes(records[u], granted[u], records[u], granted[u])
  BY QuietGoes DEF StoreOK
<1>5. records' = [records EXCEPT ![t] = q] /\ granted' = [granted EXCEPT ![t] = T]
  BY DEF StoreOK
<1> HIDE DEF q, T
<1> QED
  BY <1>1, <1>2, <1>3, <1>4, <1>5 DEF StoreOK, Progress

\* The sweep recovers every stale record.
LEMMA SweepGoes ==
    ASSUME StoreOK, records' = RecoverAll, granted' = granted
    PROVE  Progress
<1>1. ASSUME NEW t \in Task
      PROVE  Goes(records[t], granted[t], RecoverAll[t], granted[t])
  <2>1. InStep(records[t], granted[t])
    BY DEF StoreOK
  <2>2. CASE IsStale(records[t])
    <3>1. records[t].status = "running"
      BY <2>2 DEF IsStale
    <3>2. RecoverAll[t] = RecoverStale(records[t])
      BY <2>2 DEF RecoverAll, StaleTasks
    <3> QED
      BY <2>1, <3>1, <3>2, RunningGoes
  <2>3. CASE ~IsStale(records[t])
    <3>1. RecoverAll[t] = records[t]
      BY <2>3 DEF RecoverAll, StaleTasks
    <3> QED
      BY <2>1, <3>1, QuietGoes
  <2> QED
    BY <2>2, <2>3
<1>2. \A t \in Task : RecoverAll[t] \in QueuedTaskRecord
  BY <1>1 DEF Goes
<1>3. RecoverAll = [t \in Task |-> RecoverAll[t]]
  BY DEF RecoverAll
<1>4. records' \in [Task -> QueuedTaskRecord]
  BY <1>2, <1>3
<1> QED
  BY <1>1, <1>4 DEF StoreOK, Progress

\* claim_task: an attempt starts, an overdue record expires, or nothing happens.
LEMMA TryClaimGoes ==
    ASSUME StoreOK, NEW c \in Consumer, consumers[c].task \in Task,
           NEW otherwise, TryClaim(c, otherwise)
    PROVE  Progress
<1> DEFINE t == consumers[c].task
<1>1. CASE ClaimExpires(t)
  <2>1. IsQueued(records[t]) /\ ~ClaimStarts(t)
    BY <1>1 DEF ClaimExpires, CanClaim, ClaimStarts
  <2>2. records' = [records EXCEPT ![t] = ExpireRecord(records[t])] /\ granted' = granted
    BY <1>1, <2>1 DEF TryClaim
  <2>3. Goes(records[t], granted[t], ExpireRecord(records[t]), granted[t])
    BY <2>1, WaitingGoes DEF StoreOK
  <2> QED
    BY <2>2, <2>3, OneRecordGoes
<1>2. CASE ClaimStarts(t)
  <2>1. IsQueued(records[t]) /\ ~ClaimExpires(t)
    BY <1>2 DEF CanClaim, ClaimStarts
  <2> QED
    BY <1>2, <2>1, OneRecordStarts DEF TryClaim
<1>3. CASE ~ClaimExpires(t) /\ ~ClaimStarts(t)
  BY <1>3, StoreIsLeft DEF TryClaim
<1> QED
  BY <1>1, <1>2, <1>3

\* A settlement is fenced: only the attempt that still holds its claim writes.
LEMMA HeldAttempt ==
    ASSUME NEW c \in Consumer, Holds(c)
    PROVE  LET t == consumers[c].task
           IN  records[t].status = "running" /\ consumers[c].gen = records[t].retry_count
  BY DEF Holds, Fenced

LEMMA SettleGoes ==
    ASSUME StoreOK, NEW c \in Consumer, consumers[c].task \in Task, NEW new,
           records' = (IF Holds(c) THEN [records EXCEPT ![consumers[c].task] = new]
                       ELSE records),
           granted' = granted,
           \/ new = CompleteTask(records[consumers[c].task], consumers[c].gen)
           \/ \E retry, delayed \in BOOLEAN :
                 new = FailTask(records[consumers[c].task], retry, delayed)
    PROVE  Progress
<1> DEFINE t == consumers[c].task
<1>1. InStep(records[t], granted[t])
  BY DEF StoreOK
<1>2. CASE Holds(c)
  <2>1. Goes(records[t], granted[t], new, granted[t])
    BY <1>1, <1>2, HeldAttempt, RunningGoes
  <2> QED
    BY <1>2, <2>1, OneRecordGoes
<1>3. CASE ~Holds(c)
  BY <1>3, StoreIsLeft
<1> QED
  BY <1>2, <1>3

LEMMA RequestActsGo ==
    ASSUME Surroundings, StoreOK, NEW c \in Consumer, RequestActs(c)
    PROVE  Progress
<1> DEFINE t == consumers[c].task
<1>1. /\ consumers[c].pc # "idle" => t \in Task
      /\ \A u \in Task : InStep(records[u], granted[u]) /\ records[u] \in QueuedTaskRecord
  BY DEF Surroundings, RequestsOK, StoreOK
<1>2. CASE Claim(c)
  BY <1>1, <1>2, TryClaimGoes, StoreIsLeft DEF Claim
<1>3. CASE Reclaim(c)
  BY <1>1, <1>3, TryClaimGoes DEF Reclaim
<1>4. CASE Recover(c)
  BY <1>4, SweepGoes DEF Recover
<1>5. CASE RetireUnresolvable(c)
  BY <1>1, <1>5, SettleGoes DEF RetireUnresolvable, Settle
<1>6. CASE BodyReturns(c)
  BY <1>1, <1>6, SettleGoes DEF BodyReturns, Settle
<1>7. CASE BodyFails(c)
  BY <1>1, <1>7, SettleGoes DEF BodyFails, Settle
<1>8. CASE BodyRetries(c)
  <2>1. t \in Task /\ records[t].backoff \in BOOLEAN
    BY <1>1, <1>8 DEF BodyRetries, QueuedTaskRecord
  <2> QED
    BY <1>8, <2>1, SettleGoes DEF BodyRetries
<1>9. CASE BodyCancels(c)
  <2>1. CASE IsActive(records[t])
    BY <1>1, <1>9, <2>1, CancelGoes, OneRecordGoes DEF BodyCancels
  <2>2. CASE ~IsActive(records[t])
    BY <1>9, <2>2, StoreIsLeft DEF BodyCancels
  <2> QED
    BY <2>1, <2>2
<1>10. CASE Heartbeat(c)
  BY <1>1, <1>10, QuietGoes, OneRecordGoes DEF Heartbeat
<1>11. CASE RequestFails(c)
  BY <1>1, <1>11, QuietGoes, OneRecordGoes, StoreIsLeft DEF RequestFails
<1>12. ASSUME NEW b \in BOOLEAN, ConsumerCrash(c, b)
       PROVE  Progress
  BY <1>1, <1>12, QuietGoes, OneRecordGoes, StoreIsLeft DEF ConsumerCrash
<1>13. CASE \/ Recheck(c) \/ Refresh(c) \/ BeginBody(c) \/ AnswerLost(c) \/ AnswerFails(c)
            \/ Respond(c) \/ \E n \in Name : Deliver(c, n)
            \/ \E b \in BOOLEAN : HeartbeatMissed(c, b)
  BY <1>13, StoreIsLeft
     DEF Recheck, Refresh, BeginBody, AnswerLost, AnswerFails, Respond, Deliver, HeartbeatMissed
<1> QED
  BY <1>2, <1>3, <1>4, <1>5, <1>6, <1>7, <1>8, <1>9, <1>10, <1>11, <1>12, <1>13
     DEF RequestActs

LEMMA ServiceActsGo ==
    ASSUME Surroundings, StoreOK, NEW s \in Service, ServiceActs(s)
    PROVE  Progress
<1>1. /\ dispatches[s].pc # "idle" => dispatches[s].task \in Task
      /\ \A u \in Task : InStep(records[u], granted[u])
  BY DEF Surroundings, DispatchesOK, StoreOK, Caller
<1>2. ASSUME NEW t \in Task, NEW o \in Options, Enqueue(s, t, o)
      PROVE  Progress
  <2>1. o \in EnqueueOptions
    BY CloudTasksAssumption
  <2> QED
    BY <1>1, <1>2, <2>1, NewRecordGoes, OneRecordGoes DEF Enqueue
<1>3. CASE RecoverStaleTasks(s)
  BY <1>3, SweepGoes DEF RecoverStaleTasks
<1>4. ASSUME NEW b \in BOOLEAN, CancelCommit(s, b)
      PROVE  Progress
  <2> DEFINE t == dispatches[s].task
  <2>1. t \in Task
    BY <1>1, <1>4 DEF CancelCommit
  <2>2. CASE /\ IsActive(records[t]) /\ granted' = granted
             /\ records' = [records EXCEPT ![t] = CancelTask(records[t])]
    BY <1>1, <2>1, <2>2, CancelGoes, OneRecordGoes
  <2>3. CASE UNCHANGED <<records, granted>>
    BY <2>3, StoreIsLeft
  <2> QED
    BY <1>4, <2>2, <2>3 DEF CancelCommit, IsActive
<1>5. CASE \/ RepairRead(s) \/ DeliveryExists(s) \/ CancelExecution(s) \/ ServiceCrash(s)
           \/ \E b \in BOOLEAN : CancelRefused(s, b)
           \/ \E t \in Task : RedispatchRequeued(s, t) \/ Repair(s, t) \/ CancelRead(s, t)
  BY <1>5, StoreIsLeft
     DEF RepairRead, DeliveryExists, CancelExecution, ServiceCrash, CancelRefused,
         RedispatchRequeued, Repair, CancelRead
<1> QED
  BY <1>2, <1>3, <1>4, <1>5 DEF ServiceActs, ServiceBegins

\* Expiry, cleanup and the clock, which concern one record.
LEMMA ClockGoes ==
    ASSUME Surroundings, DispatchesAwaited, StoreOK, NEW t \in Task,
           \/ ExpireOverdue(t) \/ CleanupTerminal(t)
           \/ BecomesDue(t) \/ PassesExpiry(t) \/ HeartbeatAges(t)
    PROVE  Around /\ Progress
<1>1. InStep(records[t], granted[t]) /\ RefsOK(refs)
  BY DEF StoreOK, Surroundings
<1>2. CASE ExpireOverdue(t)
  BY <1>1, <1>2, WaitingGoes, OneRecordGoes
     DEF ExpireOverdue, Around, Surroundings, DispatchesAwaited, KeepsAttempts
<1>3. CASE CleanupTerminal(t)
  <2>1. RefsOK(refs')
    BY <1>1, <1>3 DEF CleanupTerminal, RefsOK
  <2> QED
    BY <1>1, <1>3, <2>1, DeleteGoes, OneRecordGoes
       DEF CleanupTerminal, Around, Surroundings, DispatchesAwaited, KeepsAttempts
<1>4. ASSUME NEW q, Goes(records[t], granted[t], q, granted[t]),
             records' = [records EXCEPT ![t] = q],
             UNCHANGED <<refs, deliveries, dispatches, todo, consumers, granted, outages>>
      PROVE  Around /\ Progress
  BY <1>4, OneRecordGoes DEF Around, Surroundings, DispatchesAwaited, KeepsAttempts
<1>5. /\ Goes(records[t], granted[t], [records[t] EXCEPT !.due = TRUE], granted[t])
      /\ Goes(records[t], granted[t], [records[t] EXCEPT !.expires_at = "overdue"], granted[t])
      /\ Goes(records[t], granted[t], [records[t] EXCEPT !.heartbeat_at = "stale"], granted[t])
  BY <1>1, QuietGoes
<1>6. CASE BecomesDue(t)
  BY <1>4, <1>5, <1>6 DEF BecomesDue, StoreOK
<1>7. CASE PassesExpiry(t)
  BY <1>4, <1>5, <1>7 DEF PassesExpiry, StoreOK
<1>8. CASE HeartbeatAges(t)
  BY <1>4, <1>5, <1>8 DEF HeartbeatAges, StoreOK
<1> QED
  BY <1>2, <1>3, <1>6, <1>7, <1>8

----------------------------------------------------------------------------
\* The invariant.

\* Every step is one of those above.
LEMMA EveryStep ==
    ASSUME IndInv, [Next]_vars
    PROVE  /\ Progress /\ Surroundings' /\ DispatchesAwaited'
           /\ \/ KeepsAttempts
              \/ \E c \in Consumer : IsGranted(c)
<1>1. Surroundings /\ DispatchesAwaited /\ StoreOK
  BY DEF IndInv
<1>2. records \in [Task -> QueuedTaskRecord]
  BY <1>1 DEF StoreOK
<1>3. CASE UNCHANGED vars
  BY <1>1, <1>3, StoreIsLeft DEF vars, Surroundings, DispatchesAwaited, KeepsAttempts
<1>4. ASSUME NEW x \in Caller,
             DispatchStep(x) \/ DispatchCallFails(x) \/ \E b \in BOOLEAN : CreateFails(x, b)
      PROVE  Around /\ Progress
  <2>1. UNCHANGED <<records, granted>>
    BY <1>4 DEF DispatchStep, DispatchCallFails, CreateFails, ScheduleRead,
                ReserveDeliveryName, CheckOwnership, CreateDelivery, OwnsDelivery
  <2>2. Progress
    BY <1>1, <2>1, StoreIsLeft
  <2> QED
    BY <1>1, <1>2, <1>4, <2>2, DispatchStepsAround
<1>5. ASSUME NEW s \in Service, ServiceActs(s)
      PROVE  Around /\ Progress
  BY <1>1, <1>5, ServiceActsAround, ServiceActsGo
<1>6. ASSUME NEW c \in Consumer, RequestActs(c)
      PROVE  Progress /\ Surroundings' /\ DispatchesAwaited' /\ (KeepsAttempts \/ IsGranted(c))
  BY <1>1, <1>6, RequestActsAround, RequestActsGo
<1>7. ASSUME NEW t \in Task,
             \/ ExpireOverdue(t) \/ CleanupTerminal(t)
             \/ BecomesDue(t) \/ PassesExpiry(t) \/ HeartbeatAges(t)
      PROVE  Around /\ Progress
  BY <1>1, <1>7, ClockGoes
<1>8. ASSUME NEW n \in Name, LoseDelivery(n)
      PROVE  Around /\ Progress
  BY <1>1, <1>8, SpendStep, StoreIsLeft
     DEF LoseDelivery, Outage, Around, Surroundings, DispatchesAwaited, KeepsAttempts
<1>9. ASSUME Next
      PROVE  \/ \E x \in Caller : \/ DispatchStep(x) \/ DispatchCallFails(x)
                                  \/ \E b \in BOOLEAN : CreateFails(x, b)
             \/ \E s \in Service : ServiceActs(s)
             \/ \E c \in Consumer : RequestActs(c)
             \/ \E t \in Task : \/ ExpireOverdue(t) \/ CleanupTerminal(t)
                                \/ BecomesDue(t) \/ PassesExpiry(t) \/ HeartbeatAges(t)
             \/ \E n \in Name : LoseDelivery(n)
  <2>1. CASE \E s \in Service : ServiceStep(s)
    BY <2>1 DEF ServiceStep, ServiceActs, Caller
  <2>2. CASE \E s \in Service : RecoverStaleTasks(s) \/ \E t \in Task : ServiceBegins(s, t)
    BY <2>2 DEF ServiceActs
  <2>3. CASE \E c \in Consumer : ConsumerStep(c)
    BY <2>3 DEF ConsumerStep, RequestActs, Caller
  <2>4. CASE \E c \in Consumer : \/ Heartbeat(c) \/ \E n \in Name : Deliver(c, n)
                                 \/ \E b \in BOOLEAN : HeartbeatMissed(c, b)
    BY <2>4 DEF RequestActs
  <2>5. CASE Fault
    BY <2>5 DEF Fault, ServiceActs, RequestActs
  <2> QED
    BY <1>9, <2>1, <2>2, <2>3, <2>4, <2>5 DEF Next
<1> QED
  BY <1>3, <1>4, <1>5, <1>6, <1>7, <1>8, <1>9 DEF Around

\* What is granted stays granted.
LEMMA GrantsGrow ==
    ASSUME StoreOK, Progress, NEW t \in Task
    PROVE  granted[t] \subseteq granted'[t]
  BY DEF Progress, Goes

LEMMA ExclusionKept ==
    ASSUME IndInv, Progress, RequestsOK(consumers'),
           KeepsAttempts \/ \E c \in Consumer : IsGranted(c)
    PROVE  AttemptsAreExclusive'
<1>1. RequestsOK(consumers) /\ StoreOK /\ AttemptsAreExclusive
  BY DEF IndInv, Surroundings
<1>2. CASE KeepsAttempts
  BY <1>1, <1>2, GrantsGrow DEF AttemptsAreExclusive, KeepsAttempts
<1>3. ASSUME NEW c \in Consumer, IsGranted(c)
      PROVE  AttemptsAreExclusive'
  <2> DEFINE t == consumers[c].task
             g == records[t].retry_count
  <2>1. t \in Task /\ IsQueued(records[t]) /\ InStep(records[t], granted[t])
    BY <1>1, <1>3 DEF IsGranted, ClaimStarts, CanClaim, StoreOK
  <2>2. g \notin granted[t] /\ g \in granted'[t]
    <3>1. granted' = [granted EXCEPT ![t] = @ \cup {g}]
      BY <1>3 DEF IsGranted
    <3>2. g \notin granted[t]
      BY <2>1 DEF InStep
    <3> QED
      BY <1>1, <2>1, <3>1, <3>2 DEF StoreOK
  <2>3. /\ consumers'[c].task = t /\ consumers'[c].gen = g
        /\ \A d \in Consumer : d # c => consumers'[d] = consumers[d]
    BY <1>1, <1>3 DEF IsGranted, RequestsOK, Request
  <2> HIDE DEF g
  <2>4. ASSUME NEW d \in Consumer, d # c, consumers[d].task = t
        PROVE  consumers[d].gen # g \/ g = None
    BY <1>1, <2>2, <2>4 DEF AttemptsAreExclusive
  <2>5. g # None
    BY <2>1, NoneAssumption DEF InStep, QueuedTaskRecord, g
  <2>6. ASSUME NEW e \in Consumer, consumers'[e].gen # None
        PROVE  /\ consumers'[e].task \in Task
               /\ consumers'[e].gen \in granted'[consumers'[e].task]
               /\ \A d \in Consumer :
                     consumers'[d].task = consumers'[e].task /\ consumers'[d].gen = consumers'[e].gen
                        => d = e
    <3>1. CASE e = c
      BY <2>1, <2>2, <2>3, <2>4, <2>5, <3>1
    <3>2. CASE e # c
      <4>1. consumers'[e] = consumers[e] /\ consumers[e].gen # None
        BY <2>3, <2>6, <3>2
      <4>2. /\ consumers[e].task \in Task
            /\ consumers[e].gen \in granted[consumers[e].task]
        BY <1>1, <4>1 DEF AttemptsAreExclusive
      <4>3. consumers[e].gen \in granted'[consumers[e].task]
        BY <1>1, <4>2, GrantsGrow
      <4>4. ASSUME NEW d \in Consumer,
                   consumers'[d].task = consumers'[e].task, consumers'[d].gen = consumers'[e].gen
            PROVE  d = e
        <5>1. d # c
          BY <2>3, <2>4, <2>5, <3>2, <4>1, <4>4
        <5> QED
          BY <1>1, <2>3, <4>1, <4>4, <5>1 DEF AttemptsAreExclusive
      <4> QED
        BY <4>1, <4>2, <4>3, <4>4
    <3> QED
      BY <3>1, <3>2
  <2> QED
    BY <2>6 DEF AttemptsAreExclusive
<1> QED
  BY <1>2, <1>3

LEMMA Initially == Init => IndInv
<1> SUFFICES ASSUME Init PROVE IndInv
  OBVIOUS
<1>1. /\ Unused \in Delivery /\ Unused.state = "unused"
      /\ Idle \in Dispatch /\ Idle.pc = "idle"
      /\ NoRequest \in Request /\ NoRequest.pc = "idle" /\ NoRequest.gen = None
  BY DEF Unused, Delivery, Idle, Dispatch, DispatchPc, NoRequest, Request, ConsumerPc
<1>2. NoRecord \in QueuedTaskRecord
  BY NoRecordInStep DEF InStep
<1>3. Surroundings
  BY <1>1 DEF Init, Surroundings, RefsOK, DeliveriesOK, DispatchesOK, RequestsOK, TodoOK
<1>4. StoreOK
  BY <1>2, NoRecordInStep DEF Init, StoreOK
<1> QED
  BY <1>1, <1>3, <1>4 DEF Init, IndInv, DispatchesAwaited, AttemptsAreExclusive, Caller

LEMMA Inductive == IndInv /\ [Next]_vars => IndInv' /\ Progress
<1> SUFFICES ASSUME IndInv, [Next]_vars PROVE IndInv' /\ Progress
  OBVIOUS
<1>1. /\ Progress /\ Surroundings' /\ DispatchesAwaited'
      /\ KeepsAttempts \/ \E c \in Consumer : IsGranted(c)
  BY EveryStep
<1>2. StoreOK'
  BY <1>1, GoesInStep DEF IndInv, Progress, StoreOK
<1>3. AttemptsAreExclusive'
  BY <1>1, ExclusionKept DEF Surroundings
<1> QED
  BY <1>1, <1>2, <1>3 DEF IndInv

LEMMA Invariance == Spec => []IndInv
  BY Initially, Inductive, PTL DEF Spec

\* Every variable keeps the shape that the backend, the provider and the route
\* give it.
THEOREM TypeCorrect == Spec => []TypeOK
<1>1. IndInv => TypeOK
  BY DEF IndInv, Surroundings, StoreOK, RefsOK, DeliveriesOK, DispatchesOK, RequestsOK,
         TodoOK, TypeOK
<1> QED
  BY <1>1, Invariance, PTL

\* However often a delivery is posted, two requests never have the same attempt
\* of a record, whether they claimed it at once or recovered it first.
THEOREM RequestsShareNoAttempt == Spec => []AttemptsAreExclusive
<1>1. IndInv => AttemptsAreExclusive
  BY DEF IndInv
<1> QED
  BY <1>1, Invariance, PTL

----------------------------------------------------------------------------
\* The records live the promised life.

LEMMA PromisedMove ==
    ASSUME NEW x, NEW y, Promised!Move(x, y)
    PROVE  Lifecycle!Move(x, y)
  BY DEF Promised!Move, Promised!Enqueued, Promised!Started, Promised!Requeued,
         Promised!Ended, Promised!Purged, Promised!Unborn,
         Lifecycle!Move, Lifecycle!Enqueued, Lifecycle!Started, Lifecycle!Requeued,
         Lifecycle!Ended, Lifecycle!Purged, Lifecycle!Unborn

\* Cloud Tasks execution implements TaskLifecycle: deliveries that are made
\* twice, posted late or again, lost or repaired, and requests that die at any
\* point, take every record through finitely many generations, each started
\* once, to one end.
THEOREM RecordsLiveThePromisedLife == Spec => LivesThePromisedLife
<1>1. Init => Lifecycle!Init
  BY NoRecordInStep DEF Init, Lifecycle!Init, LifeOf, Promised!Unborn, Lifecycle!Unborn
<1>2. IndInv /\ [Next]_vars => [Lifecycle!Next]_([t \in Task |-> LifeOf(t)])
  <2> SUFFICES ASSUME IndInv, [Next]_vars, NEW t \in Task
               PROVE  LifeOf(t)' = LifeOf(t) \/ Lifecycle!Move(LifeOf(t), LifeOf(t)')
    BY DEF Lifecycle!Next
  <2>1. InStep(records[t], granted[t]) /\ Goes(records[t], granted[t], records'[t], granted'[t])
    BY Inductive DEF IndInv, StoreOK, Progress
  <2> QED
    BY <2>1, GoesAlongLife, PromisedMove DEF LifeOf
<1> QED
  BY <1>1, <1>2, Invariance, PTL DEF Spec, LivesThePromisedLife, Lifecycle!Spec
=============================================================================
