------------------------- MODULE WorkerFleetProofs -------------------------
(***************************************************************************)
(* Proofs about WorkerFleet, for every set of tasks, workers and keys,     *)
(* every retry and interruption limit, and stores that hand out copies of  *)
(* their records (SharedRecords = FALSE).  And about the processes that    *)
(* run a worker or only open the queue, for every deployment.              *)
(***************************************************************************)
EXTENDS WorkerFleet, MCSupervision, QueueRecordProofs, FiniteSetTheorems, SequenceTheorems, WellFoundedInduction

----------------------------------------------------------------------------
\* Attempts change only their pc.

SameClaim(a, b) ==
    a.task = b.task /\ a.gen = b.gen /\ a.ints = b.ints /\ a.worker = b.worker

\* B holds the attempts of A, each perhaps at another pc; none is forgotten and
\* none comes back to life.
PcMoved(A, B) ==
    /\ B \subseteq Attempt
    /\ \A b \in B : \E a \in A : SameClaim(a, b) /\ (a.pc = "gone" => b.pc = "gone")
    /\ \A a \in A : \E b \in B : SameClaim(a, b)
    /\ \A b, c \in B : b.task = c.task /\ b.gen = c.gen => b = c

LEMMA MapPc ==
    ASSUME NEW A, A \subseteq Attempt,
           \A a, b \in A : a.task = b.task /\ a.gen = b.gen => a = b,
           NEW f \in [A -> AttemptState],
           \A a \in A : a.pc = "gone" => f[a] = "gone"
    PROVE  PcMoved(A, {[a EXCEPT !.pc = f[a]] : a \in A})
<1> DEFINE B == {[a EXCEPT !.pc = f[a]] : a \in A}
<1>1. \A a \in A : /\ [a EXCEPT !.pc = f[a]] \in Attempt
                   /\ SameClaim(a, [a EXCEPT !.pc = f[a]])
                   /\ [a EXCEPT !.pc = f[a]].pc = f[a]
  BY DEF Attempt, SameClaim
<1>2. B \subseteq Attempt
  BY <1>1
<1>3. /\ \A b \in B : \E a \in A : SameClaim(a, b) /\ (a.pc = "gone" => b.pc = "gone")
      /\ \A a \in A : \E b \in B : SameClaim(a, b)
  BY <1>1
<1>4. ASSUME NEW b \in B, NEW c \in B, b.task = c.task, b.gen = c.gen
      PROVE  b = c
  <2>1. PICK x \in A : b = [x EXCEPT !.pc = f[x]]
    OBVIOUS
  <2>2. PICK y \in A : c = [y EXCEPT !.pc = f[y]]
    OBVIOUS
  <2>3. x.task = y.task /\ x.gen = y.gen
    BY <1>1, <1>4, <2>1, <2>2 DEF SameClaim
  <2> QED
    BY <2>1, <2>2, <2>3
<1> QED
  BY <1>2, <1>3, <1>4 DEF PcMoved

LEMMA WithPcMoved ==
    ASSUME attempts \subseteq Attempt, GenerationRunsOnce,
           NEW a \in attempts, NEW p \in AttemptState,
           a.pc = "gone" => p = "gone"
    PROVE  PcMoved(attempts, WithPc(a, p))
<1> DEFINE f == [b \in attempts |-> IF b = a THEN p ELSE b.pc]
<1>1. /\ f \in [attempts -> AttemptState]
      /\ \A b \in attempts : b.pc = "gone" => f[b] = "gone"
  BY DEF Attempt
<1>2. \A b \in attempts : [b EXCEPT !.pc = b.pc] = b
  BY DEF Attempt
<1>3. [a EXCEPT !.pc = f[a]] = [a EXCEPT !.pc = p]
  OBVIOUS
<1>4. \A b \in attempts \ {a} : [b EXCEPT !.pc = f[b]] = b
  BY <1>2
<1>5. WithPc(a, p) = {[b EXCEPT !.pc = f[b]] : b \in attempts}
  <2> HIDE DEF f
  <2> DEFINE B == {[b EXCEPT !.pc = f[b]] : b \in attempts}
  <2>1. ASSUME NEW b \in B PROVE b \in WithPc(a, p)
    <3>1. PICK c \in attempts : b = [c EXCEPT !.pc = f[c]]
      OBVIOUS
    <3>2. CASE c = a
      BY <1>3, <3>1, <3>2 DEF WithPc
    <3>3. CASE c # a
      BY <1>4, <3>1, <3>3 DEF WithPc
    <3> QED
      BY <3>2, <3>3
  <2>2. ASSUME NEW b \in WithPc(a, p) PROVE b \in B
    <3>1. CASE b = [a EXCEPT !.pc = p]
      BY <1>3, <3>1
    <3>2. CASE b \in attempts \ {a}
      BY <1>4, <3>2
    <3> QED
      BY <2>2, <3>1, <3>2 DEF WithPc
  <2> QED
    BY <2>1, <2>2
<1> HIDE DEF f
<1>6. PcMoved(attempts, {[b EXCEPT !.pc = f[b]] : b \in attempts})
  BY <1>1, MapPc DEF GenerationRunsOnce
<1> QED
  BY <1>5, <1>6

\* The attempts of a set D move, the others stay.
LEMMA SomePcMoved ==
    ASSUME attempts \subseteq Attempt, GenerationRunsOnce,
           NEW D, NEW g \in [attempts -> AttemptState],
           \A a \in attempts : a \in D /\ a.pc = "gone" => g[a] = "gone"
    PROVE  PcMoved(attempts, {IF a \in D THEN [a EXCEPT !.pc = g[a]] ELSE a :
                                a \in attempts})
<1> DEFINE f == [b \in attempts |-> IF b \in D THEN g[b] ELSE b.pc]
<1>1. /\ f \in [attempts -> AttemptState]
      /\ \A b \in attempts : b.pc = "gone" => f[b] = "gone"
  BY DEF Attempt
<1>2. \A b \in attempts : [b EXCEPT !.pc = f[b]] =
                             IF b \in D THEN [b EXCEPT !.pc = g[b]] ELSE b
  BY DEF Attempt
<1>3. {IF a \in D THEN [a EXCEPT !.pc = g[a]] ELSE a : a \in attempts}
         = {[b EXCEPT !.pc = f[b]] : b \in attempts}
  BY <1>2
<1> HIDE DEF f
<1>4. PcMoved(attempts, {[b EXCEPT !.pc = f[b]] : b \in attempts})
  BY <1>1, MapPc DEF GenerationRunsOnce
<1> QED
  BY <1>3, <1>4

LEMMA AfterCancelType ==
    ASSUME NEW p \in AttemptState
    PROVE  /\ AfterCancel(p) \in AttemptState
           /\ p = "gone" => AfterCancel(p) = "gone"
  BY DEF AfterCancel, AttemptState

LEMMA NoneMoved ==
    ASSUME attempts \subseteq Attempt, GenerationRunsOnce
    PROVE  PcMoved(attempts, attempts)
  BY DEF PcMoved, SameClaim, GenerationRunsOnce

----------------------------------------------------------------------------
\* The inductive invariant.

\* An attempt never knows a generation that its record has not reached, and a
\* queued record is past every generation that was claimed.
ClaimsAreBehind ==
    \A a \in attempts :
        /\ records[a.task].status # "absent"
        /\ a.gen <= records[a.task].retry_count
        /\ IsQueued(records[a.task]) => a.gen < records[a.task].retry_count

\* The attempt of the current generation knows the interruption count.
InterruptionsKnown ==
    \A a \in attempts :
        a.gen = records[a.task].retry_count => a.ints = records[a.task].interruptions

\* The deduplication index names every active record that has a key.
KeysIndexed ==
    \A t \in Task :
        IsActive(records[t]) /\ records[t].key # None => keys[records[t].key] = t

\* A record that does not exist is of generation zero.
AbsentIsBlank ==
    \A t \in Task : records[t].status = "absent" => records[t].retry_count = 0

IndInv ==
    /\ TypeOK
    /\ AbsentIsBlank
    /\ GenerationRunsOnce
    /\ RetryBudget
    /\ ResultOfLastAttempt
    /\ ClaimsAreBehind
    /\ InterruptionsKnown
    /\ KeysIndexed

\* The moves of a stored record in this fleet, other than a claim.
Moves(r, q) ==
    \/ Stays(r, q)
    \/ Completes(r, q)
    \/ EndsWithoutResult(r, q)
    \/ Retries(r, q)
    \/ IsHandedBack(r, q) /\ r.interruptions < MaxInterruptions
    \/ IsPurged(r, q)

RecordsStep ==
    /\ records' \in [Task -> QueuedTaskRecord]
    /\ \A t \in Task : Moves(records[t], records'[t])

\* Moving records along and leaving the claims alone keeps what the claims
\* and the budgets promise.
LEMMA MovesKeepClaims ==
    ASSUME IndInv, RecordsStep, PcMoved(attempts, attempts')
    PROVE  /\ AbsentIsBlank'
           /\ GenerationRunsOnce'
           /\ RetryBudget'
           /\ ResultOfLastAttempt'
           /\ ClaimsAreBehind'
           /\ InterruptionsKnown'
<1> USE DEF IndInv
<1>1. /\ records \in [Task -> QueuedTaskRecord]
      /\ attempts \subseteq Attempt /\ attempts' \subseteq Attempt
      /\ MaxInterruptions \in Nat
  BY FleetAssumption DEF TypeOK, PcMoved
<1>2. GenerationRunsOnce'
  BY DEF PcMoved, GenerationRunsOnce
<1>3. RetryBudget'
  <2> SUFFICES ASSUME NEW t \in Task
               PROVE  /\ records'[t].interruptions <= records'[t].retry_count
                      /\ AttemptsConsumed(records'[t]) <= records'[t].max_retries
                      /\ records'[t].interruptions <= MaxInterruptions
    BY DEF RetryBudget
  <2> QED
    BY <1>1 DEF RetryBudget, RecordsStep, Moves, Stays, Completes,
                EndsWithoutResult, Retries, IsHandedBack, IsPurged, SameClaimData,
                AttemptsConsumed, QueuedTaskRecord
<1>4. ASSUME NEW b \in attempts'
      PROVE  /\ records'[b.task].status # "absent"
             /\ b.gen <= records'[b.task].retry_count
             /\ IsQueued(records'[b.task]) => b.gen < records'[b.task].retry_count
             /\ b.gen = records'[b.task].retry_count =>
                    b.ints = records'[b.task].interruptions
  <2>1. PICK a \in attempts : SameClaim(a, b)
    BY DEF PcMoved
  <2> DEFINE r == records[a.task]
             q == records'[a.task]
  <2>2. /\ a.task \in Task /\ a.gen \in Nat
        /\ r \in QueuedTaskRecord /\ q \in QueuedTaskRecord
        /\ Moves(r, q)
    BY <1>1 DEF Attempt, RecordsStep
  <2>3. /\ r.status # "absent" /\ a.gen <= r.retry_count
        /\ IsQueued(r) => a.gen < r.retry_count
        /\ a.gen = r.retry_count => a.ints = r.interruptions
    BY DEF ClaimsAreBehind, InterruptionsKnown
  <2> HIDE DEF r, q
  <2>4. /\ q.status # "absent" /\ a.gen <= q.retry_count
        /\ IsQueued(q) => a.gen < q.retry_count
        /\ a.gen = q.retry_count => a.ints = q.interruptions
    BY <2>2, <2>3 DEF Moves, Stays, Completes, EndsWithoutResult, Retries,
         IsHandedBack, IsPurged, SameClaimData, QueuedTaskRecord, IsQueued,
         QueuedStatuses, TerminalStatuses
  <2> QED
    BY <2>1, <2>4 DEF q, SameClaim
<1>5. ClaimsAreBehind' /\ InterruptionsKnown'
  BY <1>4 DEF ClaimsAreBehind, InterruptionsKnown
<1>6. ResultOfLastAttempt'
  <2> SUFFICES ASSUME NEW t \in Task, records'[t].status = "completed"
               PROVE  /\ records'[t].result = records'[t].retry_count
                      /\ \A b \in attempts' : b.task = t => b.gen <= records'[t].result
    BY DEF ResultOfLastAttempt
  <2>1. records'[t].result = records'[t].retry_count
    BY <1>1 DEF ResultOfLastAttempt, RecordsStep, Moves, Stays, Completes,
                EndsWithoutResult, Retries, IsHandedBack, IsPurged, SameClaimData,
                IsQueued, QueuedStatuses
  <2> QED
    BY <1>4, <2>1
<1>7. AbsentIsBlank'
  BY <1>1 DEF AbsentIsBlank, RecordsStep, Moves, Stays, Completes, EndsWithoutResult,
              Retries, IsHandedBack, IsPurged, SameClaimData, IsQueued, QueuedStatuses,
              TerminalStatuses
<1> QED
  BY <1>2, <1>3, <1>5, <1>6, <1>7

\* While the index is left alone, so is what it promises.
LEMMA MovesKeepKeys ==
    ASSUME IndInv, RecordsStep, UNCHANGED keys
    PROVE  KeysIndexed'
<1> SUFFICES ASSUME NEW t \in Task, IsActive(records'[t]), records'[t].key # None
             PROVE  keys[records'[t].key] = t
  BY DEF KeysIndexed
<1>1. IsActive(records[t]) /\ records'[t].key = records[t].key
  BY DEF RecordsStep, Moves, Stays, Completes, EndsWithoutResult, Retries,
         IsHandedBack, IsPurged, SameClaimData, IsActive, IsQueued, IsTerminal,
         QueuedStatuses, TerminalStatuses
<1> QED
  BY <1>1 DEF IndInv, KeysIndexed

\* A step that claims nothing new and leaves the index alone.
OrdinaryStep ==
    /\ RecordsStep
    /\ PcMoved(attempts, attempts')
    /\ UNCHANGED keys
    /\ registrations' \in [Worker -> [Task -> Nat \cup {None}]]
    /\ missed' \in [Worker -> SUBSET Task]
    /\ phase' \in [Worker -> WorkerPhase]
    /\ outages' \in Nat

\* The generations of a record that a worker was given.
GenerationsStarted(t) == {a.gen : a \in {b \in attempts : b.task = t}}

\* What every step does to one record and to its claims.
RecordLivesOn(t) ==
    LET r == records[t]
        q == records'[t]
    IN  \/ /\ Moves(r, q) \/ IsBorn(r, q)
           /\ UNCHANGED GenerationsStarted(t)
        \/ /\ Starts(r, q)
           /\ GenerationsStarted(t)' = GenerationsStarted(t) \cup {r.retry_count}

RecordsLiveOn == \A t \in Task : RecordLivesOn(t)

\* New claims come from a worker's claim call alone.
ClaimsMove ==
    \/ PcMoved(attempts, attempts')
    \/ \E w \in Worker, C \in SUBSET Task : ClaimAvailable(w, C)

LEMMA PcMovedStartsNone ==
    ASSUME PcMoved(attempts, attempts'), NEW t
    PROVE  UNCHANGED GenerationsStarted(t)
  BY DEF PcMoved, SameClaim, GenerationsStarted

LEMMA OrdinaryKeepsInv ==
    ASSUME IndInv, OrdinaryStep
    PROVE  IndInv' /\ RecordsLiveOn /\ ClaimsMove
<1>1. TypeOK'
  BY DEF IndInv, TypeOK, OrdinaryStep, RecordsStep, PcMoved
<1>2. IndInv'
  BY <1>1, MovesKeepClaims, MovesKeepKeys DEF IndInv, OrdinaryStep
<1>3. RecordsLiveOn
  BY PcMovedStartsNone DEF OrdinaryStep, RecordsStep, RecordsLiveOn, RecordLivesOn
<1> QED
  BY <1>2, <1>3 DEF OrdinaryStep, ClaimsMove

\* A record that is left alone stays.
LEMMA Unmoved ==
    ASSUME NEW r \in QueuedTaskRecord
    PROVE  Moves(r, r)
  BY DEF Moves, Stays, SameClaimData

LEMMA RecordsUnmoved ==
    ASSUME IndInv, UNCHANGED records
    PROVE  RecordsStep
  BY Unmoved DEF IndInv, TypeOK, RecordsStep

\* One record moves.
LEMMA OneRecordMoves ==
    ASSUME IndInv, NEW t \in Task, NEW q \in QueuedTaskRecord, Moves(records[t], q),
           records' = [records EXCEPT ![t] = q]
    PROVE  RecordsStep
  BY Unmoved DEF IndInv, TypeOK, RecordsStep

----------------------------------------------------------------------------
\* One lemma per kind of step.

LEMMA CancelTasksStep ==
    ASSUME IndInv, NEW S \in SUBSET Task, NEW b \in BOOLEAN, CancelTasks(S, b)
    PROVE  OrdinaryStep
<1>1. \A t \in S : /\ CancelTask(records[t]) \in QueuedTaskRecord
                   /\ Moves(records[t], CancelTask(records[t]))
  BY CancelMove DEF IndInv, TypeOK, CancelTasks, IsActive, Moves
<1>2. RecordsStep
  BY <1>1, Unmoved DEF IndInv, TypeOK, RecordsStep, CancelTasks
<1> QED
  BY <1>2, NoneMoved DEF OrdinaryStep, CancelTasks, IndInv, TypeOK

LEMMA ClockStepOrdinary ==
    ASSUME IndInv, NEW t \in Task, BecomesDue(t) \/ PassesExpiry(t) \/ HeartbeatAges(t)
    PROVE  OrdinaryStep
<1>1. /\ UNCHANGED <<keys, attempts, registrations, missed, phase, outages>>
      /\ \/ records' = [records EXCEPT ![t].due = TRUE]
         \/ records' = [records EXCEPT ![t].expires_at = "overdue"]
         \/ records' = [records EXCEPT ![t].heartbeat_at = "stale"]
  BY DEF BecomesDue, PassesExpiry, HeartbeatAges
<1>2. records[t] \in QueuedTaskRecord
  BY DEF IndInv, TypeOK
<1>3. /\ [records[t] EXCEPT !.due = TRUE] \in QueuedTaskRecord
      /\ Stays(records[t], [records[t] EXCEPT !.due = TRUE])
  BY <1>2 DEF QueuedTaskRecord, Stays, SameClaimData
<1>4. /\ [records[t] EXCEPT !.expires_at = "overdue"] \in QueuedTaskRecord
      /\ Stays(records[t], [records[t] EXCEPT !.expires_at = "overdue"])
  BY <1>2 DEF QueuedTaskRecord, Stays, SameClaimData
<1>5. /\ [records[t] EXCEPT !.heartbeat_at = "stale"] \in QueuedTaskRecord
      /\ Stays(records[t], [records[t] EXCEPT !.heartbeat_at = "stale"])
  BY <1>2 DEF QueuedTaskRecord, Stays, SameClaimData
<1>6. \E q \in QueuedTaskRecord :
          Moves(records[t], q) /\ records' = [records EXCEPT ![t] = q]
  BY <1>1, <1>3, <1>4, <1>5 DEF Moves
<1>7. RecordsStep
  BY <1>6, OneRecordMoves
<1> QED
  BY <1>1, <1>7, NoneMoved DEF OrdinaryStep, IndInv, TypeOK

LEMMA StaleSweepStep ==
    ASSUME IndInv, NEW S \in SUBSET Task, RequeueStaleRunning(S)
    PROVE  OrdinaryStep
<1>1. \A t \in S : /\ RecoverStale(records[t]) \in QueuedTaskRecord
                   /\ Moves(records[t], RecoverStale(records[t]))
  BY RecoverMove DEF IndInv, TypeOK, RequeueStaleRunning, IsStale, Moves
<1>2. RecordsStep
  BY <1>1, Unmoved DEF IndInv, TypeOK, RecordsStep, RequeueStaleRunning
<1> QED
  BY <1>2, NoneMoved DEF OrdinaryStep, RequeueStaleRunning, IndInv, TypeOK

LEMMA ExpireOverdueStep ==
    ASSUME IndInv, NEW S \in SUBSET Task, ExpireOverdue(S)
    PROVE  OrdinaryStep
<1>1. \A t \in S : /\ ExpireRecord(records[t]) \in QueuedTaskRecord
                   /\ Moves(records[t], ExpireRecord(records[t]))
  BY QueuedMoves DEF IndInv, TypeOK, ExpireOverdue, Moves
<1>2. RecordsStep
  BY <1>1, Unmoved DEF IndInv, TypeOK, RecordsStep, ExpireOverdue
<1> QED
  BY <1>2, NoneMoved DEF OrdinaryStep, ExpireOverdue, IndInv, TypeOK

\* Enqueue: no attempt knows the new record, and the index had no active
\* holder for its key.
LEMMA EnqueueStep ==
    ASSUME IndInv, NEW t \in Task, NEW o \in Options, Enqueue(t, o)
    PROVE  IndInv' /\ RecordsLiveOn /\ ClaimsMove
<1> DEFINE q == NewRecord(o)
<1>1. o \in EnqueueOptions /\ o.key \in Key \cup {None} /\ MaxInterruptions \in Nat
  BY FleetAssumption DEF EnqueueOptions
<1>2. /\ records \in [Task -> QueuedTaskRecord] /\ keys \in [Key -> Task \cup {None}]
      /\ attempts \subseteq Attempt
      /\ records[t] \in QueuedTaskRecord /\ records[t].status = "absent"
  BY DEF IndInv, TypeOK, Enqueue
<1>3. q \in QueuedTaskRecord /\ IsBorn(records[t], q) /\ q.key = o.key
  BY <1>1, <1>2, NewRecordMove
<1> HIDE DEF q
<1>4. /\ records' = [records EXCEPT ![t] = q]
      /\ keys' = IF o.key = None THEN keys ELSE [keys EXCEPT ![o.key] = t]
      /\ UNCHANGED <<attempts, registrations, missed, phase, outages>>
  BY DEF Enqueue, q
<1>5. TypeOK'
  BY <1>1, <1>2, <1>3, <1>4 DEF IndInv, TypeOK
<1>6. \A a \in attempts : a.task \in Task /\ a.task # t
  BY <1>2 DEF IndInv, ClaimsAreBehind, Attempt
<1>7. GenerationRunsOnce' /\ ClaimsAreBehind' /\ InterruptionsKnown'
  BY <1>2, <1>4, <1>6 DEF IndInv, GenerationRunsOnce, ClaimsAreBehind,
                          InterruptionsKnown
<1>8. RetryBudget'
  BY <1>1, <1>2, <1>3, <1>4 DEF IndInv, RetryBudget, IsBorn, AttemptsConsumed,
                                QueuedTaskRecord
<1>9. ResultOfLastAttempt'
  BY <1>2, <1>3, <1>4 DEF IndInv, ResultOfLastAttempt, IsBorn, IsQueued,
                          QueuedStatuses
<1>10. KeysIndexed'
  <2> SUFFICES ASSUME NEW s \in Task, IsActive(records'[s]), records'[s].key # None
               PROVE  keys'[records'[s].key] = s
    BY DEF KeysIndexed
  <2>1. CASE s = t
    BY <1>1, <1>2, <1>3, <1>4, <2>1
  <2>2. CASE s # t
    <3>1. records'[s] = records[s] /\ keys[records[s].key] = s
      BY <1>2, <1>4, <2>2 DEF IndInv, KeysIndexed
    <3>2. o.key # records[s].key
      BY <3>1 DEF Enqueue, ActiveHolder
    <3> QED
      BY <1>1, <1>2, <1>4, <3>1, <3>2 DEF QueuedTaskRecord
  <2> QED
    BY <2>1, <2>2
<1>11. RecordsLiveOn
  BY <1>2, <1>3, <1>4, Unmoved DEF RecordsLiveOn, RecordLivesOn, GenerationsStarted
<1>12. AbsentIsBlank'
  BY <1>2, <1>3, <1>4 DEF IndInv, AbsentIsBlank, IsBorn
<1>13. PcMoved(attempts, attempts')
  BY <1>2, <1>4, NoneMoved DEF IndInv
<1> QED
  BY <1>5, <1>7, <1>8, <1>9, <1>10, <1>11, <1>12, <1>13 DEF IndInv, ClaimsMove

\* Cleanup: a key goes only with the terminal record it names.
LEMMA CleanupTerminalStep ==
    ASSUME IndInv, NEW S \in SUBSET Task, CleanupTerminal(S)
    PROVE  IndInv' /\ RecordsLiveOn /\ ClaimsMove
<1>1. \A t \in S : /\ DeleteRecord(records[t]) \in QueuedTaskRecord
                   /\ Moves(records[t], DeleteRecord(records[t]))
  BY DeleteMove DEF IndInv, TypeOK, CleanupTerminal, Moves
<1>2. RecordsStep
  BY <1>1, Unmoved DEF IndInv, TypeOK, RecordsStep, CleanupTerminal
<1>3. TypeOK'
  BY <1>2 DEF IndInv, TypeOK, CleanupTerminal, RecordsStep
<1>4. KeysIndexed'
  <2> SUFFICES ASSUME NEW t \in Task, IsActive(records'[t]), records'[t].key # None
               PROVE  keys'[records'[t].key] = t
    BY DEF KeysIndexed
  <2>1. t \notin S
    BY <1>1 DEF CleanupTerminal, DeleteRecord, IndInv, TypeOK, QueuedTaskRecord,
                IsActive, IsQueued, QueuedStatuses
  <2>2. records'[t] = records[t]
    BY <2>1 DEF CleanupTerminal
  <2>3. keys[records[t].key] = t /\ records[t].key \in Key
    BY <2>2 DEF IndInv, KeysIndexed, TypeOK, QueuedTaskRecord
  <2> QED
    BY <2>1, <2>2, <2>3 DEF CleanupTerminal
<1>5. PcMoved(attempts, attempts')
  BY NoneMoved DEF IndInv, TypeOK, CleanupTerminal
<1>6. RecordsLiveOn
  BY <1>2, <1>5, PcMovedStartsNone DEF RecordsStep, RecordsLiveOn, RecordLivesOn
<1> QED
  BY <1>2, <1>3, <1>4, <1>5, <1>6, MovesKeepClaims DEF IndInv, ClaimsMove

\* A claim: the new attempts have the generation of a record that no attempt
\* has claimed at that generation.
LEMMA ClaimAvailableStep ==
    ASSUME IndInv, NEW w \in Worker, NEW C \in SUBSET Task, ClaimAvailable(w, C)
    PROVE  IndInv' /\ RecordsLiveOn /\ ClaimsMove
<1> DEFINE expired == {t \in Task : IsQueued(records[t]) /\ IsOverdue(records[t])}
           fresh == {NewAttempt(t, w) : t \in C}
<1>1. /\ records \in [Task -> QueuedTaskRecord]
      /\ attempts \subseteq Attempt
      /\ \A t \in C : IsQueued(records[t])
      /\ records' = [t \in Task |->
                       IF t \in C THEN ClaimTask(records[t])
                       ELSE IF t \in expired THEN ExpireRecord(records[t])
                       ELSE records[t]]
      /\ attempts' = attempts \cup fresh
      /\ UNCHANGED <<keys, registrations, missed, phase, outages>>
  BY DEF IndInv, TypeOK, ClaimAvailable, IsClaimable
<1>2. \A t \in Task : IsQueued(records[t]) =>
          /\ ClaimTask(records[t]) \in QueuedTaskRecord
          /\ Starts(records[t], ClaimTask(records[t]))
          /\ ExpireRecord(records[t]) \in QueuedTaskRecord
          /\ EndsWithoutResult(records[t], ExpireRecord(records[t]))
  BY <1>1, QueuedMoves
<1>3. records' \in [Task -> QueuedTaskRecord]
  BY <1>1, <1>2
<1>4. \A b \in fresh :
          /\ b \in Attempt /\ b.task \in C
          /\ b.gen = records[b.task].retry_count
          /\ b.ints = records[b.task].interruptions
          /\ b = NewAttempt(b.task, w)
  BY <1>1 DEF NewAttempt, Attempt, AttemptState, QueuedTaskRecord
<1>5. \A a \in attempts, b \in fresh : a.task = b.task => a.gen # b.gen
  BY <1>1, <1>4 DEF IndInv, ClaimsAreBehind, Attempt, QueuedTaskRecord
<1>6. \A t \in C : /\ records'[t].status = "running"
                   /\ SameClaimData(records[t], records'[t])
  BY <1>1, <1>2 DEF Starts
<1> HIDE DEF expired, fresh
<1>7. TypeOK'
  BY <1>1, <1>3, <1>4 DEF IndInv, TypeOK
<1>8. GenerationRunsOnce'
  BY <1>1, <1>4, <1>5 DEF IndInv, GenerationRunsOnce
\* For the old attempts and for the records, this is an ordinary step.
<1>9. /\ RetryBudget' /\ AbsentIsBlank' /\ KeysIndexed'
      /\ \A t \in Task : records'[t].status = "completed" =>
            /\ records'[t].result = records'[t].retry_count
            /\ \A a \in attempts : a.task = t => a.gen <= records'[t].result
      /\ \A a \in attempts :
            /\ records'[a.task].status # "absent"
            /\ a.gen <= records'[a.task].retry_count
            /\ IsQueued(records'[a.task]) => a.gen < records'[a.task].retry_count
            /\ a.gen = records'[a.task].retry_count =>
                  a.ints = records'[a.task].interruptions
  <2>1. /\ MaxInterruptions \in Nat
        /\ \A a \in attempts : a.task \in Task /\ a.gen \in Nat
    BY <1>1, FleetAssumption DEF Attempt
  <2>2. \A t \in Task :
          /\ records[t] \in QueuedTaskRecord /\ records'[t] \in QueuedTaskRecord
          /\ SameClaimData(records[t], records'[t])
          /\ IsQueued(records'[t]) => IsQueued(records[t])
          /\ records'[t].status = "absent" => records[t].status = "absent"
          /\ records'[t].status = "completed" =>
                records[t].status = "completed" /\ records'[t].result = records[t].result
    <3> TAKE t \in Task
    <3>1. records[t] \in QueuedTaskRecord /\ records'[t] \in QueuedTaskRecord
      BY <1>1, <1>3
    <3>2. \/ records'[t] = records[t]
          \/ Starts(records[t], records'[t])
          \/ EndsWithoutResult(records[t], records'[t])
      BY <1>1, <1>2 DEF expired
    <3> QED
      BY <3>1, <3>2 DEF Starts, EndsWithoutResult, SameClaimData, IsQueued,
                        QueuedStatuses, TerminalStatuses
  <2>3. RetryBudget' /\ AbsentIsBlank'
    BY <2>1, <2>2 DEF IndInv, RetryBudget, AbsentIsBlank, SameClaimData,
                      AttemptsConsumed
  <2>4. KeysIndexed'
    BY <1>1, <2>2, <1>2 DEF IndInv, KeysIndexed, SameClaimData, IsActive, expired
  <2> QED
    BY <2>1, <2>2, <2>3, <2>4 DEF IndInv, ResultOfLastAttempt, ClaimsAreBehind,
                                  InterruptionsKnown, SameClaimData
<1>10. /\ \A b \in fresh : records'[b.task].status = "running"
       /\ \A b \in fresh : b.gen = records'[b.task].retry_count
       /\ \A b \in fresh : b.ints = records'[b.task].interruptions
       /\ \A b \in fresh : b.gen \in Nat
  BY <1>4, <1>6 DEF SameClaimData, Attempt
<1>11. ClaimsAreBehind' /\ InterruptionsKnown'
  BY <1>1, <1>9, <1>10 DEF ClaimsAreBehind, InterruptionsKnown, IsQueued,
                           QueuedStatuses
<1>12. ResultOfLastAttempt'
  BY <1>1, <1>9, <1>10 DEF ResultOfLastAttempt
<1>13. RecordsLiveOn
  <2> SUFFICES ASSUME NEW t \in Task PROVE RecordLivesOn(t)
    BY DEF RecordsLiveOn
  <2>1. CASE t \in C
    <3>1. GenerationsStarted(t)' = GenerationsStarted(t) \cup {records[t].retry_count}
      <4>1. NewAttempt(t, w) \in fresh /\ NewAttempt(t, w).task = t
        BY <2>1 DEF fresh, NewAttempt
      <4>2. \A b \in fresh : b.task = t => b.gen = records[t].retry_count
        BY <1>4
      <4> QED
        BY <1>1, <4>1, <4>2 DEF GenerationsStarted
    <3> QED
      BY <1>1, <1>2, <2>1, <3>1 DEF RecordLivesOn
  <2>2. CASE t \notin C
    <3>1. UNCHANGED GenerationsStarted(t)
      BY <1>1, <1>4, <2>2 DEF GenerationsStarted
    <3>2. Moves(records[t], records'[t])
      BY <1>1, <1>2, <2>2, Unmoved DEF Moves, expired
    <3> QED
      BY <3>1, <3>2 DEF RecordLivesOn
  <2> QED
    BY <2>1, <2>2
<1> QED
  BY <1>7, <1>8, <1>9, <1>11, <1>12, <1>13 DEF IndInv, ClaimsMove

\* Attempts.

\* Copies of records: an attempt knows the generation it claimed.
LEMMA SnapshotKnown ==
    ASSUME SharedRecords = FALSE, NEW a \in attempts
    PROVE  KnownGeneration(a) = a.gen /\ KnownInterruptions(a) = a.ints
  BY DEF KnownGeneration, KnownInterruptions

LEMMA TakeOwnershipStep ==
    ASSUME IndInv, NEW a \in attempts, TakeOwnership(a)
    PROVE  OrdinaryStep
<1>1. a.task \in Task /\ a.worker \in Worker /\ records[a.task] \in QueuedTaskRecord
  BY DEF IndInv, TypeOK, Attempt
<1>2. RecordsStep
  <2>1. CASE records' = records
    BY <2>1, RecordsUnmoved
  <2>2. CASE records' = [records EXCEPT ![a.task] = AssignWorker(@, a.worker)]
    <3> DEFINE q == AssignWorker(records[a.task], a.worker)
    <3>1. q \in QueuedTaskRecord /\ Moves(records[a.task], q)
      BY <1>1, QuietMoves DEF Moves
    <3>2. records' = [records EXCEPT ![a.task] = q]
      BY <2>2
    <3> HIDE DEF q
    <3> QED
      BY <1>1, <3>1, <3>2, OneRecordMoves
  <2> QED
    BY <2>1, <2>2 DEF TakeOwnership
<1>3. PcMoved(attempts, attempts')
  BY WithPcMoved DEF IndInv, TypeOK, TakeOwnership, AttemptState
<1> QED
  BY <1>2, <1>3 DEF OrdinaryStep, TakeOwnership, IndInv, TypeOK

LEMMA BeginExecutionStep ==
    ASSUME IndInv, SharedRecords = FALSE, NEW a \in attempts, BeginExecution(a)
    PROVE  OrdinaryStep
<1>1. a.task \in Task /\ a.worker \in Worker /\ KnownGeneration(a) \in Nat
  BY SnapshotKnown DEF IndInv, TypeOK, Attempt
<1>2. RecordsStep
  BY RecordsUnmoved DEF BeginExecution
<1>3. PcMoved(attempts, attempts')
  BY WithPcMoved DEF IndInv, TypeOK, BeginExecution, AttemptState
<1> QED
  BY <1>1, <1>2, <1>3 DEF OrdinaryStep, BeginExecution, IndInv, TypeOK

\* The fenced write of an ending attempt is an ordinary step when what it
\* writes is a move of the record it is fenced to.
LEMMA SettleStep ==
    ASSUME IndInv, SharedRecords = FALSE, NEW a \in attempts, NEW q,
           BodyEnds(a), Settle(a, q),
           Fenced(records[a.task], a.gen) =>
               q \in QueuedTaskRecord /\ Moves(records[a.task], q)
    PROVE  OrdinaryStep
<1>1. a.task \in Task
  BY DEF IndInv, TypeOK, Attempt
<1>2. RecordsStep
  <2>1. CASE Fenced(records[a.task], a.gen)
    <3>1. records' = [records EXCEPT ![a.task] = q]
      BY <2>1, SnapshotKnown DEF Settle
    <3> QED
      BY <1>1, <2>1, <3>1, OneRecordMoves
  <2>2. CASE ~Fenced(records[a.task], a.gen)
    <3>1. records' = records
      BY <2>2, SnapshotKnown DEF Settle
    <3> QED
      BY <3>1, RecordsUnmoved
  <2> QED
    BY <2>1, <2>2
<1>3. PcMoved(attempts, attempts')
  BY WithPcMoved DEF IndInv, TypeOK, Settle, AttemptState, BodyEnds
<1> QED
  BY <1>2, <1>3 DEF OrdinaryStep, Settle, IndInv, TypeOK

LEMMA OutcomeStep ==
    ASSUME IndInv, SharedRecords = FALSE, NEW a \in attempts, Outcome(a)
    PROVE  OrdinaryStep
<1> DEFINE r == records[a.task]
<1>1. /\ a.task \in Task /\ r \in QueuedTaskRecord
      /\ r.backoff \in BOOLEAN /\ r.interruptions \in Nat /\ MaxInterruptions \in Nat
  BY FleetAssumption DEF IndInv, TypeOK, Attempt, QueuedTaskRecord
<1>2. \A retry, delayed \in BOOLEAN : r.status = "running" =>
          /\ FailTask(r, retry, delayed) \in QueuedTaskRecord
          /\ Moves(r, FailTask(r, retry, delayed))
  BY <1>1, FailMove DEF Moves
<1>3. CASE BodyReturns(a)
  <2>1. BodyEnds(a) /\ Settle(a, CompleteTask(r, a.gen))
    BY <1>3 DEF BodyReturns
  <2>2. Fenced(r, a.gen) => /\ CompleteTask(r, a.gen) \in QueuedTaskRecord
                            /\ Moves(r, CompleteTask(r, a.gen))
    BY <1>1, CompleteMove DEF Fenced, Moves
  <2> QED
    BY <2>1, <2>2, SettleStep
<1>4. CASE FailRecordWithRetry(a)
  <2>1. BodyEnds(a) /\ Settle(a, FailTask(r, TRUE, r.backoff))
    BY <1>4 DEF FailRecordWithRetry
  <2>2. Fenced(r, a.gen) => /\ FailTask(r, TRUE, r.backoff) \in QueuedTaskRecord
                            /\ Moves(r, FailTask(r, TRUE, r.backoff))
    BY <1>1, <1>2 DEF Fenced
  <2> QED
    BY <2>1, <2>2, SettleStep
<1>5. CASE FailRecordWithoutRetry(a)
  <2>1. BodyEnds(a) /\ Settle(a, FailTask(r, FALSE, FALSE))
    BY <1>5 DEF FailRecordWithoutRetry
  <2>2. Fenced(r, a.gen) => /\ FailTask(r, FALSE, FALSE) \in QueuedTaskRecord
                            /\ Moves(r, FailTask(r, FALSE, FALSE))
    BY <1>1, <1>2 DEF Fenced
  <2> QED
    BY <2>1, <2>2, SettleStep
<1>6. CASE HandleJobCancelled(a)
  <2>1. RecordsStep
    <3>1. CASE IsActive(r)
      <4> DEFINE q == CancelTask(r)
      <4>1. records' = [records EXCEPT ![a.task] = q]
        BY <1>6, <3>1 DEF HandleJobCancelled
      <4>2. q \in QueuedTaskRecord /\ Moves(r, q)
        BY <1>1, <3>1, CancelMove DEF Moves
      <4> HIDE DEF q
      <4> QED
        BY <1>1, <4>1, <4>2, OneRecordMoves
    <3>2. CASE ~IsActive(r)
      BY <1>6, <3>2, RecordsUnmoved DEF HandleJobCancelled
    <3> QED
      BY <3>1, <3>2
  <2>2. PcMoved(attempts, attempts')
    BY <1>6, WithPcMoved DEF IndInv, TypeOK, HandleJobCancelled, AttemptState,
                                BodyEnds
  <2> QED
    BY <1>6, <2>1, <2>2 DEF OrdinaryStep, HandleJobCancelled, IndInv, TypeOK
<1>7. CASE SettlingCallFails(a)
  <2>1. RecordsStep
    BY <1>7, RecordsUnmoved DEF SettlingCallFails
  <2>2. PcMoved(attempts, attempts')
    BY <1>7, WithPcMoved DEF IndInv, TypeOK, SettlingCallFails, AttemptState,
                                BodyEnds
  <2> QED
    BY <1>7, <2>1, <2>2 DEF OrdinaryStep, SettlingCallFails, IndInv, TypeOK
<1>8. CASE CancellationSurfaces(a)
  <2>1. Fenced(r, a.gen) => r \in QueuedTaskRecord /\ Moves(r, r)
    BY <1>1, Unmoved
  <2>2. Fenced(r, a.gen) => /\ Interrupted(a) \in QueuedTaskRecord
                            /\ Moves(r, Interrupted(a))
    <3> SUFFICES ASSUME Fenced(r, a.gen)
                 PROVE  Interrupted(a) \in QueuedTaskRecord /\ Moves(r, Interrupted(a))
      OBVIOUS
    <3>1. r.status = "running" /\ a.ints = r.interruptions
      BY DEF Fenced, IndInv, InterruptionsKnown
    <3>2. CASE a.ints >= MaxInterruptions
      <4>1. Interrupted(a) = FailTask(r, TRUE, FALSE)
        BY <3>2, SnapshotKnown DEF Interrupted
      <4> QED
        BY <1>2, <3>1, <4>1
    <3>3. CASE ~(a.ints >= MaxInterruptions) /\ r.worker_id = a.worker
      <4>1. Interrupted(a) = InterruptTask(r)
        BY <3>3, SnapshotKnown DEF Interrupted
      <4>2. r.interruptions < MaxInterruptions
        BY <1>1, <3>1, <3>3
      <4> QED
        BY <1>1, <3>1, <4>1, <4>2, InterruptMove DEF Moves
    <3>4. CASE ~(a.ints >= MaxInterruptions) /\ r.worker_id # a.worker
      <4>1. Interrupted(a) = r
        BY <3>4, SnapshotKnown DEF Interrupted
      <4> QED
        BY <1>1, <4>1, Unmoved
    <3> QED
      BY <3>2, <3>3, <3>4
  <2>3. BodyEnds(a) /\ (Settle(a, Interrupted(a)) \/ Settle(a, r))
    BY <1>8 DEF CancellationSurfaces, BodyEnds
  <2> QED
    BY <2>1, <2>2, <2>3, SettleStep
<1> QED
  BY <1>3, <1>4, <1>5, <1>6, <1>7, <1>8 DEF Outcome

\* The worker's own steps.

LEMMA TrackExecutionStep ==
    ASSUME IndInv, NEW w \in Worker, TrackExecution(w)
    PROVE  OrdinaryStep
<1> DEFINE D == {a \in attempts : a.worker = w /\ a.pc = "owned"}
           g == [a \in attempts |-> "tracked"]
<1>1. /\ g \in [attempts -> AttemptState]
      /\ \A a \in attempts : a \in D /\ a.pc = "gone" => g[a] = "gone"
  BY DEF AttemptState
<1>2. attempts' = {IF a \in D THEN [a EXCEPT !.pc = g[a]] ELSE a : a \in attempts}
  BY DEF TrackExecution
<1> HIDE DEF D, g
<1>3. PcMoved(attempts, attempts')
  BY <1>1, <1>2, SomePcMoved DEF IndInv, TypeOK
<1>4. RecordsStep
  BY RecordsUnmoved DEF TrackExecution
<1> QED
  BY <1>3, <1>4 DEF OrdinaryStep, TrackExecution, IndInv, TypeOK

LEMMA LoopIterationFailsStep ==
    ASSUME IndInv, NEW w \in Worker, LoopIterationFails(w)
    PROVE  OrdinaryStep
<1> DEFINE D == InFlightBatch(w)
           g == [a \in attempts |-> "gone"]
<1>1. /\ g \in [attempts -> AttemptState]
      /\ \A a \in attempts : a \in D /\ a.pc = "gone" => g[a] = "gone"
  BY DEF AttemptState, InFlightBatch
<1>2. attempts' = {IF a \in D THEN [a EXCEPT !.pc = g[a]] ELSE a : a \in attempts}
  BY DEF LoopIterationFails
<1> HIDE DEF D, g
<1>3. PcMoved(attempts, attempts')
  BY <1>1, <1>2, SomePcMoved DEF IndInv, TypeOK
<1>4. RecordsStep
  BY RecordsUnmoved DEF LoopIterationFails
<1> QED
  BY <1>3, <1>4 DEF OrdinaryStep, LoopIterationFails, IndInv, TypeOK

LEMMA FinishExecutionStep ==
    ASSUME IndInv, NEW a \in attempts, FinishExecution(a)
    PROVE  OrdinaryStep
<1>1. a.task \in Task /\ a.worker \in Worker
  BY DEF IndInv, TypeOK, Attempt
<1>2. RecordsStep
  BY RecordsUnmoved DEF FinishExecution
<1>3. PcMoved(attempts, attempts')
  BY WithPcMoved DEF IndInv, TypeOK, FinishExecution, AttemptState
<1> QED
  BY <1>1, <1>2, <1>3 DEF OrdinaryStep, FinishExecution, IndInv, TypeOK

\* A bulk touch of the records that w holds.
LEMMA TouchMoves ==
    ASSUME IndInv, NEW w \in Worker,
           records' = [t \in Task |-> IF t \in Touched(w) THEN TouchHeartbeat(records[t])
                                      ELSE records[t]]
    PROVE  RecordsStep
<1>1. \A t \in Task : /\ TouchHeartbeat(records[t]) \in QueuedTaskRecord
                      /\ Moves(records[t], TouchHeartbeat(records[t]))
  BY QuietMoves DEF IndInv, TypeOK, Moves
<1> QED
  BY <1>1, Unmoved DEF RecordsStep, IndInv, TypeOK

\* Cancelling the coroutines of a set of attempts.
LEMMA CancelledPcMoved ==
    ASSUME IndInv, NEW D,
           attempts' = {IF a \in D THEN [a EXCEPT !.pc = AfterCancel(a.pc)] ELSE a :
                          a \in attempts}
    PROVE  PcMoved(attempts, attempts')
<1> DEFINE g == [a \in attempts |-> AfterCancel(a.pc)]
<1>1. /\ g \in [attempts -> AttemptState]
      /\ \A a \in attempts : a \in D /\ a.pc = "gone" => g[a] = "gone"
  BY AfterCancelType DEF IndInv, TypeOK, Attempt
<1>2. attempts' = {IF a \in D THEN [a EXCEPT !.pc = g[a]] ELSE a : a \in attempts}
  OBVIOUS
<1> HIDE DEF g
<1>3. PcMoved(attempts, {IF a \in D THEN [a EXCEPT !.pc = g[a]] ELSE a : a \in attempts})
  BY <1>1, SomePcMoved DEF IndInv, TypeOK
<1> QED
  BY <1>2, <1>3

LEMMA HeartbeatTouchStep ==
    ASSUME IndInv, NEW w \in Worker, HeartbeatTouch(w)
    PROVE  OrdinaryStep
<1>1. RecordsStep
  BY TouchMoves DEF HeartbeatTouch
<1>2. missed' \in [Worker -> SUBSET Task]
  BY DEF HeartbeatTouch, Missed, IndInv, TypeOK
<1> QED
  BY <1>1, <1>2, NoneMoved DEF OrdinaryStep, HeartbeatTouch, IndInv, TypeOK

LEMMA HeartbeatMissStep ==
    ASSUME IndInv, NEW w \in Worker, NEW t \in Task,
           NEW b \in BOOLEAN, NEW cancels \in BOOLEAN, HeartbeatMiss(w, t, b, cancels)
    PROVE  OrdinaryStep
<1> DEFINE lost == b /\ registrations[w][t] # None
           D == {a \in attempts :
                   /\ lost /\ cancels
                   /\ a \in RunningTasks(w) /\ a.task = t
                   /\ \A c \in RunningTasks(w) : c.task = t => a.gen <= c.gen}
<1>1. attempts' = {IF a \in D THEN [a EXCEPT !.pc = AfterCancel(a.pc)] ELSE a :
                     a \in attempts}
  BY DEF HeartbeatMiss
<1> HIDE DEF D
<1>2. PcMoved(attempts, attempts')
  BY <1>1, CancelledPcMoved
<1>3. /\ registrations' \in [Worker -> [Task -> Nat \cup {None}]]
      /\ missed' \in [Worker -> SUBSET Task]
  BY DEF HeartbeatMiss, IndInv, TypeOK
<1> QED
  BY <1>2, <1>3, RecordsUnmoved DEF OrdinaryStep, HeartbeatMiss, IndInv, TypeOK

LEMMA CancelRunningOfCancelledStep ==
    ASSUME IndInv, NEW w \in Worker, CancelRunningOfCancelled(w)
    PROVE  OrdinaryStep
<1>1. RecordsStep
  BY RecordsUnmoved DEF CancelRunningOfCancelled
<1> DEFINE D == {a \in RunningTasks(w) :
                   /\ records[a.task].status = "cancelled"
                   /\ \A b \in RunningTasks(w) : b.task = a.task => b.gen <= a.gen
                   /\ AfterCancel(a.pc) # a.pc}
<1>2. attempts' = {IF a \in D THEN [a EXCEPT !.pc = AfterCancel(a.pc)] ELSE a :
                     a \in attempts}
  BY DEF CancelRunningOfCancelled
<1> HIDE DEF D
<1>3. PcMoved(attempts, attempts')
  BY <1>2, CancelledPcMoved
<1> QED
  BY <1>1, <1>3 DEF OrdinaryStep, CancelRunningOfCancelled, IndInv, TypeOK

\* The steps of start(), stop() and of the process.
LEMMA LifecycleStepOrdinary ==
    ASSUME IndInv, NEW w \in Worker, LifecycleStep(w)
    PROVE  OrdinaryStep
<1>1. CASE Stop(w) \/ Start(w)
  <2>1. UNCHANGED <<records, keys, attempts, registrations, missed>>
    BY <1>1 DEF Stop, Start
  <2>2. phase' \in [Worker -> WorkerPhase] /\ outages' \in Nat
    BY <1>1 DEF Stop, Start, IndInv, TypeOK, WorkerPhase
  <2> QED
    BY <2>1, <2>2, RecordsUnmoved, NoneMoved DEF OrdinaryStep, IndInv, TypeOK
<1>2. CASE CancelRunning(w)
  <2> DEFINE D == {a \in attempts : a.worker = w}
  <2>1. attempts' = {IF a \in D THEN [a EXCEPT !.pc = AfterCancel(a.pc)] ELSE a :
                       a \in attempts}
    BY <1>2 DEF CancelRunning
  <2> HIDE DEF D
  <2>2. PcMoved(attempts, attempts')
    BY <2>1, CancelledPcMoved
  <2> QED
    BY <1>2, <2>2, RecordsUnmoved DEF OrdinaryStep, CancelRunning, IndInv, TypeOK
<1>3. CASE HandOff(w)
  <2>1. \A t \in Task : /\ NullHeartbeat(records[t]) \in QueuedTaskRecord
                        /\ Moves(records[t], NullHeartbeat(records[t]))
    BY QuietMoves DEF IndInv, TypeOK, Moves
  <2>2. \A t \in Task : records'[t] \in {NullHeartbeat(records[t]), records[t]}
    BY <1>3 DEF HandOff
  <2>3. records' \in [Task -> QueuedTaskRecord]
    BY <1>3, <2>1 DEF HandOff, IndInv, TypeOK
  <2>4. RecordsStep
    BY <2>1, <2>2, <2>3, Unmoved DEF RecordsStep, IndInv, TypeOK
  <2>5. phase' \in [Worker -> WorkerPhase]
    BY <1>3 DEF HandOff, IndInv, TypeOK, WorkerPhase
  <2> QED
    BY <1>3, <2>4, <2>5, NoneMoved DEF OrdinaryStep, HandOff, IndInv, TypeOK
<1>4. CASE CloseHeartbeats(w)
  <2>1. RecordsStep
    BY <1>4, TouchMoves DEF CloseHeartbeats
  <2>2. /\ phase' \in [Worker -> WorkerPhase]
        /\ registrations' \in [Worker -> [Task -> Nat \cup {None}]]
    BY <1>4 DEF CloseHeartbeats, IndInv, TypeOK, WorkerPhase
  <2> QED
    BY <1>4, <2>1, <2>2, NoneMoved DEF OrdinaryStep, CloseHeartbeats, IndInv, TypeOK
<1>5. CASE Exit(w) \/ Crash(w)
  <2>1. ProcessEnds(w) /\ outages' \in Nat
    BY <1>5 DEF Exit, Crash, IndInv, TypeOK
  <2> DEFINE D == {a \in attempts : a.worker = w}
             g == [a \in attempts |-> "gone"]
  <2>2. /\ g \in [attempts -> AttemptState]
        /\ \A a \in attempts : a \in D /\ a.pc = "gone" => g[a] = "gone"
    BY DEF AttemptState
  <2>3. attempts' = {IF a \in D THEN [a EXCEPT !.pc = g[a]] ELSE a : a \in attempts}
    BY <2>1 DEF ProcessEnds
  <2> HIDE DEF D, g
  <2>4. PcMoved(attempts, attempts')
    BY <2>2, <2>3, SomePcMoved DEF IndInv, TypeOK
  <2>5. /\ phase' \in [Worker -> WorkerPhase]
        /\ registrations' \in [Worker -> [Task -> Nat \cup {None}]]
        /\ missed' \in [Worker -> SUBSET Task]
    BY <2>1 DEF ProcessEnds, IndInv, TypeOK, WorkerPhase
  <2>6. RecordsStep
    BY <2>1, RecordsUnmoved DEF ProcessEnds
  <2> QED
    BY <2>1, <2>4, <2>5, <2>6 DEF OrdinaryStep, ProcessEnds
<1> QED
  BY <1>1, <1>2, <1>3, <1>4, <1>5 DEF LifecycleStep

----------------------------------------------------------------------------
\* The inductive invariant holds.

LEMMA InitInv == Init => IndInv
<1> SUFFICES ASSUME Init PROVE IndInv
  OBVIOUS
<1>1. NoRecord \in QueuedTaskRecord
  BY DEF NoRecord, QueuedTaskRecord
<1>2. TypeOK
  BY <1>1 DEF Init, TypeOK, WorkerPhase
<1>3. \A t \in Task : /\ records[t].status = "absent" /\ records[t].retry_count = 0
                      /\ records[t].interruptions = 0 /\ records[t].max_retries = 0
  BY DEF Init, NoRecord
<1>4. RetryBudget /\ ResultOfLastAttempt
  BY <1>3, FleetAssumption DEF RetryBudget, ResultOfLastAttempt, AttemptsConsumed
<1>5. GenerationRunsOnce /\ ClaimsAreBehind /\ InterruptionsKnown
  BY DEF Init, GenerationRunsOnce, ClaimsAreBehind, InterruptionsKnown
<1>6. KeysIndexed /\ AbsentIsBlank
  BY <1>3 DEF KeysIndexed, AbsentIsBlank, IsActive, IsQueued, QueuedStatuses
<1> QED
  BY <1>2, <1>4, <1>5, <1>6 DEF IndInv

LEMMA NextInv ==
    ASSUME SharedRecords = FALSE, IndInv, [Next]_vars
    PROVE  IndInv' /\ RecordsLiveOn /\ ClaimsMove
<1>1. CASE ClientStep
  BY <1>1, EnqueueStep, CancelTasksStep, OrdinaryKeepsInv DEF ClientStep
<1>2. CASE ClockStep
  BY <1>2, ClockStepOrdinary, OrdinaryKeepsInv DEF ClockStep
<1>3. CASE SweepStep
  BY <1>3, StaleSweepStep, ExpireOverdueStep, CleanupTerminalStep, OrdinaryKeepsInv
     DEF SweepStep, StaleSweep
<1>4. CASE \E a \in attempts : AttemptStep(a)
  <2>1. PICK a \in attempts : AttemptStep(a)
    BY <1>4
  <2> QED
    BY <2>1, TakeOwnershipStep, BeginExecutionStep, OutcomeStep, FinishExecutionStep,
       OrdinaryKeepsInv DEF AttemptStep
<1>5. CASE \E w \in Worker : LoopStep(w) \/ LifecycleStep(w)
  <2>1. PICK w \in Worker : LoopStep(w) \/ LifecycleStep(w)
    BY <1>5
  <2>2. CASE LoopStep(w)
    BY <2>2, ClaimAvailableStep, TrackExecutionStep, LoopIterationFailsStep,
       HeartbeatTouchStep, HeartbeatMissStep, CancelRunningOfCancelledStep,
       OrdinaryKeepsInv DEF LoopStep
  <2>3. CASE LifecycleStep(w)
    BY <2>3, LifecycleStepOrdinary, OrdinaryKeepsInv
  <2> QED
    BY <2>1, <2>2, <2>3
<1>6. CASE UNCHANGED vars
  <2>1. OrdinaryStep
    BY <1>6, RecordsUnmoved, NoneMoved DEF vars, OrdinaryStep, IndInv, TypeOK
  <2> QED
    BY <2>1, OrdinaryKeepsInv
<1> QED
  BY <1>1, <1>2, <1>3, <1>4, <1>5, <1>6 DEF Next

LEMMA InvHolds ==
    ASSUME SharedRecords = FALSE
    PROVE  Spec => []IndInv
  BY InitInv, NextInv, PTL DEF Spec

\* The state of the store, of the attempts and of the workers keeps its shape
\* through every interleaving of claims, settlements, sweeps and outages.
THEOREM TypeCorrect ==
    ASSUME SharedRecords = FALSE
    PROVE  Spec => []TypeOK
  BY InvHolds, PTL DEF IndInv

\* For any number of workers and tasks no generation of a record is run twice:
\* every path back to the queue (fail_task, interrupt_task,
\* requeue_stale_running) moves the generation past every claim ever made.
THEOREM GenerationsRunOnce ==
    ASSUME SharedRecords = FALSE
    PROVE  Spec => []GenerationRunsOnce
  BY InvHolds, PTL DEF IndInv

\* Retries and stale recoveries together never exceed max_retries, and free
\* interruptions never exceed the workers' limit: the count an attempt took
\* with its claim is the record's, whenever its fence holds.
THEOREM BudgetIsKept ==
    ASSUME SharedRecords = FALSE
    PROVE  Spec => []RetryBudget
  BY InvHolds, PTL DEF IndInv

\* A stored result is that of the last generation: complete_task is fenced,
\* and nothing is claimed after it.
THEOREM ResultIsOfLastAttempt ==
    ASSUME SharedRecords = FALSE
    PROVE  Spec => []ResultOfLastAttempt
  BY InvHolds, PTL DEF IndInv

LEMMA KeysIndexedUnique ==
    ASSUME TypeOK, KeysIndexed
    PROVE  OneActivePerKey
  BY DEF KeysIndexed, OneActivePerKey

\* A deduplication key has one active record, because the index names every
\* active keyed record and cleanup drops only the entry of what it deletes.
THEOREM KeysAreUnique ==
    ASSUME SharedRecords = FALSE
    PROVE  Spec => []OneActivePerKey
<1>1. IndInv => OneActivePerKey
  BY KeysIndexedUnique DEF IndInv
<1> QED
  BY <1>1, InvHolds, PTL

\* No step puts a running record back in the queue at the same generation.
THEOREM RequeuesBumpGeneration ==
    ASSUME SharedRecords = FALSE
    PROVE  Spec => RequeueBumpsGeneration
<1> DEFINE Bumps == \A t \in Task :
                      records[t].status = "running" /\ IsQueued(records'[t]) =>
                          records'[t].retry_count = records[t].retry_count + 1
<1>1. IndInv /\ [Next]_vars => [Bumps]_vars
  <2> SUFFICES ASSUME IndInv, [Next]_vars, NEW t \in Task,
                      records[t].status = "running", IsQueued(records'[t])
               PROVE  records'[t].retry_count = records[t].retry_count + 1
    OBVIOUS
  <2>1. \/ Moves(records[t], records'[t])
        \/ IsBorn(records[t], records'[t])
        \/ Starts(records[t], records'[t])
    BY NextInv DEF RecordsLiveOn, RecordLivesOn
  <2> QED
    BY <2>1 DEF Moves, Stays, Starts, Completes, EndsWithoutResult, Retries,
                IsHandedBack, IsPurged, IsBorn, IsQueued, IsTerminal, QueuedStatuses,
                TerminalStatuses
<1> QED
  BY <1>1, InvHolds, PTL DEF Spec, RequeueBumpsGeneration

----------------------------------------------------------------------------
\* The records live the promised life.

LEMMA PromisedMove ==
    ASSUME NEW x, NEW y, Promised!Move(x, y)
    PROVE  Lifecycle!Move(x, y)
  BY DEF Promised!Move, Promised!Enqueued, Promised!Started, Promised!Requeued,
         Promised!Ended, Promised!Purged, Promised!Unborn,
         Lifecycle!Move, Lifecycle!Enqueued, Lifecycle!Started, Lifecycle!Requeued,
         Lifecycle!Ended, Lifecycle!Purged, Lifecycle!Unborn

\* What one record and its claims do is a move of its life, or nothing.
LEMMA LifeMoves ==
    ASSUME IndInv, IndInv', NEW t \in Task, RecordLivesOn(t)
    PROVE  LifeOf(t)' = LifeOf(t) \/ Lifecycle!Move(LifeOf(t), LifeOf(t)')
<1> DEFINE r == records[t]
           q == records'[t]
           S == GenerationsStarted(t)
<1>1. /\ r \in QueuedTaskRecord /\ q \in QueuedTaskRecord
      /\ MaxInterruptions \in Nat
      /\ r.retry_count \in Nat /\ r.interruptions \in Nat /\ r.max_retries \in Nat
  BY FleetAssumption DEF IndInv, TypeOK, QueuedTaskRecord
<1>2. /\ LifeOf(t) = LifeOfRecord(r, MaxInterruptions, S)
      /\ LifeOf(t)' = LifeOfRecord(q, MaxInterruptions, S')
  BY DEF LifeOf, GenerationsStarted
<1>3. /\ r.status = "absent" => S = {} /\ r.retry_count = 0
      /\ IsQueued(r) => r.retry_count \notin S
      /\ AttemptsConsumed(r) <= r.max_retries /\ r.interruptions <= MaxInterruptions
  <2>1. \A a \in attempts : a.task = t =>
           /\ r.status # "absent" /\ a.gen \in Nat
           /\ IsQueued(r) => a.gen < r.retry_count
    BY DEF IndInv, TypeOK, ClaimsAreBehind, Attempt
  <2>2. /\ r.status = "absent" => S = {}
        /\ IsQueued(r) => r.retry_count \notin S
    BY <1>1, <2>1 DEF GenerationsStarted
  <2> QED
    BY <2>2 DEF IndInv, AbsentIsBlank, RetryBudget
<1>4. \/ (Moves(r, q) \/ IsBorn(r, q)) /\ S' = S
      \/ Starts(r, q) /\ S' = S \cup {r.retry_count}
  BY DEF RecordLivesOn, GenerationsStarted
<1> HIDE DEF r, q, S
<1>5. CASE Starts(r, q) /\ S' = S \cup {r.retry_count}
  BY <1>1, <1>2, <1>3, <1>5, LifeStarts, PromisedMove
     DEF Starts, SameClaimData, SameCourse
<1>6. CASE IsBorn(r, q) /\ S' = S
  BY <1>1, <1>2, <1>3, <1>6, LifeBegins, PromisedMove DEF IsBorn
<1>7. CASE Stays(r, q) /\ S' = S
  BY <1>1, <1>2, <1>7, LifeStays DEF Stays, SameClaimData, SameCourse
<1>8. CASE (Completes(r, q) \/ EndsWithoutResult(r, q)) /\ S' = S
  <2>1. SameCourse(r, q) /\ IsActive(r) /\ IsTerminal(q)
    BY <1>8 DEF Completes, EndsWithoutResult, SameClaimData, SameCourse, IsActive,
                IsTerminal, TerminalStatuses
  <2> QED
    BY <1>1, <1>2, <1>8, <2>1, LifeEnds, PromisedMove
<1>9. CASE /\ \/ Retries(r, q)
              \/ IsHandedBack(r, q) /\ r.interruptions < MaxInterruptions
           /\ S' = S
  <2>1. /\ r.status = "running" /\ IsQueued(q) /\ q.max_retries = r.max_retries
        /\ q.retry_count = r.retry_count + 1
        /\ r.retry_count < r.max_retries + MaxInterruptions
    BY <1>1, <1>3, <1>9 DEF Retries, IsHandedBack, AttemptsConsumed
  <2> QED
    BY <1>1, <1>2, <1>9, <2>1, LifeRequeued, PromisedMove
<1>10. CASE IsPurged(r, q) /\ S' = S
  BY <1>1, <1>2, <1>10, LifePurged, PromisedMove DEF IsPurged, SameClaimData, SameCourse
<1> QED
  BY <1>4, <1>5, <1>6, <1>7, <1>8, <1>9, <1>10 DEF Moves

\* The fleet implements TaskLifecycle: whatever workers, clients, sweeps and
\* crashes do, every record runs through finitely many generations, each
\* started once, and ends once.
THEOREM RecordsLiveThePromisedLife ==
    ASSUME SharedRecords = FALSE
    PROVE  Spec => LivesThePromisedLife
<1>1. Init => Lifecycle!Init
  <2> SUFFICES ASSUME Init, NEW t \in Task PROVE LifeOf(t) = Lifecycle!Unborn
    BY DEF Lifecycle!Init
  <2>1. records[t] = NoRecord /\ NoRecord.status = "absent" /\ NoRecord.retry_count = 0
    BY DEF Init, NoRecord
  <2>2. NoRecord \in QueuedTaskRecord
    BY DEF NoRecord, QueuedTaskRecord
  <2>3. {a.gen : a \in {b \in attempts : b.task = t}} = {}
    BY DEF Init
  <2> QED
    BY <2>1, <2>2, <2>3, LifeStates DEF LifeOf, LifeOfRecord, Lifecycle!Unborn
<1>2. IndInv /\ IndInv' /\ [Next]_vars => [Lifecycle!Next]_([t \in Task |-> LifeOf(t)])
  <2> SUFFICES ASSUME IndInv, IndInv', [Next]_vars, NEW t \in Task
               PROVE  LifeOf(t)' = LifeOf(t) \/ Lifecycle!Move(LifeOf(t), LifeOf(t)')
    BY DEF Lifecycle!Next
  <2>1. RecordLivesOn(t)
    BY NextInv DEF RecordsLiveOn
  <2> QED
    BY <2>1, LifeMoves
<1> QED
  BY <1>1, <1>2, InvHolds, PTL DEF Spec, LivesThePromisedLife, Lifecycle!Spec

----------------------------------------------------------------------------
\* Leases.

HoldsLease(pc) == pc \in {"executing", "cancelling", "settled"}

\* Every attempt that may hold a lease is still there and still may.
HoldersStay ==
    \A a \in attempts : HoldsLease(a.pc) =>
        \E b \in attempts' : SameClaim(a, b) /\ HoldsLease(b.pc)

\* A registration that is left has its holder left.
LEMMA LeasesCarriedOver ==
    ASSUME NoOrphanLease,
           \A w \in Worker, t \in Task : registrations'[w][t] # None =>
               /\ registrations'[w][t] = registrations[w][t]
               /\ \A a \in attempts : a.worker = w /\ a.task = t /\ HoldsLease(a.pc) =>
                     \E b \in attempts' : SameClaim(a, b) /\ HoldsLease(b.pc)
    PROVE  NoOrphanLease'
<1> SUFFICES ASSUME NEW w \in Worker, NEW t \in Task, registrations'[w][t] # None
             PROVE  \E b \in attempts' :
                       /\ b.worker = w /\ b.task = t /\ b.gen = registrations'[w][t]
                       /\ HoldsLease(b.pc)
  BY DEF NoOrphanLease, RunningTasks, HoldsLease
<1>1. PICK a \in attempts : /\ a.worker = w /\ a.task = t
                            /\ a.gen = registrations[w][t] /\ HoldsLease(a.pc)
  BY DEF NoOrphanLease, RunningTasks, HoldsLease
<1>2. PICK b \in attempts' : SameClaim(a, b) /\ HoldsLease(b.pc)
  BY <1>1
<1> QED
  BY <1>1, <1>2 DEF SameClaim

LEMMA HoldersStayKeepsLeases ==
    ASSUME NoOrphanLease, HoldersStay,
           \A w \in Worker, t \in Task : registrations'[w][t] \in {None, registrations[w][t]}
    PROVE  NoOrphanLease'
  BY LeasesCarriedOver DEF HoldersStay

LEMMA OldAttemptsStay ==
    ASSUME attempts \subseteq attempts'
    PROVE  HoldersStay
  BY DEF HoldersStay, SameClaim

LEMMA OneAttemptMoves ==
    ASSUME TypeOK, NEW a \in attempts, NEW p, HoldsLease(a.pc) => HoldsLease(p),
           attempts' = WithPc(a, p)
    PROVE  HoldersStay
<1> SUFFICES ASSUME NEW b \in attempts, HoldsLease(b.pc)
             PROVE  \E c \in attempts' : SameClaim(b, c) /\ HoldsLease(c.pc)
  BY DEF HoldersStay
<1>1. CASE b # a
  BY <1>1 DEF WithPc, SameClaim
<1>2. CASE b = a
  <2>1. /\ SameClaim(a, [a EXCEPT !.pc = p]) /\ [a EXCEPT !.pc = p].pc = p
        /\ [a EXCEPT !.pc = p] \in attempts'
    BY DEF TypeOK, Attempt, SameClaim, WithPc
  <2> QED
    BY <1>2, <2>1
<1> QED
  BY <1>1, <1>2

\* The attempts of D are cancelled, and a coroutine that began survives that.
LEMMA CancelledHoldersStay ==
    ASSUME TypeOK, NEW D,
           attempts' = {IF a \in D THEN [a EXCEPT !.pc = AfterCancel(a.pc)] ELSE a :
                          a \in attempts}
    PROVE  HoldersStay
<1> SUFFICES ASSUME NEW b \in attempts, HoldsLease(b.pc)
             PROVE  \E c \in attempts' : SameClaim(b, c) /\ HoldsLease(c.pc)
  BY DEF HoldersStay
<1>1. HoldsLease(AfterCancel(b.pc))
  BY DEF AfterCancel, HoldsLease
<1>2. /\ SameClaim(b, [b EXCEPT !.pc = AfterCancel(b.pc)])
      /\ [b EXCEPT !.pc = AfterCancel(b.pc)].pc = AfterCancel(b.pc)
      /\ SameClaim(b, b)
  BY DEF TypeOK, Attempt, SameClaim
<1>3. (IF b \in D THEN [b EXCEPT !.pc = AfterCancel(b.pc)] ELSE b) \in attempts'
  OBVIOUS
<1> QED
  BY <1>1, <1>2, <1>3

\* The attempts of D had not begun.
LEMMA OthersHoldersStay ==
    ASSUME TypeOK, NEW D, \A a \in attempts : a \in D => ~HoldsLease(a.pc), NEW p,
           attempts' = {IF a \in D THEN [a EXCEPT !.pc = p] ELSE a : a \in attempts}
    PROVE  HoldersStay
<1> SUFFICES ASSUME NEW b \in attempts, HoldsLease(b.pc)
             PROVE  \E c \in attempts' : SameClaim(b, c) /\ HoldsLease(c.pc)
  BY DEF HoldersStay
<1>1. (IF b \in D THEN [b EXCEPT !.pc = p] ELSE b) \in attempts' /\ b \notin D
  OBVIOUS
<1> QED
  BY <1>1 DEF SameClaim

\* Steps that register nothing and end no coroutine that has begun.
LEMMA QuietLeaseStep ==
    ASSUME TypeOK, UNCHANGED attempts,
           \A w \in Worker, t \in Task :
               registrations'[w][t] \in {None, registrations[w][t]}
    PROVE  NoOrphanLease => NoOrphanLease'
  BY OldAttemptsStay, HoldersStayKeepsLeases

LEMMA ClearedLease ==
    ASSUME TypeOK, NEW w \in Worker,
           registrations' = [registrations EXCEPT ![w] = [t \in Task |-> None]]
    PROVE  \A v \in Worker, t \in Task :
               registrations'[v][t] = IF v = w THEN None ELSE registrations[v][t]
  BY DEF TypeOK

LEMMA AttemptLeaseStep ==
    ASSUME SharedRecords = FALSE, TypeOK, NoOrphanLease,
           NEW a \in attempts, AttemptStep(a)
    PROVE  NoOrphanLease'
<1>1. CASE TakeOwnership(a)
  <2>1. UNCHANGED registrations /\ ~HoldsLease(a.pc)
    BY <1>1 DEF TakeOwnership, HoldsLease
  <2>2. attempts' = WithPc(a, "owned") \/ attempts' = WithPc(a, "gone")
    BY <1>1 DEF TakeOwnership
  <2> QED
    BY <2>1, <2>2, OneAttemptMoves, HoldersStayKeepsLeases
<1>2. CASE Outcome(a)
  <2>1. UNCHANGED registrations /\ attempts' = WithPc(a, "settled")
    BY <1>2 DEF Outcome, BodyReturns, FailRecordWithRetry, FailRecordWithoutRetry,
         HandleJobCancelled, SettlingCallFails, CancellationSurfaces, Settle
  <2> QED
    BY <2>1, OneAttemptMoves, HoldersStayKeepsLeases DEF HoldsLease
<1>3. CASE BeginExecution(a)
  <2> DEFINE b == [a EXCEPT !.pc = "executing"]
  <2>1. /\ a.worker \in Worker /\ a.task \in Task
        /\ SameClaim(a, b) /\ HoldsLease(b.pc) /\ b \in attempts'
    BY <1>3 DEF BeginExecution, WithPc, TypeOK, Attempt, SameClaim, HoldsLease
  <2>2. HoldersStay
    BY <1>3, OneAttemptMoves DEF BeginExecution, HoldsLease
  <2>3. \A w \in Worker, t \in Task :
           registrations'[w][t] = IF w = a.worker /\ t = a.task THEN a.gen
                                  ELSE registrations[w][t]
    BY <1>3, <2>1 DEF BeginExecution, KnownGeneration, TypeOK
  <2> HIDE DEF b
  <2> SUFFICES ASSUME NEW w \in Worker, NEW t \in Task, registrations'[w][t] # None
               PROVE  \E c \in attempts' :
                         /\ c.worker = w /\ c.task = t /\ c.gen = registrations'[w][t]
                         /\ HoldsLease(c.pc)
    BY DEF NoOrphanLease, RunningTasks, HoldsLease
  <2>4. CASE w = a.worker /\ t = a.task
    BY <2>1, <2>3, <2>4 DEF SameClaim
  <2>5. CASE ~(w = a.worker /\ t = a.task)
    <3>1. registrations'[w][t] = registrations[w][t]
      BY <2>3, <2>5
    <3>2. PICK c \in attempts : /\ c.worker = w /\ c.task = t
                                /\ c.gen = registrations[w][t] /\ HoldsLease(c.pc)
      BY <3>1 DEF NoOrphanLease, RunningTasks, HoldsLease
    <3> QED
      BY <2>2, <3>1, <3>2 DEF HoldersStay, SameClaim
  <2> QED
    BY <2>4, <2>5
<1>4. CASE FinishExecution(a)
  <2>1. a.worker \in Worker /\ a.task \in Task
    BY DEF TypeOK, Attempt
  <2>2. \A w \in Worker, t \in Task :
           registrations'[w][t] = IF w = a.worker /\ t = a.task THEN None
                                  ELSE registrations[w][t]
    BY <1>4, <2>1 DEF FinishExecution, TypeOK
  <2>3. \A c \in attempts : ~(c.worker = a.worker /\ c.task = a.task) => c \in attempts'
    BY <1>4 DEF FinishExecution, WithPc
  <2> QED
    BY <2>2, <2>3, LeasesCarriedOver DEF SameClaim
<1> QED
  BY <1>1, <1>2, <1>3, <1>4 DEF AttemptStep

LEMMA LoopLeaseStep ==
    ASSUME TypeOK, NoOrphanLease, NEW w \in Worker, LoopStep(w)
    PROVE  NoOrphanLease'
<1>1. CASE \E C \in SUBSET Task : ClaimAvailable(w, C)
  BY <1>1, OldAttemptsStay, HoldersStayKeepsLeases DEF ClaimAvailable
<1>2. CASE TrackExecution(w)
  <2> DEFINE D == {a \in attempts : a.worker = w /\ a.pc = "owned"}
  <2>1. \A a \in attempts : a \in D => ~HoldsLease(a.pc)
    BY DEF HoldsLease
  <2>2. attempts' = {IF a \in D THEN [a EXCEPT !.pc = "tracked"] ELSE a : a \in attempts}
    BY <1>2 DEF TrackExecution
  <2> HIDE DEF D
  <2>3. HoldersStay
    BY <2>1, <2>2, OthersHoldersStay
  <2>4. UNCHANGED registrations
    BY <1>2 DEF TrackExecution
  <2> QED
    BY <2>3, <2>4, HoldersStayKeepsLeases
<1>3. CASE LoopIterationFails(w)
  <2>1. \A a \in attempts : a \in InFlightBatch(w) => ~HoldsLease(a.pc)
    BY DEF HoldsLease, InFlightBatch
  <2> QED
    BY <1>3, <2>1, OthersHoldersStay, HoldersStayKeepsLeases DEF LoopIterationFails
<1>4. CASE HeartbeatTouch(w)
  BY <1>4, QuietLeaseStep DEF HeartbeatTouch
<1>5. CASE \E t \in Task, b, c \in BOOLEAN : HeartbeatMiss(w, t, b, c)
  <2>1. PICK t \in Task, b \in BOOLEAN, cancels \in BOOLEAN : HeartbeatMiss(w, t, b, cancels)
    BY <1>5
  <2> DEFINE D == {a \in attempts :
                     /\ b /\ registrations[w][t] # None /\ cancels
                     /\ a \in RunningTasks(w) /\ a.task = t
                     /\ \A c \in RunningTasks(w) : c.task = t => a.gen <= c.gen}
  <2>2. attempts' = {IF a \in D THEN [a EXCEPT !.pc = AfterCancel(a.pc)] ELSE a :
                       a \in attempts}
    BY <2>1 DEF HeartbeatMiss
  <2>3. \A v \in Worker, u \in Task :
           registrations'[v][u] \in {None, registrations[v][u]}
    BY <2>1 DEF HeartbeatMiss, TypeOK
  <2> HIDE DEF D
  <2> QED
    BY <2>2, <2>3, CancelledHoldersStay, HoldersStayKeepsLeases
<1>6. CASE CancelRunningOfCancelled(w)
  <2> DEFINE D == {a \in RunningTasks(w) :
                     /\ records[a.task].status = "cancelled"
                     /\ \A b \in RunningTasks(w) : b.task = a.task => b.gen <= a.gen
                     /\ AfterCancel(a.pc) # a.pc}
  <2>1. attempts' = {IF a \in D THEN [a EXCEPT !.pc = AfterCancel(a.pc)] ELSE a :
                       a \in attempts}
    BY <1>6 DEF CancelRunningOfCancelled
  <2> HIDE DEF D
  <2> QED
    BY <1>6, <2>1, CancelledHoldersStay, HoldersStayKeepsLeases
       DEF CancelRunningOfCancelled
<1> QED
  BY <1>1, <1>2, <1>3, <1>4, <1>5, <1>6 DEF LoopStep

LEMMA LifecycleLeaseStep ==
    ASSUME TypeOK, NoOrphanLease, NEW w \in Worker, LifecycleStep(w)
    PROVE  NoOrphanLease'
<1>1. CASE Stop(w) \/ Start(w) \/ HandOff(w)
  BY <1>1, QuietLeaseStep DEF Stop, Start, HandOff
<1>2. CASE CloseHeartbeats(w)
  BY <1>2, ClearedLease, QuietLeaseStep DEF CloseHeartbeats
<1>3. CASE CancelRunning(w)
  <2> DEFINE D == {a \in attempts : a.worker = w}
  <2>1. attempts' = {IF a \in D THEN [a EXCEPT !.pc = AfterCancel(a.pc)] ELSE a :
                       a \in attempts}
    BY <1>3 DEF CancelRunning
  <2> HIDE DEF D
  <2> QED
    BY <1>3, <2>1, CancelledHoldersStay, HoldersStayKeepsLeases DEF CancelRunning
<1>4. CASE Exit(w) \/ Crash(w)
  <2>1. ProcessEnds(w)
    BY <1>4 DEF Exit, Crash
  <2>2. \A c \in attempts : c.worker # w => c \in attempts'
    BY <2>1 DEF ProcessEnds
  <2>3. \A v \in Worker, t \in Task :
           registrations'[v][t] = IF v = w THEN None ELSE registrations[v][t]
    BY <2>1, ClearedLease DEF ProcessEnds
  <2> QED
    BY <2>2, <2>3, LeasesCarriedOver DEF SameClaim
<1> QED
  BY <1>1, <1>2, <1>3, <1>4 DEF LifecycleStep

LEMMA NextKeepsLeases ==
    ASSUME SharedRecords = FALSE, TypeOK, NoOrphanLease, [Next]_vars
    PROVE  NoOrphanLease'
<1>1. CASE ClientStep \/ ClockStep \/ SweepStep \/ UNCHANGED vars
  <2>1. UNCHANGED <<attempts, registrations>>
    BY <1>1 DEF ClientStep, Enqueue, CancelTasks, ClockStep, BecomesDue, PassesExpiry,
         HeartbeatAges, SweepStep, StaleSweep, RequeueStaleRunning, ExpireOverdue,
         CleanupTerminal, vars
  <2> QED
    BY <2>1, QuietLeaseStep
<1> QED
  BY <1>1, AttemptLeaseStep, LoopLeaseStep, LifecycleLeaseStep DEF Next

\* No heartbeat lease outlives the coroutine it was taken for: unregister runs
\* in the same finally block that ends the coroutine, a cancelled coroutine
\* that had begun is still there until then, and a process ends with its leases.
THEOREM LeasesAreHeld ==
    ASSUME SharedRecords = FALSE
    PROVE  Spec => []NoOrphanLease
<1>1. Init => NoOrphanLease
  BY DEF Init, NoOrphanLease
<1> QED
  BY <1>1, NextKeepsLeases, TypeCorrect, PTL DEF Spec

----------------------------------------------------------------------------
\* What a worker holds.

\* The attempts of a worker whose coroutine, or its place in the batch, is left.
Held(w) == {a \in attempts : a.worker = w /\ a.pc # "gone"}

HeldBound ==
    \A w \in Worker :
        IsFiniteSet(Held(w)) /\ Cardinality(Held(w)) <= MaxConcurrency

LEMMA HeldSplit ==
    ASSUME TypeOK, NEW w
    PROVE  Held(w) = RunningTasks(w) \cup InFlightBatch(w)
  BY DEF TypeOK, Attempt, AttemptState, Held, RunningTasks, InFlightBatch

LEMMA NoMoreThan ==
    ASSUME NEW S, NEW T, IsFiniteSet(T), NEW f \in [S -> T],
           \A x, y \in S : f[x] = f[y] => x = y
    PROVE  /\ IsFiniteSet(S)
           /\ Cardinality(S) \in Nat /\ Cardinality(T) \in Nat
           /\ Cardinality(S) <= Cardinality(T)
<1>1. f \in Injection(S, T)
  BY DEF Injection, IsInjective
<1> QED
  BY <1>1, FS_Injection, FS_CardinalityType

\* Attempts that only change their pc are no more than they were.
LEMMA MovedAreNoMore ==
    ASSUME HeldBound, PcMoved(attempts, attempts')
    PROVE  HeldBound'
<1> SUFFICES ASSUME NEW w \in Worker
             PROVE  /\ IsFiniteSet(Held(w)')
                    /\ Cardinality(Held(w)') <= MaxConcurrency
  BY DEF HeldBound
<1> DEFINE Before(b) == CHOOSE a \in Held(w) : SameClaim(a, b)
           f == [b \in Held(w)' |-> Before(b)]
<1>1. \A b \in Held(w)' : \E a \in Held(w) : SameClaim(a, b)
  BY DEF Held, PcMoved, SameClaim
<1>2. \A b \in Held(w)' : Before(b) \in Held(w) /\ SameClaim(Before(b), b)
  BY <1>1
<1> HIDE DEF Before
<1>3. f \in [Held(w)' -> Held(w)]
  BY <1>2
<1>4. ASSUME NEW b \in Held(w)', NEW c \in Held(w)', f[b] = f[c] PROVE b = c
  <2>1. b.task = c.task /\ b.gen = c.gen
    BY <1>2, <1>4 DEF SameClaim
  <2>2. b \in attempts' /\ c \in attempts'
    BY DEF Held
  <2> QED
    BY <2>1, <2>2 DEF PcMoved
<1> HIDE DEF f
<1>5. IsFiniteSet(Held(w)) /\ Cardinality(Held(w)) <= MaxConcurrency
  BY DEF HeldBound
<1>6. /\ IsFiniteSet(Held(w)')
      /\ Cardinality(Held(w)') \in Nat /\ Cardinality(Held(w)) \in Nat
      /\ Cardinality(Held(w)') <= Cardinality(Held(w))
  BY <1>3, <1>4, <1>5, NoMoreThan
<1> QED
  BY <1>5, <1>6, FleetAssumption

\* The claim call asks for what is free, and gets no more.
LEMMA ClaimFits ==
    ASSUME TypeOK, HeldBound, NEW w \in Worker, NEW C \in SUBSET Task,
           ClaimAvailable(w, C)
    PROVE  HeldBound'
<1> DEFINE fresh == {NewAttempt(t, w) : t \in C}
<1>1. /\ attempts' = attempts \cup fresh
      /\ Held(w) = RunningTasks(w)
      /\ Cardinality(C) <= Available(w)
  BY HeldSplit DEF ClaimAvailable
<1>2. \A b \in fresh : /\ b.task \in C /\ b.worker = w /\ b.pc = "claimed"
                       /\ b = NewAttempt(b.task, w)
  BY DEF NewAttempt
<1> HIDE DEF fresh
<1>3. /\ Held(w)' = Held(w) \cup fresh
      /\ \A v \in Worker : v # w => Held(v)' = Held(v)
  BY <1>1, <1>2 DEF Held
<1>4. IsFiniteSet(C) /\ Cardinality(C) \in Nat
  BY FleetAssumption, FS_Subset, FS_CardinalityType
<1>5. IsFiniteSet(fresh) /\ Cardinality(fresh) \in Nat /\ Cardinality(fresh) <= Cardinality(C)
  <2> DEFINE f == [b \in fresh |-> b.task]
  <2>1. f \in [fresh -> C]
    BY <1>2
  <2>2. \A b, c \in fresh : f[b] = f[c] => b = c
    BY <1>2
  <2> HIDE DEF f
  <2> QED
    BY <1>4, <2>1, <2>2, NoMoreThan
<1>6. /\ IsFiniteSet(Held(w)) /\ Cardinality(Held(w)) \in Nat
      /\ Cardinality(Held(w)) <= MaxConcurrency
  BY FS_CardinalityType DEF HeldBound
<1>7. Cardinality(C) <= MaxConcurrency - Cardinality(Held(w))
  BY <1>1, <1>4, <1>6, FleetAssumption DEF Available
<1>8. /\ IsFiniteSet(Held(w) \cup fresh)
      /\ Cardinality(Held(w) \cup fresh) <= Cardinality(Held(w)) + Cardinality(fresh)
  <2>1. /\ IsFiniteSet(Held(w) \cup fresh) /\ IsFiniteSet(Held(w) \cap fresh)
        /\ Cardinality(Held(w) \cup fresh) =
              Cardinality(Held(w)) + Cardinality(fresh) - Cardinality(Held(w) \cap fresh)
    BY <1>5, <1>6, FS_Union, FS_Intersection
  <2>2. Cardinality(Held(w) \cap fresh) \in Nat
    BY <2>1, FS_CardinalityType
  <2> QED
    BY <1>5, <1>6, <2>1, <2>2
<1>9. Cardinality(Held(w) \cup fresh) \in Nat
  BY <1>8, FS_CardinalityType
<1>10. Cardinality(Held(w) \cup fresh) <= MaxConcurrency
  BY <1>4, <1>5, <1>6, <1>7, <1>8, <1>9, FleetAssumption
<1> QED
  BY <1>3, <1>8, <1>10 DEF HeldBound

\* No worker ever holds more records than max_concurrency, whatever its
\* cancelled coroutines do and however its batches fail: the claim call counts
\* everything not done, and no batch is claimed while one is in flight.
THEOREM ConcurrencyIsBounded ==
    ASSUME SharedRecords = FALSE
    PROVE  Spec => []ConcurrencyBound
<1>1. Init => HeldBound
  <2> SUFFICES ASSUME Init PROVE HeldBound
    OBVIOUS
  <2>1. \A w \in Worker : Held(w) = {}
    BY DEF Init, Held
  <2>2. IsFiniteSet({}) /\ Cardinality({}) = 0
    BY FS_EmptySet
  <2>3. 0 <= MaxConcurrency
    BY FleetAssumption
  <2> QED
    BY <2>1, <2>2, <2>3 DEF HeldBound
<1>2. IndInv /\ HeldBound /\ [Next]_vars => HeldBound'
  <2> SUFFICES ASSUME IndInv, HeldBound, [Next]_vars PROVE HeldBound'
    OBVIOUS
  <2>1. ClaimsMove /\ TypeOK
    BY NextInv DEF IndInv
  <2> QED
    BY <2>1, MovedAreNoMore, ClaimFits DEF ClaimsMove
<1>3. TypeOK /\ HeldBound => ConcurrencyBound
  BY HeldSplit DEF HeldBound, ConcurrencyBound
<1>4. IndInv => TypeOK
  BY DEF IndInv
<1> QED
  BY <1>1, <1>2, <1>3, <1>4, InvHolds, PTL DEF Spec


----------------------------------------------------------------------------
\* The processes: a server's private database outlives its worker, and whoever
\* opens the queue closes what it opened.

\* A server comes to its unwinding by a start that never had a child, by the
\* end of its child, or by a kill that reaches any child that is left; a child
\* that has gone never comes back.
ChildIsOwned ==
    /\ DOMAIN process = {"pc", "group", "bridge"} /\ DOMAIN server = {"pc", "shutdown"}
    /\ server.pc # "none" => config.placement = "server"
    /\ config.placement = "server" /\ server.pc \in {"none", "starting"} => process.pc = "none"
    /\ server.pc \in {"unwind", "closed"} => ~IsAlive

LEMMA ServerStepOwnsChild ==
    ASSUME ChildIsOwned, ServerStep, config' = config
    PROVE  ChildIsOwned'
<1> USE DEF ChildIsOwned, IsAlive, ServerGoes
<1>1. CASE ServerEnters
  BY <1>1 DEF ServerEnters
<1>2. CASE SupervisorStarts
  BY <1>2 DEF SupervisorStarts, NoProcess
<1>3. CASE ReceiveReady
  BY <1>3 DEF ReceiveReady
<1>4. CASE StartupFails
  BY <1>4 DEF StartupFails
<1>5. CASE SupervisorCloses
  BY <1>5 DEF SupervisorCloses
<1>6. CASE SupervisorJoins
  BY <1>6 DEF SupervisorJoins
<1>7. CASE ForceStop
  BY <1>7 DEF ForceStop, Reaches, Gone
<1>8. CASE ServerUnwinds
  BY <1>8 DEF ServerUnwinds
<1> QED
  BY <1>1, <1>2, <1>3, <1>4, <1>5, <1>6, <1>7, <1>8 DEF ServerStep

LEMMA ChildStepOwnsChild ==
    ASSUME ChildIsOwned, config' = config,
           ChildStep \/ ProcessRuns \/ BridgeStops \/ HardExit \/ ProcessDies \/ RequestStop
    PROVE  ChildIsOwned'
<1> USE DEF ChildIsOwned, IsAlive
<1>1. CASE ChildBoots
  BY <1>1 DEF ChildBoots
<1>2. CASE ChildLoads
  BY <1>2 DEF ChildLoads, Gone
<1>3. CASE ProcessReturns
  BY <1>3 DEF ProcessReturns
<1>4. CASE ProcessExits
  BY <1>4 DEF ProcessExits, Gone
<1>5. CASE WorkerCommand
  BY <1>5 DEF WorkerCommand
<1>6. CASE ProcessRuns
  BY <1>6 DEF ProcessRuns, SignalReady
<1>7. CASE BridgeStops
  BY <1>7 DEF BridgeStops, supervisionVars
<1>8. CASE HardExit
  BY <1>8 DEF HardExit, Gone
<1>9. CASE ProcessDies
  BY <1>9 DEF ProcessDies, Gone
<1>10. CASE RequestStop
  BY <1>10 DEF RequestStop, Gone
<1> QED
  BY <1>1, <1>2, <1>3, <1>4, <1>5, <1>6, <1>7, <1>8, <1>9, <1>10 DEF ChildStep

LEMMA OwnershipIsKept == ChildIsOwned /\ [PlacementNext]_PlacementVars => ChildIsOwned'
<1> SUFFICES ASSUME ChildIsOwned, [PlacementNext]_PlacementVars
             PROVE  ChildIsOwned'
  OBVIOUS
<1>1. CASE UNCHANGED PlacementVars \/ UNCHANGED <<config, run, worker, job, stops, resources, supervisionVars>>
  BY <1>1 DEF ChildIsOwned, IsAlive, PlacementVars, processVars, supervisionVars
<1>2. CASE ServerStep /\ config' = config
  BY <1>2, ServerStepOwnsChild
<1>3. CASE /\ config' = config
           /\ ChildStep \/ ProcessRuns \/ BridgeStops \/ HardExit \/ ProcessDies \/ RequestStop
  BY <1>3, ChildStepOwnsChild
<1>4. CASE config' = config /\ (WatchStep \/ OperatorStops \/ ServerDies)
  BY <1>4 DEF ChildIsOwned, IsAlive, IsUp, ServerGoes, WatchStep, WatchJoins, WatchFinishes, OperatorStops, ServerDies
<1> QED
  BY <1>1, <1>2, <1>3, <1>4 DEF PlacementNext, SupervisionNext

\* The private database is there until the worker has gone, in every
\* deployment and with any number of faults: whichever way its start failed,
\* and whether or not SIGTERM ended it.
THEOREM StorageIsLeftLast == PlacementSpec => []StorageOutlivesWorker
<1>1. PlacementInit => ChildIsOwned
  BY DEF PlacementInit, SupervisionInit, ChildIsOwned, NoProcess, IsAlive
<1>2. ChildIsOwned => StorageOutlivesWorker
  BY DEF ChildIsOwned, StorageOutlivesWorker
<1> QED
  BY <1>1, <1>2, OwnershipIsKept, PTL DEF PlacementSpec

----------------------------------------------------------------------------
\* Sequences put together from parts.

\* Induction, over the set of the numbers for which a claim holds.
LEMMA SetInduction ==
    ASSUME NEW S, 0 \in S, \A n \in Nat : n \in S => n + 1 \in S
    PROVE  Nat \subseteq S
<1> DEFINE less == OpToRel(<, Nat)
           missing == Nat \ S
<1> SUFFICES ASSUME missing # {} PROVE FALSE
  OBVIOUS
<1>1. less = {ss \in Nat \X Nat : ss[1] < ss[2]}
  BY DEF OpToRel
<1>2. IsWellFoundedOn(less, Nat)
  BY NatLessThanWellFounded
<1> HIDE DEF less
<1>3. PICK x \in missing : \A y \in missing : <<y, x>> \notin less
  <2>1. missing \subseteq Nat
    OBVIOUS
  <2> HIDE DEF missing
  <2> QED
    BY <1>2, <2>1, WFMin
<1>4. x \in Nat /\ x # 0 /\ x - 1 \in missing
  OBVIOUS
<1>5. <<x - 1, x>> \in less
  BY <1>1, <1>4
<1> QED
  BY <1>3, <1>4, <1>5

\* The prefixes of a flattened sequence of sequences, one per length.
Flattens(seqs, n, f) == f = [i \in 1..n |-> IF i = 1 THEN seqs[i] ELSE f[i - 1] \o seqs[i]]

LEMMA FlattensAt ==
    ASSUME NEW seqs, NEW n \in Nat, NEW f, Flattens(seqs, n, f)
    PROVE  /\ DOMAIN f = 1..n
           /\ \A i \in 1..n : f[i] = IF i = 1 THEN seqs[i] ELSE f[i - 1] \o seqs[i]
<1> DEFINE g == [i \in 1..n |-> IF i = 1 THEN seqs[i] ELSE f[i - 1] \o seqs[i]]
<1>1. DOMAIN g = 1..n /\ \A i \in 1..n : g[i] = IF i = 1 THEN seqs[i] ELSE f[i - 1] \o seqs[i]
  OBVIOUS
<1>2. f = g
  BY DEF Flattens
<1> HIDE DEF g
<1> QED
  BY <1>1, <1>2

LEMMA FlatteningExists ==
    ASSUME NEW seqs, NEW n \in Nat
    PROVE  \E f : Flattens(seqs, n, f)
<1> DEFINE S == {m \in Nat : \E f : Flattens(seqs, m, f)}
<1>1. 0 \in S
  <2>1. Flattens(seqs, 0, [i \in 1..0 |-> seqs[i]])
    BY DEF Flattens
  <2> QED
    BY <2>1
<1>2. ASSUME NEW m \in Nat, m \in S PROVE m + 1 \in S
  <2>1. PICK f : Flattens(seqs, m, f)
    BY <1>2
  <2> DEFINE g == [i \in 1..(m + 1) |-> IF i <= m THEN f[i] ELSE IF i = 1 THEN seqs[i] ELSE f[i - 1] \o seqs[i]]
             h == [i \in 1..(m + 1) |-> IF i = 1 THEN seqs[i] ELSE g[i - 1] \o seqs[i]]
  <2>2. ASSUME NEW i \in 1..(m + 1) PROVE g[i] = h[i]
    <3>1. i <= m => f[i] = IF i = 1 THEN seqs[i] ELSE f[i - 1] \o seqs[i]
      BY <2>1, FlattensAt
    <3>2. g[i] = IF i = 1 THEN seqs[i] ELSE f[i - 1] \o seqs[i]
      BY <3>1
    <3>3. i # 1 => i - 1 \in 1..(m + 1) /\ i - 1 <= m
      OBVIOUS
    <3>4. i # 1 => g[i - 1] = f[i - 1]
      BY <3>3
    <3> HIDE DEF g
    <3> QED
      BY <3>2, <3>4
  <2>3. g = h
    <3> DEFINE G(i) == g[i]
    <3>1. g = [i \in 1..(m + 1) |-> g[i]] /\ h = [i \in 1..(m + 1) |-> h[i]]
      OBVIOUS
    <3> HIDE DEF g, h
    <3> QED
      BY <2>2, <3>1
  <2> HIDE DEF g
  <2>4. Flattens(seqs, m + 1, g)
    BY <2>3 DEF Flattens
  <2> QED
    BY <2>4
<1> HIDE DEF S
<1>3. Nat \subseteq S
  BY <1>1, <1>2, SetInduction
<1> QED
  BY <1>3 DEF S

\* Flattening concatenates: what the parts hold, and nothing else.
LEMMA FlattenFacts ==
    ASSUME NEW S, NEW seqs \in Seq(Seq(S))
    PROVE  /\ FlattenSeq(seqs) \in Seq(S)
           /\ Range(FlattenSeq(seqs)) = UNION {Range(seqs[i]) : i \in DOMAIN seqs}
<1> DEFINE n == Len(seqs)
<1>1. n \in Nat /\ DOMAIN seqs = 1..n /\ \A i \in 1..n : seqs[i] \in Seq(S)
  BY LenProperties, ElementOfSeq
<1>2. CASE n = 0
  <2>1. FlattenSeq(seqs) = seqs /\ seqs = << >> /\ DOMAIN seqs = {}
    BY <1>1, <1>2, EmptySeq DEF FlattenSeq
  <2> QED
    BY <2>1 DEF Range
<1>3. CASE n # 0
  <2> DEFINE f == CHOOSE g : Flattens(seqs, n, g)
             parts(i) == UNION {Range(seqs[j]) : j \in 1..i}
             Right(m) == f[m] \in Seq(S) /\ Range(f[m]) = parts(m)
             T == {m \in Nat : m \in 1..n => Right(m)}
  <2>1. FlattenSeq(seqs) = f[n]
    BY <1>1, <1>3 DEF FlattenSeq, Flattens
  <2>2. \A i \in 1..n : f[i] = IF i = 1 THEN seqs[i] ELSE f[i - 1] \o seqs[i]
    <3>1. Flattens(seqs, n, f)
      BY <1>1, FlatteningExists
    <3> HIDE DEF n, f
    <3> QED
      BY <1>1, <3>1, FlattensAt
  <2> HIDE DEF f
  <2>3. 0 \in T
    OBVIOUS
  <2>4. ASSUME NEW m \in Nat, m \in T, m + 1 \in 1..n
        PROVE  Right(m + 1)
    <3>1. f[m + 1] = IF m = 0 THEN seqs[m + 1] ELSE f[m] \o seqs[m + 1]
      BY <1>1, <2>2, <2>4
    <3>2. parts(m + 1) = parts(m) \cup Range(seqs[m + 1])
      <4>1. 1..(m + 1) = (1..m) \cup {m + 1}
        OBVIOUS
      <4> QED
        BY <4>1
    <3>3. CASE m = 0
      BY <1>1, <2>4, <3>1, <3>2, <3>3
    <3>4. CASE m # 0
      <4>1. f[m] \in Seq(S) /\ Range(f[m]) = parts(m) /\ seqs[m + 1] \in Seq(S)
        BY <1>1, <2>4, <3>4
      <4>2. f[m] \o seqs[m + 1] \in Seq(S) /\ Range(f[m] \o seqs[m + 1]) = Range(f[m]) \cup Range(seqs[m + 1])
        BY <4>1, ConcatProperties, RangeConcatenation
      <4> HIDE DEF parts
      <4> QED
        BY <3>1, <3>2, <3>4, <4>1, <4>2
    <3> QED
      BY <3>3, <3>4
  <2>5. n \in Nat /\ n # 0 /\ \A m \in Nat : m \in T => m + 1 \in T
    <3> HIDE DEF Right, n
    <3> QED
      BY <1>1, <1>3, <2>4
  <2>6. Right(n)
    <3> HIDE DEF T
    <3>1. n \in T
      BY <2>3, <2>5, SetInduction
    <3> HIDE DEF Right, n
    <3> QED
      BY <2>5, <3>1 DEF T
  <2> QED
    BY <1>1, <2>1, <2>6
<1> QED
  BY <1>2, <1>3

LEMMA SeqByElement ==
    ASSUME NEW S, NEW n \in Nat, NEW f, f = [i \in 1..n |-> f[i]], \A i \in 1..n : f[i] \in S
    PROVE  f \in Seq(S)
OBVIOUS

LEMMA WithoutFacts ==
    ASSUME NEW S, NEW plan \in Seq(S), NEW done
    PROVE  /\ Without(plan, done) \in Seq(S)
           /\ Range(Without(plan, done)) = Range(plan) \ done
<1> DEFINE parts == [i \in DOMAIN plan |-> IF plan[i] \in done THEN << >> ELSE <<plan[i]>>]
<1>1. Len(plan) \in Nat /\ DOMAIN plan = 1..Len(plan) /\ \A i \in 1..Len(plan) : plan[i] \in S
  BY LenProperties, ElementOfSeq
<1>2. parts \in Seq(Seq(S))
  <2>1. \A i \in 1..Len(plan) : parts[i] \in Seq(S)
    BY <1>1
  <2>2. parts = [i \in 1..Len(plan) |-> parts[i]]
    BY <1>1
  <2> HIDE DEF parts
  <2> QED
    BY <1>1, <2>1, <2>2
<1>3. \A i \in DOMAIN plan : Range(parts[i]) = {plan[i]} \ done
  BY DEF Range
<1>4. DOMAIN parts = DOMAIN plan /\ Without(plan, done) = FlattenSeq(parts)
  BY DEF Without
<1> HIDE DEF parts
<1>5. FlattenSeq(parts) \in Seq(S) /\ Range(FlattenSeq(parts)) = UNION {Range(parts[i]) : i \in DOMAIN parts}
  BY <1>2, FlattenFacts
<1>6. UNION {{plan[i]} \ done : i \in DOMAIN plan} = Range(plan) \ done
  BY DEF Range
<1> QED
  BY <1>3, <1>4, <1>5, <1>6

LEMMA ReverseFacts ==
    ASSUME NEW S, NEW s \in Seq(S)
    PROVE  Reverse(s) \in Seq(S) /\ Range(Reverse(s)) = Range(s)
<1>1. Len(s) \in Nat /\ DOMAIN s = 1..Len(s) /\ \A i \in 1..Len(s) : s[i] \in S
  BY LenProperties, ElementOfSeq
<1>2. Reverse(s) = [i \in 1..Len(s) |-> s[Len(s) - i + 1]]
  BY DEF Reverse
<1>3. \A i \in 1..Len(s) : Len(s) - i + 1 \in 1..Len(s) /\ Len(s) - (Len(s) - i + 1) + 1 = i
  BY <1>1
<1>4. Reverse(s) \in Seq(S)
  BY <1>1, <1>2, <1>3
<1>5. Range(Reverse(s)) = {s[Len(s) - i + 1] : i \in 1..Len(s)}
  BY <1>2 DEF Range
<1>6. {s[Len(s) - i + 1] : i \in 1..Len(s)} = {s[i] : i \in 1..Len(s)}
  BY <1>3
<1> QED
  BY <1>1, <1>4, <1>5, <1>6 DEF Range
----------------------------------------------------------------------------
\* The plans of a lifespan: all that open() opens is closed by close().

Scope == {"service", "store", "execution", "sink", "sqlspec_sink"}
Resource == {"provider", "queue", "event_log", "execution", "sink", "buffer", "executor"}
Name ==
    Resource
    \cup {"pending_read", "control_read", "completion_reader", "completion_pubsub", "pubsub", "control_pubsub", "client"}
    \cup {"notification_stream", "control_stream", "heartbeat_pool", "event_channel", "pools", "sync_executor",
          "heartbeat_executor", "listener"}
    \cup {"subscriber", "publisher", "consumer_channel", "publisher_channel", "connection", "consumer", "producer",
          "sqs_client", "tasks_client"}
    \cup {"channels", "custom", "channel"}
Handle == Scope \X Name

LEMMA HandlesFacts ==
    ASSUME NEW scope \in Scope, NEW names \in Seq(Name)
    PROVE  /\ Handles(scope, names) \in Seq(Handle)
           /\ Range(Handles(scope, names)) = {<<scope, name>> : name \in Range(names)}
<1>1. Len(names) \in Nat /\ DOMAIN names = 1..Len(names) /\ \A i \in 1..Len(names) : names[i] \in Name
  BY LenProperties, ElementOfSeq
<1> QED
  BY <1>1 DEF Handles, Handle, Range

\* A deployment that only opens the queue and closes it.
Lifespans == config \in Configs /\ IsLifespan

LEMMA StoreFits ==
    ASSUME Lifespans
    PROVE  /\ StoreHandles \in Seq(Handle) /\ MadeByOpen \in Seq(Handle)
           /\ Range(MadeByOpen) \subseteq Range(StoreHandles)
<1>1. config.store \in {"redis", "sqlspec", "alchemy"}
  BY PlacementsAssumption DEF Lifespans, IsLifespan, Lifespan
<1>2. CASE config.store = "redis"
  <2> DEFINE first == <<"event_log", "pending_read", "control_read">> \o CompletionHandles
             last == <<"pubsub", "control_pubsub", "client">>
  <2>1. first \in Seq(Name) /\ last \in Seq(Name) /\ MadeByRedisOpen \in Seq(Name)
    BY DEF CompletionHandles, MadeByRedisOpen, Name, Resource
  <2>2. Range(MadeByRedisOpen) \subseteq Range(last)
    BY DEF MadeByRedisOpen, Range
  <2>3. StoreHandles = Handles("store", first \o last) /\ MadeByOpen = Handles("store", MadeByRedisOpen)
    BY <1>2 DEF StoreHandles, RedisHandles, MadeByOpen
  <2> HIDE DEF first, last
  <2>4. first \o last \in Seq(Name) /\ Range(first \o last) = Range(first) \cup Range(last)
    BY <2>1, ConcatProperties, RangeConcatenation
  <2>5. "store" \in Scope
    BY DEF Scope
  <2>6. StoreHandles \in Seq(Handle) /\ Range(StoreHandles) = {<<"store", name>> : name \in Range(first) \cup Range(last)}
    BY <2>3, <2>4, <2>5, HandlesFacts
  <2>7. MadeByOpen \in Seq(Handle) /\ Range(MadeByOpen) = {<<"store", name>> : name \in Range(MadeByRedisOpen)}
    BY <2>1, <2>3, <2>5, HandlesFacts
  <2> QED
    BY <2>2, <2>6, <2>7
<1>3. CASE config.store = "sqlspec"
  <2> DEFINE names == <<"event_log", "notification_stream", "control_stream", "heartbeat_pool", "event_channel", "pools",
                        "sync_executor", "heartbeat_executor">>
  <2>1. names \in Seq(Name) /\ MadeBySqlSpecOpen \in Seq(Name)
    BY DEF MadeBySqlSpecOpen, Name, Resource
  <2>2. Range(MadeBySqlSpecOpen) \subseteq Range(names)
    BY DEF MadeBySqlSpecOpen, Range
  <2>3. StoreHandles = Handles("store", names) /\ MadeByOpen = Handles("store", MadeBySqlSpecOpen)
    BY <1>3 DEF StoreHandles, SqlSpecHandles, MadeByOpen
  <2> HIDE DEF names
  <2> QED
    BY <2>1, <2>2, <2>3, HandlesFacts DEF Scope
<1>4. CASE config.store = "alchemy"
  <2>1. <<"event_log", "listener">> \in Seq(Name) /\ << >> \in Seq(Name) /\ Range(<< >>) = {}
    BY DEF Range, Name, Resource
  <2>2. StoreHandles = Handles("store", <<"event_log", "listener">>) /\ MadeByOpen = Handles("store", << >>)
    BY <1>4 DEF StoreHandles, AlchemyHandles, MadeByOpen
  <2> QED
    BY <2>1, <2>2, HandlesFacts DEF Scope
<1> QED
  BY <1>1, <1>2, <1>3, <1>4

LEMMA ExecutionFits ==
    ASSUME Lifespans
    PROVE  ExecutionHandles \in Seq(Handle)
<1> DEFINE names == [i \in DOMAIN config.backends |->
        CASE config.backends[i] = "pubsub" -> PubSubHandles
          [] config.backends[i] = "rabbitmq" -> RabbitMQHandles
          [] config.backends[i] = "kafka" -> KafkaHandles
          [] config.backends[i] = "sqs" -> SqsHandles
          [] config.backends[i] = "cloudtasks" -> CloudTasksHandles]
<1>1. config.backends \in Seq({"pubsub", "rabbitmq", "kafka", "sqs", "cloudtasks"})
  BY PlacementsAssumption DEF Lifespans, IsLifespan, Lifespan
<1>2. /\ Len(config.backends) \in Nat /\ DOMAIN config.backends = 1..Len(config.backends)
      /\ \A i \in 1..Len(config.backends) : config.backends[i] \in {"pubsub", "rabbitmq", "kafka", "sqs", "cloudtasks"}
  BY <1>1, LenProperties, ElementOfSeq
<1>3. /\ PubSubHandles \in Seq(Name) /\ RabbitMQHandles \in Seq(Name) /\ KafkaHandles \in Seq(Name)
      /\ SqsHandles \in Seq(Name) /\ CloudTasksHandles \in Seq(Name)
  BY DEF PubSubHandles, RabbitMQHandles, KafkaHandles, SqsHandles, CloudTasksHandles, Name
<1>4. \A i \in 1..Len(config.backends) : names[i] \in Seq(Name)
  BY <1>2, <1>3
<1>5. names = [i \in 1..Len(config.backends) |-> names[i]] /\ ExecutionHandles = Handles("execution", FlattenSeq(names))
  BY <1>2 DEF ExecutionHandles
<1> HIDE DEF names
<1>6. names \in Seq(Seq(Name))
  BY <1>2, <1>4, <1>5, SeqByElement
<1>7. FlattenSeq(names) \in Seq(Name)
  BY <1>6, FlattenFacts
<1> QED
  BY <1>5, <1>7, HandlesFacts DEF Scope

LEMMA SinksFit ==
    /\ Sinks \in Seq(Handle) /\ Reverse(Sinks) \in Seq(Handle) /\ Range(Reverse(Sinks)) = Range(Sinks)
    /\ SqlSpecSinkHandles \in Seq(Handle)
<1>1. <<"channels", "custom">> \in Seq(Name) /\ <<"channel", "pools">> \in Seq(Name)
  BY DEF Name
<1>2. Sinks \in Seq(Handle) /\ SqlSpecSinkHandles \in Seq(Handle)
  BY <1>1, HandlesFacts DEF Scope, Sinks, SqlSpecSinkHandles
<1> QED
  BY <1>2, ReverseFacts

LEMMA ResourceFits ==
    ASSUME Lifespans, NEW r \in Resource
    PROVE  /\ Acquire(r) \in Seq(Handle) /\ Expand(r) \in Seq(Handle)
           /\ Range(Acquire(r)) \subseteq Range(Expand(r))
<1>1. CASE r = "queue"
  BY <1>1, StoreFits DEF Acquire, Expand
<1>2. CASE r = "execution"
  <2>1. Acquire(r) = << >> /\ Expand(r) = ExecutionHandles
    BY <1>2 DEF Acquire, Expand
  <2> QED
    BY <2>1, ExecutionFits DEF Range
<1>3. CASE r = "sink"
  <2>1. Acquire(r) = Sinks /\ Expand(r) = SqlSpecSinkHandles \o Reverse(Sinks)
    BY <1>3 DEF Acquire, Expand
  <2>2. Range(SqlSpecSinkHandles \o Reverse(Sinks)) = Range(SqlSpecSinkHandles) \cup Range(Reverse(Sinks))
    BY SinksFit, RangeConcatenation
  <2> QED
    BY <2>1, <2>2, SinksFit, ConcatProperties
<1>4. CASE r \notin {"queue", "execution", "sink"}
  <2> DEFINE h == IF r = "event_log" THEN EventLog ELSE Own(r)
  <2>1. Acquire(r) = <<h>> /\ Expand(r) = <<h>>
    BY <1>4 DEF Acquire, Expand
  <2>2. h \in Handle
    BY DEF Handle, EventLog, Own, Scope, Name, Resource
  <2> QED
    BY <2>1, <2>2
<1> QED
  BY <1>1, <1>2, <1>3, <1>4

\* A plan along an order has what its steps have.
LEMMA OpenAlong ==
    ASSUME Lifespans
    PROVE  /\ Along(OpenOrder, Acquire) \in Seq(Handle)
           /\ Range(Along(OpenOrder, Acquire)) = UNION {Range(Acquire(r)) : r \in Range(OpenOrder)}
<1> DEFINE parts == [i \in DOMAIN OpenOrder |-> Acquire(OpenOrder[i])]
<1>1. DOMAIN OpenOrder = 1..7 /\ \A i \in 1..7 : OpenOrder[i] \in Resource
  BY DEF OpenOrder, Resource
<1>2. \A i \in 1..7 : parts[i] = Acquire(OpenOrder[i]) /\ parts[i] \in Seq(Handle)
  BY <1>1, ResourceFits
<1>3. DOMAIN parts = 1..7 /\ parts = [i \in 1..7 |-> parts[i]] /\ Along(OpenOrder, Acquire) = FlattenSeq(parts)
  BY <1>1 DEF Along
<1> HIDE DEF parts
<1>4. parts \in Seq(Seq(Handle))
  BY <1>2, <1>3
<1>5. FlattenSeq(parts) \in Seq(Handle) /\ Range(FlattenSeq(parts)) = UNION {Range(parts[i]) : i \in DOMAIN parts}
  BY <1>4, FlattenFacts
<1>6. UNION {Range(parts[i]) : i \in 1..7} = UNION {Range(Acquire(r)) : r \in Range(OpenOrder)}
  BY <1>1, <1>2 DEF Range
<1> QED
  BY <1>3, <1>5, <1>6

LEMMA CloseAlong ==
    ASSUME Lifespans
    PROVE  /\ Along(CloseOrder, Expand) \in Seq(Handle)
           /\ Range(Along(CloseOrder, Expand)) = UNION {Range(Expand(r)) : r \in Range(CloseOrder)}
<1> DEFINE parts == [i \in DOMAIN CloseOrder |-> Expand(CloseOrder[i])]
<1>1. DOMAIN CloseOrder = 1..7 /\ \A i \in 1..7 : CloseOrder[i] \in Resource
  BY DEF CloseOrder, Resource
<1>2. \A i \in 1..7 : parts[i] = Expand(CloseOrder[i]) /\ parts[i] \in Seq(Handle)
  BY <1>1, ResourceFits
<1>3. DOMAIN parts = 1..7 /\ parts = [i \in 1..7 |-> parts[i]] /\ Along(CloseOrder, Expand) = FlattenSeq(parts)
  BY <1>1 DEF Along
<1> HIDE DEF parts
<1>4. parts \in Seq(Seq(Handle))
  BY <1>2, <1>3
<1>5. FlattenSeq(parts) \in Seq(Handle) /\ Range(FlattenSeq(parts)) = UNION {Range(parts[i]) : i \in DOMAIN parts}
  BY <1>4, FlattenFacts
<1>6. UNION {Range(parts[i]) : i \in 1..7} = UNION {Range(Expand(r)) : r \in Range(CloseOrder)}
  BY <1>1, <1>2 DEF Range
<1> QED
  BY <1>3, <1>5, <1>6

LEMMA PlansFit ==
    ASSUME Lifespans
    PROVE  /\ OpenPlan \in Seq(Handle) /\ ClosePlan \in Seq(Handle)
           /\ Range(OpenPlan) \subseteq Range(ClosePlan)
<1>1. CASE config.placement = "producer"
  <2> DEFINE own == <<Own("buffer")>>
  <2>1. own \in Seq(Handle)
    BY DEF Handle, Own, Scope, Name, Resource
  <2>2. OpenPlan = Sinks \o own /\ ClosePlan = own \o Reverse(Sinks)
    BY <1>1 DEF OpenPlan, ClosePlan, ProducerOpens, ProducerCloses
  <2> HIDE DEF own
  <2>3. /\ OpenPlan \in Seq(Handle) /\ Range(OpenPlan) = Range(Sinks) \cup Range(own)
        /\ ClosePlan \in Seq(Handle) /\ Range(ClosePlan) = Range(own) \cup Range(Reverse(Sinks))
    BY <2>1, <2>2, SinksFit, ConcatProperties, RangeConcatenation
  <2> QED
    BY <2>3, SinksFit
<1>2. CASE config.placement # "producer"
  <2>1. OpenPlan = Along(OpenOrder, Acquire) /\ ClosePlan = Along(CloseOrder, Expand)
    BY <1>2 DEF OpenPlan, ClosePlan
  <2>2. Range(OpenOrder) \subseteq Range(CloseOrder) /\ Range(OpenOrder) \subseteq Resource
    BY DEF OpenOrder, CloseOrder, Resource, Range
  <2>3. \A r \in Range(OpenOrder) : Range(Acquire(r)) \subseteq Range(Expand(r))
    BY <2>2, ResourceFits
  <2>4. Range(OpenPlan) \subseteq Range(ClosePlan)
    BY <2>1, <2>2, <2>3, OpenAlong, CloseAlong
  <2> QED
    BY <2>1, <2>4, OpenAlong, CloseAlong
<1> QED
  BY <1>1, <1>2

LEMMA RollbackFits ==
    ASSUME Lifespans, NEW handle
    PROVE  RollbackPlan(handle) \in Seq(Handle) /\ Range(ClosePlan) \subseteq Range(RollbackPlan(handle))
<1> DEFINE first == UndoneFirst(handle)
           rest == Without(ClosePlan, Range(first))
<1>1. first \in Seq(Handle)
  <2>1. config.store = "sqlspec" => SqlSpecHandles \in Seq(Handle)
    BY StoreFits DEF StoreHandles
  <2>2. Reverse(Sinks) \in Seq(Handle) /\ << >> \in Seq(Handle)
    BY SinksFit
  <2> QED
    BY <2>1, <2>2 DEF UndoneFirst
<1> HIDE DEF first
<1>2. rest \in Seq(Handle) /\ Range(rest) = Range(ClosePlan) \ Range(first)
  BY PlansFit, WithoutFacts
<1>3. RollbackPlan(handle) = first \o rest
  BY DEF RollbackPlan, first
<1> HIDE DEF rest
<1>4. first \o rest \in Seq(Handle) /\ Range(first \o rest) = Range(first) \cup Range(rest)
  BY <1>1, <1>2, ConcatProperties, RangeConcatenation
<1> QED
  BY <1>2, <1>3, <1>4
----------------------------------------------------------------------------
\* While it closes, what is open is still to be closed, or did not close, or
\* was skipped by its owner after that.

SpanOK ==
    /\ DOMAIN span = {"pc", "opening", "closing", "rollback", "abandoned", "errors", "primary", "outcome"}
    /\ span.opening \in Nat \ {0} /\ span.closing \in Seq(Handle)

AccountedFor == held \subseteq Range(span.closing) \cup failed \cup LeftBehind

TeardownInv ==
    /\ config \in Configs
    /\ SpanOK
    /\ held \subseteq Range(ClosePlan)
    /\ span.pc = "closing" => AccountedFor
    /\ TeardownIsComplete

LEMMA PlansStay ==
    ASSUME config' = config
    PROVE  ClosePlan' = ClosePlan
<1>1. StoreHandles' = StoreHandles
  BY DEF StoreHandles, RedisHandles, SqlSpecHandles, AlchemyHandles, Handles, CompletionHandles
<1>2. ExecutionHandles' = ExecutionHandles
  BY DEF ExecutionHandles, Handles, PubSubHandles, RabbitMQHandles, KafkaHandles, SqsHandles, CloudTasksHandles
<1>3. \A r : Expand(r)' = Expand(r)
  BY <1>1, <1>2 DEF Expand, SqlSpecSinkHandles, Sinks, Handles, EventLog, Own
<1>4. Along(CloseOrder, Expand)' = Along(CloseOrder, Expand)
  BY <1>3 DEF Along, CloseOrder
<1> QED
  BY <1>4 DEF ClosePlan, ProducerCloses, Own, Sinks, Handles

\* Steps that neither open nor close anything, and end no teardown.
LEMMA QuietSpan ==
    ASSUME TeardownInv, config' = config, UNCHANGED <<held, failed>>, SpanOK',
           span'.pc = "closing" => Range(ClosePlan) \subseteq Range(span'.closing),
           span'.pc = "over" => span'.abandoned
    PROVE  TeardownInv'
<1>1. held' \subseteq Range(ClosePlan)'
  BY PlansStay DEF TeardownInv
<1>2. span'.pc = "closing" => AccountedFor'
  BY DEF TeardownInv, AccountedFor
<1>3. TeardownIsComplete'
  BY DEF TeardownIsComplete
<1> QED
  BY <1>1, <1>2, <1>3 DEF TeardownInv

LEMMA AcquireGoesOn ==
    ASSUME TeardownInv, config' = config, Lifespans, AcquireNext \/ AcquireFails
    PROVE  TeardownInv'
<1> DEFINE handle == OpenPlan[span.opening]
<1>1. handle \in Range(ClosePlan)
  <2>1. Len(OpenPlan) \in Nat /\ DOMAIN OpenPlan = 1..Len(OpenPlan)
    BY PlansFit, LenProperties
  <2>2. span.opening <= Len(OpenPlan) /\ span.opening \in Nat \ {0}
    BY DEF TeardownInv, SpanOK, AcquireNext, AcquireFails
  <2>3. span.opening \in DOMAIN OpenPlan
    BY <2>1, <2>2
  <2> QED
    BY <2>3, PlansFit DEF Range
<1> HIDE DEF handle
<1>2. held' \subseteq Range(ClosePlan)'
  BY <1>1, PlansStay DEF TeardownInv, AcquireNext, AcquireFails, handle
<1>3. CASE AcquireNext
  BY <1>2, <1>3 DEF TeardownInv, SpanOK, TeardownIsComplete, AcquireNext
<1>4. CASE AcquireFails
  <2>1. span' = [span EXCEPT !.pc = "closing", !.closing = RollbackPlan(handle), !.rollback = TRUE, !.primary = "failed"]
    BY <1>4 DEF AcquireFails, Close, handle
  <2>2. SpanOK' /\ span'.pc = "closing" /\ span'.closing = RollbackPlan(handle)
    BY <2>1, RollbackFits DEF TeardownInv, SpanOK
  <2>3. AccountedFor'
    BY <1>2, <2>2, PlansStay, RollbackFits DEF AccountedFor
  <2> QED
    BY <1>2, <2>2, <2>3 DEF TeardownInv, TeardownIsComplete
<1> QED
  BY <1>3, <1>4

LEMMA HandleClosesGoesOn ==
    ASSUME TeardownInv, config' = config, Lifespans, HandleCloses
    PROVE  TeardownInv'
<1> DEFINE handle == Head(span.closing)
           rest == Tail(span.closing)
<1>1. rest \in Seq(Handle) /\ Range(span.closing) = {handle} \cup Range(rest)
  <2>1. span.closing \in Seq(Handle) /\ span.closing # << >>
    BY DEF TeardownInv, SpanOK, HandleCloses
  <2>2. /\ rest \in Seq(Handle) /\ Len(rest) = Len(span.closing) - 1 /\ handle = span.closing[1]
        /\ \A i \in 1..Len(rest) : rest[i] = span.closing[i + 1]
    BY <2>1, HeadTailProperties
  <2>3. Len(span.closing) \in Nat \ {0} /\ DOMAIN span.closing = 1..Len(span.closing) /\ DOMAIN rest = 1..Len(rest)
    BY <2>1, <2>2, EmptySeq, LenProperties
  <2> DEFINE s == span.closing
             n == Len(s)
  <2> HIDE DEF rest, handle, s
  <2>4. \A i \in 1..n : s[i] = IF i = 1 THEN handle ELSE rest[i - 1]
    BY <2>2, <2>3 DEF s
  <2>5. n \in Nat \ {0} /\ Len(rest) = n - 1
    BY <2>2, <2>3 DEF s
  <2>6. \A i \in 1..n : s[i] \in {handle} \cup Range(rest)
    BY <2>3, <2>4, <2>5 DEF Range
  <2>7. handle = s[1] /\ \A i \in 1..Len(rest) : i + 1 \in 1..n /\ rest[i] = s[i + 1]
    BY <2>2, <2>5 DEF s
  <2>8. DOMAIN s = 1..n
    BY <2>3 DEF s
  <2>9. {handle} \cup Range(rest) \subseteq Range(s)
    BY <2>3, <2>5, <2>7, <2>8 DEF Range
  <2>10. Range(s) \subseteq {handle} \cup Range(rest)
    BY <2>6, <2>8 DEF Range
  <2> QED
    BY <2>2, <2>9, <2>10 DEF s
<1> HIDE DEF handle, rest
<1>2. CASE held' = held \ {handle} /\ span' = [span EXCEPT !.closing = rest] /\ UNCHANGED failed
  <2>1. SpanOK' /\ span'.pc = "closing" /\ span'.closing = rest
    BY <1>1, <1>2 DEF TeardownInv, SpanOK, HandleCloses
  <2>2. AccountedFor'
    BY <1>1, <1>2, <2>1 DEF TeardownInv, HandleCloses, AccountedFor, LeftBehind
  <2> QED
    BY <1>2, <2>1, <2>2, PlansStay DEF TeardownInv, TeardownIsComplete
<1>3. CASE /\ handle \in held /\ failed' = failed \cup {handle} /\ UNCHANGED held
           /\ \E errors : span' = [span EXCEPT !.closing = AfterCloseFails(handle, rest), !.errors = errors]
  <2> DEFINE own == {x \in Range(rest) : x[1] = handle[1]}
             left == AfterCloseFails(handle, rest)
  <2>1. left \in Seq(Handle) /\ (left = rest \/ (handle[1] \in {"execution", "sqlspec_sink"} /\ Range(left) = Range(rest) \ own))
    BY <1>1, WithoutFacts DEF AfterCloseFails
  <2> HIDE DEF left
  <2>2. SpanOK' /\ span'.pc = "closing" /\ span'.closing = left
    BY <1>3, <2>1 DEF TeardownInv, SpanOK, HandleCloses, left
  <2>3. held \subseteq {handle} \cup Range(rest) \cup failed \cup LeftBehind
    BY <1>1 DEF TeardownInv, HandleCloses, AccountedFor
  <2>4. LeftBehind \subseteq LeftBehind' /\ handle \in failed' /\ failed \subseteq failed'
    BY <1>3 DEF LeftBehind
  <2>5. handle[1] \in {"execution", "sqlspec_sink"} => held \cap own \subseteq LeftBehind'
    BY <1>3 DEF LeftBehind
  <2>6. AccountedFor'
    BY <1>3, <2>1, <2>2, <2>3, <2>4, <2>5 DEF AccountedFor
  <2> QED
    BY <1>3, <2>2, <2>6, PlansStay DEF TeardownInv, TeardownIsComplete
<1> QED
  BY <1>2, <1>3 DEF HandleCloses, handle, rest

LEMMA SpanEndsWell ==
    ASSUME TeardownInv, config' = config, SpanEnds
    PROVE  TeardownInv'
<1>1. span.pc = "closing" /\ span.closing = << >> /\ UNCHANGED <<held, failed>>
  BY DEF SpanEnds
<1>2. /\ SpanOK' /\ span'.outcome = SpanOutcome /\ span'.errors = span.errors
      /\ span'.rollback = span.rollback /\ span'.primary = span.primary
  BY DEF TeardownInv, SpanOK, SpanEnds
<1>3. held \subseteq failed \cup LeftBehind
  BY <1>1 DEF TeardownInv, AccountedFor, Range
<1>4. TeardownIsComplete'
  BY <1>1, <1>2, <1>3 DEF TeardownIsComplete, LeftBehind, SpanOutcome, SelectLifecycleError
<1> QED
  BY <1>1, <1>2, <1>4, PlansStay DEF TeardownInv, SpanEnds

LEMMA TeardownGoesOn == TeardownInv /\ [PlacementNext]_PlacementVars => TeardownInv'
<1> SUFFICES ASSUME TeardownInv, [PlacementNext]_PlacementVars
             PROVE  TeardownInv'
  OBVIOUS
<1>1. CASE config' = config /\ UNCHANGED lifespanVars
  BY <1>1, PlansStay DEF TeardownInv, SpanOK, AccountedFor, LeftBehind, TeardownIsComplete, lifespanVars
<1>2. CASE config' = config /\ LifespanNext
  <2>1. Lifespans /\ SpanOK
    BY <1>2 DEF Lifespans, TeardownInv, LifespanNext
  <2>2. CASE SpanBegins \/ SpanOpened \/ AsgiSchedules \/ AsgiStopsWorker \/ ConsumerExitsNow
    <3>1. UNCHANGED <<held, failed>> /\ SpanOK' /\ span'.pc # "closing" /\ (span'.pc = "over" => span'.abandoned)
      BY <2>1, <2>2 DEF SpanOK, SpanBegins, SpanOpened, AsgiSchedules, AsgiStopsWorker, ConsumerExitsNow, SpanGoes, Abandon
    <3> QED
      BY <1>2, <3>1, QuietSpan
  <2>3. CASE AcquireNext \/ AcquireFails
    BY <1>2, <2>1, <2>3, AcquireGoesOn
  <2>4. CASE Serves
    <3>1. held' \subseteq Range(ClosePlan)
      BY <2>4 DEF TeardownInv, Serves, Lazy
    <3>2. SpanOK' /\ span'.pc = "serving"
      BY <2>1, <2>4 DEF SpanOK, Serves
    <3> QED
      BY <1>2, <3>1, <3>2, PlansStay DEF TeardownInv, TeardownIsComplete
  <2>5. CASE ServingEnds \/ AsgiAwaitsWorker
    <3>1. UNCHANGED <<held, failed>>
      BY <2>5 DEF ServingEnds, AsgiAwaitsWorker
    <3>2. \/ \E primary : span' = [span EXCEPT !.pc = "closing", !.closing = ClosePlan, !.rollback = FALSE, !.primary = primary]
          \/ \E kind : span' = [span EXCEPT !.pc = "over", !.abandoned = TRUE, !.outcome = kind]
          \/ \E kind : span' = [span EXCEPT !.pc = "stopping", !.primary = kind]
      BY <2>5 DEF ServingEnds, AsgiAwaitsWorker, Close, Abandon
    <3>3. /\ SpanOK' /\ (span'.pc = "closing" => span'.closing = ClosePlan)
          /\ span'.pc = "over" => span'.abandoned
      BY <2>1, <3>2, PlansFit DEF SpanOK
    <3> QED
      BY <1>2, <3>1, <3>3, QuietSpan
  <2>6. CASE HandleCloses
    BY <1>2, <2>1, <2>6, HandleClosesGoesOn
  <2>7. CASE SpanEnds
    BY <1>2, <2>7, SpanEndsWell
  <2> QED
    BY <1>2, <2>2, <2>3, <2>4, <2>5, <2>6, <2>7 DEF LifespanNext
<1> QED
  BY <1>1, <1>2 DEF PlacementNext, PlacementVars, processVars, SupervisionNext

\* A lifespan that has closed has closed all that it opened, for any store,
\* any execution backends in any number, and any number of faults: one close()
\* that fails leaves open only itself and what its own backends or sink skip,
\* and no cancellation is lost among errors.
THEOREM LifespansCloseWhatTheyOpen == PlacementSpec => []TeardownIsComplete
<1>1. PlacementInit => TeardownInv
  <2> SUFFICES ASSUME PlacementInit PROVE TeardownInv
    OBVIOUS
  <2>1. config \in Configs /\ LifespanInit
    BY DEF PlacementInit, SupervisionInit
  <2> QED
    BY <2>1 DEF LifespanInit, TeardownInv, SpanOK, TeardownIsComplete
<1>2. TeardownInv => TeardownIsComplete
  BY DEF TeardownInv
<1> QED
  BY <1>1, <1>2, TeardownGoesOn, PTL DEF PlacementSpec
=============================================================================
