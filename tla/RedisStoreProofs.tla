-------------------------- MODULE RedisStoreProofs --------------------------
(***************************************************************************)
(* Proofs about RedisStore, for every set of ids, keys and options.  Each  *)
(* script is shown once to keep one entry consistent and to make one of    *)
(* the moves of a record; the actions then follow.                         *)
(***************************************************************************)
EXTENDS RedisStore, QueueRecordProofs

----------------------------------------------------------------------------
\* What a consistent entry is.

\* Only waiting records have a place in the expiry index, and only active
\* ones in the index of external executions, evicted hashes included.
Clean(e) ==
    /\ e.expiry => IsQueued(e.hash) /\ HasDeadline(e.hash)
    /\ e.external => IsActive(e.hash)

Consistent(e) ==
    /\ e \in Entry
    /\ Placed(e)
    /\ Exists(e) => Indexed(e)
    /\ ~Exists(e) => Sweepable(e)
    /\ Clean(e)

\* The moves of a record in this store.
Waits(r, q) ==
    /\ SameClaimData(r, q)
    /\ q.status = r.status \/ (IsQueued(r) /\ IsQueued(q))
    /\ IsQueued(r) /\ IsOverdue(r) => IsOverdue(q)
Ends(r, q) == SameClaimData(r, q) /\ IsActive(r) /\ IsTerminal(q)
Vanishes(r, q) ==
    /\ IsTerminal(r) \/ r.status = "deleted"
    /\ q.status = "deleted" /\ q.retry_count = r.retry_count
    /\ q.max_retries = r.max_retries /\ q.key = r.key

\* The statuses are distinct.
LEMMA Statuses ==
    ASSUME NEW r
    PROVE  /\ IsQueued(r) <=> r.status = "pending" \/ r.status = "scheduled"
           /\ IsTerminal(r) <=> \/ r.status = "completed" \/ r.status = "failed"
                                \/ r.status = "cancelled" \/ r.status = "expired"
           /\ IsActive(r) <=> IsQueued(r) \/ r.status = "running"
           /\ IsStored(r) <=> IsActive(r) \/ IsTerminal(r)
  BY DEF IsQueued, IsTerminal, IsActive, IsStored, TaskStatus, QueuedStatuses,
         TerminalStatuses

\* An entry from its parts.
LEMMA EntryFields ==
    ASSUME NEW e \in Entry
    PROVE  /\ e.hash \in QueuedTaskRecord /\ e.ref \in ExecutionRef
           /\ e.statuses \in SUBSET TaskStatus
           /\ e.ready \in BOOLEAN /\ e.scheduled \in BOOLEAN /\ e.running \in BOOLEAN
           /\ e.external \in BOOLEAN /\ e.expiry \in BOOLEAN
           /\ e.terminal \in BOOLEAN /\ e.repair \in BOOLEAN
           /\ e.meta \in TerminalStatuses \cup {None}
  BY DEF Entry

\* Consistency in terms of the fields alone.
Flat(e) ==
    /\ IsQueued(e.hash) <=> e.ready \/ e.scheduled
    /\ ~(e.ready /\ e.scheduled)
    /\ e.ready => e.hash.status = "pending" /\ e.hash.due
    /\ e.running <=> e.hash.status = "running"
    /\ e.expiry => IsQueued(e.hash) /\ HasDeadline(e.hash)
    /\ e.external => IsQueued(e.hash) \/ (e.hash.status = "running" /\ e.ref # "none")
    /\ e.repair => IsQueued(e.hash)
    /\ e.terminal <=> e.meta # None
    /\ Exists(e) =>
          /\ e.statuses = {e.hash.status}
          /\ e.terminal <=> IsTerminal(e.hash)
          /\ e.terminal => e.meta = e.hash.status
          /\ e.ref # "none" /\ IsActive(e.hash) => e.external
          /\ IsQueued(e.hash) /\ ~IsOverdue(e.hash) => e.repair
          /\ IsQueued(e.hash) /\ HasDeadline(e.hash) /\ e.ref = "none" =>
                e.expiry \/ e.hash.retry_count > 0 \/ e.external
    /\ ~Exists(e) => e.statuses = IF e.terminal THEN {e.meta} ELSE {}

LEMMA ConsistentFields ==
    ASSUME NEW e \in Entry, None \notin TaskStatus
    PROVE  Consistent(e) <=> Flat(e)
<1> USE EntryFields, Statuses
<1>1. Indexed(e) <=>
        /\ e.statuses = {e.hash.status}
        /\ e.running <=> e.hash.status = "running"
        /\ e.terminal <=> IsTerminal(e.hash)
        /\ e.meta = IF IsTerminal(e.hash) THEN e.hash.status ELSE None
        /\ e.ref # "none" /\ IsActive(e.hash) => e.external
        /\ e.external => IsActive(e.hash) /\ (IsQueued(e.hash) \/ e.ref # "none")
        /\ IsQueued(e.hash) /\ ~IsOverdue(e.hash) => e.repair
        /\ e.repair => IsQueued(e.hash)
        /\ IsQueued(e.hash) /\ HasDeadline(e.hash) /\ e.ref = "none" =>
              e.expiry \/ e.hash.retry_count > 0 \/ e.external
        /\ e.expiry => IsQueued(e.hash) /\ HasDeadline(e.hash)
  <2> DEFINE r == Rebuilt(e)
  <2>1. /\ r.running <=> e.hash.status = "running"
        /\ r.expiry <=> IsQueued(e.hash) /\ HasDeadline(e.hash) /\ e.ref = "none"
        /\ r.external <=> e.ref # "none" /\ IsActive(e.hash)
        /\ r.terminal <=> IsTerminal(e.hash)
        /\ r.meta = IF IsTerminal(e.hash) THEN e.hash.status ELSE None
        /\ r.repair <=> IsQueued(e.hash) /\ ~IsOverdue(e.hash)
    BY DEF Rebuilt, Entry, IsTerminal
  <2> HIDE DEF r
  <2> QED
    BY <2>1 DEF Indexed, ClearedRef, r
<1>2. Placed(e) <=>
        /\ IsQueued(e.hash) <=> e.ready \/ e.scheduled
        /\ ~(e.ready /\ e.scheduled)
        /\ e.ready => e.hash.status = "pending" /\ e.hash.due
  BY DEF Placed
<1>3. ASSUME Consistent(e) PROVE Flat(e)
  <2>1. CASE Exists(e)
    BY <1>1, <1>2, <1>3, <2>1 DEF Consistent, Flat, Clean, Exists, IsStored, TaskStatus
  <2>2. CASE ~Exists(e)
    BY <1>2, <1>3, <2>2 DEF Consistent, Flat, Clean, Exists, Sweepable
  <2> QED
    BY <2>1, <2>2
<1>4. ASSUME Flat(e) PROVE Consistent(e)
  <2>1. CASE Exists(e)
    BY <1>1, <1>2, <1>4, <2>1 DEF Consistent, Flat, Clean, Exists, IsStored, TaskStatus
  <2>2. CASE ~Exists(e)
    BY <1>2, <1>4, <2>2 DEF Consistent, Flat, Clean, Exists, Sweepable
  <2> QED
    BY <2>1, <2>2
<1> QED
  BY <1>3, <1>4

\* enqueue: the new entry is consistent.
LEMMA EnqueueConsistent ==
    ASSUME NEW o \in EnqueueOptions, None \notin TaskStatus
    PROVE  Consistent(EnqueueScript(o))
<1> DEFINE r == NewRecord(o)
           e == EnqueueScript(o)
<1>1. o.due \in BOOLEAN
  BY DEF EnqueueOptions
<1>2. r \in QueuedTaskRecord
  BY DEF QueuedTaskRecord, EnqueueOptions, NewRecord, TaskStatus, QueuedStatuses,
         TerminalStatuses
<1>3. r.status = (IF o.due THEN "pending" ELSE "scheduled") /\ r.due = o.due
  BY DEF NewRecord
<1> HIDE DEF r
<1>4. /\ e.hash = r /\ e.ref = "none" /\ e.statuses = {r.status}
      /\ e.ready = o.due /\ e.scheduled = ~o.due
      /\ e.running = FALSE /\ e.external = FALSE /\ e.expiry = HasDeadline(r)
      /\ e.terminal = FALSE /\ e.repair = TRUE /\ e.meta = None
  BY DEF EnqueueScript, NoEntry, r
<1>5. IsQueued(r) /\ IsStored(r) /\ IsActive(r) /\ ~IsTerminal(r) /\ r.status # "running"
  BY <1>3 DEF IsQueued, IsStored, IsActive, IsTerminal, TaskStatus, QueuedStatuses,
              TerminalStatuses
<1>6. e \in Entry
  BY <1>1, <1>2, <1>5 DEF Entry, ExecutionRef, EnqueueScript, NoEntry, HasDeadline, IsStored, r
<1>7. Flat(e)
  BY <1>1, <1>3, <1>4, <1>5 DEF Flat, Exists
<1> QED
  BY <1>6, <1>7, ConsistentFields
----------------------------------------------------------------------------
\* The transition script.

LEMMA TransitionConsistent ==
    ASSUME NEW e, Consistent(e), Exists(e), None \notin TaskStatus,
           NEW r \in QueuedTaskRecord, IsStored(r), NEW ref \in ExecutionRef,
           NEW z \in {"none", "ready", "scheduled", "remove"},
           z = "none" => r.status = e.hash.status /\ r.due = e.hash.due,
           z = "ready" => r.status = "pending" /\ r.due,
           z = "scheduled" => IsQueued(r),
           z = "remove" => ~IsQueued(r)
    PROVE  /\ Consistent(TransitionScript(e, r, ref, z))
           /\ TransitionScript(e, r, ref, z).hash = r
<1> DEFINE f == TransitionScript(e, r, ref, z)
<1>1. e \in Entry /\ Flat(e)
  BY ConsistentFields DEF Consistent
<1>2. f \in Entry
  <2> DEFINE w == WithHash(e, r)
             rd == IF z = "none" THEN w.ready ELSE z = "ready"
             sc == IF z = "none" THEN w.scheduled ELSE z = "scheduled"
             ru == r.status = "running"
             te == IsTerminal(r)
             me == IF IsTerminal(r) THEN r.status ELSE None
             xp == IsQueued(r) /\ HasDeadline(r)
             xt == ref # "none" /\ IsActive(r)
             re == IsQueued(r)
  <2>1. w \in Entry
    BY <1>1 DEF WithHash, Entry, IsStored
  <2>2. rd \in BOOLEAN /\ sc \in BOOLEAN
    BY <2>1, EntryFields
  <2>3. /\ ru \in BOOLEAN /\ te \in BOOLEAN /\ xp \in BOOLEAN
        /\ xt \in BOOLEAN /\ re \in BOOLEAN /\ me \in TerminalStatuses \cup {None}
    BY DEF IsTerminal, IsQueued
  <2> DEFINE w1 == [w EXCEPT !.ref = ref, !.ready = rd, !.scheduled = sc]
             w2 == [w1 EXCEPT !.running = ru, !.terminal = te, !.meta = me]
             w3 == [w2 EXCEPT !.expiry = xp, !.external = xt, !.repair = re]
  <2>4. f = w3
    BY DEF TransitionScript
  <2> HIDE DEF f, w, rd, sc, ru, te, me, xp, xt, re
  <2>5. w1 \in Entry
    BY <2>1, <2>2 DEF Entry
  <2> HIDE DEF w1
  <2>6. w2 \in Entry
    BY <2>3, <2>5 DEF Entry
  <2> HIDE DEF w2
  <2>7. w3 \in Entry
    BY <2>3, <2>6 DEF Entry
  <2> QED
    BY <2>4, <2>7
<1>3. /\ f.hash = r /\ f.ref = ref
      /\ f.statuses = (e.statuses \ {e.hash.status}) \cup {r.status}
      /\ f.ready <=> IF z = "none" THEN e.ready ELSE z = "ready"
      /\ f.scheduled <=> IF z = "none" THEN e.scheduled ELSE z = "scheduled"
      /\ f.running <=> r.status = "running"
      /\ f.terminal <=> IsTerminal(r)
      /\ f.meta = IF IsTerminal(r) THEN r.status ELSE None
      /\ f.expiry <=> IsQueued(r) /\ HasDeadline(r)
      /\ f.external <=> ref # "none" /\ IsActive(r)
      /\ f.repair <=> IsQueued(r)
  BY <1>1 DEF TransitionScript, WithHash, Entry, IsTerminal, IsQueued
<1> HIDE DEF f
<1>4. f.statuses = {r.status}
  BY <1>1, <1>3 DEF Flat
<1>5. IsTerminal(r) => r.status # None
  BY DEF IsStored, IsTerminal
<1>6. Flat(f)
  BY <1>1, <1>3, <1>4, <1>5, Statuses, EntryFields DEF Flat, Exists
<1> QED
  BY <1>2, <1>3, <1>6, ConsistentFields DEF f

\* The scripts that end a record.
LEMMA MarkTerminalFields ==
    ASSUME NEW e \in Entry, NEW r \in QueuedTaskRecord, IsTerminal(r)
    PROVE  LET f == MarkTerminal(e, r)
           IN  /\ f \in Entry
               /\ f.hash = r /\ f.ref = e.ref
               /\ f.statuses = (e.statuses \ {e.hash.status}) \cup {r.status}
               /\ f.ready = e.ready /\ f.scheduled = e.scheduled
               /\ f.running = FALSE /\ f.external = FALSE /\ f.expiry = e.expiry
               /\ f.terminal = TRUE /\ f.repair = FALSE /\ f.meta = r.status
  BY DEF MarkTerminal, WithHash, Entry, IsTerminal, TaskStatus

LEMMA MarkTerminalConsistent ==
    ASSUME NEW e, Consistent(e), Exists(e), ~IsQueued(e.hash), None \notin TaskStatus,
           NEW r \in QueuedTaskRecord, IsTerminal(r)
    PROVE  Consistent(MarkTerminal(e, r)) /\ MarkTerminal(e, r).hash = r
<1> DEFINE f == MarkTerminal(e, r)
<1>1. e \in Entry /\ Flat(e)
  BY ConsistentFields DEF Consistent
<1>2. /\ f \in Entry
      /\ f.hash = r /\ f.ref = e.ref
      /\ f.statuses = (e.statuses \ {e.hash.status}) \cup {r.status}
      /\ f.ready = e.ready /\ f.scheduled = e.scheduled
      /\ f.running = FALSE /\ f.external = FALSE /\ f.expiry = e.expiry
      /\ f.terminal = TRUE /\ f.repair = FALSE /\ f.meta = r.status
  BY <1>1, MarkTerminalFields
<1> HIDE DEF f
<1>3. f.statuses = {r.status} /\ r.status # None
  BY <1>1, <1>2 DEF Flat, IsTerminal, TaskStatus
<1>4. Flat(f)
  BY <1>1, <1>2, <1>3, Statuses, EntryFields DEF Flat, Exists
<1> QED
  BY <1>2, <1>4, ConsistentFields DEF f

LEMMA ExpireConsistent ==
    ASSUME NEW e, Consistent(e), IsQueued(e.hash), None \notin TaskStatus
    PROVE  /\ Consistent(ExpireEntry(e))
           /\ Ends(e.hash, ExpireEntry(e).hash)
<1> DEFINE r == ExpireRecord(e.hash)
           m == MarkTerminal(e, r)
           f == ExpireEntry(e)
<1>1. e \in Entry /\ Flat(e) /\ e.hash \in QueuedTaskRecord
  BY ConsistentFields, EntryFields DEF Consistent
<1>2. r \in QueuedTaskRecord /\ EndsWithoutResult(e.hash, r)
  BY <1>1, QueuedMoves
<1>3. IsTerminal(r) /\ Ends(e.hash, r)
  BY <1>2 DEF EndsWithoutResult, Ends, IsTerminal, TerminalStatuses
<1>4. /\ m \in Entry
      /\ m.hash = r /\ m.ref = e.ref
      /\ m.statuses = (e.statuses \ {e.hash.status}) \cup {r.status}
      /\ m.running = FALSE /\ m.external = FALSE
      /\ m.terminal = TRUE /\ m.repair = FALSE /\ m.meta = r.status
  BY <1>1, <1>2, <1>3, MarkTerminalFields
<1>5. f = [m EXCEPT !.ready = FALSE, !.scheduled = FALSE, !.expiry = FALSE]
  BY DEF ExpireEntry
<1> HIDE DEF m, f, r
<1>6. /\ f \in Entry
      /\ f.hash = r /\ f.ref = e.ref
      /\ f.statuses = (e.statuses \ {e.hash.status}) \cup {r.status}
      /\ f.ready = FALSE /\ f.scheduled = FALSE /\ f.expiry = FALSE
      /\ f.running = FALSE /\ f.external = FALSE
      /\ f.terminal = TRUE /\ f.repair = FALSE /\ f.meta = r.status
  BY <1>4, <1>5 DEF Entry
<1>7. f.statuses = {r.status} /\ r.status # None
  BY <1>1, <1>3, <1>6, Statuses DEF Flat, IsTerminal, TaskStatus, Exists
<1>8. Flat(f)
  BY <1>3, <1>6, <1>7, Statuses DEF Flat, Exists
<1> QED
  BY <1>3, <1>6, <1>8, ConsistentFields DEF f
----------------------------------------------------------------------------
\* The claim scripts.

LEMMA GrantFields ==
    ASSUME NEW e \in Entry, IsQueued(e.hash), NEW x \in BOOLEAN
    PROVE  /\ GrantEntry(e) \in Entry
           /\ LET f == [GrantEntry(e) EXCEPT !.scheduled = FALSE, !.external = x]
              IN  /\ f \in Entry
                  /\ f.hash = ClaimTask(e.hash) /\ f.ref = e.ref
                  /\ f.statuses = (e.statuses \ {e.hash.status}) \cup {"running"}
                  /\ f.ready = FALSE /\ f.scheduled = FALSE /\ f.running = TRUE
                  /\ f.external = x /\ f.expiry = FALSE /\ f.terminal = FALSE
                  /\ f.repair = FALSE /\ f.meta = None
           /\ ~e.scheduled => [GrantEntry(e) EXCEPT !.external = x] =
                  [GrantEntry(e) EXCEPT !.scheduled = FALSE, !.external = x]
<1> DEFINE q == ClaimTask(e.hash)
           w == WithHash(e, q)
           w1 == [w EXCEPT !.ready = FALSE, !.running = TRUE, !.expiry = FALSE]
           w2 == [w1 EXCEPT !.terminal = FALSE, !.meta = None, !.repair = FALSE]
           f == [w2 EXCEPT !.scheduled = FALSE, !.external = x]
<1>1. e.hash \in QueuedTaskRecord
  BY EntryFields
<1>2. q \in QueuedTaskRecord /\ q.status = "running"
  BY <1>1, QueuedMoves DEF Starts
<1>3. GrantEntry(e) = w2
  BY DEF GrantEntry
<1> HIDE DEF q
<1>4. w \in Entry /\ w.hash = q /\ w.ref = e.ref /\ w.scheduled = e.scheduled
      /\ w.statuses = (e.statuses \ {e.hash.status}) \cup {"running"}
  BY <1>2 DEF WithHash, Entry, TaskStatus
<1> HIDE DEF w
<1>5. w1 \in Entry /\ w1.hash = q /\ w1.ref = e.ref /\ w1.scheduled = e.scheduled
      /\ w1.statuses = w.statuses
      /\ w1.ready = FALSE /\ w1.running = TRUE /\ w1.expiry = FALSE
  BY <1>4 DEF Entry
<1> HIDE DEF w1
<1>6. w2 \in Entry /\ w2.hash = q /\ w2.ref = e.ref /\ w2.scheduled = e.scheduled
      /\ w2.statuses = w.statuses
      /\ w2.ready = FALSE /\ w2.running = TRUE /\ w2.expiry = FALSE
      /\ w2.terminal = FALSE /\ w2.meta = None /\ w2.repair = FALSE
  BY <1>5 DEF Entry
<1> HIDE DEF w2
<1>7. f \in Entry /\ f.hash = q /\ f.ref = e.ref
      /\ f.statuses = w.statuses
      /\ f.ready = FALSE /\ f.running = TRUE /\ f.expiry = FALSE
      /\ f.terminal = FALSE /\ f.meta = None /\ f.repair = FALSE
      /\ f.scheduled = FALSE /\ f.external = x
  BY <1>6 DEF Entry
<1>8. ~e.scheduled => [w2 EXCEPT !.external = x] = f
  <2>1. ASSUME ~e.scheduled PROVE [w2 EXCEPT !.scheduled = FALSE] = w2
    BY <1>6, <2>1, EntryFields DEF Entry
  <2> QED
    BY <2>1
<1> QED
  BY <1>3, <1>4, <1>6, <1>7, <1>8 DEF q

LEMMA GrantConsistent ==
    ASSUME NEW e, Consistent(e), IsQueued(e.hash), None \notin TaskStatus,
           NEW x \in BOOLEAN, x <=> e.ref # "none"
    PROVE  LET f == [GrantEntry(e) EXCEPT !.scheduled = FALSE, !.external = x]
           IN  Consistent(f) /\ Starts(e.hash, f.hash)
<1> DEFINE f == [GrantEntry(e) EXCEPT !.scheduled = FALSE, !.external = x]
<1>1. e \in Entry /\ Flat(e) /\ e.hash \in QueuedTaskRecord
  BY ConsistentFields, EntryFields DEF Consistent
<1>2. /\ f \in Entry
      /\ f.hash = ClaimTask(e.hash) /\ f.ref = e.ref
      /\ f.statuses = (e.statuses \ {e.hash.status}) \cup {"running"}
      /\ f.ready = FALSE /\ f.scheduled = FALSE /\ f.running = TRUE
      /\ f.external = x /\ f.expiry = FALSE /\ f.terminal = FALSE
      /\ f.repair = FALSE /\ f.meta = None
  BY <1>1, GrantFields
<1>3. Starts(e.hash, f.hash)
  BY <1>1, <1>2, QueuedMoves
<1> HIDE DEF f
<1>4. f.hash.status = "running"
  BY <1>3 DEF Starts
<1>5. f.statuses = {"running"}
  BY <1>1, <1>2, Statuses DEF Flat, Exists
<1>6. Flat(f)
  BY <1>2, <1>4, <1>5, Statuses DEF Flat, Exists
<1> QED
  BY <1>2, <1>3, <1>6, ConsistentFields DEF f

\* claim_task.
LEMMA ClaimTaskConsistent ==
    ASSUME NEW e, Consistent(e), IsQueued(e.hash), None \notin TaskStatus
    PROVE  LET f == ClaimTaskScript(e)
           IN  /\ Consistent(f)
               /\ \/ f.hash.status = "running" /\ Starts(e.hash, f.hash)
                  \/ f.hash.status # "running" /\ Ends(e.hash, f.hash)
<1> DEFINE x == e.ref # "none"
<1>1. CASE e.ref = "none" /\ IsOverdue(e.hash)
  <2>1. ClaimTaskScript(e) = ExpireEntry(e)
    BY <1>1 DEF ClaimTaskScript
  <2>2. Consistent(ExpireEntry(e)) /\ Ends(e.hash, ExpireEntry(e).hash)
    BY ExpireConsistent
  <2>3. ExpireEntry(e).hash.status # "running"
    BY <2>2, Statuses DEF Ends
  <2> QED
    BY <2>1, <2>2, <2>3
<1>2. CASE ~(e.ref = "none" /\ IsOverdue(e.hash))
  <2>1. ClaimTaskScript(e) = [GrantEntry(e) EXCEPT !.scheduled = FALSE, !.external = x]
    BY <1>2 DEF ClaimTaskScript
  <2>2. x \in BOOLEAN
    OBVIOUS
  <2> QED
    BY <2>1, <2>2, GrantConsistent DEF Starts
<1> QED
  BY <1>1, <1>2

\* claim_many, first loop: a due id is promoted, expired, or left.
LEMMA PromoteConsistent ==
    ASSUME NEW e, Consistent(e), e.scheduled, e.hash.due, None \notin TaskStatus,
           NEW selected \in BOOLEAN
    PROVE  LET f == PromoteDue(e, selected)
           IN  /\ Consistent(f) /\ f.ref = e.ref
               /\ Waits(e.hash, f.hash) \/ Ends(e.hash, f.hash)
<1>1. e \in Entry /\ Flat(e) /\ e.hash \in QueuedTaskRecord
  BY ConsistentFields, EntryFields DEF Consistent
<1>2. IsQueued(e.hash) /\ ~e.ready
  BY <1>1 DEF Flat
<1>3. CASE ~selected \/ e.ref = "reservation"
  <2>1. PromoteDue(e, selected) = e
    BY <1>2, <1>3 DEF PromoteDue
  <2> QED
    BY <2>1 DEF Waits, SameClaimData
<1>4. CASE ~(~selected \/ e.ref = "reservation") /\ IsOverdue(e.hash)
  <2>1. PromoteDue(e, selected) = ExpireEntry(e)
    BY <1>2, <1>4 DEF PromoteDue
  <2>2. Consistent(ExpireEntry(e)) /\ Ends(e.hash, ExpireEntry(e).hash)
    BY <1>2, ExpireConsistent
  <2>3. ExpireEntry(e).ref = e.ref
    BY <1>1 DEF ExpireEntry, MarkTerminal, WithHash, Entry
  <2> QED
    BY <2>1, <2>2, <2>3
<1>5. CASE ~(~selected \/ e.ref = "reservation") /\ ~IsOverdue(e.hash)
  <2> DEFINE r == [e.hash EXCEPT !.status = "pending"]
             w == WithHash(e, r)
             f == [w EXCEPT !.ready = TRUE, !.scheduled = FALSE]
  <2>1. PromoteDue(e, selected) = f
    BY <1>2, <1>5 DEF PromoteDue
  <2>2. /\ r \in QueuedTaskRecord /\ r.status = "pending" /\ r.due
        /\ r.expires_at = e.hash.expires_at /\ SameClaimData(e.hash, r)
    BY <1>1 DEF QueuedTaskRecord, TaskStatus, QueuedStatuses, SameClaimData
  <2> HIDE DEF r
  <2>3. /\ w \in Entry /\ w.hash = r /\ w.ref = e.ref
        /\ w.statuses = (e.statuses \ {e.hash.status}) \cup {r.status}
        /\ w.running = e.running /\ w.external = e.external /\ w.expiry = e.expiry
        /\ w.terminal = e.terminal /\ w.repair = e.repair /\ w.meta = e.meta
    BY <1>1, <2>2 DEF WithHash, Entry, TaskStatus, QueuedStatuses
  <2> HIDE DEF w
  <2>4. /\ f \in Entry /\ f.hash = r /\ f.ref = e.ref /\ f.statuses = w.statuses
        /\ f.ready = TRUE /\ f.scheduled = FALSE
        /\ f.running = e.running /\ f.external = e.external /\ f.expiry = e.expiry
        /\ f.terminal = e.terminal /\ f.repair = e.repair /\ f.meta = e.meta
    BY <2>3 DEF Entry
  <2> HIDE DEF f
  <2>5. f.statuses = {r.status}
    BY <1>1, <1>2, <2>3, <2>4, Statuses DEF Flat, Exists
  <2>6. Flat(f)
    BY <1>1, <1>2, <2>2, <2>4, <2>5, Statuses, EntryFields
       DEF Flat, Exists, IsOverdue, HasDeadline, SameClaimData
  <2> QED
    BY <1>2, <2>1, <2>2, <2>4, <2>6, ConsistentFields, Statuses DEF Waits, IsOverdue
<1> QED
  BY <1>3, <1>4, <1>5

\* claim_many, second loop: an id of the ready set is granted, expired, or left.
LEMMA ScanConsistent ==
    ASSUME NEW e, Consistent(e), e.ready, None \notin TaskStatus,
           NEW selected \in BOOLEAN, selected => e.ref # "provider"
    PROVE  LET f == ScanReady(e, selected)
           IN  /\ Consistent(f)
               /\ \/ f.hash.status = "running" /\ Starts(e.hash, f.hash)
                  \/ f.hash.status # "running" /\ f = e
                  \/ f.hash.status # "running" /\ Ends(e.hash, f.hash)
<1>1. e \in Entry /\ Flat(e) /\ e.hash \in QueuedTaskRecord
  BY ConsistentFields, EntryFields DEF Consistent
<1>2. e.hash.status = "pending" /\ IsQueued(e.hash) /\ ~e.scheduled
  BY <1>1 DEF Flat
<1>3. CASE ~selected \/ e.ref = "reservation"
  BY <1>2, <1>3 DEF ScanReady
<1>4. CASE ~(~selected \/ e.ref = "reservation") /\ IsOverdue(e.hash)
  <2>1. ScanReady(e, selected) = ExpireEntry(e)
    BY <1>2, <1>4 DEF ScanReady
  <2>2. Consistent(ExpireEntry(e)) /\ Ends(e.hash, ExpireEntry(e).hash)
    BY <1>2, ExpireConsistent
  <2>3. ExpireEntry(e).hash.status # "running"
    BY <2>2, Statuses DEF Ends
  <2> QED
    BY <2>1, <2>2, <2>3
<1>5. CASE ~(~selected \/ e.ref = "reservation") /\ ~IsOverdue(e.hash)
  <2>1. e.ref = "none"
    BY <1>1, <1>5, EntryFields DEF ExecutionRef
  <2>2. ScanReady(e, selected) = [GrantEntry(e) EXCEPT !.external = FALSE]
    BY <1>2, <1>5 DEF ScanReady
  <2>3. ScanReady(e, selected) =
          [GrantEntry(e) EXCEPT !.scheduled = FALSE, !.external = FALSE]
    BY <1>1, <1>2, <2>2, GrantFields
  <2> QED
    BY <1>2, <2>1, <2>3, GrantConsistent DEF Starts
<1> QED
  BY <1>3, <1>4, <1>5
----------------------------------------------------------------------------
\* The scripts that settle an attempt.

LEMMA CompleteConsistent ==
    ASSUME NEW e, Consistent(e), e.hash.status = "running", None \notin TaskStatus
    PROVE  LET f == CompleteScript(e, e.hash.retry_count)
           IN  Consistent(f) /\ Ends(e.hash, f.hash)
<1> DEFINE r == CompleteTask(e.hash, e.hash.retry_count)
<1>1. e.hash \in QueuedTaskRecord
  BY EntryFields DEF Consistent
<1>2. r \in QueuedTaskRecord /\ Completes(e.hash, r)
  BY <1>1, CompleteMove
<1>3. IsTerminal(r) /\ Ends(e.hash, r)
  BY <1>2 DEF Completes, Ends, IsTerminal, TerminalStatuses, IsActive
<1>4. Exists(e) /\ ~IsQueued(e.hash)
  BY Statuses DEF Exists
<1> HIDE DEF r
<1>5. Consistent(MarkTerminal(e, r)) /\ MarkTerminal(e, r).hash = r
  BY <1>2, <1>3, <1>4, MarkTerminalConsistent
<1> QED
  BY <1>3, <1>5 DEF CompleteScript, r

\* Where fail_task puts a record that it retries.
LEMMA FailTaskPlace ==
    ASSUME NEW r \in QueuedTaskRecord, NEW retry \in BOOLEAN, NEW delayed \in BOOLEAN,
           ~IsTerminal(FailTask(r, retry, delayed))
    PROVE  /\ FailTask(r, retry, delayed).status =
                  IF delayed THEN "scheduled" ELSE "pending"
           /\ FailTask(r, retry, delayed).due = ~delayed
  BY DEF FailTask, QueuedTaskRecord, IsTerminal, TerminalStatuses

LEMMA FailConsistent ==
    ASSUME NEW e, Consistent(e), e.hash.status = "running", None \notin TaskStatus,
           NEW retry \in BOOLEAN, NEW delayed \in BOOLEAN
    PROVE  LET f == FailScript(e, retry, delayed)
           IN  Consistent(f) /\ (Retries(e.hash, f.hash) \/ Ends(e.hash, f.hash))
<1> DEFINE r == FailTask(e.hash, retry, delayed)
           f == FailScript(e, retry, delayed)
<1>1. e \in Entry /\ Flat(e) /\ e.hash \in QueuedTaskRecord
  BY ConsistentFields, EntryFields DEF Consistent
<1>2. r \in QueuedTaskRecord /\ (Retries(e.hash, r) \/ EndsWithoutResult(e.hash, r))
  BY <1>1, FailMove
<1>3. Retries(e.hash, r) \/ Ends(e.hash, r)
  BY <1>2 DEF EndsWithoutResult, Ends, IsTerminal
<1>4. Exists(e) /\ ~IsQueued(e.hash)
  BY Statuses DEF Exists
<1>5. CASE IsTerminal(r)
  <2>1. f = MarkTerminal(e, r)
    BY <1>5 DEF FailScript
  <2> HIDE DEF r
  <2>2. Consistent(MarkTerminal(e, r)) /\ MarkTerminal(e, r).hash = r
    BY <1>2, <1>4, <1>5, MarkTerminalConsistent
  <2> QED
    BY <1>3, <2>1, <2>2 DEF r
<1>6. CASE ~IsTerminal(r)
  <2> DEFINE x == e.ref # "none"
             nd == ~delayed
             w == WithHash(e, r)
             w1 == [w EXCEPT !.running = FALSE, !.terminal = FALSE, !.meta = None]
             w2 == [w1 EXCEPT !.external = x, !.ready = nd, !.scheduled = delayed,
                              !.repair = TRUE]
  <2>1. f = w2
    BY <1>6 DEF FailScript
  <2>2. r.status = (IF delayed THEN "scheduled" ELSE "pending") /\ r.due = nd
    BY <1>1, <1>6, FailTaskPlace
  <2>3. x \in BOOLEAN /\ nd \in BOOLEAN /\ (nd <=> ~delayed)
    OBVIOUS
  <2> HIDE DEF r, x, nd, f
  <2>4. /\ w \in Entry /\ w.hash = r /\ w.ref = e.ref
        /\ w.statuses = (e.statuses \ {e.hash.status}) \cup {r.status}
        /\ w.expiry = e.expiry
    BY <1>1, <1>2, <2>2 DEF WithHash, Entry, TaskStatus, QueuedStatuses
  <2> HIDE DEF w
  <2>5. /\ w1 \in Entry /\ w1.hash = r /\ w1.ref = e.ref
        /\ w1.statuses = w.statuses /\ w1.expiry = e.expiry
        /\ w1.running = FALSE /\ w1.terminal = FALSE /\ w1.meta = None
    BY <2>4 DEF Entry
  <2> HIDE DEF w1
  <2>6. /\ w2 \in Entry /\ w2.hash = r /\ w2.ref = e.ref
        /\ w2.statuses = w.statuses /\ w2.expiry = e.expiry
        /\ w2.running = FALSE /\ w2.terminal = FALSE /\ w2.meta = None
        /\ w2.external = x /\ w2.ready = nd /\ w2.scheduled = delayed /\ w2.repair = TRUE
    BY <2>3, <2>5 DEF Entry
  <2> HIDE DEF w2
  <2>7. w2.statuses = {r.status}
    BY <1>1, <1>4, <2>4, <2>6 DEF Flat
  <2>8. x <=> e.ref # "none"
    BY DEF x
  <2>9. w2.expiry = FALSE
    BY <1>1, <1>4, <2>4, <2>5, <2>6, EntryFields DEF Flat
  <2>10. IsQueued(r) => r.retry_count > 0
    <3>1. e.hash.retry_count \in Nat
      BY <1>1 DEF QueuedTaskRecord
    <3> QED
      BY <1>3, <1>6, <3>1, Statuses DEF Retries, Ends
  <2>11. Flat(w2)
    BY <2>2, <2>3, <2>6, <2>7, <2>8, <2>9, <2>10, Statuses DEF Flat, Exists
  <2> QED
    BY <1>3, <2>1, <2>6, <2>11, ConsistentFields DEF f
<1> QED
  BY <1>5, <1>6

----------------------------------------------------------------------------
\* What touches only the indexes, the reference or a timestamp.

\* e and f differ at most in ref, external, expiry and repair.
SameIndexes(e, f) ==
    /\ f.hash = e.hash /\ f.statuses = e.statuses
    /\ f.ready = e.ready /\ f.scheduled = e.scheduled /\ f.running = e.running
    /\ f.terminal = e.terminal /\ f.meta = e.meta

LEMMA ReferenceConsistent ==
    ASSUME NEW e, Consistent(e), None \notin TaskStatus,
           NEW f \in Entry, SameIndexes(e, f),
           f.expiry => IsQueued(e.hash) /\ HasDeadline(e.hash),
           f.external => IsQueued(e.hash) \/ (e.hash.status = "running" /\ f.ref # "none"),
           f.repair => IsQueued(e.hash),
           f.ref # "none" /\ IsActive(e.hash) => f.external,
           IsQueued(e.hash) /\ ~IsOverdue(e.hash) => f.repair,
           IsQueued(e.hash) /\ HasDeadline(e.hash) /\ f.ref = "none" =>
               f.expiry \/ e.hash.retry_count > 0 \/ f.external
    PROVE  Consistent(f) /\ Waits(e.hash, f.hash)
<1>1. e \in Entry /\ Flat(e)
  BY ConsistentFields DEF Consistent
<1>2. Flat(f)
  BY <1>1 DEF Flat, Exists, SameIndexes
<1> QED
  BY <1>2, ConsistentFields DEF Waits, SameClaimData, SameIndexes

LEMMA ReserveConsistent ==
    ASSUME NEW e, Consistent(e), IsQueued(e.hash), None \notin TaskStatus,
           NEW ref \in ExecutionRef
    PROVE  LET f == [e EXCEPT !.ref = ref, !.expiry = FALSE, !.external = TRUE,
                              !.repair = TRUE]
           IN  Consistent(f) /\ Waits(e.hash, f.hash)
<1> DEFINE f == [e EXCEPT !.ref = ref, !.expiry = FALSE, !.external = TRUE,
                          !.repair = TRUE]
<1>1. e \in Entry
  BY DEF Consistent
<1>2. f \in Entry /\ SameIndexes(e, f) /\ f.expiry = FALSE /\ f.external = TRUE
      /\ f.repair = TRUE
  BY <1>1 DEF Entry, SameIndexes
<1> HIDE DEF f
<1>3. Consistent(f) /\ Waits(e.hash, f.hash)
  BY <1>2, ReferenceConsistent, Statuses
<1> QED
  BY <1>3 DEF f

LEMMA ReleaseConsistent ==
    ASSUME NEW e, Consistent(e), None \notin TaskStatus
    PROVE  LET queued == IsQueued(e.hash)
               f == [e EXCEPT !.ref = "none", !.external = FALSE,
                              !.expiry = @ \/ (queued /\ HasDeadline(e.hash)),
                              !.repair = queued]
           IN  Consistent(f) /\ Waits(e.hash, f.hash)
<1> DEFINE queued == IsQueued(e.hash)
           xp == e.expiry \/ (queued /\ HasDeadline(e.hash))
           f == [e EXCEPT !.ref = "none", !.external = FALSE, !.expiry = xp,
                          !.repair = queued]
<1>1. e \in Entry /\ Flat(e)
  BY ConsistentFields DEF Consistent
<1>2. xp \in BOOLEAN /\ queued \in BOOLEAN /\ (queued <=> IsQueued(e.hash))
      /\ (xp <=> IsQueued(e.hash) /\ HasDeadline(e.hash))
  BY <1>1, EntryFields DEF Flat, IsQueued
<1>3. f = [e EXCEPT !.ref = "none", !.external = FALSE,
                    !.expiry = @ \/ (queued /\ HasDeadline(e.hash)), !.repair = queued]
  OBVIOUS
<1> HIDE DEF xp, queued
<1>4. f \in Entry /\ SameIndexes(e, f) /\ f.ref = "none" /\ f.expiry = xp
      /\ f.external = FALSE /\ f.repair = queued
  BY <1>1, <1>2 DEF Entry, SameIndexes, ExecutionRef
<1> HIDE DEF f
<1>5. Consistent(f) /\ Waits(e.hash, f.hash)
  BY <1>2, <1>4, ReferenceConsistent, Statuses
<1> QED
  BY <1>3, <1>5 DEF f, queued

LEMMA FinalizeConsistent ==
    ASSUME NEW e, Consistent(e), IsQueued(e.hash), e.ref = "reservation",
           None \notin TaskStatus
    PROVE  LET f == [e EXCEPT !.ref = "provider", !.repair = TRUE]
           IN  Consistent(f) /\ Waits(e.hash, f.hash)
<1> DEFINE f == [e EXCEPT !.ref = "provider", !.repair = TRUE]
<1>1. e \in Entry /\ Flat(e)
  BY ConsistentFields DEF Consistent
<1>2. f \in Entry /\ SameIndexes(e, f) /\ f.expiry = e.expiry /\ f.external = e.external
      /\ f.repair = TRUE
  BY <1>1 DEF Entry, SameIndexes, ExecutionRef
<1> HIDE DEF f
<1>3. Consistent(f) /\ Waits(e.hash, f.hash)
  BY <1>1, <1>2, ReferenceConsistent, Statuses DEF Flat, Exists
<1> QED
  BY <1>3 DEF f

LEMMA ClearConsistent ==
    ASSUME NEW e, Consistent(e), IsQueued(e.hash), e.ref # "none", None \notin TaskStatus
    PROVE  LET f == [e EXCEPT !.ref = "none"]
           IN  Consistent(f) /\ Waits(e.hash, f.hash)
<1> DEFINE f == [e EXCEPT !.ref = "none"]
<1>1. e \in Entry /\ Flat(e)
  BY ConsistentFields DEF Consistent
<1>2. f \in Entry /\ SameIndexes(e, f) /\ f.expiry = e.expiry /\ f.external = e.external
      /\ f.repair = e.repair /\ f.ref = "none"
  BY <1>1 DEF Entry, SameIndexes, ExecutionRef
<1> HIDE DEF f
<1>3. Consistent(f) /\ Waits(e.hash, f.hash)
  BY <1>1, <1>2, ReferenceConsistent, Statuses DEF Flat, Exists
<1> QED
  BY <1>3 DEF f

LEMMA ReplaceConsistent ==
    ASSUME NEW e, Consistent(e), IsQueued(e.hash), e.ref # "none", None \notin TaskStatus
    PROVE  LET f == [e EXCEPT !.ref = "provider"]
           IN  Consistent(f) /\ Waits(e.hash, f.hash)
<1> DEFINE f == [e EXCEPT !.ref = "provider"]
<1>1. e \in Entry /\ Flat(e)
  BY ConsistentFields DEF Consistent
<1>2. f \in Entry /\ SameIndexes(e, f) /\ f.expiry = e.expiry /\ f.external = e.external
      /\ f.repair = e.repair
  BY <1>1 DEF Entry, SameIndexes, ExecutionRef
<1> HIDE DEF f
<1>3. Consistent(f) /\ Waits(e.hash, f.hash)
  BY <1>1, <1>2, ReferenceConsistent, Statuses DEF Flat, Exists
<1> QED
  BY <1>3 DEF f

LEMMA ReserveScheduledConsistent ==
    ASSUME NEW e, Consistent(e), IsQueued(e.hash), None \notin TaskStatus,
           NEW ref \in ExecutionRef, ref # "none"
    PROVE  LET f == [e EXCEPT !.ref = ref, !.external = ref # "none"]
           IN  Consistent(f) /\ Waits(e.hash, f.hash)
<1> DEFINE x == ref # "none"
           f == [e EXCEPT !.ref = ref, !.external = x]
<1>1. e \in Entry /\ Flat(e)
  BY ConsistentFields DEF Consistent
<1>2. x \in BOOLEAN /\ (x <=> ref # "none")
  OBVIOUS
<1> HIDE DEF x
<1>3. f \in Entry /\ SameIndexes(e, f) /\ f.expiry = e.expiry /\ f.external = x
      /\ f.repair = e.repair /\ f.ref = ref
  BY <1>1, <1>2 DEF Entry, SameIndexes
<1> HIDE DEF f
<1>4. Consistent(f) /\ Waits(e.hash, f.hash)
  BY <1>1, <1>2, <1>3, ReferenceConsistent, Statuses DEF Flat, Exists
<1> QED
  BY <1>4 DEF f, x

LEMMA RepairConsistent ==
    ASSUME NEW e, Consistent(e), None \notin TaskStatus
    PROVE  LET f == [e EXCEPT !.repair = IsQueued(e.hash) /\ ~IsOverdue(e.hash)]
           IN  Consistent(f) /\ Waits(e.hash, f.hash)
<1> DEFINE x == IsQueued(e.hash) /\ ~IsOverdue(e.hash)
           f == [e EXCEPT !.repair = x]
<1>1. e \in Entry /\ Flat(e)
  BY ConsistentFields DEF Consistent
<1>2. x \in BOOLEAN /\ (x <=> IsQueued(e.hash) /\ ~IsOverdue(e.hash))
  OBVIOUS
<1> HIDE DEF x
<1>3. f \in Entry /\ SameIndexes(e, f) /\ f.expiry = e.expiry /\ f.external = e.external
      /\ f.repair = x /\ f.ref = e.ref
  BY <1>1, <1>2 DEF Entry, SameIndexes
<1> HIDE DEF f
<1>4. Consistent(f) /\ Waits(e.hash, f.hash)
  BY <1>1, <1>2, <1>3, ReferenceConsistent, Statuses DEF Flat, Exists
<1> QED
  BY <1>4 DEF f, x

LEMMA UnindexConsistent ==
    ASSUME NEW e, Consistent(e), None \notin TaskStatus,
           IsQueued(e.hash) => e.hash.retry_count > 0
    PROVE  LET f == [e EXCEPT !.expiry = FALSE]
           IN  Consistent(f) /\ Waits(e.hash, f.hash)
<1> DEFINE f == [e EXCEPT !.expiry = FALSE]
<1>1. e \in Entry /\ Flat(e)
  BY ConsistentFields DEF Consistent
<1>2. f \in Entry /\ SameIndexes(e, f) /\ f.expiry = FALSE /\ f.external = e.external
      /\ f.repair = e.repair /\ f.ref = e.ref
  BY <1>1 DEF Entry, SameIndexes
<1> HIDE DEF f
<1>3. Consistent(f) /\ Waits(e.hash, f.hash)
  BY <1>1, <1>2, ReferenceConsistent, Statuses DEF Flat, Exists
<1> QED
  BY <1>3 DEF f

\* The clock and the heartbeat move on in the hash.
LEMMA TimeConsistent ==
    ASSUME NEW e, Consistent(e), None \notin TaskStatus,
           NEW q \in QueuedTaskRecord, q.status = e.hash.status,
           SameClaimData(e.hash, q),
           e.hash.due => q.due, IsOverdue(e.hash) => IsOverdue(q),
           HasDeadline(e.hash) <=> HasDeadline(q)
    PROVE  Consistent([e EXCEPT !.hash = q]) /\ Waits(e.hash, [e EXCEPT !.hash = q].hash)
<1> DEFINE f == [e EXCEPT !.hash = q]
<1>1. e \in Entry /\ Flat(e)
  BY ConsistentFields DEF Consistent
<1>2. /\ f \in Entry /\ f.hash = q /\ f.statuses = e.statuses /\ f.ref = e.ref
      /\ f.ready = e.ready /\ f.scheduled = e.scheduled /\ f.running = e.running
      /\ f.terminal = e.terminal /\ f.meta = e.meta /\ f.repair = e.repair
      /\ f.expiry = e.expiry /\ f.external = e.external
  BY <1>1 DEF Entry
<1> HIDE DEF f
<1>3. Flat(f)
  BY <1>1, <1>2, Statuses DEF Flat, Exists, SameClaimData
<1>4. Consistent(f) /\ Waits(e.hash, f.hash)
  BY <1>2, <1>3, ConsistentFields DEF Waits
<1> QED
  BY <1>4 DEF f

LEMMA TouchConsistent ==
    ASSUME NEW e, Consistent(e), e.hash.status = "running", None \notin TaskStatus
    PROVE  LET f == [e EXCEPT !.hash = TouchHeartbeat(@), !.running = TRUE]
           IN  Consistent(f) /\ Waits(e.hash, f.hash)
<1> DEFINE q == TouchHeartbeat(e.hash)
<1>1. e \in Entry /\ Flat(e) /\ e.hash \in QueuedTaskRecord
  BY ConsistentFields, EntryFields DEF Consistent
<1>2. /\ q \in QueuedTaskRecord /\ q.status = e.hash.status /\ SameClaimData(e.hash, q)
      /\ q.due = e.hash.due /\ q.expires_at = e.hash.expires_at
  BY <1>1 DEF TouchHeartbeat, QueuedTaskRecord, SameClaimData
<1>3. e.running = TRUE
  BY <1>1, EntryFields DEF Flat
<1>4. [e EXCEPT !.hash = TouchHeartbeat(@), !.running = TRUE] = [e EXCEPT !.hash = q]
  <2>1. [e EXCEPT !.running = TRUE] = e
    BY <1>1, <1>3 DEF Entry
  <2>2. [e EXCEPT !.hash = TouchHeartbeat(@), !.running = TRUE]
          = [[e EXCEPT !.running = TRUE] EXCEPT !.hash = q]
    BY <1>1 DEF Entry
  <2> QED
    BY <2>1, <2>2
<1> HIDE DEF q
<1>5. Consistent([e EXCEPT !.hash = q]) /\ Waits(e.hash, [e EXCEPT !.hash = q].hash)
  BY <1>2, TimeConsistent DEF IsOverdue, HasDeadline
<1> QED
  BY <1>4, <1>5

----------------------------------------------------------------------------
\* Eviction and deletion.

LEMMA EvictHashMove ==
    ASSUME NEW r \in QueuedTaskRecord
    PROVE  /\ EvictHash(r) \in QueuedTaskRecord
           /\ EvictHash(r).status = "deleted"
           /\ IsTerminal(r) \/ r.status = "deleted" => Vanishes(r, EvictHash(r))
  BY NoneAssumption DEF EvictHash, NoRecord, QueuedTaskRecord, Vanishes

LEMMA HashExpiresConsistent ==
    ASSUME NEW e, Consistent(e), IsTerminal(e.hash), None \notin TaskStatus
    PROVE  LET f == [e EXCEPT !.hash = EvictHash(@), !.ref = "none"]
           IN  Consistent(f) /\ Vanishes(e.hash, f.hash)
<1> DEFINE q == EvictHash(e.hash)
           f == [e EXCEPT !.hash = q, !.ref = "none"]
<1>1. e \in Entry /\ Flat(e) /\ e.hash \in QueuedTaskRecord
  BY ConsistentFields, EntryFields DEF Consistent
<1>2. q \in QueuedTaskRecord /\ q.status = "deleted" /\ Vanishes(e.hash, q)
  BY <1>1, EvictHashMove
<1>3. [e EXCEPT !.hash = EvictHash(@), !.ref = "none"] = f
  OBVIOUS
<1> HIDE DEF q
<1>4. /\ f \in Entry /\ f.hash = q /\ f.statuses = e.statuses
      /\ f.ready = e.ready /\ f.scheduled = e.scheduled /\ f.running = e.running
      /\ f.terminal = e.terminal /\ f.meta = e.meta /\ f.repair = e.repair
      /\ f.expiry = e.expiry /\ f.external = e.external
  BY <1>1, <1>2 DEF Entry, ExecutionRef
<1> HIDE DEF f
<1>5. Flat(f)
  BY <1>1, <1>2, <1>4, Statuses, EntryFields DEF Flat, Exists
<1>6. Consistent(f)
  BY <1>4, <1>5, ConsistentFields
<1> QED
  BY <1>2, <1>3, <1>4, <1>6

LEMMA DeleteConsistent ==
    ASSUME NEW e, Consistent(e), None \notin TaskStatus
    PROVE  LET f == DeleteTerminalEntry(e)
           IN  /\ Consistent(f)
               /\ Waits(e.hash, f.hash) \/ Vanishes(e.hash, f.hash)
<1> DEFINE status == IF IsTerminal(e.hash) THEN {e.hash.status}
                     ELSE IF e.meta # None THEN {e.meta} ELSE TerminalStatuses
           known == e.meta # None \/ e.terminal \/ e.statuses \cap TerminalStatuses # {}
           q == EvictHash(e.hash)
           st == e.statuses \ status
           rp == e.repair /\ ~Exists(e)
           f == [NoEntry EXCEPT !.hash = q, !.statuses = st, !.repair = rp]
<1>1. e \in Entry /\ Flat(e) /\ e.hash \in QueuedTaskRecord
  BY ConsistentFields, EntryFields DEF Consistent
<1>2. CASE ~(IsTerminal(e.hash) \/ (e.hash.status = "deleted" /\ known))
  <2>1. DeleteTerminalEntry(e) = e
    BY <1>2 DEF DeleteTerminalEntry
  <2> QED
    BY <2>1 DEF Waits, SameClaimData
<1>3. CASE IsTerminal(e.hash) \/ (e.hash.status = "deleted" /\ known)
  <2>1. DeleteTerminalEntry(e) = f
    BY <1>3 DEF DeleteTerminalEntry
  <2>2. q \in QueuedTaskRecord /\ q.status = "deleted" /\ Vanishes(e.hash, q)
    BY <1>1, <1>3, EvictHashMove
  <2>3. rp = FALSE
    BY <1>1, <1>3, Statuses DEF Flat, Exists
  <2>4. st = {}
    <3>1. CASE IsTerminal(e.hash)
      BY <1>1, <3>1, Statuses DEF Flat, Exists
    <3>2. CASE e.hash.status = "deleted" /\ known
      <4>1. ~Exists(e) /\ ~IsTerminal(e.hash)
        BY <3>2, Statuses DEF Exists
      <4>2. e.terminal
        BY <1>1, <3>2, <4>1, EntryFields DEF Flat
      <4> QED
        BY <1>1, <4>1, <4>2 DEF Flat
    <3> QED
      BY <1>3, <3>1, <3>2
  <2> HIDE DEF q, st, rp
  <2>5. /\ f.hash = q /\ f.statuses = {} /\ f.repair = FALSE
        /\ f.ready = FALSE /\ f.scheduled = FALSE /\ f.running = FALSE
        /\ f.terminal = FALSE /\ f.meta = None /\ f.expiry = FALSE /\ f.external = FALSE
    BY <2>3, <2>4 DEF NoEntry
  <2>6. f \in Entry
    BY <2>2, <2>3, <2>4 DEF NoEntry, Entry, ExecutionRef
  <2> HIDE DEF f
  <2>7. Flat(f)
    BY <2>2, <2>5, Statuses DEF Flat, Exists
  <2>8. Consistent(f)
    BY <2>6, <2>7, ConsistentFields
  <2> QED
    BY <2>1, <2>2, <2>5, <2>8
<1> QED
  BY <1>2, <1>3
----------------------------------------------------------------------------
\* The inductive invariant.

\* The generations granted are the record's own and earlier ones: its own
\* while it runs, never while it waits.
GrantedBehind ==
    \A t \in Task :
        LET r == db[t].hash
        IN  /\ \A g \in granted[t] : g <= r.retry_count
            /\ IsQueued(r) => r.retry_count \notin granted[t]
            /\ r.status = "running" => r.retry_count \in granted[t]
            /\ r.status = "absent" => r.retry_count = 0 /\ granted[t] = {}

\* No record has spent more than its retries and interruptions.
BudgetKept ==
    \A t \in Task :
        LET r == db[t].hash
        IN  IsStored(r) => /\ AttemptsConsumed(r) <= r.max_retries
                          /\ r.interruptions <= MaxInterruptions

\* The key index names the active record of every key.
KeysIndexed ==
    \A t \in Task : IsActive(db[t].hash) /\ db[t].hash.key # None
                        => keys[db[t].hash.key] = t

\* What an operation under way may still rely on.
SoundRead(x) ==
    LET r == db[x.task].hash
    IN  /\ x.op = "cancel" => x.status \in QueuedStatuses \cup {"running"}
        /\ x.op = "expire" => x.status \in QueuedStatuses
        /\ x.op = "interrupt" =>
              /\ x.gen \in granted[x.task]
              /\ Fenced(r, x.gen) => r.interruptions < MaxInterruptions
        /\ x.op \in {"listed", "unindex"} => r.status # "absent"
        /\ x.op = "listed" => (IsQueued(r) => IsOverdue(r) \/ r.retry_count > 0)
        /\ x.op = "unindex" => (IsQueued(r) => r.retry_count > 0)

IndInv ==
    /\ TypeOK
    /\ \A t \in Task : Consistent(db[t])
    /\ GrantedBehind
    /\ BudgetKept
    /\ KeysIndexed
    /\ \A x \in inflight : SoundRead(x)

LEMMA NoneNotStatus == None \notin TaskStatus
  BY RedisAssumption

\* The moves a step may make with the record of t, the claim it grants included.
Moves(t, q) ==
    LET r == db[t].hash
    IN  \/ Starts(r, q) /\ granted'[t] = granted[t] \cup {r.retry_count}
        \/ /\ granted'[t] = granted[t]
           /\ \/ Waits(r, q) \/ Ends(r, q) \/ Retries(r, q) \/ Vanishes(r, q)
              \/ IsHandedBack(r, q) /\ r.interruptions < MaxInterruptions

\* A key is dropped only when it names a record that is not active.
KeysShrink ==
    /\ keys' \in [Key -> Task \cup {None}]
    /\ \A t \in Task, k \in Key : keys[k] = t /\ IsActive(db[t].hash) => keys'[k] = t

\* A step of the store.
StoreStep ==
    /\ db' \in [Task -> Entry]
    /\ \A t \in Task : Consistent(db'[t]) /\ Moves(t, db'[t].hash)
    /\ KeysShrink

\* What every step does to every record.
LivesOn ==
    \A t \in Task :
        \/ Moves(t, db'[t].hash)
        \/ IsBorn(db[t].hash, db'[t].hash) /\ granted'[t] = granted[t]

\* What every action is shown to do.
Kept == IndInv' /\ LivesOn

\* The records of two states, related by a move.
LEMMA MoveKeeps ==
    ASSUME NEW t \in Task, NEW r \in QueuedTaskRecord, NEW q \in QueuedTaskRecord,
           r = db[t].hash, IndInv, Moves(t, q)
    PROVE  /\ granted'[t] \in SUBSET Nat
           /\ \A g \in granted'[t] : g <= q.retry_count
           /\ IsQueued(q) => q.retry_count \notin granted'[t]
           /\ q.status = "running" => q.retry_count \in granted'[t]
           /\ q.status = "absent" => q.retry_count = 0 /\ granted'[t] = {}
           /\ IsStored(q) => /\ AttemptsConsumed(q) <= q.max_retries
                             /\ q.interruptions <= MaxInterruptions
           /\ granted[t] \subseteq granted'[t]
           /\ \A g \in granted[t] : Fenced(q, g) =>
                 Fenced(r, g) /\ q.interruptions = r.interruptions
           /\ IsActive(q) => IsActive(r) /\ q.key = r.key
           /\ q.status = "absent" => r.status = "absent"
           /\ IsQueued(q) => \/ q.retry_count > 0
                             \/ /\ IsQueued(r) /\ q.retry_count = r.retry_count
                                /\ IsOverdue(r) => IsOverdue(q)
<1>1. /\ granted[t] \in SUBSET Nat
      /\ \A g \in granted[t] : g <= r.retry_count
      /\ IsQueued(r) => r.retry_count \notin granted[t]
      /\ r.status = "running" => r.retry_count \in granted[t]
      /\ r.status = "absent" => r.retry_count = 0 /\ granted[t] = {}
      /\ IsStored(r) => /\ AttemptsConsumed(r) <= r.max_retries
                        /\ r.interruptions <= MaxInterruptions
  BY DEF IndInv, TypeOK, GrantedBehind, BudgetKept
<1>2. /\ r.retry_count \in Nat /\ r.interruptions \in Nat /\ r.max_retries \in Nat
      /\ q.retry_count \in Nat /\ q.interruptions \in Nat /\ q.max_retries \in Nat
      /\ MaxInterruptions \in Nat
  BY RedisAssumption DEF QueuedTaskRecord
<1> USE Statuses
<1>3. CASE Starts(r, q) /\ granted'[t] = granted[t] \cup {r.retry_count}
  BY <1>1, <1>2, <1>3 DEF Starts, SameClaimData, AttemptsConsumed, Fenced
<1>4. CASE granted'[t] = granted[t] /\ Waits(r, q)
  BY <1>1, <1>2, <1>4 DEF Waits, SameClaimData, AttemptsConsumed, Fenced
<1>5. CASE granted'[t] = granted[t] /\ Ends(r, q)
  BY <1>1, <1>2, <1>5 DEF Ends, SameClaimData, AttemptsConsumed, Fenced
<1>6. CASE granted'[t] = granted[t] /\ Retries(r, q)
  BY <1>1, <1>2, <1>6 DEF Retries, AttemptsConsumed, Fenced
<1>7. CASE granted'[t] = granted[t] /\ Vanishes(r, q)
  BY <1>1, <1>2, <1>7 DEF Vanishes, AttemptsConsumed, Fenced
<1>8. CASE /\ granted'[t] = granted[t]
           /\ IsHandedBack(r, q) /\ r.interruptions < MaxInterruptions
  BY <1>1, <1>2, <1>8 DEF IsHandedBack, AttemptsConsumed, Fenced
<1> QED
  BY <1>3, <1>4, <1>5, <1>6, <1>7, <1>8 DEF Moves

\* A step of the store, by an operation that at most ends, keeps the invariant.
LEMMA StoreStepKeeps ==
    ASSUME IndInv, StoreStep, inflight' \subseteq inflight,
           granted' \in [Task -> SUBSET Nat]
    PROVE  Kept
<1>1. \A t \in Task : db[t].hash \in QueuedTaskRecord /\ db'[t].hash \in QueuedTaskRecord
  BY EntryFields DEF IndInv, TypeOK, StoreStep
<1>2. TypeOK'
  BY DEF IndInv, TypeOK, StoreStep, KeysShrink
<1>3. (\A t \in Task : Consistent(db[t]))'
  BY DEF StoreStep
<1>4. GrantedBehind'
  <2> SUFFICES ASSUME NEW t \in Task
               PROVE  LET r == db'[t].hash
                      IN  /\ \A g \in granted'[t] : g <= r.retry_count
                          /\ IsQueued(r) => r.retry_count \notin granted'[t]
                          /\ r.status = "running" => r.retry_count \in granted'[t]
                          /\ r.status = "absent" => r.retry_count = 0 /\ granted'[t] = {}
    BY DEF GrantedBehind
  <2> QED
    BY <1>1, MoveKeeps DEF StoreStep
<1>5. BudgetKept'
  BY <1>1, MoveKeeps DEF StoreStep, BudgetKept
<1>6. KeysIndexed'
  <2> SUFFICES ASSUME NEW t \in Task, IsActive(db'[t].hash), db'[t].hash.key # None
               PROVE  keys'[db'[t].hash.key] = t
    BY DEF KeysIndexed
  <2>1. IsActive(db[t].hash) /\ db'[t].hash.key = db[t].hash.key
    BY <1>1, MoveKeeps DEF StoreStep
  <2>2. db[t].hash.key \in Key /\ keys[db[t].hash.key] = t
    BY <1>1, <2>1 DEF IndInv, KeysIndexed, QueuedTaskRecord
  <2> QED
    BY <2>1, <2>2 DEF StoreStep, KeysShrink
<1>7. (\A x \in inflight : SoundRead(x))'
  <2> SUFFICES ASSUME NEW x \in inflight PROVE SoundRead(x)'
    OBVIOUS
  <2>1. x \in InFlight /\ x.task \in Task /\ SoundRead(x)
    BY DEF IndInv, TypeOK, InFlight
  <2>2. /\ granted[x.task] \subseteq granted'[x.task]
        /\ \A g \in granted[x.task] : Fenced(db'[x.task].hash, g) =>
              /\ Fenced(db[x.task].hash, g)
              /\ db'[x.task].hash.interruptions = db[x.task].hash.interruptions
    BY <1>1, <2>1, MoveKeeps DEF StoreStep
  <2>3. LET r == db[x.task].hash
            q == db'[x.task].hash
        IN  /\ q.status = "absent" => r.status = "absent"
            /\ IsQueued(q) => \/ q.retry_count > 0
                              \/ /\ IsQueued(r) /\ q.retry_count = r.retry_count
                                 /\ IsOverdue(r) => IsOverdue(q)
    BY <1>1, <2>1, MoveKeeps DEF StoreStep
  <2> QED
    BY <2>1, <2>2, <2>3 DEF SoundRead
<1>8. LivesOn
  BY DEF StoreStep, LivesOn
<1> QED
  BY <1>2, <1>3, <1>4, <1>5, <1>6, <1>7, <1>8 DEF Kept, IndInv

\* A step that only reads keeps it when what it read is sound.
LEMMA ReadStepKeeps ==
    ASSUME IndInv, UNCHANGED <<db, keys, granted>>, inflight' \subseteq InFlight,
           \A x \in inflight' : SoundRead(x)
    PROVE  Kept
<1>1. TypeOK'
  BY DEF IndInv, TypeOK
<1>2. GrantedBehind' /\ BudgetKept' /\ KeysIndexed'
  BY DEF IndInv, GrantedBehind, BudgetKept, KeysIndexed
<1>3. (\A x \in inflight : SoundRead(x))'
  BY DEF SoundRead
<1>4. (\A t \in Task : Consistent(db[t]))'
  BY DEF IndInv
<1>5. LivesOn
  BY DEF LivesOn, Moves, Waits, SameClaimData
<1> QED
  BY <1>1, <1>2, <1>3, <1>4, <1>5 DEF Kept, IndInv
----------------------------------------------------------------------------
\* The store as the scripts leave it.

\* Pruning takes no key from an active record.
LEMMA KeysWithoutShrinks ==
    ASSUME IndInv, NEW S, S \subseteq Lapsed, keys' = KeysWithout(S)
    PROVE  KeysShrink
<1>1. KeysWithout(S) \in [Key -> Task \cup {None}]
  BY DEF KeysWithout, IndInv, TypeOK
<1>2. ASSUME NEW t \in Task, NEW k \in Key, keys[k] = t, IsActive(db[t].hash)
      PROVE  keys'[k] = t
  <2>1. t \notin S
    <3>1. db[t] \in Entry /\ Flat(db[t])
      BY ConsistentFields, NoneNotStatus DEF IndInv, TypeOK
    <3>2. ~db[t].terminal
      BY <1>2, <3>1, Statuses DEF Flat, Exists
    <3> QED
      BY <3>2 DEF Lapsed
  <2> QED
    BY <1>2, <2>1 DEF KeysWithout
<1> QED
  BY <1>1, <1>2 DEF KeysShrink

LEMMA StoreKeeps ==
    ASSUME IndInv, NEW new \in [Task -> Entry], NEW pruned, Store(new, pruned),
           \A t \in Task : Consistent(new[t]) /\ Moves(t, new[t].hash),
           \A t \in Task : db[t].terminal /\ t \in pruned => new[t] = db[t]
    PROVE  StoreStep
<1>1. KeysShrink
  BY KeysWithoutShrinks DEF Store
<1>2. ASSUME NEW t \in Task
      PROVE  Consistent(db'[t]) /\ Moves(t, db'[t].hash)
  <2>1. CASE t \notin pruned
    BY <2>1 DEF Store
  <2>2. CASE t \in pruned
    <3>1. db[t].terminal /\ new[t] = db[t] /\ db'[t] = DeleteTerminalEntry(db[t])
      BY <2>2 DEF Store, Lapsed
    <3>2. Consistent(db[t]) /\ Moves(t, db[t].hash)
      BY <3>1
    <3>3. granted'[t] = granted[t]
      BY <3>2, Statuses DEF Moves, Starts
    <3>4. /\ Consistent(db'[t])
          /\ Waits(db[t].hash, db'[t].hash) \/ Vanishes(db[t].hash, db'[t].hash)
      BY <3>1, <3>2, NoneNotStatus, DeleteConsistent
    <3> QED
      BY <3>3, <3>4 DEF Moves
  <2> QED
    BY <2>1, <2>2
<1>3. db' \in [Task -> Entry]
  <2>1. \A t \in Task : db'[t] \in Entry
    BY <1>2 DEF Consistent
  <2> QED
    BY <2>1 DEF Store
<1> QED
  BY <1>1, <1>2, <1>3 DEF StoreStep

LEMMA StoreOneKeeps ==
    ASSUME IndInv, NEW t \in Task, NEW e, NEW pruned, StoreOne(t, e, pruned),
           Consistent(e), Moves(t, e.hash),
           \A s \in Task \ {t} : granted'[s] = granted[s]
    PROVE  StoreStep
<1> DEFINE new == [db EXCEPT ![t] = e]
<1>1. new \in [Task -> Entry] /\ new[t] = e /\ \A s \in Task \ {t} : new[s] = db[s]
  BY DEF IndInv, TypeOK, Consistent
<1>2. Store(new, pruned) /\ (pruned # {} => t \notin pruned)
  BY DEF StoreOne
<1> HIDE DEF new
<1>3. ASSUME NEW s \in Task PROVE Consistent(new[s]) /\ Moves(s, new[s].hash)
  <2>1. CASE s = t
    BY <1>1, <2>1
  <2>2. CASE s # t
    <3>1. Consistent(new[s]) /\ granted'[s] = granted[s] /\ new[s] = db[s]
      BY <1>1, <2>2 DEF IndInv
    <3> QED
      BY <3>1 DEF Moves, Waits, SameClaimData
  <2> QED
    BY <2>1, <2>2
<1>4. \A s \in Task : s \in pruned => new[s] = db[s]
  BY <1>1, <1>2
<1> QED
  BY <1>1, <1>2, <1>3, <1>4, StoreKeeps

\* The frequent case: one record, no claim granted, no operation begun.
LEMMA OneRecordKeeps ==
    ASSUME IndInv, NEW t \in Task, NEW e, NEW pruned, StoreOne(t, e, pruned),
           UNCHANGED granted, inflight' \subseteq inflight, Consistent(e),
           \/ Waits(db[t].hash, e.hash) \/ Ends(db[t].hash, e.hash)
           \/ Retries(db[t].hash, e.hash) \/ Vanishes(db[t].hash, e.hash)
           \/ /\ IsHandedBack(db[t].hash, e.hash)
              /\ db[t].hash.interruptions < MaxInterruptions
    PROVE  Kept
<1>1. Moves(t, e.hash)
  BY DEF Moves
<1>2. StoreStep
  BY <1>1, StoreOneKeeps
<1>3. granted' \in [Task -> SUBSET Nat]
  BY DEF IndInv, TypeOK
<1> QED
  BY <1>2, <1>3, StoreStepKeeps

----------------------------------------------------------------------------
\* The actions.

LEMMA EntryOf ==
    ASSUME IndInv, NEW t \in Task
    PROVE  /\ Consistent(db[t]) /\ db[t] \in Entry /\ Flat(db[t])
           /\ db[t].hash \in QueuedTaskRecord /\ db[t].ref \in ExecutionRef
  BY ConsistentFields, EntryFields, NoneNotStatus DEF IndInv, TypeOK

LEMMA EnqueueKeeps ==
    ASSUME IndInv, NEW t \in Task, NEW o \in Options[t], Enqueue(t, o)
    PROVE  Kept
<1> DEFINE e == EnqueueScript(o)
           r == NewRecord(o)
<1>1. o \in EnqueueOptions
  BY RedisAssumption
<1>2. Consistent(e) /\ e \in Entry
  BY <1>1, EnqueueConsistent, NoneNotStatus DEF Consistent
<1>3. e.hash = r
  BY DEF EnqueueScript, NoEntry
<1>4. /\ r \in QueuedTaskRecord /\ IsBorn(db[t].hash, r) /\ r.key = o.key
      /\ db[t].hash.status = "absent"
  BY <1>1, EntryOf, NewRecordMove DEF Enqueue
<1>5. /\ db' = [db EXCEPT ![t] = e] /\ UNCHANGED <<inflight, granted>>
      /\ keys' = IF o.key = None THEN keys ELSE [keys EXCEPT ![o.key] = t]
  BY DEF Enqueue
<1> HIDE DEF e, r
<1>6. /\ db' \in [Task -> Entry] /\ db'[t] = e
      /\ \A s \in Task \ {t} : db'[s] = db[s]
  BY <1>2, <1>5 DEF IndInv, TypeOK
<1>7. r.retry_count = 0 /\ r.interruptions = 0 /\ r.max_retries \in Nat /\ IsQueued(r)
  BY <1>4 DEF IsBorn, QueuedTaskRecord
<1>8. granted'[t] = {}
  BY <1>4, <1>5 DEF IndInv, GrantedBehind
<1>9. TypeOK'
  BY <1>1, <1>5, <1>6 DEF IndInv, TypeOK, EnqueueOptions
<1>10. (\A s \in Task : Consistent(db[s]))'
  BY <1>2, <1>6 DEF IndInv
<1>11. GrantedBehind'
  BY <1>3, <1>5, <1>6, <1>7, <1>8, Statuses DEF IndInv, GrantedBehind
<1>12. BudgetKept'
  BY <1>3, <1>6, <1>7, RedisAssumption DEF IndInv, BudgetKept, AttemptsConsumed
<1>13. KeysIndexed'
  <2> SUFFICES ASSUME NEW s \in Task, IsActive(db'[s].hash), db'[s].hash.key # None
               PROVE  keys'[db'[s].hash.key] = s
    BY DEF KeysIndexed
  <2>1. keys \in [Key -> Task \cup {None}] /\ o.key \in Key \cup {None}
    BY <1>1 DEF IndInv, TypeOK, EnqueueOptions
  <2>2. CASE s = t
    BY <1>3, <1>4, <1>5, <1>6, <2>1, <2>2
  <2>3. CASE s # t
    <3> DEFINE k == db[s].hash.key
    <3>1. db'[s] = db[s] /\ k \in Key /\ keys[k] = s
      BY <1>6, <2>3, EntryOf DEF IndInv, KeysIndexed, QueuedTaskRecord
    <3>2. o.key # None => o.key # k
      BY <3>1 DEF Enqueue, KeyIsFree
    <3> QED
      BY <1>5, <2>1, <3>1, <3>2
  <2> QED
    BY <2>2, <2>3
<1>14. (\A x \in inflight : SoundRead(x))'
  <2> SUFFICES ASSUME NEW x \in inflight PROVE SoundRead(x)'
    BY <1>5
  <2>1. x.task \in Task /\ SoundRead(x)
    BY DEF IndInv, TypeOK, InFlight
  <2>2. x.task = t => x.op \notin {"interrupt", "listed", "unindex"}
    BY <1>4, <2>1 DEF IndInv, GrantedBehind, SoundRead
  <2> QED
    BY <1>5, <1>6, <2>1, <2>2 DEF SoundRead
<1>15. LivesOn
  <2>1. \A s \in Task : granted'[s] = granted[s]
    BY <1>5
  <2> QED
    BY <1>3, <1>4, <1>6, <2>1 DEF LivesOn, Moves, Waits, SameClaimData
<1> QED
  BY <1>9, <1>10, <1>11, <1>12, <1>13, <1>14, <1>15 DEF Kept, IndInv

LEMMA ClaimManyKeeps ==
    ASSUME IndInv, NEW selected \in SUBSET Task, NEW scanned \in SUBSET Task,
           NEW pruned, ClaimMany(selected, scanned, pruned)
    PROVE  Kept
<1> DEFINE due == [t \in Task |->
                     IF db[t].scheduled /\ db[t].hash.due
                     THEN PromoteDue(db[t], t \in selected) ELSE db[t]]
           new == [t \in Task |->
                     IF t \in scanned THEN ScanReady(due[t], t \in selected)
                     ELSE due[t]]
           won == {t \in scanned : due[t].hash.status = "pending"
                                   /\ new[t].hash.status = "running"}
<1>1. /\ \A t \in selected : db[t].ref # "provider"
      /\ \A t \in scanned : due[t].ready
      /\ Store(new, pruned) /\ Grant(new, won) /\ UNCHANGED inflight
  BY DEF ClaimMany
<1>2. \A t \in Task : due[t] = IF db[t].scheduled /\ db[t].hash.due
                               THEN PromoteDue(db[t], t \in selected) ELSE db[t]
  OBVIOUS
<1>3. \A t \in Task : new[t] = IF t \in scanned THEN ScanReady(due[t], t \in selected)
                               ELSE due[t]
  OBVIOUS
<1>4. \A t \in Task : t \in won <=> /\ t \in scanned
                                    /\ due[t].hash.status = "pending"
                                    /\ new[t].hash.status = "running"
  OBVIOUS
<1>5. new = [t \in Task |-> new[t]]
  OBVIOUS
<1> HIDE DEF due, new, won
<1>6. ASSUME NEW t \in Task
      PROVE  /\ Consistent(due[t]) /\ due[t].ref = db[t].ref
             /\ Waits(db[t].hash, due[t].hash) \/ Ends(db[t].hash, due[t].hash)
  <2>1. CASE db[t].scheduled /\ db[t].hash.due
    <3>1. (t \in selected) \in BOOLEAN
      OBVIOUS
    <3> QED
      BY <1>2, <2>1, <3>1, EntryOf, NoneNotStatus, PromoteConsistent
  <2>2. CASE ~(db[t].scheduled /\ db[t].hash.due)
    BY <1>2, <2>2, EntryOf DEF Waits, SameClaimData
  <2> QED
    BY <2>1, <2>2
<1>7. ASSUME NEW t \in Task
      PROVE  Consistent(new[t]) /\ Moves(t, new[t].hash)
  <2>1. granted'[t] = IF t \in won THEN granted[t] \cup {new[t].hash.retry_count}
                      ELSE granted[t]
    BY <1>1 DEF Grant
  <2>2. CASE t \notin scanned
    <3>1. new[t] = due[t] /\ t \notin won
      BY <1>3, <1>4, <2>2
    <3> QED
      BY <1>6, <2>1, <3>1 DEF Moves
  <2>3. CASE t \in scanned
    <3> DEFINE sel == t \in selected
    <3>1. due[t].ready /\ sel \in BOOLEAN /\ (sel => due[t].ref # "provider")
          /\ new[t] = ScanReady(due[t], sel)
      BY <1>1, <1>3, <1>6, <2>3
    <3>2. /\ due[t].hash.status = "pending" /\ IsQueued(due[t].hash)
          /\ Waits(db[t].hash, due[t].hash) /\ IsQueued(db[t].hash)
      <4>1. due[t] \in Entry /\ Flat(due[t])
        BY <1>6, ConsistentFields, NoneNotStatus DEF Consistent
      <4>2. due[t].hash.status = "pending" /\ IsQueued(due[t].hash)
        BY <3>1, <4>1 DEF Flat
      <4> QED
        BY <1>6, <4>2, Statuses DEF Ends, Waits
    <3> HIDE DEF sel
    <3>3. /\ Consistent(new[t])
          /\ \/ new[t].hash.status = "running" /\ Starts(due[t].hash, new[t].hash)
             \/ new[t].hash.status # "running" /\ new[t] = due[t]
             \/ new[t].hash.status # "running" /\ Ends(due[t].hash, new[t].hash)
      BY <1>6, <3>1, NoneNotStatus, ScanConsistent
    <3>4. CASE new[t].hash.status = "running" /\ Starts(due[t].hash, new[t].hash)
      <4>1. t \in won
        BY <1>4, <2>3, <3>2, <3>4
      <4>2. Starts(db[t].hash, new[t].hash)
        BY <3>2, <3>4 DEF Starts, Waits, SameClaimData
      <4>3. new[t].hash.retry_count = db[t].hash.retry_count
        BY <4>2 DEF Starts, SameClaimData
      <4> QED
        BY <2>1, <3>3, <4>1, <4>2, <4>3 DEF Moves
    <3>5. CASE new[t].hash.status # "running" /\ new[t] = due[t]
      BY <1>4, <2>1, <3>2, <3>3, <3>5 DEF Moves
    <3>6. CASE new[t].hash.status # "running" /\ Ends(due[t].hash, new[t].hash)
      <4>1. Ends(db[t].hash, new[t].hash)
        BY <3>2, <3>6 DEF Ends, Waits, SameClaimData, IsActive
      <4> QED
        BY <1>4, <2>1, <3>3, <3>6, <4>1 DEF Moves
    <3> QED
      BY <3>3, <3>4, <3>5, <3>6
  <2> QED
    BY <2>2, <2>3
<1>8. new \in [Task -> Entry]
  <2>1. \A t \in Task : new[t] \in Entry
    BY <1>7 DEF Consistent
  <2> QED
    BY <1>5, <2>1
<1>9. ASSUME NEW t \in Task, db[t].terminal PROVE new[t] = db[t]
  <2>1. ~IsQueued(db[t].hash) /\ ~db[t].scheduled /\ ~db[t].ready
    BY <1>9, EntryOf, Statuses DEF Flat, Exists
  <2>2. due[t] = db[t] /\ t \notin scanned
    BY <1>1, <1>2, <2>1
  <2> QED
    BY <1>3, <2>2
<1>10. StoreStep
  BY <1>1, <1>7, <1>8, <1>9, StoreKeeps
<1>11. granted' \in [Task -> SUBSET Nat]
  <2>1. \A t \in Task : new[t].hash.retry_count \in Nat
    BY <1>8, EntryFields DEF QueuedTaskRecord
  <2> QED
    BY <1>1, <2>1 DEF Grant, IndInv, TypeOK
<1> QED
  BY <1>1, <1>10, <1>11, StoreStepKeeps

LEMMA ClaimTaskByIdKeeps ==
    ASSUME IndInv, NEW t \in Task, NEW pruned, ClaimTaskById(t, pruned)
    PROVE  Kept
<1> DEFINE new == ClaimTaskScript(db[t])
           C == IF new.hash.status = "running" THEN {t} ELSE {}
<1>1. /\ IsQueued(db[t].hash) /\ StoreOne(t, new, pruned)
      /\ Grant([db EXCEPT ![t] = new], C) /\ UNCHANGED inflight
  BY DEF ClaimTaskById
<1>2. /\ Consistent(new)
      /\ \/ new.hash.status = "running" /\ Starts(db[t].hash, new.hash)
         \/ new.hash.status # "running" /\ Ends(db[t].hash, new.hash)
  BY <1>1, EntryOf, NoneNotStatus, ClaimTaskConsistent
<1> HIDE DEF new
<1>3. /\ granted'[t] = IF new.hash.status = "running"
                       THEN granted[t] \cup {new.hash.retry_count} ELSE granted[t]
      /\ \A s \in Task \ {t} : granted'[s] = granted[s]
  BY <1>1 DEF Grant, IndInv, TypeOK
<1>4. Moves(t, new.hash)
  BY <1>2, <1>3 DEF Moves, Starts, SameClaimData
<1>5. StoreStep
  BY <1>1, <1>2, <1>3, <1>4, StoreOneKeeps
<1>6. granted' \in [Task -> SUBSET Nat]
  <2>1. \A s \in Task : [db EXCEPT ![t] = new][s].hash.retry_count \in Nat
    BY <1>2, EntryFields DEF Consistent, IndInv, TypeOK, QueuedTaskRecord
  <2> QED
    BY <1>1, <2>1 DEF Grant, IndInv, TypeOK
<1> QED
  BY <1>1, <1>5, <1>6, StoreStepKeeps

LEMMA AttemptCallKeeps ==
    ASSUME IndInv, NEW t \in Task, NEW g \in granted[t], AttemptCall(t, g)
    PROVE  Kept
<1> USE EntryOf, NoneNotStatus
<1> DEFINE e == db[t]
<1>1. ASSUME NEW S \in SUBSET Lapsed, Complete(t, g, S) PROVE Kept
  <2>1. e.hash.status = "running" /\ e.hash.retry_count = g
        /\ StoreOne(t, CompleteScript(e, g), S) /\ UNCHANGED <<inflight, granted>>
    BY <1>1 DEF Complete, Fenced
  <2>2. Consistent(CompleteScript(e, g)) /\ Ends(e.hash, CompleteScript(e, g).hash)
    BY <2>1, CompleteConsistent
  <2> QED
    BY <2>1, <2>2, OneRecordKeeps
<1>2. ASSUME NEW S \in SUBSET Lapsed, NEW retry \in BOOLEAN, NEW delayed \in BOOLEAN,
             Fail(t, g, retry, delayed, S)
      PROVE  Kept
  <2> DEFINE f == FailScript(e, retry, delayed)
  <2>1. e.hash.status = "running" /\ StoreOne(t, f, S) /\ UNCHANGED <<inflight, granted>>
    BY <1>2 DEF Fail, Fenced
  <2>2. Consistent(f) /\ (Retries(e.hash, f.hash) \/ Ends(e.hash, f.hash))
    BY <2>1, FailConsistent
  <2> QED
    BY <2>1, <2>2, OneRecordKeeps
<1>3. ASSUME NEW r \in QueuedTaskRecord, Stays(e.hash, r), r.due = e.hash.due,
             r.expires_at = e.hash.expires_at, Exists(e),
             NEW S, StoreOne(t, TransitionScript(e, r, e.ref, "none"), S),
             UNCHANGED <<inflight, granted>>
      PROVE  Kept
  <2> DEFINE f == TransitionScript(e, r, e.ref, "none")
  <2>1. r.status = e.hash.status /\ IsStored(r)
    BY <1>3 DEF Stays, Exists, IsStored
  <2>2. Consistent(f) /\ f.hash = r
    BY <1>3, <2>1, TransitionConsistent
  <2>3. Waits(e.hash, f.hash)
    BY <1>3, <2>2 DEF Stays, Waits, IsOverdue
  <2> QED
    BY <1>3, <2>2, <2>3, OneRecordKeeps
<1>4. ASSUME NEW S \in SUBSET Lapsed, NullHeartbeats(t, g, S) PROVE Kept
  <2>1. /\ NullHeartbeat(e.hash) \in QueuedTaskRecord /\ Stays(e.hash, NullHeartbeat(e.hash))
        /\ NullHeartbeat(e.hash).due = e.hash.due
        /\ NullHeartbeat(e.hash).expires_at = e.hash.expires_at
    BY DEF NullHeartbeat, QueuedTaskRecord, Stays, SameClaimData
  <2> QED
    BY <1>3, <1>4, <2>1 DEF NullHeartbeats
<1>5. ASSUME NEW w \in Worker, Assign(t, g, w) PROVE Kept
  <2>1. /\ AssignWorker(e.hash, w) \in QueuedTaskRecord
        /\ Stays(e.hash, AssignWorker(e.hash, w))
        /\ AssignWorker(e.hash, w).due = e.hash.due
        /\ AssignWorker(e.hash, w).expires_at = e.hash.expires_at
    BY QuietMoves DEF AssignWorker, QueuedTaskRecord
  <2>2. Exists(e)
    BY <1>5, Statuses DEF Assign, Fenced, Exists
  <2> QED
    BY <1>3, <1>5, <2>1, <2>2 DEF Assign
<1>6. ASSUME TouchHeartbeats(t, g) PROVE Kept
  <2> DEFINE f == [e EXCEPT !.hash = TouchHeartbeat(@), !.running = TRUE]
  <2>1. e.hash.status = "running" /\ StoreOne(t, f, {}) /\ UNCHANGED <<inflight, granted>>
    BY <1>6 DEF TouchHeartbeats, TouchScript, Fenced
  <2>2. Consistent(f) /\ Waits(e.hash, f.hash)
    BY <2>1, TouchConsistent
  <2> HIDE DEF f
  <2> QED
    BY <2>1, <2>2, OneRecordKeeps
<1> QED
  BY <1>1, <1>2, <1>4, <1>5, <1>6 DEF AttemptCall

LEMMA ExternalCallKeeps ==
    ASSUME IndInv, NEW t \in Task, ExternalCall(t)
    PROVE  Kept
<1> USE EntryOf, NoneNotStatus
<1> DEFINE e == db[t]
<1>0. "reservation" \in ExecutionRef /\ "provider" \in ExecutionRef /\ "none" \in ExecutionRef
  BY DEF ExecutionRef
<1>1. ASSUME NEW ref \in ExecutionRef, ReserveExternalDispatch(t, ref) PROVE Kept
  <2> DEFINE f == [e EXCEPT !.ref = ref, !.expiry = FALSE, !.external = TRUE, !.repair = TRUE]
  <2>1. IsQueued(e.hash) /\ StoreOne(t, f, {}) /\ UNCHANGED <<inflight, granted>>
    BY <1>1 DEF ReserveExternalDispatch, ReserveDispatchScript
  <2>2. Consistent(f) /\ Waits(e.hash, f.hash)
    BY <2>1, ReserveConsistent
  <2> HIDE DEF f
  <2> QED
    BY <2>1, <2>2, OneRecordKeeps
<1>2. ASSUME ReleaseExternalDispatch(t) PROVE Kept
  <2> DEFINE queued == IsQueued(e.hash)
             f == [e EXCEPT !.ref = "none", !.external = FALSE,
                            !.expiry = @ \/ (queued /\ HasDeadline(e.hash)),
                            !.repair = queued]
  <2>1. StoreOne(t, f, {}) /\ UNCHANGED <<inflight, granted>>
    BY <1>2 DEF ReleaseExternalDispatch, ReleaseDispatchScript
  <2>2. Consistent(f) /\ Waits(e.hash, f.hash)
    BY <2>1, ReleaseConsistent
  <2> HIDE DEF f
  <2> QED
    BY <2>1, <2>2, OneRecordKeeps
<1>3. ASSUME FinalizeExternalDispatch(t) PROVE Kept
  <2> DEFINE f == [e EXCEPT !.ref = "provider", !.repair = TRUE]
  <2>1. /\ IsQueued(e.hash) /\ e.ref = "reservation" /\ StoreOne(t, f, {})
        /\ UNCHANGED <<inflight, granted>>
    BY <1>3 DEF FinalizeExternalDispatch, FinalizeDispatchScript
  <2>2. Consistent(f) /\ Waits(e.hash, f.hash)
    BY <2>1, FinalizeConsistent
  <2> HIDE DEF f
  <2> QED
    BY <2>1, <2>2, OneRecordKeeps
<1>4. ASSUME NEW g, ClearExecutionRef(t, g) PROVE Kept
  <2> DEFINE f == [e EXCEPT !.ref = "none"]
  <2>1. /\ IsQueued(e.hash) /\ e.ref # "none" /\ StoreOne(t, f, {})
        /\ UNCHANGED <<inflight, granted>>
    BY <1>4 DEF ClearExecutionRef, ClearRefScript
  <2>2. Consistent(f) /\ Waits(e.hash, f.hash)
    BY <2>1, ClearConsistent
  <2> HIDE DEF f
  <2> QED
    BY <2>1, <2>2, OneRecordKeeps
<1>5. ASSUME NEW ref \in ExecutionRef, ref # "none", ReserveScheduledExecutionRef(t, ref)
      PROVE  Kept
  <2> DEFINE f == [e EXCEPT !.ref = ref, !.external = ref # "none"]
  <2>1. IsQueued(e.hash) /\ StoreOne(t, f, {}) /\ UNCHANGED <<inflight, granted>>
    BY <1>5 DEF ReserveScheduledExecutionRef, ReserveScheduledScript
  <2>2. Consistent(f) /\ Waits(e.hash, f.hash)
    BY <1>5, <2>1, ReserveScheduledConsistent
  <2> HIDE DEF f
  <2> QED
    BY <2>1, <2>2, OneRecordKeeps
<1>6. ASSUME NEW ref \in ExecutionRef, NEW S, SetExecution(t, ref, S) PROVE Kept
  <2> DEFINE f == TransitionScript(e, e.hash, ref, "none")
  <2>1. Exists(e) /\ StoreOne(t, f, S) /\ UNCHANGED <<inflight, granted>>
    BY <1>6 DEF SetExecution
  <2>2. Consistent(f) /\ f.hash = e.hash
    BY <2>1, TransitionConsistent DEF Exists
  <2>3. Waits(e.hash, f.hash)
    BY <2>2 DEF Waits, SameClaimData
  <2> HIDE DEF f
  <2> QED
    BY <2>1, <2>2, <2>3, OneRecordKeeps
<1>7. ASSUME NEW g, ReplaceExecutionRef(t, g) PROVE Kept
  <2> DEFINE f == [e EXCEPT !.ref = "provider"]
  <2>1. /\ IsQueued(e.hash) /\ e.ref # "none" /\ StoreOne(t, f, {})
        /\ UNCHANGED <<inflight, granted>>
    BY <1>7 DEF ReplaceExecutionRef, ReplaceRefScript
  <2>2. Consistent(f) /\ Waits(e.hash, f.hash)
    BY <2>1, ReplaceConsistent
  <2> HIDE DEF f
  <2> QED
    BY <2>1, <2>2, OneRecordKeeps
<1> QED
  BY <1>0, <1>1, <1>2, <1>3, <1>4, <1>5, <1>6, <1>7
     DEF ExternalCall, SetExecutionRef, SetExecutionBackend

\* The reads: what a later commit relies on holds when it is read.
LEMMA ReadKeeps ==
    ASSUME IndInv, NEW t \in Task, NEW op, Read(op, t), Exists(db[t]),
           op \in {"interrupt", "cancel", "requeue", "fail", "listed"},
           op = "cancel" => IsActive(db[t].hash),
           op = "listed" => IsOverdue(db[t].hash),
           op = "interrupt" => /\ db[t].hash.status = "running"
                              /\ db[t].hash.interruptions < MaxInterruptions
    PROVE  Kept
<1> DEFINE r == db[t].hash
           x == [op |-> op, task |-> t, status |-> r.status,
                 gen |-> r.retry_count, worker |-> r.worker_id]
<1>1. inflight' = inflight \cup {x} /\ UNCHANGED <<db, keys, granted>>
  BY DEF Read
<1>2. x \in InFlight
  BY EntryOf DEF InFlight, QueuedTaskRecord, Exists, IsStored
<1>3. SoundRead(x)
  <2>1. r.status # "absent"
    BY DEF Exists, IsStored, TaskStatus, QueuedStatuses, TerminalStatuses
  <2> QED
    BY <2>1 DEF SoundRead, IsActive, IsQueued, IndInv, GrantedBehind
<1> HIDE DEF x
<1>4. inflight' \subseteq InFlight /\ \A y \in inflight' : SoundRead(y)
  BY <1>1, <1>2, <1>3 DEF IndInv, TypeOK
<1> QED
  BY <1>1, <1>4, ReadStepKeeps

LEMMA ReadStepsKeep ==
    ASSUME IndInv, NEW t \in Task, ReadStep(t)
    PROVE  Kept
<1>1. ASSUME ReadInterrupt(t) PROVE Kept
  BY <1>1, ReadKeeps, Statuses DEF ReadInterrupt, Exists
<1>2. ASSUME NEW b \in BOOLEAN, ReadCancel(t, b) PROVE Kept
  BY <1>2, ReadKeeps, Statuses DEF ReadCancel, Exists
<1>3. ASSUME ReadStale(t) PROVE Kept
  <2> DEFINE op == IF IsQueued(RecoverStale(db[t].hash)) THEN "requeue" ELSE "fail"
  <2>1. Read(op, t) /\ db[t].hash.status = "running"
    BY <1>3 DEF ReadStale, IsStale
  <2>2. op \in {"requeue", "fail"}
    OBVIOUS
  <2> HIDE DEF op
  <2> QED
    BY <2>1, <2>2, ReadKeeps, Statuses DEF Exists
<1>4. ASSUME ListOverdue(t) PROVE Kept
  <2>1. Exists(db[t])
    BY <1>4, EntryOf, Statuses DEF ListOverdue, Flat, Exists
  <2> QED
    BY <1>4, <2>1, ReadKeeps DEF ListOverdue
<1> QED
  BY <1>1, <1>2, <1>3, <1>4 DEF ReadStep

\* A commit, whose fence holds or does not.
LEMMA CommitKeeps ==
    ASSUME IndInv, NEW x \in inflight, NEW ok, NEW e, NEW S, Commit(x, ok, e, S),
           ok => /\ Consistent(e)
                 /\ \/ Waits(db[x.task].hash, e.hash) \/ Ends(db[x.task].hash, e.hash)
                    \/ Retries(db[x.task].hash, e.hash)
                    \/ /\ IsHandedBack(db[x.task].hash, e.hash)
                       /\ db[x.task].hash.interruptions < MaxInterruptions
    PROVE  Kept
<1>1. x.task \in Task /\ inflight' \subseteq inflight /\ UNCHANGED granted
  BY DEF Commit, IndInv, TypeOK, InFlight
<1>2. CASE ok
  BY <1>1, <1>2, OneRecordKeeps DEF Commit
<1>3. CASE ~ok
  BY <1>1, <1>3, ReadStepKeeps DEF Commit, IndInv, TypeOK
<1> QED
  BY <1>2, <1>3

LEMMA CommitStepsKeep ==
    ASSUME IndInv, NEW x \in inflight, CommitStep(x)
    PROVE  Kept
<1> USE NoneNotStatus
<1> DEFINE t == x.task
           e == db[t]
           r == e.hash
<1>1. x \in InFlight /\ t \in Task /\ SoundRead(x)
  BY DEF IndInv, TypeOK, InFlight
<1>2. Consistent(e) /\ e \in Entry /\ r \in QueuedTaskRecord /\ e.ref \in ExecutionRef
  BY <1>1, EntryOf
<1>3. "none" \in ExecutionRef
  BY DEF ExecutionRef
\* A transition to q, in the place its status asks for.
<1>4. ASSUME NEW q \in QueuedTaskRecord, Exists(e), IsStored(q), NEW ref \in ExecutionRef,
             NEW z \in {"ready", "scheduled", "remove"},
             z = "ready" => q.status = "pending" /\ q.due,
             z = "scheduled" => IsQueued(q), z = "remove" => ~IsQueued(q)
      PROVE  /\ Consistent(TransitionScript(e, q, ref, z))
             /\ TransitionScript(e, q, ref, z).hash = q
  BY <1>2, <1>4, TransitionConsistent
<1>5. ASSUME CommitInterrupt(x) PROVE Kept
  <2> DEFINE q == InterruptTask(r)
             ok == Fenced(r, x.gen) /\ r.worker_id = x.worker
             f == TransitionScript(e, q, "none", "ready")
  <2>1. x.op = "interrupt" /\ Commit(x, ok, f, {})
    BY <1>5 DEF CommitInterrupt
  <2>2. ASSUME ok
        PROVE  /\ Consistent(f) /\ IsHandedBack(r, f.hash)
               /\ r.interruptions < MaxInterruptions
    <3>1. r.status = "running" /\ Exists(e) /\ r.interruptions < MaxInterruptions
      BY <1>1, <2>1, <2>2, Statuses DEF SoundRead, Fenced, Exists
    <3>2. q \in QueuedTaskRecord /\ IsHandedBack(r, q)
      BY <1>2, <3>1, InterruptMove
    <3>3. q.status = "pending" /\ q.due
      BY <1>2 DEF InterruptTask, QueuedTaskRecord
    <3> HIDE DEF q
    <3>4. Consistent(f) /\ f.hash = q
      BY <1>3, <1>4, <3>1, <3>2, <3>3, Statuses
    <3> QED
      BY <3>1, <3>2, <3>4
  <2> HIDE DEF f, ok, q
  <2> QED
    BY <2>1, <2>2, CommitKeeps
<1>6. ASSUME ReadOverdue(x) PROVE Kept
  <2> DEFINE y == [x EXCEPT !.op = IF IsQueued(r) /\ IsOverdue(r) THEN "expire" ELSE "unindex",
                            !.status = r.status]
  <2>1. /\ UNCHANGED <<db, keys, granted>>
        /\ inflight' = (inflight \ {x}) \cup IF IsStored(r) THEN {y} ELSE {}
    BY <1>6 DEF ReadOverdue
  <2>2. IsStored(r) => y \in InFlight
    BY <1>1 DEF InFlight, IsStored
  <2>3. SoundRead(y)
    <3>1. /\ r.status # "absent"
          /\ IsQueued(r) => IsOverdue(r) \/ r.retry_count > 0
      BY <1>1, <1>6 DEF SoundRead, ReadOverdue
    <3>2. /\ y.task = t /\ y.status = r.status
          /\ y.op = IF IsQueued(r) /\ IsOverdue(r) THEN "expire" ELSE "unindex"
      BY <1>1 DEF InFlight
    <3> HIDE DEF y
    <3> QED
      BY <3>1, <3>2 DEF SoundRead, IsQueued
  <2> HIDE DEF y
  <2>4. inflight' \subseteq InFlight /\ \A w \in inflight' : SoundRead(w)
    BY <2>1, <2>2, <2>3 DEF IndInv, TypeOK
  <2> QED
    BY <2>1, <2>4, ReadStepKeeps
<1>7. ASSUME CommitUnindex(x) PROVE Kept
  <2> DEFINE f == [e EXCEPT !.expiry = FALSE]
  <2>1. Commit(x, TRUE, f, {})
    BY <1>7 DEF CommitUnindex
  <2>2. x.op = "unindex"
    BY <1>7 DEF CommitUnindex
  <2>3. Consistent(f) /\ Waits(r, f.hash)
    BY <1>1, <1>2, <2>2, UnindexConsistent DEF SoundRead
  <2> HIDE DEF f
  <2> QED
    BY <2>1, <2>3, CommitKeeps
<1>8. ASSUME CommitStaleRequeue(x) PROVE Kept
  <2> DEFINE q == RecoverStale(r)
             z == IndexAction(q)
             ok == Fenced(r, x.gen)
             f == TransitionScript(e, q, e.ref, z)
  <2>1. Commit(x, ok, f, {})
    BY <1>8 DEF CommitStaleRequeue
  <2>2. ASSUME ok PROVE Consistent(f) /\ (Retries(r, f.hash) \/ Ends(r, f.hash))
    <3>1. r.status = "running" /\ Exists(e)
      BY <2>2, Statuses DEF Fenced, Exists
    <3>2. q \in QueuedTaskRecord /\ (Retries(r, q) \/ EndsWithoutResult(r, q))
      BY <1>2, <3>1, RecoverMove
    <3>3. (Retries(r, q) \/ Ends(r, q)) /\ IsStored(q)
      BY <3>2, Statuses DEF Ends, EndsWithoutResult, Retries, IsTerminal
    <3> HIDE DEF q
    <3>4. /\ z \in {"ready", "scheduled", "remove"}
          /\ z = "ready" => q.status = "pending" /\ q.due
          /\ z = "scheduled" => IsQueued(q)
          /\ z = "remove" => ~IsQueued(q)
      BY DEF IndexAction, IsQueued
    <3> HIDE DEF z
    <3>5. Consistent(f) /\ f.hash = q
      BY <1>2, <1>4, <3>1, <3>2, <3>3, <3>4
    <3> QED
      BY <3>3, <3>5
  <2> HIDE DEF f, ok, q, z
  <2> QED
    BY <2>1, <2>2, CommitKeeps
\* The commits that end a record.
<1>9. ASSUME NEW q \in QueuedTaskRecord, Exists(e), EndsWithoutResult(r, q)
      PROVE  /\ Consistent(TransitionScript(e, q, e.ref, "remove"))
             /\ Ends(r, TransitionScript(e, q, e.ref, "remove").hash)
  <2>1. Ends(r, q) /\ IsStored(q) /\ ~IsQueued(q)
    BY <1>9, Statuses DEF Ends, EndsWithoutResult, IsTerminal
  <2> QED
    BY <1>2, <1>4, <1>9, <2>1
<1>10. ASSUME NEW expected, NEW S, CommitCancel(x, expected, S) PROVE Kept
  <2> DEFINE q == CancelTask(r)
             ok == r.status = x.status /\ expected \in {None, r.retry_count}
             f == TransitionScript(e, q, e.ref, "remove")
  <2>1. x.op = "cancel" /\ Commit(x, ok, f, S)
    BY <1>10 DEF CommitCancel
  <2>2. ASSUME ok PROVE Consistent(f) /\ Ends(r, f.hash)
    <3>1. IsActive(r) /\ Exists(e)
      BY <1>1, <2>1, <2>2, Statuses DEF SoundRead, Exists, QueuedStatuses
    <3> QED
      BY <1>2, <1>9, <3>1, CancelMove
  <2> HIDE DEF f, ok, q
  <2> QED
    BY <2>1, <2>2, CommitKeeps
<1>11. ASSUME NEW S, CommitStaleFailure(x, S) PROVE Kept
  <2> DEFINE q == FailTask(r, FALSE, FALSE)
             ok == r.status = "running"
             f == TransitionScript(e, q, e.ref, "remove")
  <2>1. Commit(x, ok, f, S)
    BY <1>11 DEF CommitStaleFailure
  <2>2. ASSUME ok PROVE Consistent(f) /\ Ends(r, f.hash)
    <3>1. Exists(e)
      BY <2>2, Statuses DEF Exists
    <3>2. q \in QueuedTaskRecord /\ (Retries(r, q) \/ EndsWithoutResult(r, q))
      BY <1>2, <2>2, FailMove
    <3>3. ~IsQueued(q)
      BY <1>2 DEF FailTask, QueuedTaskRecord, IsQueued, QueuedStatuses
    <3> QED
      BY <1>9, <3>1, <3>2, <3>3 DEF Retries
  <2> HIDE DEF f, ok, q
  <2> QED
    BY <2>1, <2>2, CommitKeeps
<1>12. ASSUME NEW S, CommitExpire(x, S) PROVE Kept
  <2> DEFINE q == ExpireRecord(r)
             ok == r.status = x.status
             f == TransitionScript(e, q, e.ref, "remove")
  <2>1. x.op = "expire" /\ Commit(x, ok, f, S)
    BY <1>12 DEF CommitExpire
  <2>2. ASSUME ok PROVE Consistent(f) /\ Ends(r, f.hash)
    <3>1. IsQueued(r) /\ Exists(e)
      BY <1>1, <2>1, <2>2, Statuses DEF SoundRead, Exists, QueuedStatuses
    <3> QED
      BY <1>2, <1>9, <3>1, QueuedMoves
  <2> HIDE DEF f, ok, q
  <2> QED
    BY <2>1, <2>2, CommitKeeps
<1> QED
  BY <1>5, <1>6, <1>7, <1>8, <1>10, <1>11, <1>12 DEF CommitStep

----------------------------------------------------------------------------
\* Removal, eviction and time.

\* A step that changes the entry of one id, takes no key and grants nothing.
LEMMA OneEntryKeeps ==
    ASSUME IndInv, NEW t \in Task, NEW e, db' = [db EXCEPT ![t] = e], KeysShrink,
           UNCHANGED <<inflight, granted>>, Consistent(e),
           Waits(db[t].hash, e.hash) \/ Vanishes(db[t].hash, e.hash)
    PROVE  Kept
<1>1. db'[t] = e /\ \A s \in Task \ {t} : db'[s] = db[s]
  BY DEF IndInv, TypeOK
<1>2. ASSUME NEW s \in Task PROVE Consistent(db'[s]) /\ Moves(s, db'[s].hash)
  <2>1. CASE s = t
    BY <1>1, <2>1 DEF Moves
  <2>2. CASE s # t
    <3>1. Consistent(db'[s]) /\ granted'[s] = granted[s] /\ db'[s] = db[s]
      BY <1>1, <2>2 DEF IndInv
    <3> QED
      BY <3>1 DEF Moves, Waits, SameClaimData
  <2> QED
    BY <2>1, <2>2
<1>3. db' \in [Task -> Entry]
  BY DEF IndInv, TypeOK, Consistent
<1>4. StoreStep
  BY <1>2, <1>3 DEF StoreStep
<1>5. granted' \in [Task -> SUBSET Nat]
  BY DEF IndInv, TypeOK
<1> QED
  BY <1>4, <1>5, StoreStepKeeps

LEMMA CleanupTerminalKeeps ==
    ASSUME IndInv, NEW t \in Task, CleanupTerminal(t)
    PROVE  Kept
<1> DEFINE e == DeleteTerminalEntry(db[t])
<1>1. db' = [db EXCEPT ![t] = e] /\ keys' = KeysWithout({t}) /\ UNCHANGED <<inflight, granted>>
  BY DEF CleanupTerminal
<1>2. {t} \subseteq Lapsed
  <2>1. db[t] \in Entry /\ Flat(db[t])
    BY EntryOf
  <2>2. db[t].terminal
    BY <2>1, Statuses DEF CleanupTerminal, Flat, Exists
  <2> QED
    BY <2>2 DEF Lapsed
<1>3. KeysShrink
  BY <1>1, <1>2, KeysWithoutShrinks
<1>4. Consistent(e) /\ (Waits(db[t].hash, e.hash) \/ Vanishes(db[t].hash, e.hash))
  BY EntryOf, NoneNotStatus, DeleteConsistent
<1> HIDE DEF e
<1> QED
  BY <1>1, <1>3, <1>4, OneEntryKeeps

LEMMA KeysUnchanged ==
    ASSUME IndInv, UNCHANGED keys
    PROVE  KeysShrink
  BY DEF KeysShrink, IndInv, TypeOK

LEMMA HashExpiresKeeps ==
    ASSUME IndInv, NEW t \in Task, HashExpires(t)
    PROVE  Kept
<1> DEFINE e == [db[t] EXCEPT !.hash = EvictHash(@), !.ref = "none"]
<1>1. /\ IsTerminal(db[t].hash) /\ db' = [db EXCEPT ![t] = e]
      /\ UNCHANGED <<inflight, granted>> /\ KeysShrink
  BY KeysUnchanged DEF HashExpires, IndInv, TypeOK
<1>2. Consistent(e) /\ Vanishes(db[t].hash, e.hash)
  BY <1>1, EntryOf, NoneNotStatus, HashExpiresConsistent
<1> HIDE DEF e
<1> QED
  BY <1>1, <1>2, OneEntryKeeps

LEMMA ClockTickKeeps ==
    ASSUME IndInv, NEW t \in Task, ClockTick(t)
    PROVE  Kept
<1> DEFINE r == db[t].hash
<1>1. /\ UNCHANGED <<inflight, granted>> /\ KeysShrink
      /\ r \in QueuedTaskRecord /\ Consistent(db[t])
  BY KeysUnchanged, EntryOf DEF ClockTick
<1>2. ASSUME NEW q \in QueuedTaskRecord, db' = [db EXCEPT ![t] = [db[t] EXCEPT !.hash = q]],
             q.status = r.status, SameClaimData(r, q),
             r.due => q.due, IsOverdue(r) => IsOverdue(q),
             HasDeadline(r) <=> HasDeadline(q)
      PROVE  Kept
  <2> DEFINE e == [db[t] EXCEPT !.hash = q]
  <2>1. Consistent(e) /\ Waits(r, e.hash)
    BY <1>1, <1>2, NoneNotStatus, TimeConsistent
  <2>2. db' = [db EXCEPT ![t] = e]
    BY <1>2
  <2> HIDE DEF e
  <2> QED
    BY <1>1, <2>1, <2>2, OneEntryKeeps
<1>3. CASE IsQueued(r) /\ db' = [db EXCEPT ![t].hash.due = TRUE]
  <2> DEFINE q == [r EXCEPT !.due = TRUE]
  <2>1. q \in QueuedTaskRecord /\ q.status = r.status /\ SameClaimData(r, q)
        /\ q.due /\ q.expires_at = r.expires_at
    BY <1>1 DEF QueuedTaskRecord, SameClaimData
  <2>2. db' = [db EXCEPT ![t] = [db[t] EXCEPT !.hash = q]]
    BY <1>3
  <2> HIDE DEF q
  <2> QED
    BY <1>2, <2>1, <2>2 DEF IsOverdue, HasDeadline
<1>4. CASE r.expires_at = "later" /\ db' = [db EXCEPT ![t].hash.expires_at = "overdue"]
  <2> DEFINE q == [r EXCEPT !.expires_at = "overdue"]
  <2>1. q \in QueuedTaskRecord /\ q.status = r.status /\ SameClaimData(r, q)
        /\ q.due = r.due /\ q.expires_at = "overdue"
    BY <1>1 DEF QueuedTaskRecord, SameClaimData
  <2>2. db' = [db EXCEPT ![t] = [db[t] EXCEPT !.hash = q]]
    BY <1>4
  <2> HIDE DEF q
  <2> QED
    BY <1>2, <1>4, <2>1, <2>2 DEF IsOverdue, HasDeadline
<1>5. CASE r.status = "running" /\ db' = [db EXCEPT ![t].hash.heartbeat_at = "stale"]
  <2> DEFINE q == [r EXCEPT !.heartbeat_at = "stale"]
  <2>1. q \in QueuedTaskRecord /\ q.status = r.status /\ SameClaimData(r, q)
        /\ q.due = r.due /\ q.expires_at = r.expires_at
    BY <1>1 DEF QueuedTaskRecord, SameClaimData
  <2>2. db' = [db EXCEPT ![t] = [db[t] EXCEPT !.hash = q]]
    BY <1>5
  <2> HIDE DEF q
  <2> QED
    BY <1>2, <2>1, <2>2 DEF IsOverdue, HasDeadline
<1> QED
  BY <1>3, <1>4, <1>5 DEF ClockTick

\* The steps over a page of ids: the records stay as they are.
LEMMA PageKeeps ==
    ASSUME IndInv, NEW new \in [Task -> Entry], NEW S, Store(new, S),
           UNCHANGED <<inflight, granted>>,
           \A t \in Task : Consistent(new[t]) /\ Waits(db[t].hash, new[t].hash),
           \A t \in Task : t \in S => new[t] = db[t]
    PROVE  Kept
<1>1. \A t \in Task : Moves(t, new[t].hash)
  BY DEF Moves
<1>2. StoreStep
  BY <1>1, StoreKeeps
<1>3. granted' \in [Task -> SUBSET Nat]
  BY DEF IndInv, TypeOK
<1> QED
  BY <1>2, <1>3, StoreStepKeeps

LEMMA PruneExpiredTerminalKeeps ==
    ASSUME IndInv, NEW S, PruneExpiredTerminal(S)
    PROVE  Kept
<1>1. db \in [Task -> Entry] /\ Store(db, S) /\ UNCHANGED <<inflight, granted>>
  BY DEF PruneExpiredTerminal, IndInv, TypeOK
<1>2. \A t \in Task : Consistent(db[t]) /\ Waits(db[t].hash, db[t].hash)
  BY DEF IndInv, Waits, SameClaimData
<1> QED
  BY <1>1, <1>2, PageKeeps

LEMMA ListDispatchRepairCandidatesKeeps ==
    ASSUME IndInv, NEW S, ListDispatchRepairCandidates(S)
    PROVE  Kept
<1> DEFINE f(t) == [db[t] EXCEPT !.repair = IsQueued(db[t].hash) /\ ~IsOverdue(db[t].hash)]
           new == [t \in Task |-> IF t \in S THEN f(t) ELSE db[t]]
<1>1. Store(new, {}) /\ UNCHANGED <<inflight, granted>>
  BY DEF ListDispatchRepairCandidates, RepairCandidateScript
<1>2. ASSUME NEW t \in Task PROVE Consistent(f(t)) /\ Waits(db[t].hash, f(t).hash)
  BY EntryOf, NoneNotStatus, RepairConsistent
<1> HIDE DEF f
<1>3. ASSUME NEW t \in Task PROVE Consistent(new[t]) /\ Waits(db[t].hash, new[t].hash)
  <2>1. Consistent(db[t]) /\ Waits(db[t].hash, db[t].hash)
    BY DEF IndInv, Waits, SameClaimData
  <2> QED
    BY <1>2, <2>1
<1>4. new \in [Task -> Entry]
  <2>1. \A t \in Task : new[t] \in Entry
    BY <1>3 DEF Consistent
  <2> QED
    BY <2>1
<1> HIDE DEF new
<1> QED
  BY <1>1, <1>3, <1>4, PageKeeps

----------------------------------------------------------------------------
\* The invariant.

LEMMA InitIndInv ==
    ASSUME Init
    PROVE  IndInv
<1>1. NoRecord \in QueuedTaskRecord /\ NoRecord.status = "absent" /\ NoRecord.retry_count = 0
  BY NoneAssumption DEF NoRecord, QueuedTaskRecord
<1>2. NoEntry \in Entry
  BY <1>1 DEF NoEntry, Entry, ExecutionRef
<1>3. Flat(NoEntry)
  BY <1>1, Statuses DEF NoEntry, Flat, Exists
<1>4. Consistent(NoEntry)
  BY <1>2, <1>3, ConsistentFields, NoneNotStatus
<1>5. NoEntry.hash = NoRecord
  BY DEF NoEntry
<1> HIDE DEF NoEntry, NoRecord
<1>6. TypeOK
  BY <1>2 DEF Init, TypeOK
<1>7. GrantedBehind
  BY <1>1, <1>5, Statuses DEF Init, GrantedBehind
<1>8. BudgetKept /\ KeysIndexed
  BY <1>1, <1>5, Statuses DEF Init, BudgetKept, KeysIndexed
<1>9. (\A t \in Task : Consistent(db[t])) /\ \A x \in inflight : SoundRead(x)
  BY <1>4 DEF Init
<1> QED
  BY <1>6, <1>7, <1>8, <1>9 DEF IndInv

LEMMA NextKeeps ==
    ASSUME IndInv, [Next]_vars
    PROVE  Kept
<1>1. CASE UNCHANGED vars
  <2>1. \A x \in inflight' : SoundRead(x)
    BY <1>1 DEF IndInv, vars
  <2>2. inflight' \subseteq InFlight
    BY <1>1 DEF IndInv, TypeOK, vars
  <2>3. UNCHANGED <<db, keys, granted>>
    BY <1>1 DEF vars
  <2> QED
    BY <2>1, <2>2, <2>3, ReadStepKeeps
<1>2. ASSUME NEW t \in Task, NEW o \in Options[t], Enqueue(t, o) PROVE Kept
  BY <1>2, EnqueueKeeps
<1>3. ASSUME NEW t \in Task, NEW S \in SUBSET Lapsed, ClaimTaskById(t, S) PROVE Kept
  BY <1>3, ClaimTaskByIdKeeps
<1>4. ASSUME NEW t \in Task, NEW g \in granted[t], AttemptCall(t, g) PROVE Kept
  BY <1>4, AttemptCallKeeps
<1>5. ASSUME NEW t \in Task, ExternalCall(t) PROVE Kept
  BY <1>5, ExternalCallKeeps
<1>6. ASSUME NEW t \in Task, ReadStep(t) PROVE Kept
  BY <1>6, ReadStepsKeep
<1>7. ASSUME NEW t \in Task, CleanupTerminal(t) \/ HashExpires(t) \/ ClockTick(t)
      PROVE  Kept
  BY <1>7, CleanupTerminalKeeps, HashExpiresKeeps, ClockTickKeeps
<1>8. ASSUME NEW F \in SUBSET Task, NEW X \in SUBSET Task, NEW S \in SUBSET Lapsed,
             ClaimMany(F, X, S)
      PROVE  Kept
  BY <1>8, ClaimManyKeeps
<1>9. ASSUME NEW x \in inflight, CommitStep(x) PROVE Kept
  BY <1>9, CommitStepsKeep
<1>10. ASSUME NEW S \in SUBSET Task,
              ListDispatchRepairCandidates(S) \/ PruneExpiredTerminal(S)
       PROVE  Kept
  BY <1>10, ListDispatchRepairCandidatesKeeps, PruneExpiredTerminalKeeps
<1> QED
  BY <1>1, <1>2, <1>3, <1>4, <1>5, <1>6, <1>7, <1>8, <1>9, <1>10 DEF Next

\* The invariant holds in every state, whatever callers, sweeps, evictions and
\* stale reads do.
THEOREM Invariance == Spec => []IndInv
<1>1. Init => IndInv
  BY InitIndInv
<1>2. IndInv /\ [Next]_vars => IndInv'
  BY NextKeeps DEF Kept
<1> QED
  BY <1>1, <1>2, PTL DEF Spec

\* Every variable keeps the shape the scripts give it.
THEOREM TypeCorrect == Spec => []TypeOK
<1>1. IndInv => TypeOK
  BY DEF IndInv
<1> QED
  BY <1>1, Invariance, PTL

\* No script and no interleaving of reads and commits loses a queued record to
\* the claim scripts, or offers them any other.
THEOREM QueuedNeverLost == Spec => []QueuedIsPlaced
<1>1. IndInv => QueuedIsPlaced
  BY DEF IndInv, Consistent, QueuedIsPlaced
<1> QED
  BY <1>1, Invariance, PTL

\* rebuild_maintenance_indexes would change nothing in the status sets and the
\* maintenance indexes but the five gaps that Indexed names.
THEOREM GapsAreKnown == Spec => []OnlyKnownGaps
<1>1. IndInv => OnlyKnownGaps
  BY DEF IndInv, Consistent, OnlyKnownGaps
<1> QED
  BY <1>1, Invariance, PTL

\* What an evicted hash leaves behind stays reachable for pruning and cleanup.
THEOREM OrphansSwept == Spec => []OrphansAreSweepable
<1>1. IndInv => OrphansAreSweepable
  BY DEF IndInv, Consistent, OrphansAreSweepable
<1> QED
  BY <1>1, Invariance, PTL

\* A deduplication key has at most one active holder: the key index names it,
\* and eviction, pruning and cleanup take the key only from a terminal one.
THEOREM KeysAreUnique == Spec => []OneActivePerKey
<1>1. IndInv => OneActivePerKey
  BY DEF IndInv, KeysIndexed, OneActivePerKey
<1> QED
  BY <1>1, Invariance, PTL

----------------------------------------------------------------------------
\* The records live the promised life.

LEMMA PromisedMove ==
    ASSUME NEW x, NEW y, Promised!Move(x, y)
    PROVE  Lifecycle!Move(x, y)
  BY DEF Promised!Move, Promised!Enqueued, Promised!Started, Promised!Requeued,
         Promised!Ended, Promised!Purged, Promised!Unborn,
         Lifecycle!Move, Lifecycle!Enqueued, Lifecycle!Started, Lifecycle!Requeued,
         Lifecycle!Ended, Lifecycle!Purged, Lifecycle!Unborn

\* What a step does to one record is a move of its life, or nothing.
LEMMA LifeMoves ==
    ASSUME IndInv, IndInv', NEW t \in Task,
           \/ Moves(t, db'[t].hash)
           \/ IsBorn(db[t].hash, db'[t].hash) /\ granted'[t] = granted[t]
    PROVE  LifeOf(t)' = LifeOf(t) \/ Lifecycle!Move(LifeOf(t), LifeOf(t)')
<1> DEFINE r == db[t].hash
           q == db'[t].hash
           S == granted[t]
           T == granted'[t]
<1>1. /\ r \in QueuedTaskRecord /\ q \in QueuedTaskRecord
      /\ MaxInterruptions \in Nat
      /\ r.retry_count \in Nat /\ r.interruptions \in Nat /\ r.max_retries \in Nat
  BY EntryFields, RedisAssumption DEF IndInv, TypeOK, QueuedTaskRecord
<1>2. /\ LifeOf(t) = LifeOfRecord(r, MaxInterruptions, S)
      /\ LifeOf(t)' = LifeOfRecord(q, MaxInterruptions, T)
  BY DEF LifeOf
<1>3. /\ r.status = "absent" => S = {} /\ r.retry_count = 0
      /\ IsQueued(r) => r.retry_count \notin S
      /\ IsStored(r) => /\ AttemptsConsumed(r) <= r.max_retries
                        /\ r.interruptions <= MaxInterruptions
  BY DEF IndInv, GrantedBehind, BudgetKept
<1>4. \/ Starts(r, q) /\ T = S \cup {r.retry_count}
      \/ /\ T = S
         /\ \/ Waits(r, q) \/ Ends(r, q) \/ Retries(r, q) \/ Vanishes(r, q)
            \/ IsHandedBack(r, q) /\ r.interruptions < MaxInterruptions
            \/ IsBorn(r, q)
  BY DEF Moves
<1> HIDE DEF r, q, S, T
<1>5. CASE Starts(r, q) /\ T = S \cup {r.retry_count}
  BY <1>1, <1>2, <1>3, <1>5, LifeStarts, PromisedMove
     DEF Starts, SameClaimData, SameCourse
<1>6. CASE IsBorn(r, q) /\ T = S
  BY <1>1, <1>2, <1>3, <1>6, LifeBegins, PromisedMove DEF IsBorn
<1>7. CASE Waits(r, q) /\ T = S
  BY <1>1, <1>2, <1>7, LifeStays DEF Waits, SameClaimData, SameCourse
<1>8. CASE Ends(r, q) /\ T = S
  BY <1>1, <1>2, <1>8, LifeEnds, PromisedMove DEF Ends, SameClaimData, SameCourse
<1>9. CASE /\ T = S
           /\ \/ Retries(r, q)
              \/ IsHandedBack(r, q) /\ r.interruptions < MaxInterruptions
  <2>1. r.status = "running" /\ IsStored(r)
    BY <1>9, Statuses DEF Retries, IsHandedBack
  <2>2. /\ IsQueued(q) /\ q.max_retries = r.max_retries
        /\ q.retry_count = r.retry_count + 1
        /\ r.retry_count < r.max_retries + MaxInterruptions
    BY <1>1, <1>3, <1>9, <2>1 DEF Retries, IsHandedBack, AttemptsConsumed
  <2> QED
    BY <1>1, <1>2, <1>9, <2>1, <2>2, LifeRequeued, PromisedMove
<1>10. CASE Vanishes(r, q) /\ T = S
  <2>1. CASE IsTerminal(r)
    BY <1>1, <1>2, <1>10, <2>1, LifePurged, PromisedMove DEF Vanishes, SameCourse
  <2>2. CASE r.status = "deleted"
    BY <1>1, <1>2, <1>10, <2>2, LifeStays DEF Vanishes, SameCourse
  <2> QED
    BY <1>10, <2>1, <2>2 DEF Vanishes
<1> QED
  BY <1>4, <1>5, <1>6, <1>7, <1>8, <1>9, <1>10

\* The Redis store implements TaskLifecycle: claims, fenced settlements and
\* commits of stale reads, in any order and by any number of clients, take
\* every record through finitely many generations, each granted once, to one end.
THEOREM RecordsLiveThePromisedLife == Spec => LivesThePromisedLife
<1>1. Init => Lifecycle!Init
  <2> SUFFICES ASSUME Init, NEW t \in Task PROVE LifeOf(t) = Lifecycle!Unborn
    BY DEF Lifecycle!Init
  <2>1. /\ db[t].hash = NoRecord /\ NoRecord.status = "absent"
        /\ NoRecord.retry_count = 0 /\ granted[t] = {}
    BY DEF Init, NoEntry, NoRecord
  <2>2. NoRecord \in QueuedTaskRecord
    BY DEF NoRecord, QueuedTaskRecord
  <2> QED
    BY <2>1, <2>2, LifeStates DEF LifeOf, LifeOfRecord, Lifecycle!Unborn
<1>2. IndInv /\ IndInv' /\ [Next]_vars => [Lifecycle!Next]_([t \in Task |-> LifeOf(t)])
  <2> SUFFICES ASSUME IndInv, IndInv', [Next]_vars, NEW t \in Task
               PROVE  LifeOf(t)' = LifeOf(t) \/ Lifecycle!Move(LifeOf(t), LifeOf(t)')
    BY DEF Lifecycle!Next
  <2> QED
    BY NextKeeps, LifeMoves DEF Kept, LivesOn
<1> QED
  BY <1>1, <1>2, Invariance, PTL DEF Spec, LivesThePromisedLife, Lifecycle!Spec
=============================================================================
