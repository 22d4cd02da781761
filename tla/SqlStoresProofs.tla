--------------------------- MODULE SqlStoresProofs ---------------------------
(***************************************************************************)
(* The first part is about the table alone: an inductive invariant, and    *)
(* the three kinds of step that keep it (rows move, a transaction has      *)
(* read, rows are born).  The second part shows that every call of the     *)
(* three stores is one of them, so that what was shown of the steps holds  *)
(* of the stores.                                                          *)
(***************************************************************************)
EXTENDS SqlStores, QueueRecordProofs

----------------------------------------------------------------------------
\* The inductive invariant.

Ended(r) == IsTerminal(r) \/ r.status = "deleted"

\* A row with the generations S claimed of it and e reports of its expiry.  The
\* generations are the row's own and earlier ones, its own while it runs and
\* never while it waits; an id that is not used yet is blank; retries and
\* interruptions stay within their limits; an active row has kept its key in
\* the unique column.
RowInv(row, S, e) ==
    LET r == row.rec
    IN  /\ \A g \in S : g <= r.retry_count
        /\ IsQueued(r) => r.retry_count \notin S
        /\ r.status = "running" => r.retry_count \in S
        /\ r.status = "absent" => row = NoRow /\ S = {}
        /\ IsStored(r) => /\ AttemptsConsumed(r) <= r.max_retries
                          /\ r.interruptions <= MaxInterruptions
        /\ e <= 1
        /\ e = 1 => r.status \in {"expired", "deleted"}
        /\ IsActive(r) /\ r.key # None => row.holds_key

\* What a transaction that is going to insert may still rely on.
SoundCall(x) ==
    x.op = "enqueue" =>
        /\ \A t \in x.tasks : rows[t] = NoRow
        /\ \A t \in x.found : Ended(rows[t].rec)
        /\ \A s, t \in x.tasks :
              x.options[s].key = x.options[t].key /\ x.options[s].key # None => s = t
        /\ \A y \in inflight : y.op = "enqueue" /\ y # x => x.tasks \cap y.tasks = {}

IndInv ==
    /\ TypeOK
    /\ \A t \in Task : RowInv(rows[t], GenerationsClaimed(t), expiries[t])
    /\ ReliableRowcount => ClaimIsExclusive
    /\ OneActivePerKey
    /\ \A x \in inflight : SoundCall(x)

----------------------------------------------------------------------------
\* The steps.

\* A row moves, and no call returns anything.
RowMoves(row, new) ==
    LET r == row.rec
        q == new.rec
    IN  /\ IsStored(r)
        /\ new.holds_key = row.holds_key \/ Ended(q)
        /\ \/ Stays(r, q) \/ Completes(r, q) \/ EndsWithoutResult(r, q)
           \/ Retries(r, q) \/ IsPurged(r, q)
           \/ IsHandedBack(r, q) /\ r.interruptions < MaxInterruptions

RowIsClaimed(row, new) ==
    new.holds_key = row.holds_key /\ Starts(row.rec, new.rec)

RowExpires(row, new) ==
    /\ new.holds_key = row.holds_key
    /\ IsQueued(row.rec) /\ new.rec.status = "expired" /\ SameClaimData(row.rec, new.rec)

\* What a step does to one row that it does not insert.  A driver that cannot
\* count may return the claim of a row that runs already.
RowStep(t) ==
    \/ /\ claims'[t] = claims[t] /\ expiries'[t] = expiries[t]
       /\ rows'[t] = rows[t] \/ RowMoves(rows[t], rows'[t])
    \/ /\ claims'[t] = claims[t] /\ expiries'[t] = expiries[t] + 1
       /\ RowExpires(rows[t], rows'[t])
    \/ /\ claims'[t] = Append(claims[t], rows[t].rec.retry_count)
       /\ expiries'[t] = expiries[t]
       /\ \/ RowIsClaimed(rows[t], rows'[t])
          \/ ~ReliableRowcount /\ rows[t].rec.status = "running" /\ rows'[t] = rows[t]

TableStep ==
    /\ inflight' \subseteq inflight
    /\ rows' \in [Task -> Row]
    /\ claims' \in [Task -> Seq(Nat)]
    /\ expiries' \in [Task -> Nat]
    /\ \A t \in Task : RowStep(t)

\* A transaction has read and goes on.
ReadStep ==
    /\ UNCHANGED <<rows, claims, expiries>>
    /\ \E x : /\ inflight' = inflight \cup {x}
              /\ IsCall(x)
              /\ x.op = "enqueue" =>
                    /\ \A t \in x.tasks : IsFresh(t)
                    /\ \A t \in x.found : Ended(rows[t].rec)
                    /\ \A s, t \in x.tasks :
                          x.options[s].key = x.options[t].key /\ x.options[s].key # None
                              => s = t

InsertedRow(o) == [NoRow EXCEPT !.rec = NewRecord(o), !.holds_key = o.key # None]

KeyIsFreed(row, new) == Ended(row.rec) /\ new = [row EXCEPT !.holds_key = FALSE]

\* The rows of B are born, and ended rows may give up their key.
Birth(B, o) ==
    /\ inflight' \subseteq inflight /\ UNCHANGED <<claims, expiries>>
    /\ rows' = [t \in Task |-> rows'[t]]
    /\ \A t \in B : rows[t] = NoRow /\ rows'[t] = InsertedRow(o[t])
    /\ \A t \in Task \ B :
          \/ rows'[t] = rows[t]
          \/ KeyIsFreed(rows[t], rows'[t])
    /\ \A s, t \in B : o[s].key = o[t].key /\ o[s].key # None => s = t
    /\ \A t \in B, s \in Task :
          IsActive(rows[s].rec) /\ o[t].key # None => rows[s].rec.key # o[t].key
    /\ \A x \in inflight' : x.op = "enqueue" => x.tasks \cap B = {}

BirthStep == \E B \in SUBSET Task : \E o \in [B -> EnqueueOptions] : Birth(B, o)

\* What every step does to a row.
RowIsBorn(row, new) == row = NoRow /\ IsBorn(row.rec, new.rec)

RowsLiveOn ==
    \A t \in Task :
        \/ RowStep(t)
        \/ /\ claims'[t] = claims[t] /\ expiries'[t] = expiries[t]
           /\ RowIsBorn(rows[t], rows'[t]) \/ KeyIsFreed(rows[t], rows'[t])

----------------------------------------------------------------------------
\* Facts about statuses, rows and claims.

LEMMA Statuses ==
    ASSUME NEW r
    PROVE  /\ IsQueued(r) <=> r.status = "pending" \/ r.status = "scheduled"
           /\ IsTerminal(r) <=> \/ r.status = "completed" \/ r.status = "failed"
                                \/ r.status = "cancelled" \/ r.status = "expired"
           /\ IsActive(r) <=> IsQueued(r) \/ r.status = "running"
           /\ IsStored(r) <=> IsActive(r) \/ IsTerminal(r)
           /\ Ended(r) <=> IsTerminal(r) \/ r.status = "deleted"
  BY DEF IsQueued, IsTerminal, IsActive, IsStored, TaskStatus, QueuedStatuses,
         TerminalStatuses, Ended

LEMMA RowOf ==
    ASSUME TypeOK, NEW t \in Task
    PROVE  /\ rows[t] \in Row /\ rows[t].rec \in QueuedTaskRecord
           /\ rows[t].ref \in ExecutionRef /\ rows[t].holds_key \in BOOLEAN
           /\ rows[t].rec.retry_count \in Nat /\ rows[t].rec.interruptions \in Nat
           /\ rows[t].rec.max_retries \in Nat /\ rows[t].rec.key \in Key \cup {None}
           /\ claims[t] \in Seq(Nat) /\ expiries[t] \in Nat
           /\ GenerationsClaimed(t) \in SUBSET Nat
<1>1. rows[t] \in Row /\ claims[t] \in Seq(Nat) /\ expiries[t] \in Nat
  BY DEF TypeOK
<1>2. rows[t].rec \in QueuedTaskRecord
  BY <1>1 DEF Row
<1>3. GenerationsClaimed(t) \in SUBSET Nat
  BY <1>1 DEF GenerationsClaimed
<1> QED
  BY <1>1, <1>2, <1>3 DEF Row, QueuedTaskRecord

\* The generations of a sequence of claims that has got one more.
LEMMA AppendedGeneration ==
    ASSUME NEW s \in Seq(Nat), NEW g \in Nat
    PROVE  LET u == Append(s, g)
           IN  /\ {u[i] : i \in DOMAIN u} = {s[i] : i \in DOMAIN s} \cup {g}
               /\ (/\ \A i, j \in DOMAIN s : s[i] = s[j] => i = j
                   /\ g \notin {s[i] : i \in DOMAIN s})
                  => \A i, j \in DOMAIN u : u[i] = u[j] => i = j
<1> DEFINE u == Append(s, g)
           n == Len(s)
<1>1. /\ n \in Nat /\ DOMAIN s = 1 .. n /\ DOMAIN u = 1 .. (n + 1)
      /\ u[n + 1] = g /\ \A i \in 1 .. n : u[i] = s[i]
  OBVIOUS
<1> HIDE DEF u, n
<1>2. \A i \in 1 .. (n + 1) : i \in 1 .. n \/ i = n + 1
  BY <1>1
<1>3. 1 .. n \subseteq 1 .. (n + 1) /\ n + 1 \in 1 .. (n + 1)
  BY <1>1
<1>4. {u[i] : i \in DOMAIN u} = {s[i] : i \in DOMAIN s} \cup {g}
  <2>1. ASSUME NEW v \in {u[i] : i \in DOMAIN u} PROVE v \in {s[i] : i \in DOMAIN s} \cup {g}
    BY <1>1, <1>2
  <2>2. ASSUME NEW i \in DOMAIN s PROVE s[i] \in {u[j] : j \in DOMAIN u}
    <3>1. i \in DOMAIN u /\ u[i] = s[i]
      BY <1>1, <1>3
    <3> QED
      BY <3>1
  <2>3. g \in {u[j] : j \in DOMAIN u}
    BY <1>1, <1>3
  <2> QED
    BY <2>1, <2>2, <2>3
<1>5. ASSUME \A i, j \in DOMAIN s : s[i] = s[j] => i = j,
             g \notin {s[i] : i \in DOMAIN s},
             NEW i \in DOMAIN u, NEW j \in DOMAIN u, u[i] = u[j]
      PROVE  i = j
  <2>1. \A k \in 1 .. n : u[k] # g
    BY <1>1, <1>5
  <2> QED
    BY <1>1, <1>2, <1>5, <2>1
<1> QED
  BY <1>4, <1>5 DEF u

----------------------------------------------------------------------------
\* What the steps do to one row.

LEMMA RowType ==
    ASSUME NEW row \in Row
    PROVE  /\ row.rec \in QueuedTaskRecord
           /\ row.rec.retry_count \in Nat /\ row.rec.interruptions \in Nat
           /\ row.rec.max_retries \in Nat
<1>1. row.rec \in QueuedTaskRecord
  BY DEF Row
<1> QED
  BY <1>1 DEF QueuedTaskRecord

LEMMA MovedRow ==
    ASSUME NEW row \in Row, NEW new \in Row, NEW S \in SUBSET Nat, NEW e \in Nat,
           RowInv(row, S, e), RowMoves(row, new)
    PROVE  RowInv(new, S, e)
<1> DEFINE r == row.rec
           q == new.rec
<1>1. /\ r.retry_count \in Nat /\ r.interruptions \in Nat /\ r.max_retries \in Nat
      /\ q.retry_count \in Nat /\ q.interruptions \in Nat /\ q.max_retries \in Nat
      /\ MaxInterruptions \in Nat
  BY RowType, SqlTableAssumption
<1>2. IsStored(r) /\ (new.holds_key = row.holds_key \/ Ended(q))
  BY DEF RowMoves
<1>3. CASE Stays(r, q)
  BY <1>1, <1>2, <1>3, Statuses DEF RowInv, Stays, SameClaimData, AttemptsConsumed
<1>4. CASE Completes(r, q)
  BY <1>1, <1>2, <1>4, Statuses DEF RowInv, Completes, SameClaimData, AttemptsConsumed
<1>5. CASE EndsWithoutResult(r, q)
  BY <1>1, <1>2, <1>5, Statuses DEF RowInv, EndsWithoutResult, SameClaimData,
     AttemptsConsumed, TerminalStatuses
<1>6. CASE Retries(r, q)
  BY <1>1, <1>2, <1>6, Statuses DEF RowInv, Retries, AttemptsConsumed
<1>7. CASE IsPurged(r, q)
  BY <1>1, <1>2, <1>7, Statuses DEF RowInv, IsPurged, SameClaimData, AttemptsConsumed
<1>8. CASE IsHandedBack(r, q) /\ r.interruptions < MaxInterruptions
  BY <1>1, <1>2, <1>8, Statuses DEF RowInv, IsHandedBack, AttemptsConsumed
<1> QED
  BY <1>3, <1>4, <1>5, <1>6, <1>7, <1>8 DEF RowMoves

LEMMA ExpiredRow ==
    ASSUME NEW row \in Row, NEW new \in Row, NEW S \in SUBSET Nat, NEW e \in Nat,
           RowInv(row, S, e), RowExpires(row, new)
    PROVE  RowInv(new, S, e + 1)
<1>1. /\ row.rec.retry_count \in Nat /\ row.rec.interruptions \in Nat
      /\ row.rec.max_retries \in Nat /\ MaxInterruptions \in Nat
  BY RowType, SqlTableAssumption
<1> QED
  BY <1>1, Statuses DEF RowInv, RowExpires, SameClaimData, AttemptsConsumed

LEMMA ClaimedRow ==
    ASSUME NEW row \in Row, NEW new \in Row, NEW S \in SUBSET Nat, NEW e \in Nat,
           RowInv(row, S, e), RowIsClaimed(row, new)
    PROVE  RowInv(new, S \cup {row.rec.retry_count}, e)
<1>1. /\ row.rec.retry_count \in Nat /\ row.rec.interruptions \in Nat
      /\ row.rec.max_retries \in Nat /\ MaxInterruptions \in Nat
  BY RowType, SqlTableAssumption
<1> QED
  BY <1>1, Statuses DEF RowInv, RowIsClaimed, Starts, SameClaimData, AttemptsConsumed

\* What other rows and transactions rely on.
RowGoesOn(row, new) ==
    /\ IsActive(new.rec) => IsActive(row.rec) /\ new.rec.key = row.rec.key
    /\ row = NoRow => new = NoRow
    /\ Ended(row.rec) => Ended(new.rec)

LEMMA RowGoingOn ==
    ASSUME NEW row, NEW new,
           RowMoves(row, new) \/ RowExpires(row, new) \/ RowIsClaimed(row, new)
    PROVE  RowGoesOn(row, new)
<1>1. NoRow.rec.status = "absent"
  BY DEF NoRow, NoRecord
<1>2. CASE RowMoves(row, new)
  <2> DEFINE r == row.rec
             q == new.rec
  <2>1. IsStored(r)
    BY <1>2 DEF RowMoves
  <2>2. CASE Stays(r, q)
    BY <1>1, <2>1, <2>2, Statuses DEF RowGoesOn, Stays, SameClaimData
  <2>3. CASE Completes(r, q)
    BY <1>1, <2>1, <2>3, Statuses DEF RowGoesOn, Completes, SameClaimData
  <2>4. CASE EndsWithoutResult(r, q)
    BY <1>1, <2>1, <2>4, Statuses DEF RowGoesOn, EndsWithoutResult, SameClaimData, TerminalStatuses
  <2>5. CASE Retries(r, q) \/ IsHandedBack(r, q)
    BY <1>1, <2>1, <2>5, Statuses DEF RowGoesOn, Retries, IsHandedBack
  <2>6. CASE IsPurged(r, q)
    BY <1>1, <2>1, <2>6, Statuses DEF RowGoesOn, IsPurged, SameClaimData
  <2> QED
    BY <1>2, <2>2, <2>3, <2>4, <2>5, <2>6 DEF RowMoves
<1>3. CASE RowExpires(row, new)
  BY <1>1, <1>3, Statuses DEF RowGoesOn, RowExpires, SameClaimData
<1>4. CASE RowIsClaimed(row, new)
  BY <1>1, <1>4, Statuses DEF RowGoesOn, RowIsClaimed, Starts, SameClaimData
<1> QED
  BY <1>2, <1>3, <1>4

----------------------------------------------------------------------------
\* The three kinds of step keep the invariant.

NoGenerationTwice(s) == \A i, j \in DOMAIN s : s[i] = s[j] => i = j

LEMMA RowStepKeeps ==
    ASSUME IndInv, TableStep, NEW t \in Task
    PROVE  /\ RowInv(rows'[t], GenerationsClaimed(t)', expiries'[t])
           /\ RowGoesOn(rows[t], rows'[t])
           /\ ReliableRowcount => NoGenerationTwice(claims'[t])
<1> DEFINE g == rows[t].rec.retry_count
           S == GenerationsClaimed(t)
           T == GenerationsClaimed(t)'
<1>1. /\ rows[t] \in Row /\ rows'[t] \in Row /\ S \in SUBSET Nat /\ g \in Nat
      /\ expiries[t] \in Nat /\ claims[t] \in Seq(Nat)
  BY RowOf DEF IndInv, TableStep
<1>2. RowInv(rows[t], S, expiries[t]) /\ (ReliableRowcount => NoGenerationTwice(claims[t]))
  BY DEF IndInv, ClaimIsExclusive, NoGenerationTwice
<1>3. claims'[t] = claims[t] => T = S
  BY DEF GenerationsClaimed
<1>4. claims'[t] = Append(claims[t], g) =>
          /\ T = S \cup {g}
          /\ NoGenerationTwice(claims[t]) /\ g \notin S => NoGenerationTwice(claims'[t])
  <2> SUFFICES ASSUME claims'[t] = Append(claims[t], g)
               PROVE  /\ T = S \cup {g}
                      /\ NoGenerationTwice(claims[t]) /\ g \notin S => NoGenerationTwice(claims'[t])
    OBVIOUS
  <2> DEFINE c == claims[t]
             d == claims'[t]
  <2>1. /\ {d[i] : i \in DOMAIN d} = {c[i] : i \in DOMAIN c} \cup {g}
        /\ NoGenerationTwice(c) /\ g \notin {c[i] : i \in DOMAIN c} => NoGenerationTwice(d)
    <3>1. c \in Seq(Nat) /\ g \in Nat /\ d = Append(c, g)
      BY <1>1
    <3> HIDE DEF c, d, g
    <3>2. LET u == Append(c, g)
          IN  /\ {u[i] : i \in DOMAIN u} = {c[i] : i \in DOMAIN c} \cup {g}
              /\ (/\ \A i, j \in DOMAIN c : c[i] = c[j] => i = j
                  /\ g \notin {c[i] : i \in DOMAIN c})
                 => \A i, j \in DOMAIN u : u[i] = u[j] => i = j
      BY <3>1, AppendedGeneration
    <3> QED
      BY <3>1, <3>2 DEF NoGenerationTwice
  <2> QED
    BY <2>1 DEF GenerationsClaimed
<1> HIDE DEF g, S, T
<1>5. RowStep(t)
  BY DEF TableStep
<1>6. CASE /\ claims'[t] = claims[t] /\ expiries'[t] = expiries[t]
           /\ rows'[t] = rows[t] \/ RowMoves(rows[t], rows'[t])
  <2>1. RowInv(rows'[t], T, expiries'[t]) /\ (ReliableRowcount => NoGenerationTwice(claims'[t]))
    BY <1>1, <1>2, <1>3, <1>6, MovedRow
  <2>2. RowGoesOn(rows[t], rows'[t])
    <3>1. CASE rows'[t] = rows[t]
      BY <3>1 DEF RowGoesOn
    <3> QED
      BY <1>6, <3>1, RowGoingOn
  <2> QED
    BY <2>1, <2>2 DEF T
<1>7. CASE /\ claims'[t] = claims[t] /\ expiries'[t] = expiries[t] + 1
           /\ RowExpires(rows[t], rows'[t])
  <2>1. RowInv(rows'[t], T, expiries'[t]) /\ (ReliableRowcount => NoGenerationTwice(claims'[t]))
    BY <1>1, <1>2, <1>3, <1>7, ExpiredRow
  <2>2. RowGoesOn(rows[t], rows'[t])
    BY <1>7, RowGoingOn
  <2> QED
    BY <2>1, <2>2 DEF T
<1>8. CASE /\ claims'[t] = Append(claims[t], g) /\ expiries'[t] = expiries[t]
           /\ RowIsClaimed(rows[t], rows'[t])
  <2>1. g \notin S
    BY <1>2, <1>8 DEF RowInv, RowIsClaimed, Starts, g
  <2>2. ReliableRowcount => NoGenerationTwice(claims'[t])
    BY <1>2, <1>4, <1>8, <2>1
  <2>3. RowInv(rows'[t], S \cup {g}, expiries[t])
    BY <1>1, <1>2, <1>8, ClaimedRow DEF g
  <2>4. RowInv(rows'[t], T, expiries'[t])
    BY <1>4, <1>8, <2>3
  <2>5. RowGoesOn(rows[t], rows'[t])
    BY <1>8, RowGoingOn
  <2> QED
    BY <2>2, <2>4, <2>5 DEF T
<1>9. CASE /\ claims'[t] = Append(claims[t], g) /\ expiries'[t] = expiries[t]
           /\ ~ReliableRowcount /\ rows[t].rec.status = "running" /\ rows'[t] = rows[t]
  <2>1. g \in S
    BY <1>2, <1>9 DEF RowInv, g
  <2>2. T = S
    BY <1>4, <1>9, <2>1
  <2>3. RowGoesOn(rows[t], rows'[t])
    BY <1>9 DEF RowGoesOn
  <2> QED
    BY <1>2, <1>9, <2>2, <2>3 DEF T
<1> QED
  BY <1>5, <1>6, <1>7, <1>8, <1>9 DEF RowStep, g

\* Rows that move.
LEMMA TableStepKeeps ==
    ASSUME IndInv, TableStep
    PROVE  IndInv' /\ RowsLiveOn
<1>1. \A t \in Task : /\ RowInv(rows'[t], GenerationsClaimed(t)', expiries'[t])
                      /\ RowGoesOn(rows[t], rows'[t])
                      /\ ReliableRowcount => NoGenerationTwice(claims'[t])
  BY RowStepKeeps
<1>2. TypeOK'
  BY DEF TableStep, TypeOK, IndInv
<1>3. (\A t \in Task : RowInv(rows[t], GenerationsClaimed(t), expiries[t]))'
  BY <1>1
<1>4. (ReliableRowcount => ClaimIsExclusive)'
  BY <1>1 DEF ClaimIsExclusive, NoGenerationTwice
<1>5. OneActivePerKey'
  BY <1>1 DEF OneActivePerKey, RowGoesOn, IndInv
<1>6. ASSUME NEW x \in inflight', x.op = "enqueue"
      PROVE  /\ \A t \in x.tasks : rows'[t] = NoRow
             /\ \A t \in x.found : Ended(rows'[t].rec)
             /\ \A s, t \in x.tasks :
                   x.options[s].key = x.options[t].key /\ x.options[s].key # None => s = t
             /\ \A y \in inflight' : y.op = "enqueue" /\ y # x => x.tasks \cap y.tasks = {}
  <2>1. x \in inflight /\ SoundCall(x) /\ IsCall(x) /\ inflight' \subseteq inflight
    BY DEF IndInv, TableStep, TypeOK
  <2>2. x.tasks \subseteq Task /\ x.found \subseteq Task
    BY <1>6, <2>1 DEF IsCall
  <2> QED
    BY <1>1, <1>6, <2>1, <2>2 DEF SoundCall, RowGoesOn
<1>7. (\A x \in inflight : SoundCall(x))'
  BY <1>6 DEF SoundCall
<1>8. RowsLiveOn
  BY DEF TableStep, RowsLiveOn
<1> QED
  BY <1>2, <1>3, <1>4, <1>5, <1>7, <1>8 DEF IndInv

\* A transaction that has read.
LEMMA ReadStepKeeps ==
    ASSUME IndInv, ReadStep
    PROVE  IndInv' /\ RowsLiveOn
<1>1. PICK x : /\ inflight' = inflight \cup {x}
               /\ IsCall(x)
               /\ x.op = "enqueue" =>
                     /\ \A t \in x.tasks : IsFresh(t)
                     /\ \A t \in x.found : Ended(rows[t].rec)
                     /\ \A s, t \in x.tasks :
                           x.options[s].key = x.options[t].key /\ x.options[s].key # None
                               => s = t
  BY DEF ReadStep
<1>2. UNCHANGED <<rows, claims, expiries>>
  BY DEF ReadStep
<1>3. TypeOK'
  BY <1>1, <1>2 DEF TypeOK, IndInv, IsCall
<1>4. /\ (\A t \in Task : RowInv(rows[t], GenerationsClaimed(t), expiries[t]))'
      /\ (ReliableRowcount => ClaimIsExclusive)'
      /\ OneActivePerKey'
  BY <1>2 DEF IndInv, RowInv, GenerationsClaimed, ClaimIsExclusive, OneActivePerKey
<1>5. ASSUME NEW y \in inflight', y.op = "enqueue"
      PROVE  /\ \A t \in y.tasks : rows[t] = NoRow
             /\ \A t \in y.found : Ended(rows[t].rec)
             /\ \A s, t \in y.tasks :
                   y.options[s].key = y.options[t].key /\ y.options[s].key # None => s = t
             /\ \A z \in inflight' : z.op = "enqueue" /\ z # y => y.tasks \cap z.tasks = {}
  <2>1. CASE y = x
    BY <1>1, <1>5, <2>1 DEF IsFresh
  <2>2. CASE y \in inflight /\ y # x
    BY <1>1, <1>5, <2>2 DEF IndInv, SoundCall, IsFresh
  <2> QED
    BY <1>1, <2>1, <2>2
<1>6. (\A y \in inflight : SoundCall(y))'
  BY <1>2, <1>5 DEF SoundCall
<1>7. RowsLiveOn
  BY <1>2 DEF RowsLiveOn, RowStep
<1> QED
  BY <1>3, <1>4, <1>6, <1>7 DEF IndInv

\* Rows that are born.
LEMMA BornRow ==
    ASSUME NEW o \in EnqueueOptions
    PROVE  /\ InsertedRow(o) \in Row
           /\ InsertedRow(o).rec = NewRecord(o) /\ NewRecord(o).key = o.key
           /\ o.key # None => InsertedRow(o).holds_key
           /\ NoRow \in Row /\ NoRow.rec = NoRecord /\ NoRow.holds_key = FALSE
           /\ NoRecord.status = "absent" /\ NoRecord.retry_count = 0
           /\ RowIsBorn(NoRow, InsertedRow(o))
<1>1. NoRecord \in QueuedTaskRecord
  BY DEF NoRecord, QueuedTaskRecord
<1>2. NoRow \in Row
  BY <1>1 DEF NoRow, Row, ExecutionRef
<1>3. /\ NewRecord(o) \in QueuedTaskRecord /\ IsBorn(NoRecord, NewRecord(o))
      /\ NewRecord(o).key = o.key
  BY <1>1, NewRecordMove DEF NoRecord
<1>4. NoRow.rec = NoRecord /\ NoRow.holds_key = FALSE
  BY DEF NoRow
<1> DEFINE k == (o.key # None)
           row == [NoRow EXCEPT !.rec = NewRecord(o), !.holds_key = k]
<1>5. row \in Row /\ row.rec = NewRecord(o) /\ (k => row.holds_key)
  <2>1. k \in BOOLEAN
    OBVIOUS
  <2> HIDE DEF k
  <2> QED
    BY <1>2, <1>3, <2>1 DEF Row
<1>6. InsertedRow(o) = row
  BY DEF InsertedRow
<1> HIDE DEF row
<1> QED
  BY <1>2, <1>3, <1>4, <1>5, <1>6 DEF RowIsBorn, NoRecord

LEMMA BirthKeeps ==
    ASSUME IndInv, NEW B \in SUBSET Task, NEW o \in [B -> EnqueueOptions], Birth(B, o)
    PROVE  IndInv' /\ RowsLiveOn
<1>1. /\ inflight' \subseteq inflight /\ UNCHANGED <<claims, expiries>>
      /\ rows' = [t \in Task |-> rows'[t]]
      /\ \A t \in B : rows[t] = NoRow /\ rows'[t] = InsertedRow(o[t])
      /\ \A t \in Task \ B : rows'[t] = rows[t] \/ KeyIsFreed(rows[t], rows'[t])
      /\ \A s, t \in B : o[s].key = o[t].key /\ o[s].key # None => s = t
      /\ \A t \in B, s \in Task :
            IsActive(rows[s].rec) /\ o[t].key # None => rows[s].rec.key # o[t].key
      /\ \A x \in inflight' : x.op = "enqueue" => x.tasks \cap B = {}
  BY DEF Birth
<1>2. ASSUME NEW t \in Task
      PROVE  /\ rows[t] \in Row /\ GenerationsClaimed(t) \in SUBSET Nat
             /\ GenerationsClaimed(t)' = GenerationsClaimed(t)
             /\ expiries[t] \in Nat /\ RowInv(rows[t], GenerationsClaimed(t), expiries[t])
  BY <1>1, RowOf DEF IndInv, GenerationsClaimed
<1>3. ASSUME NEW t \in B
      PROVE  /\ rows'[t] \in Row /\ rows'[t].rec.key = o[t].key
             /\ RowIsBorn(rows[t], rows'[t])
             /\ RowInv(rows'[t], GenerationsClaimed(t)', expiries'[t])
  <2>1. /\ rows'[t] = InsertedRow(o[t]) /\ rows[t] = NoRow /\ o[t] \in EnqueueOptions
        /\ t \in Task
    BY <1>1
  <2>2. /\ rows'[t] \in Row /\ rows'[t].rec = NewRecord(o[t])
        /\ NewRecord(o[t]).key = o[t].key /\ (o[t].key # None => rows'[t].holds_key)
        /\ RowIsBorn(rows[t], rows'[t]) /\ rows[t].rec.status = "absent"
    BY <2>1, BornRow
  <2>3. /\ GenerationsClaimed(t)' = {} /\ expiries'[t] = 0
    BY <1>1, <1>2, <2>1, <2>2 DEF RowInv
  <2>4. /\ rows'[t].rec.retry_count = 0 /\ rows'[t].rec.interruptions = 0
        /\ rows'[t].rec.status \in {"pending", "scheduled"}
        /\ rows'[t].rec.max_retries \in Nat /\ MaxInterruptions \in Nat
    BY <2>1, <2>2, SqlTableAssumption, RowType DEF NewRecord
  <2>5. RowInv(rows'[t], {}, 0)
    BY <2>2, <2>4, Statuses DEF RowInv, AttemptsConsumed
  <2> QED
    BY <2>2, <2>3, <2>5
<1>4. ASSUME NEW t \in Task \ B
      PROVE  /\ rows'[t] \in Row /\ rows'[t].rec = rows[t].rec
             /\ rows[t] = NoRow => rows'[t] = NoRow
             /\ RowInv(rows'[t], GenerationsClaimed(t)', expiries'[t])
  <2>1. CASE rows'[t] = rows[t]
    BY <1>1, <1>2, <2>1
  <2>2. CASE KeyIsFreed(rows[t], rows'[t])
    <3>1. /\ rows'[t] \in Row /\ rows'[t].rec = rows[t].rec
          /\ Ended(rows[t].rec)
      BY <1>2, <2>2 DEF KeyIsFreed, Row
    <3>2. rows[t] # NoRow
      BY <3>1, Statuses DEF NoRow, NoRecord
    <3>3. RowInv(rows'[t], GenerationsClaimed(t), expiries[t])
      BY <1>2, <3>1, Statuses DEF RowInv
    <3> QED
      BY <1>1, <1>2, <3>1, <3>2, <3>3
  <2> QED
    BY <1>1, <2>1, <2>2
<1>5. TypeOK'
  <2>1. rows' \in [Task -> Row]
    BY <1>1, <1>3, <1>4
  <2> QED
    BY <1>1, <2>1 DEF TypeOK, IndInv
<1>6. (\A t \in Task : RowInv(rows[t], GenerationsClaimed(t), expiries[t]))'
  BY <1>3, <1>4
<1>7. (ReliableRowcount => ClaimIsExclusive)'
  BY <1>1 DEF IndInv, ClaimIsExclusive
<1>8. OneActivePerKey'
  <2>1. \A s, t \in Task : IsActive(rows[s].rec) /\ IsActive(rows[t].rec)
          /\ rows[s].rec.key # None /\ rows[s].rec.key = rows[t].rec.key => s = t
    BY DEF OneActivePerKey, IndInv
  <2> QED
    BY <1>1, <1>3, <1>4, <2>1 DEF OneActivePerKey
<1>9. ASSUME NEW x \in inflight', x.op = "enqueue"
      PROVE  /\ \A t \in x.tasks : rows'[t] = NoRow
             /\ \A t \in x.found : Ended(rows'[t].rec)
             /\ \A s, t \in x.tasks :
                   x.options[s].key = x.options[t].key /\ x.options[s].key # None => s = t
             /\ \A y \in inflight' : y.op = "enqueue" /\ y # x => x.tasks \cap y.tasks = {}
  <2>1. x \in inflight /\ SoundCall(x) /\ x.tasks \subseteq Task /\ x.found \subseteq Task
    BY <1>1, <1>9 DEF IndInv, TypeOK, IsCall
  <2>2. \A t \in x.tasks : rows'[t] = NoRow
    BY <1>1, <1>4, <1>9, <2>1 DEF SoundCall
  <2>3. \A t \in x.found : Ended(rows'[t].rec)
    <3>1. \A t \in x.found : Ended(rows[t].rec)
      BY <1>9, <2>1 DEF SoundCall
    <3>2. ~Ended(NoRow.rec)
      BY Statuses DEF NoRow, NoRecord
    <3> QED
      BY <1>1, <1>4, <2>1, <3>1, <3>2
  <2> QED
    BY <1>1, <1>9, <2>1, <2>2, <2>3 DEF SoundCall
<1>10. (\A x \in inflight : SoundCall(x))'
  BY <1>9 DEF SoundCall
<1>11. RowsLiveOn
  BY <1>1, <1>3, <1>4 DEF RowsLiveOn, RowStep
<1> QED
  BY <1>5, <1>6, <1>7, <1>8, <1>10, <1>11 DEF IndInv

\* The empty table.
LEMMA InitInv == Init => IndInv
<1> SUFFICES ASSUME Init PROVE IndInv
  OBVIOUS
<1>1. NoRow \in Row /\ NoRow.rec.status = "absent" /\ NoRow.rec.retry_count = 0
  BY DEF NoRow, Row, NoRecord, QueuedTaskRecord, ExecutionRef
<1>2. TypeOK
  BY <1>1 DEF Init, TypeOK
<1>3. \A t \in Task : RowInv(rows[t], GenerationsClaimed(t), expiries[t])
  <2> SUFFICES ASSUME NEW t \in Task
               PROVE  RowInv(rows[t], GenerationsClaimed(t), expiries[t])
    OBVIOUS
  <2>1. rows[t] = NoRow /\ GenerationsClaimed(t) = {} /\ expiries[t] = 0
    BY DEF Init, GenerationsClaimed
  <2>2. RowInv(NoRow, {}, 0)
    BY <1>1, Statuses DEF RowInv
  <2> QED
    BY <2>1, <2>2
<1>4. OneActivePerKey
  BY <1>1, Statuses DEF OneActivePerKey, Init
<1> QED
  BY <1>2, <1>3, <1>4 DEF IndInv, Init, ClaimIsExclusive

----------------------------------------------------------------------------
\* What a step does to a row is a move of its life, or nothing.

\* TaskLifecycle promises the same of every table.
LEMMA PromisedMove ==
    ASSUME NEW x, NEW y, Promised!Move(x, y)
    PROVE  Lifecycle!Move(x, y)
  BY DEF Promised!Move, Promised!Enqueued, Promised!Started, Promised!Requeued,
         Promised!Ended, Promised!Purged, Promised!Unborn,
         Lifecycle!Move, Lifecycle!Enqueued, Lifecycle!Started, Lifecycle!Requeued,
         Lifecycle!Ended, Lifecycle!Purged, Lifecycle!Unborn

LEMMA MovedLife ==
    ASSUME NEW row \in Row, NEW new \in Row, NEW S \in SUBSET Nat, NEW e \in Nat,
           RowInv(row, S, e), RowMoves(row, new) \/ RowExpires(row, new)
    PROVE  LET x == LifeOfRecord(row.rec, MaxInterruptions, S)
               y == LifeOfRecord(new.rec, MaxInterruptions, S)
           IN  y = x \/ Lifecycle!Move(x, y)
<1> DEFINE r == row.rec
           q == new.rec
<1>1. /\ r \in QueuedTaskRecord /\ q \in QueuedTaskRecord /\ MaxInterruptions \in Nat
      /\ r.retry_count \in Nat /\ r.interruptions \in Nat /\ r.max_retries \in Nat
  BY RowType, SqlTableAssumption
<1>2. IsStored(r) => /\ AttemptsConsumed(r) <= r.max_retries
                     /\ r.interruptions <= MaxInterruptions
  BY DEF RowInv
<1>3. \/ Stays(r, q) \/ Completes(r, q) \/ EndsWithoutResult(r, q)
      \/ Retries(r, q) \/ IsPurged(r, q)
      \/ IsHandedBack(r, q) /\ r.interruptions < MaxInterruptions
  <2>1. RowExpires(row, new) => EndsWithoutResult(r, q)
    BY Statuses DEF RowExpires, EndsWithoutResult, TerminalStatuses
  <2> QED
    BY <2>1 DEF RowMoves
<1> HIDE DEF r, q
<1>4. CASE Stays(r, q)
  BY <1>1, <1>4, LifeStays DEF Stays, SameClaimData, SameCourse, r, q
<1>5. CASE Completes(r, q) \/ EndsWithoutResult(r, q)
  <2>1. SameCourse(r, q) /\ IsActive(r) /\ IsTerminal(q)
    BY <1>5, Statuses DEF Completes, EndsWithoutResult, SameClaimData, SameCourse, TerminalStatuses
  <2> QED
    BY <1>1, <2>1, LifeEnds, PromisedMove DEF r, q
<1>6. CASE \/ Retries(r, q)
           \/ IsHandedBack(r, q) /\ r.interruptions < MaxInterruptions
  <2>1. r.status = "running" /\ IsStored(r)
    BY <1>6, Statuses DEF Retries, IsHandedBack
  <2>2. /\ IsQueued(q) /\ q.max_retries = r.max_retries
        /\ q.retry_count = r.retry_count + 1
        /\ r.retry_count < r.max_retries + MaxInterruptions
    BY <1>1, <1>2, <1>6, <2>1 DEF Retries, IsHandedBack, AttemptsConsumed
  <2> QED
    BY <1>1, <2>1, <2>2, LifeRequeued, PromisedMove DEF r, q
<1>7. CASE IsPurged(r, q)
  BY <1>1, <1>7, LifePurged, PromisedMove DEF IsPurged, SameClaimData, SameCourse, r, q
<1> QED
  BY <1>3, <1>4, <1>5, <1>6, <1>7

LEMMA LifeMoves ==
    ASSUME IndInv, TypeOK', RowsLiveOn, NEW t \in Task
    PROVE  LifeOf(t)' = LifeOf(t) \/ Lifecycle!Move(LifeOf(t), LifeOf(t)')
<1> DEFINE g == rows[t].rec.retry_count
           S == GenerationsClaimed(t)
           T == GenerationsClaimed(t)'
<1>1. /\ rows[t] \in Row /\ rows'[t] \in Row /\ S \in SUBSET Nat
      /\ rows[t].rec \in QueuedTaskRecord /\ rows'[t].rec \in QueuedTaskRecord
      /\ g \in Nat /\ expiries[t] \in Nat /\ claims[t] \in Seq(Nat)
      /\ RowInv(rows[t], S, expiries[t])
  BY RowOf, RowType DEF IndInv, TypeOK
<1>2. /\ LifeOf(t) = LifeOfRecord(rows[t].rec, MaxInterruptions, S)
      /\ LifeOf(t)' = LifeOfRecord(rows'[t].rec, MaxInterruptions, T)
  BY DEF LifeOf
<1>3. claims'[t] = claims[t] => T = S
  BY DEF GenerationsClaimed
<1>4. claims'[t] = Append(claims[t], g) => T = S \cup {g}
  <2> DEFINE c == claims[t]
             u == Append(c, g)
  <2>1. {u[i] : i \in DOMAIN u} = {c[i] : i \in DOMAIN c} \cup {g}
    <3>1. c \in Seq(Nat) /\ g \in Nat
      BY <1>1
    <3> HIDE DEF c, g
    <3> QED
      BY <3>1, AppendedGeneration
  <2> QED
    BY <2>1 DEF GenerationsClaimed
<1> HIDE DEF g, S, T
<1>5. CASE T = S /\ rows'[t].rec = rows[t].rec
  BY <1>2, <1>5
<1>6. CASE T = S /\ (RowMoves(rows[t], rows'[t]) \/ RowExpires(rows[t], rows'[t]))
  BY <1>1, <1>2, <1>6, MovedLife
<1>7. CASE T = S \cup {g} /\ RowIsClaimed(rows[t], rows'[t])
  <2>1. /\ SameCourse(rows[t].rec, rows'[t].rec) /\ IsQueued(rows[t].rec)
        /\ rows'[t].rec.status = "running" /\ rows[t].rec.retry_count \notin S
    BY <1>1, <1>7 DEF RowIsClaimed, Starts, SameClaimData, SameCourse, RowInv
  <2> QED
    BY <1>1, <1>2, <1>7, <2>1, LifeStarts, PromisedMove DEF g
<1>8. CASE T = S \cup {g} /\ rows'[t] = rows[t] /\ rows[t].rec.status = "running"
  <2>1. T = S
    BY <1>1, <1>8 DEF RowInv, g
  <2> QED
    BY <1>5, <1>8, <2>1
<1>9. CASE T = S /\ RowIsBorn(rows[t], rows'[t])
  <2>1. /\ rows[t].rec.status = "absent" /\ rows[t].rec.retry_count = 0
        /\ IsQueued(rows'[t].rec) /\ rows'[t].rec.retry_count = 0
    BY <1>9 DEF RowIsBorn, IsBorn, NoRow, NoRecord
  <2>2. S = {}
    BY <1>1, <2>1 DEF RowInv
  <2> QED
    BY <1>1, <1>2, <1>9, <2>1, <2>2, LifeBegins, PromisedMove
<1>10. CASE T = S /\ KeyIsFreed(rows[t], rows'[t])
  <2>1. rows'[t].rec = rows[t].rec
    BY <1>1, <1>10 DEF KeyIsFreed, Row
  <2> QED
    BY <1>5, <1>10, <2>1
<1>11. \/ RowStep(t)
       \/ /\ claims'[t] = claims[t]
          /\ RowIsBorn(rows[t], rows'[t]) \/ KeyIsFreed(rows[t], rows'[t])
  BY DEF RowsLiveOn
<1> QED
  BY <1>3, <1>4, <1>5, <1>6, <1>7, <1>8, <1>9, <1>10, <1>11 DEF RowStep, g

----------------------------------------------------------------------------
\* The statements of the stores, one row at a time.

LEMMA RecordIsSet ==
    ASSUME NEW row \in Row, NEW q \in QueuedTaskRecord
    PROVE  /\ SetRecord(row, q) \in Row
           /\ SetRecord(row, q).rec = q
           /\ SetRecord(row, q).ref = row.ref
           /\ SetRecord(row, q).holds_key = row.holds_key
  BY DEF SetRecord, Row

\* A stored record that moves, in a row that keeps the rest.
LEMMA RecordMoves ==
    ASSUME NEW row \in Row, NEW q \in QueuedTaskRecord, IsStored(row.rec),
           \/ Stays(row.rec, q) \/ Completes(row.rec, q)
           \/ EndsWithoutResult(row.rec, q) \/ Retries(row.rec, q)
    PROVE  SetRecord(row, q) \in Row /\ RowMoves(row, SetRecord(row, q))
  BY RecordIsSet DEF RowMoves

LEMMA RefMoves ==
    ASSUME NEW row \in Row, NEW e \in ExecutionRef, IsStored(row.rec)
    PROVE  [row EXCEPT !.ref = e] \in Row /\ RowMoves(row, [row EXCEPT !.ref = e])
<1> DEFINE new == [row EXCEPT !.ref = e]
<1>1. new \in Row /\ new.rec = row.rec /\ new.holds_key = row.holds_key
  BY DEF Row
<1> HIDE DEF new
<1>2. RowMoves(row, new)
  BY <1>1 DEF RowMoves, Stays, SameClaimData
<1> QED
  BY <1>1, <1>2 DEF new

\* What the operations on a running record do to its row.
LEMMA RunningRowMoves ==
    ASSUME NEW row \in Row, row.rec.status = "running"
    PROVE  /\ IsStored(row.rec) /\ IsActive(row.rec)
           /\ LET q == CompleteTask(row.rec, row.rec.retry_count)
              IN  SetRecord(row, q) \in Row /\ RowMoves(row, SetRecord(row, q))
           /\ \A retry, delayed \in BOOLEAN :
                 LET q == FailTask(row.rec, retry, delayed)
                 IN  SetRecord(row, q) \in Row /\ RowMoves(row, SetRecord(row, q))
           /\ LET q == RecoverStale(row.rec)
              IN  SetRecord(row, q) \in Row /\ RowMoves(row, SetRecord(row, q))
<1>1. row.rec \in QueuedTaskRecord /\ IsStored(row.rec) /\ IsActive(row.rec)
  BY RowType, Statuses
<1>2. LET q == CompleteTask(row.rec, row.rec.retry_count)
      IN  SetRecord(row, q) \in Row /\ RowMoves(row, SetRecord(row, q))
  BY <1>1, CompleteMove, RecordMoves
<1>3. ASSUME NEW retry \in BOOLEAN, NEW delayed \in BOOLEAN
      PROVE  LET q == FailTask(row.rec, retry, delayed)
             IN  SetRecord(row, q) \in Row /\ RowMoves(row, SetRecord(row, q))
  BY <1>1, FailMove, RecordMoves
<1>4. LET q == RecoverStale(row.rec)
      IN  SetRecord(row, q) \in Row /\ RowMoves(row, SetRecord(row, q))
  BY <1>1, RecoverMove, RecordMoves
<1> QED
  BY <1>1, <1>2, <1>3, <1>4

\* The operations that leave the status and the generation of a record alone.
LEMMA QuietRowMoves ==
    ASSUME NEW row \in Row, IsStored(row.rec)
    PROVE  /\ \A w \in Worker :
                 LET q == AssignWorker(row.rec, w)
                 IN  SetRecord(row, q) \in Row /\ RowMoves(row, SetRecord(row, q))
           /\ LET q == TouchHeartbeat(row.rec)
              IN  SetRecord(row, q) \in Row /\ RowMoves(row, SetRecord(row, q))
           /\ LET q == NullHeartbeat(row.rec)
              IN  SetRecord(row, q) \in Row /\ RowMoves(row, SetRecord(row, q))
<1>1. row.rec \in QueuedTaskRecord
  BY RowType
<1>2. ASSUME NEW w \in Worker
      PROVE  LET q == AssignWorker(row.rec, w)
             IN  SetRecord(row, q) \in Row /\ RowMoves(row, SetRecord(row, q))
  BY <1>1, QuietMoves, RecordMoves
<1>3. LET q == TouchHeartbeat(row.rec)
      IN  SetRecord(row, q) \in Row /\ RowMoves(row, SetRecord(row, q))
  <2>1. TouchHeartbeat(row.rec) \in QueuedTaskRecord /\ Stays(row.rec, TouchHeartbeat(row.rec))
    BY <1>1 DEF QueuedTaskRecord, TouchHeartbeat, Stays, SameClaimData
  <2> QED
    BY <2>1, RecordMoves
<1>4. LET q == NullHeartbeat(row.rec)
      IN  SetRecord(row, q) \in Row /\ RowMoves(row, SetRecord(row, q))
  <2>1. NullHeartbeat(row.rec) \in QueuedTaskRecord /\ Stays(row.rec, NullHeartbeat(row.rec))
    BY <1>1 DEF QueuedTaskRecord, NullHeartbeat, Stays, SameClaimData
  <2> QED
    BY <2>1, RecordMoves
<1> QED
  BY <1>2, <1>3, <1>4

\* Cancellation ends an active row.
LEMMA CancelledRowMoves ==
    ASSUME NEW row \in Row, IsActive(row.rec)
    PROVE  LET q == CancelTask(row.rec)
           IN  SetRecord(row, q) \in Row /\ RowMoves(row, SetRecord(row, q))
  BY RowType, Statuses, CancelMove, RecordMoves

\* A claim starts a queued row, an expiry ends it.
LEMMA QueuedRowMoves ==
    ASSUME NEW row \in Row, IsQueued(row.rec)
    PROVE  /\ LET q == ClaimTask(row.rec)
              IN  SetRecord(row, q) \in Row /\ RowIsClaimed(row, SetRecord(row, q))
           /\ LET q == ExpireRecord(row.rec)
              IN  /\ SetRecord(row, q) \in Row
                  /\ RowExpires(row, SetRecord(row, q)) /\ RowMoves(row, SetRecord(row, q))
<1>1. /\ row.rec \in QueuedTaskRecord /\ IsStored(row.rec)
      /\ ClaimTask(row.rec) \in QueuedTaskRecord /\ Starts(row.rec, ClaimTask(row.rec))
      /\ ExpireRecord(row.rec) \in QueuedTaskRecord
      /\ EndsWithoutResult(row.rec, ExpireRecord(row.rec))
  BY RowType, Statuses, QueuedMoves
<1>2. ExpireRecord(row.rec).status = "expired"
  BY <1>1 DEF ExpireRecord, QueuedTaskRecord
<1>3. LET q == ClaimTask(row.rec)
      IN  SetRecord(row, q) \in Row /\ RowIsClaimed(row, SetRecord(row, q))
  BY <1>1, RecordIsSet DEF RowIsClaimed
<1>4. LET q == ExpireRecord(row.rec)
      IN  SetRecord(row, q) \in Row /\ RowExpires(row, SetRecord(row, q))
  BY <1>1, <1>2, RecordIsSet DEF RowExpires, EndsWithoutResult
<1>5. RowMoves(row, SetRecord(row, ExpireRecord(row.rec)))
  BY <1>1, RecordMoves
<1> QED
  BY <1>3, <1>4, <1>5

\* A shutdown hands a row back, without its reference.
LEMMA InterruptedRowMoves ==
    ASSUME NEW row \in Row, row.rec.status = "running",
           row.rec.interruptions < MaxInterruptions
    PROVE  LET new == [row EXCEPT !.rec = InterruptTask(@), !.ref = "none"]
           IN  new \in Row /\ RowMoves(row, new)
<1> DEFINE q == InterruptTask(row.rec)
           new == [row EXCEPT !.rec = InterruptTask(@), !.ref = "none"]
<1>1. q \in QueuedTaskRecord /\ IsHandedBack(row.rec, q) /\ IsStored(row.rec)
  BY RowType, Statuses, InterruptMove
<1>2. new = [row EXCEPT !.rec = q, !.ref = "none"]
  BY DEF Row
<1> HIDE DEF q
<1>3. new \in Row /\ new.rec = q /\ new.holds_key = row.holds_key
  BY <1>1, <1>2 DEF Row, ExecutionRef
<1> HIDE DEF new
<1>4. RowMoves(row, new)
  BY <1>1, <1>3 DEF RowMoves
<1> QED
  BY <1>3, <1>4 DEF new

\* Cleanup removes an ended row.
LEMMA DeletedRowMoves ==
    ASSUME NEW row \in Row, IsTerminal(row.rec)
    PROVE  LET new == [SetRecord(row, DeleteRecord(row.rec)) EXCEPT
                          !.ref = "none", !.holds_key = FALSE]
           IN  new \in Row /\ RowMoves(row, new)
<1> DEFINE q == DeleteRecord(row.rec)
           z == SetRecord(row, q)
           new == [z EXCEPT !.ref = "none", !.holds_key = FALSE]
<1>1. q \in QueuedTaskRecord /\ IsPurged(row.rec, q) /\ IsStored(row.rec)
  BY RowType, Statuses, DeleteMove
<1> HIDE DEF q
<1>2. z \in Row /\ z.rec = q
  BY <1>1, RecordIsSet
<1> HIDE DEF z
<1>3. new \in Row /\ new.rec = q
  BY <1>1, <1>2 DEF Row, ExecutionRef
<1> HIDE DEF new
<1>4. RowMoves(row, new)
  BY <1>1, <1>3, Statuses DEF RowMoves, IsPurged
<1> QED
  BY <1>3, <1>4 DEF new, z, q

\* The clock of one row.
LEMMA TickedRowMoves ==
    ASSUME NEW row \in Row, IsStored(row.rec)
    PROVE  /\ LET new == [row EXCEPT !.rec.due = TRUE]
              IN  new \in Row /\ RowMoves(row, new)
           /\ LET new == [row EXCEPT !.rec.expires_at = "overdue"]
              IN  new \in Row /\ RowMoves(row, new)
           /\ LET new == [row EXCEPT !.rec.heartbeat_at = "stale"]
              IN  new \in Row /\ RowMoves(row, new)
<1> DEFINE r == row.rec
           a == [r EXCEPT !.due = TRUE]
           b == [r EXCEPT !.expires_at = "overdue"]
           c == [r EXCEPT !.heartbeat_at = "stale"]
<1>1. r \in QueuedTaskRecord
  BY RowType
<1>2. /\ a \in QueuedTaskRecord /\ Stays(r, a)
      /\ b \in QueuedTaskRecord /\ Stays(r, b)
      /\ c \in QueuedTaskRecord /\ Stays(r, c)
  BY <1>1 DEF QueuedTaskRecord, Stays, SameClaimData
<1>3. /\ [row EXCEPT !.rec.due = TRUE] = SetRecord(row, a)
      /\ [row EXCEPT !.rec.expires_at = "overdue"] = SetRecord(row, b)
      /\ [row EXCEPT !.rec.heartbeat_at = "stale"] = SetRecord(row, c)
  BY DEF SetRecord
<1> QED
  BY <1>2, <1>3, RecordMoves

----------------------------------------------------------------------------
\* The statements of the stores are steps of the table.

\* The row t after UPDATE rows SET ... WHERE id IN S, as its lemmas need it.
RowsAreUpdated(S) ==
    /\ rows' = [t \in Task |-> rows'[t]]
    /\ \A t \in Task \ S : rows'[t] = rows[t]

LEMMA MovesAreSteps ==
    ASSUME IndInv, inflight' \subseteq inflight, UNCHANGED <<claims, expiries>>,
           NEW S, RowsAreUpdated(S),
           \A t \in S \cap Task : rows'[t] \in Row /\ RowMoves(rows[t], rows'[t])
    PROVE  TableStep
<1>1. TypeOK
  BY DEF IndInv
<1>2. rows' \in [Task -> Row]
  BY <1>1 DEF RowsAreUpdated, TypeOK
<1> QED
  BY <1>1, <1>2 DEF TableStep, TypeOK, RowStep, RowsAreUpdated

LEMMA ReturnsAreSteps ==
    ASSUME IndInv, inflight' \subseteq inflight,
           NEW C, NEW X, C \cap X = {}, RowsAreUpdated(C \cup X),
           ReturnClaims(C), ReturnExpired(X),
           \A t \in C \cap Task :
              /\ rows'[t] \in Row
              /\ \/ RowIsClaimed(rows[t], rows'[t])
                 \/ ~ReliableRowcount /\ rows[t].rec.status = "running" /\ rows'[t] = rows[t],
           \A t \in X \cap Task : rows'[t] \in Row /\ RowExpires(rows[t], rows'[t])
    PROVE  TableStep
<1>1. TypeOK
  BY DEF IndInv
<1>2. rows' \in [Task -> Row]
  BY <1>1 DEF RowsAreUpdated, TypeOK
<1>3. ASSUME NEW t \in Task
      PROVE  /\ claims'[t] = IF t \in C THEN Append(claims[t], rows[t].rec.retry_count)
                                         ELSE claims[t]
             /\ expiries'[t] = IF t \in X THEN expiries[t] + 1 ELSE expiries[t]
             /\ Append(claims[t], rows[t].rec.retry_count) \in Seq(Nat)
             /\ claims[t] \in Seq(Nat) /\ expiries[t] \in Nat
  BY <1>1, RowOf DEF ReturnClaims, ReturnExpired
<1>4. claims' \in [Task -> Seq(Nat)]
  <2>1. \A t \in Task : claims'[t] \in Seq(Nat)
    BY <1>3
  <2> QED
    BY <2>1 DEF ReturnClaims
<1>5. expiries' \in [Task -> Nat]
  <2>1. \A t \in Task : expiries'[t] \in Nat
    BY <1>3
  <2> QED
    BY <2>1 DEF ReturnExpired
<1>6. ASSUME NEW t \in Task PROVE RowStep(t)
  <2>1. CASE t \in C
    BY <1>3, <2>1 DEF RowStep
  <2>2. CASE t \in X
    BY <1>3, <2>2 DEF RowStep
  <2>3. CASE t \notin C \cup X
    BY <1>3, <2>3 DEF RowStep, RowsAreUpdated
  <2> QED
    BY <2>1, <2>2, <2>3
<1> QED
  BY <1>2, <1>4, <1>5, <1>6 DEF TableStep

LEMMA NothingReturned ==
    ASSUME TypeOK
    PROVE  /\ UNCHANGED claims => ReturnClaims({})
           /\ UNCHANGED expiries => ReturnExpired({})
  BY DEF TypeOK, ReturnClaims, ReturnExpired

LEMMA StatementIsStep ==
    ASSUME IndInv, NEW t \in Task, NEW new \in Row, RowMoves(rows[t], new), Statement(t, new)
    PROVE  TableStep
<1>1. /\ UNCHANGED <<inflight, claims, expiries>> /\ rows' = [rows EXCEPT ![t] = new]
      /\ rows \in [Task -> Row]
  BY DEF Statement, IndInv, TypeOK
<1>2. RowsAreUpdated({t}) /\ rows'[t] = new
  BY <1>1 DEF RowsAreUpdated
<1> QED
  BY <1>1, <1>2, MovesAreSteps

LEMMA ClockTickIsStep ==
    ASSUME IndInv, NEW t \in Task, ClockTick(t)
    PROVE  TableStep
<1>1. rows[t] \in Row
  BY DEF IndInv, TypeOK
<1>2. /\ IsStored(rows[t].rec)
      /\ \/ Statement(t, [rows[t] EXCEPT !.rec.due = TRUE])
         \/ Statement(t, [rows[t] EXCEPT !.rec.expires_at = "overdue"])
         \/ Statement(t, [rows[t] EXCEPT !.rec.heartbeat_at = "stale"])
  BY Statuses DEF ClockTick
<1> QED
  BY <1>1, <1>2, TickedRowMoves, StatementIsStep

\* The statements on one row that return nothing, as all stores have them.
OneRowMoves(t) ==
    LET row == rows[t]
        r == rows[t].rec
    IN  \/ /\ r.status = "running"
           /\ \/ Statement(t, SetRecord(row, CompleteTask(r, r.retry_count)))
              \/ \E retry, delayed \in BOOLEAN :
                    Statement(t, SetRecord(row, FailTask(r, retry, delayed)))
              \/ \E w \in Worker : Statement(t, SetRecord(row, AssignWorker(r, w)))
              \/ /\ r.interruptions < MaxInterruptions
                 /\ Statement(t, [row EXCEPT !.rec = InterruptTask(@), !.ref = "none"])
        \/ IsStored(r) /\ Statement(t, SetRecord(row, NullHeartbeat(r)))
        \/ IsActive(r) /\ Statement(t, SetRecord(row, CancelTask(r)))
        \/ IsQueued(r) /\ Statement(t, SetRecord(row, ExpireRecord(r)))
        \/ \E e \in ExecutionRef : IsStored(r) /\ Statement(t, [row EXCEPT !.ref = e])

LEMMA OneRowStep ==
    ASSUME IndInv, NEW t \in Task, OneRowMoves(t)
    PROVE  TableStep
<1> DEFINE row == rows[t]
           r == rows[t].rec
<1>1. row \in Row
  BY DEF IndInv, TypeOK
<1>2. CASE /\ r.status = "running"
           /\ Statement(t, SetRecord(row, CompleteTask(r, r.retry_count)))
  BY <1>1, <1>2, RunningRowMoves, StatementIsStep
<1>3. ASSUME NEW retry \in BOOLEAN, NEW delayed \in BOOLEAN, r.status = "running",
             Statement(t, SetRecord(row, FailTask(r, retry, delayed)))
      PROVE  TableStep
  BY <1>1, <1>3, RunningRowMoves, StatementIsStep
<1>4. ASSUME NEW w \in Worker, r.status = "running",
             Statement(t, SetRecord(row, AssignWorker(r, w)))
      PROVE  TableStep
  BY <1>1, <1>4, Statuses, QuietRowMoves, StatementIsStep
<1>5. CASE /\ r.status = "running" /\ r.interruptions < MaxInterruptions
           /\ Statement(t, [row EXCEPT !.rec = InterruptTask(@), !.ref = "none"])
  BY <1>1, <1>5, InterruptedRowMoves, StatementIsStep
<1>6. CASE IsStored(r) /\ Statement(t, SetRecord(row, NullHeartbeat(r)))
  BY <1>1, <1>6, QuietRowMoves, StatementIsStep
<1>7. CASE IsActive(r) /\ Statement(t, SetRecord(row, CancelTask(r)))
  BY <1>1, <1>7, CancelledRowMoves, StatementIsStep
<1>8. CASE IsQueued(r) /\ Statement(t, SetRecord(row, ExpireRecord(r)))
  BY <1>1, <1>8, QueuedRowMoves, StatementIsStep
<1>9. ASSUME NEW e \in ExecutionRef, IsStored(r), Statement(t, [row EXCEPT !.ref = e])
      PROVE  TableStep
  BY <1>1, <1>9, RefMoves, StatementIsStep
<1> QED
  BY <1>2, <1>3, <1>4, <1>5, <1>6, <1>7, <1>8, <1>9 DEF OneRowMoves

\* The updates of many rows that return nothing.
ManyRowsMove(S) ==
    /\ inflight' \subseteq inflight /\ UNCHANGED <<claims, expiries>>
    /\ RowsAreUpdated(S)
    /\ \/ \A t \in S \cap Task :
              /\ IsStored(rows[t].rec)
              /\ rows'[t] = SetRecord(rows[t], TouchHeartbeat(rows[t].rec))
       \/ \A t \in S \cap Task :
              /\ IsStored(rows[t].rec)
              /\ rows'[t] = SetRecord(rows[t], NullHeartbeat(rows[t].rec))
       \/ \A t \in S \cap Task :
              /\ rows[t].rec.status = "running"
              /\ rows'[t] = SetRecord(rows[t], RecoverStale(rows[t].rec))
       \/ \A t \in S \cap Task :
              /\ IsActive(rows[t].rec)
              /\ rows'[t] = SetRecord(rows[t], CancelTask(rows[t].rec))
       \/ \A t \in S \cap Task :
              /\ IsTerminal(rows[t].rec)
              /\ rows'[t] = [SetRecord(rows[t], DeleteRecord(rows[t].rec)) EXCEPT
                                !.ref = "none", !.holds_key = FALSE]

LEMMA ManyRowsStep ==
    ASSUME IndInv, NEW S, ManyRowsMove(S)
    PROVE  TableStep
<1> SUFFICES ASSUME NEW t \in S \cap Task
             PROVE  rows'[t] \in Row /\ RowMoves(rows[t], rows'[t])
  BY MovesAreSteps DEF ManyRowsMove
<1>1. rows[t] \in Row
  BY DEF IndInv, TypeOK
<1>2. CASE IsStored(rows[t].rec) /\ rows'[t] = SetRecord(rows[t], TouchHeartbeat(rows[t].rec))
  BY <1>1, <1>2, QuietRowMoves
<1>3. CASE IsStored(rows[t].rec) /\ rows'[t] = SetRecord(rows[t], NullHeartbeat(rows[t].rec))
  BY <1>1, <1>3, QuietRowMoves
<1>4. CASE /\ rows[t].rec.status = "running"
           /\ rows'[t] = SetRecord(rows[t], RecoverStale(rows[t].rec))
  BY <1>1, <1>4, RunningRowMoves
<1>5. CASE IsActive(rows[t].rec) /\ rows'[t] = SetRecord(rows[t], CancelTask(rows[t].rec))
  BY <1>1, <1>5, CancelledRowMoves
<1>6. CASE /\ IsTerminal(rows[t].rec)
           /\ rows'[t] = [SetRecord(rows[t], DeleteRecord(rows[t].rec)) EXCEPT
                             !.ref = "none", !.holds_key = FALSE]
  BY <1>1, <1>6, DeletedRowMoves
<1> QED
  BY <1>2, <1>3, <1>4, <1>5, <1>6 DEF ManyRowsMove

\* The updates that claim the rows C, expire the rows X and return both.  The
\* claims of the rows B are believed, which the call found running.
RowsReturned(C, B, X) ==
    /\ inflight' \subseteq inflight
    /\ ReturnClaims(C \cup B) /\ ReturnExpired(X)
    /\ C \cap B = {} /\ C \cap X = {} /\ B \cap X = {}
    /\ RowsAreUpdated(C \cup X)
    /\ \A t \in C \cap Task :
          /\ IsQueued(rows[t].rec)
          /\ rows'[t] = SetRecord(rows[t], ClaimTask(rows[t].rec))
    /\ \A t \in B \cap Task : ~ReliableRowcount /\ rows[t].rec.status = "running"
    /\ \A t \in X \cap Task :
          /\ IsQueued(rows[t].rec)
          /\ rows'[t] = SetRecord(rows[t], ExpireRecord(rows[t].rec))

LEMMA ReturnedStep ==
    ASSUME IndInv, NEW C, NEW B, NEW X, RowsReturned(C, B, X)
    PROVE  TableStep
<1>1. \A t \in Task : rows[t] \in Row
  BY DEF IndInv, TypeOK
<1>2. \A t \in C \cap Task :
        rows'[t] \in Row /\ RowIsClaimed(rows[t], rows'[t])
  BY <1>1, QueuedRowMoves DEF RowsReturned
<1>3. \A t \in X \cap Task : rows'[t] \in Row /\ RowExpires(rows[t], rows'[t])
  BY <1>1, QueuedRowMoves DEF RowsReturned
<1>4. \A t \in B \cap Task :
        /\ rows'[t] \in Row /\ rows'[t] = rows[t]
        /\ ~ReliableRowcount /\ rows[t].rec.status = "running"
  BY <1>1 DEF RowsReturned, RowsAreUpdated
<1>5. /\ (C \cup B) \cap X = {} /\ RowsAreUpdated((C \cup B) \cup X)
      /\ inflight' \subseteq inflight /\ ReturnClaims(C \cup B) /\ ReturnExpired(X)
  BY DEF RowsReturned, RowsAreUpdated
<1> DEFINE D == C \cup B
<1>6. \A t \in D \cap Task :
        /\ rows'[t] \in Row
        /\ \/ RowIsClaimed(rows[t], rows'[t])
           \/ ~ReliableRowcount /\ rows[t].rec.status = "running" /\ rows'[t] = rows[t]
  BY <1>2, <1>4
<1> HIDE DEF D
<1> QED
  BY <1>3, <1>5, <1>6, ReturnsAreSteps DEF D

\* A transaction that reads for anything but an enqueue.
HasRead(x) == inflight' = inflight \cup {x} /\ UNCHANGED <<rows, claims, expiries>>

LEMMA SelectIsRead ==
    ASSUME NEW x, IsCall(x), x.op # "enqueue", HasRead(x)
    PROVE  ReadStep
  BY DEF HasRead, ReadStep

----------------------------------------------------------------------------
\* Producers.

\* An INSERT of its own, under a key that no active row has.
LEMMA InsertIsBirth ==
    ASSUME IndInv, NEW t \in Task, NEW o \in EnqueueOptions, IsFresh(t),
           o.key # None => \A s \in Task : IsActive(rows[s].rec) => rows[s].rec.key # o.key,
           Statement(t, InsertedRow(o))
    PROVE  BirthStep
<1> DEFINE B == {t}
           p == [s \in B |-> o]
<1>1. /\ inflight' = inflight /\ UNCHANGED <<claims, expiries>>
      /\ rows' = [rows EXCEPT ![t] = InsertedRow(o)] /\ rows \in [Task -> Row]
  BY DEF Statement, IndInv, TypeOK
<1>2. /\ rows' = [s \in Task |-> rows'[s]]
      /\ \A s \in B : rows[s] = NoRow /\ rows'[s] = InsertedRow(p[s])
      /\ \A s \in Task \ B : rows'[s] = rows[s]
  BY <1>1 DEF IsFresh
<1>3. \A x \in inflight' : x.op = "enqueue" => x.tasks \cap B = {}
  BY <1>1 DEF IsFresh
<1>4. Birth(B, p)
  BY <1>1, <1>2, <1>3 DEF Birth
<1>5. B \in SUBSET Task /\ p \in [B -> EnqueueOptions]
  OBVIOUS
<1> QED
  BY <1>4, <1>5 DEF BirthStep

\* A transaction that has taken the keys of ended rows, and found no other
\* holder of its own.
LEMMA InsertsAreBirth ==
    ASSUME IndInv, NEW x \in inflight, x.op = "enqueue", inflight' = inflight \ {x},
           UNCHANGED <<claims, expiries>>, rows' = [t \in Task |-> rows'[t]],
           \A t \in x.tasks : x.options[t].key # None => HolderOf(x.options[t].key) \subseteq x.found,
           \A t \in x.tasks : rows'[t] = InsertedRow(x.options[t]),
           \A t \in Task \ x.tasks :
              \/ rows'[t] = rows[t]
              \/ t \in x.found /\ rows'[t] = [rows[t] EXCEPT !.holds_key = FALSE]
    PROVE  BirthStep
<1>1. /\ SoundCall(x) /\ x.tasks \in SUBSET Task /\ x.found \in SUBSET Task
      /\ x.options \in [x.tasks -> EnqueueOptions]
  BY DEF IndInv, TypeOK, IsCall
<1>2. ASSUME NEW t \in x.tasks, NEW s \in Task,
             IsActive(rows[s].rec), x.options[t].key # None, rows[s].rec.key = x.options[t].key
      PROVE  FALSE
  <2>1. rows[s].holds_key /\ IsStored(rows[s].rec)
    BY <1>2, Statuses DEF IndInv, RowInv
  <2>2. s \in x.found
    BY <1>2, <2>1 DEF HolderOf
  <2> QED
    BY <1>1, <1>2, <2>2, Statuses DEF SoundCall
<1>3. \A t \in Task \ x.tasks : rows'[t] = rows[t] \/ KeyIsFreed(rows[t], rows'[t])
  BY <1>1 DEF SoundCall, KeyIsFreed
<1>4. Birth(x.tasks, x.options)
  BY <1>1, <1>2, <1>3 DEF Birth, SoundCall
<1> QED
  BY <1>1, <1>4 DEF BirthStep

\* One that has lost a key inserts nothing; the keys it has freed stay free.
LEMMA LostInsertIsBirth ==
    ASSUME IndInv, NEW x \in inflight, x.op = "enqueue", inflight' = inflight \ {x},
           UNCHANGED <<claims, expiries>>, rows' = [t \in Task |-> rows'[t]],
           \A t \in Task :
              \/ rows'[t] = rows[t]
              \/ t \in x.found /\ rows'[t] = [rows[t] EXCEPT !.holds_key = FALSE]
    PROVE  BirthStep
<1> DEFINE p == [s \in {} |-> NewRecord(s)]
<1>1. SoundCall(x)
  BY DEF IndInv
<1>2. \A t \in Task : rows'[t] = rows[t] \/ KeyIsFreed(rows[t], rows'[t])
  BY <1>1 DEF SoundCall, KeyIsFreed
<1>3. Birth({}, p)
  BY <1>2 DEF Birth
<1>4. {} \in SUBSET Task /\ p \in [{} -> EnqueueOptions]
  OBVIOUS
<1> QED
  BY <1>3, <1>4 DEF BirthStep

\* A transaction that has read the holders of its keys, all of them ended.
LEMMA KeysAreRead ==
    ASSUME NEW S \in SUBSET Task, NEW options \in [S -> EnqueueOptions],
           NEW found \in SUBSET Task,
           HasRead([op |-> "enqueue", tasks |-> S, options |-> options, found |-> found]),
           \A t \in S : IsFresh(t),
           \A t \in found : Ended(rows[t].rec),
           \A s, t \in S : options[s].key = options[t].key /\ options[s].key # None => s = t
    PROVE  ReadStep
<1> DEFINE x == [op |-> "enqueue", tasks |-> S, options |-> options, found |-> found]
<1>1. /\ x.op = "enqueue" /\ x.tasks = S /\ x.options = options /\ x.found = found
  OBVIOUS
<1>2. IsCall(x)
  BY DEF IsCall
<1>3. HasRead(x)
  OBVIOUS
<1> HIDE DEF x
<1> QED
  BY <1>1, <1>2, <1>3 DEF ReadStep, HasRead

(***************************************************************************)
(* The calls of the three stores.                                          *)
(***************************************************************************)

StepKept == TableStep \/ ReadStep \/ BirthStep

----------------------------------------------------------------------------
\* The calls that change one row and return nothing.

LEMMA SqlSpecOneRow ==
    ASSUME IndInv, NEW t \in Task,
           \/ \E g :
                 \/ SqlSpec!CompleteTaskCall(t, g) \/ SqlSpec!ReserveExternalDispatch(t, g)
                 \/ \E a \in BOOLEAN : SqlSpec!CancelTaskCall(t, a, g)
                 \/ \E a, b \in BOOLEAN : SqlSpec!FailTaskCall(t, g, a, b)
                 \/ \E w \in Worker :
                       SqlSpec!AssignWorkerCall(t, g, w) \/ SqlSpec!InterruptTaskCall(t, g, w)
                 \/ \E h :
                       \/ SqlSpec!ReserveScheduledExecutionRef(t, g, h)
                       \/ SqlSpec!ClearExecutionRef(t, g, h) \/ SqlSpec!ReplaceExecutionRef(t, g, h)
           \/ SqlSpec!SetExecutionRef(t) \/ SqlSpec!SetExecutionBackend(t)
           \/ SqlSpec!ReleaseExternalDispatch(t) \/ SqlSpec!FinalizeExternalDispatch(t)
           \/ SqlSpec!ClockTick(t)
    PROVE  TableStep
<1>1. ASSUME NEW g,
             SqlSpec!CompleteTaskCall(t, g)
      PROVE  TableStep
  <2>1. OneRowMoves(t)
    BY <1>1 DEF SqlSpec!CompleteTaskCall, SqlSpec!CompleteWhere, SqlSpec!Completed,
       SqlSpec!Fenced, SqlSpec!Statement, SqlSpec!SetRecord, SqlSpec!CompleteTask, Fenced,
       Statement, SetRecord, CompleteTask, OneRowMoves
  <2> QED
    BY <2>1, OneRowStep
<1>2. ASSUME NEW g, NEW a \in BOOLEAN, NEW b \in BOOLEAN,
             SqlSpec!FailTaskCall(t, g, a, b)
      PROVE  TableStep
  <2>1. OneRowMoves(t)
    BY <1>2 DEF SqlSpec!FailTaskCall, SqlSpec!FailWhere, SqlSpec!Failed, SqlSpec!Fenced,
       SqlSpec!Statement, SqlSpec!SetRecord, SqlSpec!FailTask, SqlSpec!AttemptsConsumed,
       Fenced, Statement, SetRecord, FailTask, AttemptsConsumed, OneRowMoves
  <2> QED
    BY <2>1, OneRowStep
<1>3. ASSUME NEW g, NEW w \in Worker,
             SqlSpec!AssignWorkerCall(t, g, w)
      PROVE  TableStep
  <2>1. OneRowMoves(t)
    BY <1>3 DEF SqlSpec!AssignWorkerCall, SqlSpec!AssignWhere, SqlSpec!Fenced,
       SqlSpec!Statement, SqlSpec!SetRecord, SqlSpec!AssignWorker, Fenced, Statement,
       SetRecord, AssignWorker, OneRowMoves
  <2> QED
    BY <2>1, OneRowStep
<1>4. ASSUME NEW g, NEW w \in Worker,
             SqlSpec!InterruptTaskCall(t, g, w)
      PROVE  TableStep
  <2>1. OneRowMoves(t)
    BY <1>4 DEF SqlSpec!InterruptTaskCall, SqlSpec!InterruptWhere, SqlSpec!Interrupted,
       SqlSpec!Fenced, SqlSpec!Statement, SqlSpec!InterruptTask, Fenced, Statement,
       InterruptTask, OneRowMoves
  <2> QED
    BY <2>1, OneRowStep
<1>5. ASSUME NEW g, NEW a \in BOOLEAN,
             SqlSpec!CancelTaskCall(t, a, g)
      PROVE  TableStep
  <2>1. OneRowMoves(t)
    BY <1>5 DEF SqlSpec!CancelTaskCall, SqlSpec!CancelWhere, SqlSpec!IsCancellable,
       SqlSpec!Statement, SqlSpec!SetRecord, SqlSpec!CancelTask, SqlSpec!IsActive,
       SqlSpec!IsQueued, SqlSpec!QueuedStatuses, Statement, SetRecord, CancelTask,
       IsActive, IsQueued, QueuedStatuses, OneRowMoves
  <2> QED
    BY <2>1, OneRowStep
<1>6. CASE \/ SqlSpec!SetExecutionRef(t)
           \/ SqlSpec!SetExecutionBackend(t)
           \/ SqlSpec!ReleaseExternalDispatch(t)
  <2>1. OneRowMoves(t)
    <3>1. CASE SqlSpec!SetExecutionRef(t)
      BY <3>1 DEF SqlSpec!SetExecutionRef, SqlSpec!Statement, SqlSpec!IsStored,
         SqlSpec!TaskStatus, SqlSpec!QueuedStatuses, SqlSpec!TerminalStatuses, Statement,
         IsStored, TaskStatus, QueuedStatuses, TerminalStatuses, ExecutionRef, OneRowMoves
    <3>2. CASE SqlSpec!SetExecutionBackend(t)
      BY <3>2 DEF SqlSpec!SetExecutionBackend, SqlSpec!Rerouted, SqlSpec!Statement,
         SqlSpec!IsStored, SqlSpec!TaskStatus, SqlSpec!QueuedStatuses,
         SqlSpec!TerminalStatuses, Statement, IsStored, TaskStatus, QueuedStatuses,
         TerminalStatuses, ExecutionRef, OneRowMoves
    <3>3. CASE SqlSpec!ReleaseExternalDispatch(t)
      BY <3>3 DEF SqlSpec!ReleaseExternalDispatch, SqlSpec!ReleaseWhere,
         SqlSpec!Statement, SqlSpec!IsStored, SqlSpec!TaskStatus, SqlSpec!QueuedStatuses,
         SqlSpec!TerminalStatuses, Statement, IsStored, TaskStatus, QueuedStatuses,
         TerminalStatuses, ExecutionRef, OneRowMoves
    <3> QED
      BY <1>6, <3>1, <3>2, <3>3
  <2> QED
    BY <2>1, OneRowStep
<1>7. ASSUME NEW g,
             SqlSpec!ReserveExternalDispatch(t, g)
      PROVE  TableStep
  <2>1. OneRowMoves(t)
    BY <1>7, Statuses DEF SqlSpec!ReserveExternalDispatch, SqlSpec!ReserveDispatchWhere,
       SqlSpec!Statement, SqlSpec!IsQueued, SqlSpec!QueuedStatuses, SqlSpec!IsClaimable,
       SqlSpec!IsOverdue, Statement, IsQueued, QueuedStatuses, IsClaimable, IsOverdue,
       ExecutionRef, OneRowMoves
  <2> QED
    BY <2>1, OneRowStep
<1>8. ASSUME NEW g, NEW h,
             SqlSpec!ReserveScheduledExecutionRef(t, g, h)
      PROVE  TableStep
  <2>1. OneRowMoves(t)
    BY <1>8, Statuses DEF SqlSpec!ReserveScheduledExecutionRef,
       SqlSpec!ReserveScheduledWhere, SqlSpec!Statement, SqlSpec!IsQueued,
       SqlSpec!QueuedStatuses, SqlSpec!IsClaimable, SqlSpec!IsOverdue, Statement, IsQueued,
       QueuedStatuses, IsClaimable, IsOverdue, ExecutionRef, OneRowMoves
  <2> QED
    BY <2>1, OneRowStep
<1>9. ASSUME NEW g, NEW h,
             \/ SqlSpec!ClearExecutionRef(t, g, h)
             \/ SqlSpec!ReplaceExecutionRef(t, g, h)
      PROVE  TableStep
  <2>1. OneRowMoves(t)
    <3>1. CASE SqlSpec!ClearExecutionRef(t, g, h)
      BY <3>1, Statuses DEF SqlSpec!ClearExecutionRef, SqlSpec!ClearWhere,
         SqlSpec!Statement, SqlSpec!IsQueued, SqlSpec!QueuedStatuses, Statement, IsQueued,
         QueuedStatuses, ExecutionRef, OneRowMoves
    <3>2. CASE SqlSpec!ReplaceExecutionRef(t, g, h)
      BY <3>2, Statuses DEF SqlSpec!ReplaceExecutionRef, SqlSpec!ReplaceWhere,
         SqlSpec!Statement, SqlSpec!IsQueued, SqlSpec!QueuedStatuses, Statement, IsQueued,
         QueuedStatuses, ExecutionRef, OneRowMoves
    <3> QED
      BY <1>9, <3>1, <3>2
  <2> QED
    BY <2>1, OneRowStep
<1>10. CASE SqlSpec!FinalizeExternalDispatch(t)
  <2>1. OneRowMoves(t)
    BY <1>10, Statuses DEF SqlSpec!FinalizeExternalDispatch, SqlSpec!FinalizeWhere,
       SqlSpec!Statement, SqlSpec!IsQueued, SqlSpec!QueuedStatuses, Statement, IsQueued,
       QueuedStatuses, ExecutionRef, OneRowMoves
  <2> QED
    BY <2>1, OneRowStep
<1>11. CASE SqlSpec!ClockTick(t)
  <2>1. ClockTick(t)
    BY <1>11 DEF SqlSpec!ClockTick, SqlSpec!Statement, SqlSpec!IsQueued,
       SqlSpec!IsActive, SqlSpec!QueuedStatuses, ClockTick, Statement, IsQueued, IsActive,
       QueuedStatuses
  <2> QED
    BY <2>1, ClockTickIsStep
<1> QED
  BY <1>1, <1>2, <1>3, <1>4, <1>5, <1>6, <1>7, <1>8, <1>9, <1>10, <1>11

LEMMA AlchemyOneRow ==
    ASSUME IndInv, NEW t \in Task,
           \/ \E g :
                 \/ Alchemy!CompleteTaskCall(t, g) \/ Alchemy!ReserveExternalDispatch(t, g)
                 \/ \E a \in BOOLEAN : Alchemy!CancelTaskCall(t, a, g)
                 \/ \E a, b \in BOOLEAN : Alchemy!FailTaskCall(t, g, a, b)
                 \/ \E w \in Worker :
                       Alchemy!AssignWorkerCall(t, g, w) \/ Alchemy!InterruptTaskCall(t, g, w)
                 \/ \E h :
                       \/ Alchemy!ReserveScheduledExecutionRef(t, g, h)
                       \/ Alchemy!ClearExecutionRef(t, g, h) \/ Alchemy!ReplaceExecutionRef(t, g, h)
                 \/ Alchemy!NullHeartbeats(t, g)
           \/ Alchemy!SetExecutionRef(t) \/ Alchemy!SetExecutionBackend(t)
           \/ Alchemy!ReleaseExternalDispatch(t) \/ Alchemy!FinalizeExternalDispatch(t)
           \/ Alchemy!ClockTick(t)
    PROVE  TableStep
<1>1. ASSUME NEW g,
             Alchemy!CompleteTaskCall(t, g)
      PROVE  TableStep
  <2>1. OneRowMoves(t)
    BY <1>1 DEF Alchemy!CompleteTaskCall, Alchemy!Fenced, Alchemy!Statement,
       Alchemy!SetRecord, Alchemy!CompleteTask, Fenced, Statement, SetRecord, CompleteTask,
       OneRowMoves
  <2> QED
    BY <2>1, OneRowStep
<1>2. ASSUME NEW g, NEW a \in BOOLEAN, NEW b \in BOOLEAN,
             Alchemy!FailTaskCall(t, g, a, b)
      PROVE  TableStep
  <2>1. OneRowMoves(t)
    BY <1>2 DEF Alchemy!FailTaskCall, Alchemy!Fenced, Alchemy!Statement,
       Alchemy!SetRecord, Alchemy!FailTask, Alchemy!AttemptsConsumed, Fenced, Statement,
       SetRecord, FailTask, AttemptsConsumed, OneRowMoves
  <2> QED
    BY <2>1, OneRowStep
<1>3. ASSUME NEW g, NEW w \in Worker,
             Alchemy!AssignWorkerCall(t, g, w)
      PROVE  TableStep
  <2>1. OneRowMoves(t)
    BY <1>3 DEF Alchemy!AssignWorkerCall, Alchemy!Fenced, Alchemy!Statement,
       Alchemy!SetRecord, Alchemy!AssignWorker, Fenced, Statement, SetRecord, AssignWorker,
       OneRowMoves
  <2> QED
    BY <2>1, OneRowStep
<1>4. ASSUME NEW g, NEW w \in Worker,
             Alchemy!InterruptTaskCall(t, g, w)
      PROVE  TableStep
  <2>1. OneRowMoves(t)
    BY <1>4 DEF Alchemy!InterruptTaskCall, Alchemy!Fenced, Alchemy!Statement,
       Alchemy!InterruptTask, Fenced, Statement, InterruptTask, OneRowMoves
  <2> QED
    BY <2>1, OneRowStep
<1>5. ASSUME NEW g, NEW a \in BOOLEAN,
             Alchemy!CancelTaskCall(t, a, g)
      PROVE  TableStep
  <2>1. OneRowMoves(t)
    BY <1>5 DEF Alchemy!CancelTaskCall, Alchemy!Statement, Alchemy!SetRecord,
       Alchemy!CancelTask, Alchemy!IsActive, Alchemy!IsQueued, Alchemy!QueuedStatuses,
       Statement, SetRecord, CancelTask, IsActive, IsQueued, QueuedStatuses, OneRowMoves
  <2> QED
    BY <2>1, OneRowStep
<1>6. CASE \/ Alchemy!SetExecutionRef(t)
           \/ Alchemy!SetExecutionBackend(t)
           \/ Alchemy!ReleaseExternalDispatch(t)
  <2>1. OneRowMoves(t)
    <3>1. CASE Alchemy!SetExecutionRef(t)
      BY <3>1 DEF Alchemy!SetExecutionRef, Alchemy!Statement, Alchemy!IsStored,
         Alchemy!TaskStatus, Alchemy!QueuedStatuses, Alchemy!TerminalStatuses, Statement,
         IsStored, TaskStatus, QueuedStatuses, TerminalStatuses, ExecutionRef, OneRowMoves
    <3>2. CASE Alchemy!SetExecutionBackend(t)
      BY <3>2 DEF Alchemy!SetExecutionBackend, Alchemy!Statement, Alchemy!IsStored,
         Alchemy!TaskStatus, Alchemy!QueuedStatuses, Alchemy!TerminalStatuses, Statement,
         IsStored, TaskStatus, QueuedStatuses, TerminalStatuses, ExecutionRef, OneRowMoves
    <3>3. CASE Alchemy!ReleaseExternalDispatch(t)
      BY <3>3 DEF Alchemy!ReleaseExternalDispatch, Alchemy!Statement, Alchemy!IsStored,
         Alchemy!TaskStatus, Alchemy!QueuedStatuses, Alchemy!TerminalStatuses, Statement,
         IsStored, TaskStatus, QueuedStatuses, TerminalStatuses, ExecutionRef, OneRowMoves
    <3> QED
      BY <1>6, <3>1, <3>2, <3>3
  <2> QED
    BY <2>1, OneRowStep
<1>7. ASSUME NEW g,
             Alchemy!ReserveExternalDispatch(t, g)
      PROVE  TableStep
  <2>1. OneRowMoves(t)
    BY <1>7, Statuses DEF Alchemy!ReserveExternalDispatch, Alchemy!Statement,
       Alchemy!IsQueued, Alchemy!QueuedStatuses, Alchemy!IsClaimable, Alchemy!IsOverdue,
       Statement, IsQueued, QueuedStatuses, IsClaimable, IsOverdue, ExecutionRef,
       OneRowMoves
  <2> QED
    BY <2>1, OneRowStep
<1>8. ASSUME NEW g, NEW h,
             Alchemy!ReserveScheduledExecutionRef(t, g, h)
      PROVE  TableStep
  <2>1. OneRowMoves(t)
    BY <1>8, Statuses DEF Alchemy!ReserveScheduledExecutionRef, Alchemy!Statement,
       Alchemy!IsQueued, Alchemy!QueuedStatuses, Alchemy!IsClaimable, Alchemy!IsOverdue,
       Statement, IsQueued, QueuedStatuses, IsClaimable, IsOverdue, ExecutionRef,
       OneRowMoves
  <2> QED
    BY <2>1, OneRowStep
<1>9. ASSUME NEW g, NEW h,
             \/ Alchemy!ClearExecutionRef(t, g, h)
             \/ Alchemy!ReplaceExecutionRef(t, g, h)
      PROVE  TableStep
  <2>1. OneRowMoves(t)
    <3>1. CASE Alchemy!ClearExecutionRef(t, g, h)
      BY <3>1, Statuses DEF Alchemy!ClearExecutionRef, Alchemy!Statement,
         Alchemy!IsQueued, Alchemy!QueuedStatuses, Statement, IsQueued, QueuedStatuses,
         ExecutionRef, OneRowMoves
    <3>2. CASE Alchemy!ReplaceExecutionRef(t, g, h)
      BY <3>2, Statuses DEF Alchemy!ReplaceExecutionRef, Alchemy!Statement,
         Alchemy!IsQueued, Alchemy!QueuedStatuses, Statement, IsQueued, QueuedStatuses,
         ExecutionRef, OneRowMoves
    <3> QED
      BY <1>9, <3>1, <3>2
  <2> QED
    BY <2>1, OneRowStep
<1>10. CASE Alchemy!FinalizeExternalDispatch(t)
  <2>1. OneRowMoves(t)
    BY <1>10, Statuses DEF Alchemy!FinalizeExternalDispatch, Alchemy!Statement,
       Alchemy!IsQueued, Alchemy!QueuedStatuses, Statement, IsQueued, QueuedStatuses,
       ExecutionRef, OneRowMoves
  <2> QED
    BY <2>1, OneRowStep
<1>11. ASSUME NEW g,
             Alchemy!NullHeartbeats(t, g)
      PROVE  TableStep
  <2>1. OneRowMoves(t)
    BY <1>11 DEF Alchemy!NullHeartbeats, Alchemy!Statement, Alchemy!SetRecord,
       Alchemy!NullHeartbeat, Alchemy!IsStored, Alchemy!TaskStatus, Alchemy!QueuedStatuses,
       Alchemy!TerminalStatuses, Statement, SetRecord, NullHeartbeat, IsStored, TaskStatus,
       QueuedStatuses, TerminalStatuses, OneRowMoves
  <2> QED
    BY <2>1, OneRowStep
<1>12. CASE Alchemy!ClockTick(t)
  <2>1. ClockTick(t)
    BY <1>12 DEF Alchemy!ClockTick, Alchemy!Statement, Alchemy!IsQueued,
       Alchemy!IsActive, Alchemy!QueuedStatuses, ClockTick, Statement, IsQueued, IsActive,
       QueuedStatuses
  <2> QED
    BY <2>1, ClockTickIsStep
<1> QED
  BY <1>1, <1>2, <1>3, <1>4, <1>5, <1>6, <1>7, <1>8, <1>9, <1>10, <1>11, <1>12

LEMMA EphemeralOneRow ==
    ASSUME IndInv, NEW t \in Task,
           \/ \E g :
                 \/ Ephemeral!CompleteTaskCall(t, g) \/ Ephemeral!ReserveExternalDispatch(t, g)
                 \/ \E a \in BOOLEAN : Ephemeral!CancelTaskCall(t, a, g)
                 \/ \E a, b \in BOOLEAN : Ephemeral!FailTaskCall(t, g, a, b)
                 \/ \E w \in Worker :
                       Ephemeral!AssignWorkerCall(t, g, w) \/ Ephemeral!InterruptTaskCall(t, g, w)
                 \/ \E h :
                       \/ Ephemeral!ReserveScheduledExecutionRef(t, g, h)
                       \/ Ephemeral!ClearExecutionRef(t, g, h) \/ Ephemeral!ReplaceExecutionRef(t, g, h)
           \/ Ephemeral!SetExecutionRef(t) \/ Ephemeral!SetExecutionBackend(t)
           \/ Ephemeral!ReleaseExternalDispatch(t) \/ Ephemeral!FinalizeExternalDispatch(t)
           \/ Ephemeral!ClockTick(t)
    PROVE  TableStep
<1>1. ASSUME NEW g,
             Ephemeral!CompleteTaskCall(t, g)
      PROVE  TableStep
  <2>1. OneRowMoves(t)
    BY <1>1 DEF Ephemeral!CompleteTaskCall, Ephemeral!LockedRecord, Ephemeral!Fenced,
       Ephemeral!Statement, Ephemeral!SetRecord, Ephemeral!CompleteTask, Fenced, Statement,
       SetRecord, CompleteTask, OneRowMoves
  <2> QED
    BY <2>1, OneRowStep
<1>2. ASSUME NEW g, NEW a \in BOOLEAN, NEW b \in BOOLEAN,
             Ephemeral!FailTaskCall(t, g, a, b)
      PROVE  TableStep
  <2>1. OneRowMoves(t)
    BY <1>2 DEF Ephemeral!FailTaskCall, Ephemeral!LockedRecord, Ephemeral!Fenced,
       Ephemeral!Statement, Ephemeral!SetRecord, Ephemeral!FailTask,
       Ephemeral!AttemptsConsumed, Fenced, Statement, SetRecord, FailTask,
       AttemptsConsumed, OneRowMoves
  <2> QED
    BY <2>1, OneRowStep
<1>3. ASSUME NEW g, NEW w \in Worker,
             Ephemeral!AssignWorkerCall(t, g, w)
      PROVE  TableStep
  <2>1. OneRowMoves(t)
    BY <1>3 DEF Ephemeral!AssignWorkerCall, Ephemeral!LockedRecord, Ephemeral!Fenced,
       Ephemeral!Statement, Ephemeral!SetRecord, Ephemeral!AssignWorker, Fenced, Statement,
       SetRecord, AssignWorker, OneRowMoves
  <2> QED
    BY <2>1, OneRowStep
<1>4. ASSUME NEW g, NEW w \in Worker,
             Ephemeral!InterruptTaskCall(t, g, w)
      PROVE  TableStep
  <2>1. OneRowMoves(t)
    BY <1>4 DEF Ephemeral!InterruptTaskCall, Ephemeral!Fenced, Ephemeral!Statement,
       Ephemeral!InterruptTask, Fenced, Statement, InterruptTask, OneRowMoves
  <2> QED
    BY <2>1, OneRowStep
<1>5. ASSUME NEW g, NEW a \in BOOLEAN,
             Ephemeral!CancelTaskCall(t, a, g)
      PROVE  TableStep
  <2>1. OneRowMoves(t)
    BY <1>5 DEF Ephemeral!CancelTaskCall, Ephemeral!Statement, Ephemeral!SetRecord,
       Ephemeral!CancelTask, Ephemeral!IsActive, Ephemeral!IsQueued,
       Ephemeral!QueuedStatuses, Statement, SetRecord, CancelTask, IsActive, IsQueued,
       QueuedStatuses, OneRowMoves
  <2> QED
    BY <2>1, OneRowStep
<1>6. CASE \/ Ephemeral!SetExecutionRef(t)
           \/ Ephemeral!SetExecutionBackend(t)
           \/ Ephemeral!ReleaseExternalDispatch(t)
  <2>1. OneRowMoves(t)
    <3>1. CASE Ephemeral!SetExecutionRef(t)
      BY <3>1 DEF Ephemeral!SetExecutionRef, Ephemeral!Statement, Ephemeral!IsStored,
         Ephemeral!TaskStatus, Ephemeral!QueuedStatuses, Ephemeral!TerminalStatuses,
         Statement, IsStored, TaskStatus, QueuedStatuses, TerminalStatuses, ExecutionRef,
         OneRowMoves
    <3>2. CASE Ephemeral!SetExecutionBackend(t)
      BY <3>2 DEF Ephemeral!SetExecutionBackend, Ephemeral!Statement, Ephemeral!IsStored,
         Ephemeral!TaskStatus, Ephemeral!QueuedStatuses, Ephemeral!TerminalStatuses,
         Statement, IsStored, TaskStatus, QueuedStatuses, TerminalStatuses, ExecutionRef,
         OneRowMoves
    <3>3. CASE Ephemeral!ReleaseExternalDispatch(t)
      BY <3>3 DEF Ephemeral!ReleaseExternalDispatch, Ephemeral!Statement,
         Ephemeral!IsStored, Ephemeral!TaskStatus, Ephemeral!QueuedStatuses,
         Ephemeral!TerminalStatuses, Statement, IsStored, TaskStatus, QueuedStatuses,
         TerminalStatuses, ExecutionRef, OneRowMoves
    <3> QED
      BY <1>6, <3>1, <3>2, <3>3
  <2> QED
    BY <2>1, OneRowStep
<1>7. ASSUME NEW g,
             Ephemeral!ReserveExternalDispatch(t, g)
      PROVE  TableStep
  <2>1. OneRowMoves(t)
    BY <1>7, Statuses DEF Ephemeral!ReserveExternalDispatch, Ephemeral!Statement,
       Ephemeral!IsQueued, Ephemeral!QueuedStatuses, Ephemeral!IsOverdue,
       Ephemeral!SetRecord, Ephemeral!ExpireRecord, Statement, IsQueued, QueuedStatuses,
       IsOverdue, SetRecord, ExpireRecord, ExecutionRef, OneRowMoves
  <2> QED
    BY <2>1, OneRowStep
<1>8. ASSUME NEW g, NEW h,
             Ephemeral!ReserveScheduledExecutionRef(t, g, h)
      PROVE  TableStep
  <2>1. OneRowMoves(t)
    BY <1>8, Statuses DEF Ephemeral!ReserveScheduledExecutionRef, Ephemeral!Statement,
       Ephemeral!IsQueued, Ephemeral!QueuedStatuses, Ephemeral!IsOverdue,
       Ephemeral!SetRecord, Ephemeral!ExpireRecord, Statement, IsQueued, QueuedStatuses,
       IsOverdue, SetRecord, ExpireRecord, ExecutionRef, OneRowMoves
  <2> QED
    BY <2>1, OneRowStep
<1>9. ASSUME NEW g, NEW h,
             \/ Ephemeral!ClearExecutionRef(t, g, h)
             \/ Ephemeral!ReplaceExecutionRef(t, g, h)
      PROVE  TableStep
  <2>1. OneRowMoves(t)
    <3>1. CASE Ephemeral!ClearExecutionRef(t, g, h)
      BY <3>1, Statuses DEF Ephemeral!ClearExecutionRef, Ephemeral!Statement,
         Ephemeral!IsQueued, Ephemeral!QueuedStatuses, Statement, IsQueued, QueuedStatuses,
         ExecutionRef, OneRowMoves
    <3>2. CASE Ephemeral!ReplaceExecutionRef(t, g, h)
      BY <3>2, Statuses DEF Ephemeral!ReplaceExecutionRef, Ephemeral!Statement,
         Ephemeral!IsQueued, Ephemeral!QueuedStatuses, Statement, IsQueued, QueuedStatuses,
         ExecutionRef, OneRowMoves
    <3> QED
      BY <1>9, <3>1, <3>2
  <2> QED
    BY <2>1, OneRowStep
<1>10. CASE Ephemeral!FinalizeExternalDispatch(t)
  <2>1. OneRowMoves(t)
    BY <1>10, Statuses DEF Ephemeral!FinalizeExternalDispatch, Ephemeral!Statement,
       Ephemeral!IsQueued, Ephemeral!QueuedStatuses, Statement, IsQueued, QueuedStatuses,
       ExecutionRef, OneRowMoves
  <2> QED
    BY <2>1, OneRowStep
<1>11. CASE Ephemeral!ClockTick(t)
  <2>1. ClockTick(t)
    BY <1>11 DEF Ephemeral!ClockTick, Ephemeral!Statement, Ephemeral!IsQueued,
       Ephemeral!IsActive, Ephemeral!QueuedStatuses, ClockTick, Statement, IsQueued,
       IsActive, QueuedStatuses
  <2> QED
    BY <2>1, ClockTickIsStep
<1> QED
  BY <1>1, <1>2, <1>3, <1>4, <1>5, <1>6, <1>7, <1>8, <1>9, <1>10, <1>11

----------------------------------------------------------------------------
\* SQLSpecQueueBackend.

LEMMA SqlSpecReads ==
    ASSUME IndInv, NEW t \in Task, NEW g, NEW S \in SUBSET Task,
           \/ SqlSpec!SelectForClaim(t) \/ SqlSpec!SelectForNull(t, g)
           \/ SqlSpec!SelectStale(t) \/ SqlSpec!SelectOverdue(S)
    PROVE  ReadStep
<1>1. rows[t].rec.retry_count \in Nat
  BY RowOf DEF IndInv
<1>2. CASE SqlSpec!SelectForClaim(t)
  <2> DEFINE op == IF rows[t].ref = "none" /\ IsOverdue(rows[t].rec)
                   THEN "claim_expired" ELSE "claim"
             x == [op |-> op, tasks |-> {t}, gen |-> rows[t].rec.retry_count]
  <2>1. HasRead(x)
    BY <1>2 DEF SqlSpec!SelectForClaim, SqlSpec!Select, SqlSpec!IsOverdue, HasRead, IsOverdue
  <2>2. op \in {"claim", "claim_expired"}
    OBVIOUS
  <2> HIDE DEF op
  <2>3. IsCall(x) /\ x.op # "enqueue"
    BY <1>1, <2>2 DEF IsCall
  <2> QED
    BY <2>1, <2>3, SelectIsRead
<1>3. CASE SqlSpec!SelectForNull(t, g)
  <2> DEFINE x == [op |-> "null", tasks |-> {t}, gen |-> g]
  <2>1. HasRead(x) /\ g \in Nat
    BY <1>1, <1>3 DEF SqlSpec!SelectForNull, SqlSpec!Select, HasRead
  <2>2. IsCall(x) /\ x.op # "enqueue"
    BY <2>1 DEF IsCall
  <2> QED
    BY <2>1, <2>2, SelectIsRead
<1>4. CASE SqlSpec!SelectStale(t)
  <2> DEFINE x == [op |-> "stale", tasks |-> {t}, gen |-> rows[t].rec.retry_count]
  <2>1. HasRead(x)
    BY <1>4 DEF SqlSpec!SelectStale, SqlSpec!Select, HasRead
  <2>2. IsCall(x) /\ x.op # "enqueue"
    BY <1>1 DEF IsCall
  <2> QED
    BY <2>1, <2>2, SelectIsRead
<1>5. CASE SqlSpec!SelectOverdue(S)
  <2> DEFINE x == [op |-> "expire", tasks |-> S, gen |-> None]
  <2>1. HasRead(x)
    BY <1>5 DEF SqlSpec!SelectOverdue, SqlSpec!Select, HasRead
  <2>2. IsCall(x) /\ x.op # "enqueue"
    BY DEF IsCall
  <2> QED
    BY <2>1, <2>2, SelectIsRead
<1> QED
  BY <1>2, <1>3, <1>4, <1>5

\* The second half of the calls that read before they write.
LEMMA SqlSpecWrites ==
    ASSUME IndInv, NEW x \in inflight,
           \/ SqlSpec!ExpireSelected(x) \/ SqlSpec!NullSelected(x)
           \/ SqlSpec!RecoverSelected(x)
           \/ \E expected : SqlSpec!ClaimSelected(x, expected)
    PROVE  TableStep
<1>1. CASE SqlSpec!ExpireSelected(x)
  <2> DEFINE X == {t \in x.tasks : IsQueued(rows[t].rec) /\ rows[t].ref = "none"
                                     /\ IsOverdue(rows[t].rec)}
  <2>1. /\ inflight' = inflight \ {x} /\ UNCHANGED claims /\ ReturnExpired(X)
        /\ rows' = [t \in Task |-> IF t \in X THEN SetRecord(rows[t], ExpireRecord(rows[t].rec))
                                              ELSE rows[t]]
    BY <1>1 DEF SqlSpec!ExpireSelected, SqlSpec!ExpireWhere, SqlSpec!Update,
       SqlSpec!ReturnExpired, SqlSpec!SetRecord, SqlSpec!ExpireRecord, SqlSpec!IsQueued,
       SqlSpec!QueuedStatuses, SqlSpec!IsOverdue,
       ReturnExpired, SetRecord, ExpireRecord, IsQueued, QueuedStatuses, IsOverdue
  <2>2. \A t \in X \cap Task : IsQueued(rows[t].rec)
    OBVIOUS
  <2> HIDE DEF X
  <2>3. RowsReturned({}, {}, X)
    BY <2>1, <2>2, NothingReturned DEF RowsReturned, RowsAreUpdated, IndInv
  <2> QED
    BY <2>3, ReturnedStep
<1>2. CASE SqlSpec!NullSelected(x)
  <2> DEFINE S == {t \in x.tasks : IsStored(rows[t].rec)}
  <2>1. /\ inflight' = inflight \ {x} /\ UNCHANGED <<claims, expiries>>
        /\ rows' = [t \in Task |-> IF t \in S THEN SetRecord(rows[t], NullHeartbeat(rows[t].rec))
                                              ELSE rows[t]]
    BY <1>2 DEF SqlSpec!NullSelected, SqlSpec!Update, SqlSpec!SetRecord, SqlSpec!NullHeartbeat,
       SqlSpec!IsStored, SqlSpec!TaskStatus, SqlSpec!QueuedStatuses, SqlSpec!TerminalStatuses,
       SetRecord, NullHeartbeat, IsStored, TaskStatus, QueuedStatuses, TerminalStatuses
  <2>2. \A t \in S \cap Task : IsStored(rows[t].rec)
    OBVIOUS
  <2> HIDE DEF S
  <2>3. ManyRowsMove(S)
    BY <2>1, <2>2 DEF ManyRowsMove, RowsAreUpdated
  <2> QED
    BY <2>3, ManyRowsStep
<1>3. CASE SqlSpec!RecoverSelected(x)
  <2> DEFINE S == {t \in x.tasks : SqlSpec!RecoverWhere(rows[t], x.gen)}
  <2>1. /\ inflight' = inflight \ {x} /\ UNCHANGED <<claims, expiries>>
        /\ rows' = [t \in Task |-> IF t \in S THEN SetRecord(rows[t], RecoverStale(rows[t].rec))
                                              ELSE rows[t]]
    BY <1>3 DEF SqlSpec!RecoverSelected, SqlSpec!Update, SqlSpec!SetRecord,
       SqlSpec!RecoverStale, SqlSpec!AttemptsConsumed, SetRecord, RecoverStale, AttemptsConsumed
  <2>2. \A t \in S \cap Task : rows[t].rec.status = "running"
    BY DEF SqlSpec!RecoverWhere, SqlSpec!Fenced
  <2> HIDE DEF S
  <2>3. ManyRowsMove(S)
    BY <2>1, <2>2 DEF ManyRowsMove, RowsAreUpdated
  <2> QED
    BY <2>3, ManyRowsStep
<1>4. ASSUME NEW expected, SqlSpec!ClaimSelected(x, expected) PROVE TableStep
  <2> DEFINE C == {t \in x.tasks : SqlSpec!ClaimWhere(rows[t], expected)}
             B == {t \in x.tasks \ C : ~ReliableRowcount /\ rows[t].rec.status = "running"}
  <2>1. /\ inflight' = inflight \ {x} /\ UNCHANGED expiries /\ ReturnClaims(C \cup B)
        /\ rows' = [t \in Task |-> IF t \in C THEN SetRecord(rows[t], ClaimTask(rows[t].rec))
                                              ELSE rows[t]]
    BY <1>4 DEF SqlSpec!ClaimSelected, SqlSpec!Update, SqlSpec!SetRecord, SqlSpec!ClaimTask,
       SqlSpec!ReturnClaims, SetRecord, ClaimTask, ReturnClaims
  <2>2. \A t \in C \cap Task : IsQueued(rows[t].rec)
    BY DEF SqlSpec!ClaimWhere, SqlSpec!IsQueued, SqlSpec!QueuedStatuses, IsQueued, QueuedStatuses
  <2>3. /\ \A t \in B \cap Task : ~ReliableRowcount /\ rows[t].rec.status = "running"
        /\ C \cap B = {}
    OBVIOUS
  <2> HIDE DEF C, B
  <2>4. RowsReturned(C, B, {})
    BY <2>1, <2>2, <2>3, NothingReturned DEF RowsReturned, RowsAreUpdated, IndInv
  <2> QED
    BY <2>4, ReturnedStep
<1> QED
  BY <1>1, <1>2, <1>3, <1>4

\* The calls of one statement, or with the rows locked, on several rows.
LEMMA SqlSpecBatches ==
    ASSUME IndInv, NEW t \in Task, NEW S \in SUBSET Task, NEW X \in SUBSET Task, NEW g,
           \/ SqlSpec!ClaimMany(S, X) \/ SqlSpec!ClaimNext(t)
           \/ SqlSpec!TouchHeartbeats(S, g) \/ SqlSpec!CleanupTerminal(S)
    PROVE  TableStep
<1>1. CASE SqlSpec!ClaimMany(S, X)
  <2>1. /\ inflight' = inflight /\ ReturnClaims(S) /\ ReturnExpired(X)
        /\ \A s \in S : SqlSpec!ClaimBatchWhere(rows[s])
        /\ \A s \in X : SqlSpec!SelectExpired(rows[s])
        /\ rows' = [s \in Task |-> IF s \in S \cup X THEN SqlSpec!ClaimedOrExpired(rows[s])
                                                     ELSE rows[s]]
    BY <1>1 DEF SqlSpec!ClaimMany, SqlSpec!Update, SqlSpec!ReturnClaims,
       SqlSpec!ReturnExpired, ReturnClaims, ReturnExpired
  <2>2. \A s \in S : /\ IsQueued(rows[s].rec)
                     /\ SqlSpec!ClaimedOrExpired(rows[s]) = SetRecord(rows[s], ClaimTask(rows[s].rec))
    BY <2>1 DEF SqlSpec!ClaimBatchWhere, SqlSpec!ClaimedOrExpired, SqlSpec!SetRecord,
       SqlSpec!ClaimTask, SqlSpec!IsQueued, SqlSpec!QueuedStatuses,
       SetRecord, ClaimTask, IsQueued, QueuedStatuses
  <2>3. \A s \in X : /\ IsQueued(rows[s].rec) /\ ~SqlSpec!ClaimBatchWhere(rows[s])
                     /\ SqlSpec!ClaimedOrExpired(rows[s]) = SetRecord(rows[s], ExpireRecord(rows[s].rec))
    BY <2>1 DEF SqlSpec!ClaimBatchWhere, SqlSpec!SelectExpired, SqlSpec!ClaimedOrExpired,
       SqlSpec!SetRecord, SqlSpec!ExpireRecord, SqlSpec!IsQueued, SqlSpec!QueuedStatuses,
       SetRecord, ExpireRecord, IsQueued, QueuedStatuses
  <2>4. S \cap X = {}
    BY <2>1, <2>3
  <2>5. RowsReturned(S, {}, X)
    BY <2>1, <2>2, <2>3, <2>4 DEF RowsReturned, RowsAreUpdated
  <2> QED
    BY <2>5, ReturnedStep
<1>2. CASE SqlSpec!ClaimNext(t)
  <2>1. /\ inflight' = inflight /\ UNCHANGED expiries /\ ReturnClaims({t})
        /\ IsQueued(rows[t].rec)
        /\ rows' = [s \in Task |-> IF s \in {t} THEN SetRecord(rows[s], ClaimTask(rows[s].rec))
                                                ELSE rows[s]]
    BY <1>2 DEF SqlSpec!ClaimNext, SqlSpec!ClaimWhere, SqlSpec!Update, SqlSpec!SetRecord,
       SqlSpec!ClaimTask, SqlSpec!ReturnClaims, SqlSpec!IsQueued, SqlSpec!QueuedStatuses,
       SetRecord, ClaimTask, ReturnClaims, IsQueued, QueuedStatuses
  <2>2. RowsReturned({t}, {}, {})
    BY <2>1, NothingReturned DEF RowsReturned, RowsAreUpdated, IndInv
  <2> QED
    BY <2>2, ReturnedStep
<1>3. CASE SqlSpec!TouchHeartbeats(S, g)
  <2> DEFINE T == SqlSpec!BulkTouched(S, g)
  <2>1. /\ UNCHANGED <<inflight, claims, expiries>>
        /\ rows' = [s \in Task |-> IF s \in T THEN SetRecord(rows[s], TouchHeartbeat(rows[s].rec))
                                              ELSE rows[s]]
    BY <1>3 DEF SqlSpec!TouchHeartbeats, SqlSpec!Update, SqlSpec!SetRecord,
       SqlSpec!TouchHeartbeat, SetRecord, TouchHeartbeat
  <2>2. \A s \in T \cap Task : IsStored(rows[s].rec)
    BY Statuses DEF SqlSpec!BulkTouched, SqlSpec!TouchWhere, SqlSpec!Fenced
  <2> HIDE DEF T
  <2>3. ManyRowsMove(T)
    BY <2>1, <2>2 DEF ManyRowsMove, RowsAreUpdated
  <2> QED
    BY <2>3, ManyRowsStep
<1>4. CASE SqlSpec!CleanupTerminal(S)
  <2>1. /\ UNCHANGED <<inflight, claims, expiries>>
        /\ \A s \in S : IsTerminal(rows[s].rec)
        /\ rows' = [s \in Task |->
              IF s \in S THEN [SetRecord(rows[s], DeleteRecord(rows[s].rec)) EXCEPT
                                  !.ref = "none", !.holds_key = FALSE]
                         ELSE rows[s]]
    BY <1>4 DEF SqlSpec!CleanupTerminal, SqlSpec!IsTerminalRow, SqlSpec!IsTerminal,
       SqlSpec!TerminalStatuses, SqlSpec!Update, SqlSpec!SetRecord, SqlSpec!DeleteRecord,
       IsTerminal, TerminalStatuses, SetRecord, DeleteRecord
  <2>2. ManyRowsMove(S)
    BY <2>1 DEF ManyRowsMove, RowsAreUpdated
  <2> QED
    BY <2>2, ManyRowsStep
<1> QED
  BY <1>1, <1>2, <1>3, <1>4

LEMMA SqlSpecEnqueue ==
    ASSUME IndInv, NEW t \in Task, NEW o \in Options[t], SqlSpec!Enqueue(t, o)
    PROVE  BirthStep
<1>1. o \in EnqueueOptions
  BY SqlTableAssumption
<1>2. IsFresh(t) /\ o.key = None /\ Statement(t, InsertedRow(o))
  BY DEF SqlSpec!Enqueue, SqlSpec!IsFresh, SqlSpec!Statement, SqlSpec!Inserted,
         SqlSpec!NoRow, SqlSpec!NoRecord, SqlSpec!NewRecord,
         IsFresh, Statement, InsertedRow, NoRow, NoRecord, NewRecord
<1> QED
  BY <1>1, <1>2, InsertIsBirth

LEMMA SqlSpecSelectKeys ==
    ASSUME IndInv, NEW S \in SUBSET Task, NEW options \in [S -> UNION {Options[t] : t \in S}],
           SqlSpec!SelectKeys(S, options)
    PROVE  ReadStep
<1> DEFINE keys == {options[t].key : t \in S} \ {None}
           found == UNION {SqlSpec!HolderOf(k) : k \in keys}
<1>1. /\ \A t \in S : IsFresh(t) /\ options[t] \in Options[t]
      /\ \A s, t \in S : options[s].key = options[t].key /\ options[s].key # None => s = t
      /\ \A t \in found : Ended(rows[t].rec)
      /\ HasRead([op |-> "enqueue", tasks |-> S, options |-> options, found |-> found])
  BY Statuses DEF SqlSpec!SelectKeys, SqlSpec!IsPlanned, SqlSpec!Replaceable, SqlSpec!IsFresh,
         SqlSpec!IsTerminal, SqlSpec!TerminalStatuses, SqlSpec!Select, SqlSpec!NoRow,
         SqlSpec!NoRecord, HasRead, IsFresh, NoRow, NoRecord
<1>2. found \in SUBSET Task
  BY DEF SqlSpec!HolderOf
<1>3. options \in [S -> EnqueueOptions]
  BY <1>1, SqlTableAssumption
<1> HIDE DEF found
<1> QED
  BY <1>1, <1>2, <1>3, KeysAreRead

LEMMA SqlSpecInsertRows ==
    ASSUME IndInv, NEW x \in inflight, SqlSpec!InsertRows(x)
    PROVE  BirthStep
<1> DEFINE keys == {x.options[t].key : t \in x.tasks} \ {None}
           held == (UNION {SqlSpec!HolderOf(k) : k \in keys}) \ x.found
<1>1. /\ x.op = "enqueue" /\ inflight' = inflight \ {x} /\ UNCHANGED <<claims, expiries>>
      /\ rows' = [t \in Task |->
            CASE held = {} /\ t \in x.tasks -> SqlSpec!Inserted(x.options[t])
              [] held = {} /\ t \in x.found -> [rows[t] EXCEPT !.holds_key = FALSE]
              [] OTHER -> rows[t]]
  BY DEF SqlSpec!InsertRows, SqlSpec!KeyCleared
<1>2. \A o : SqlSpec!Inserted(o) = InsertedRow(o)
  BY DEF SqlSpec!Inserted, SqlSpec!NoRow, SqlSpec!NoRecord, SqlSpec!NewRecord,
         InsertedRow, NoRow, NoRecord, NewRecord
<1>3. x.tasks \subseteq Task /\ rows' = [t \in Task |-> rows'[t]]
  BY <1>1 DEF IndInv, TypeOK, IsCall
<1>4. x.tasks \cap x.found = {}
  <2>1. SoundCall(x) /\ ~Ended(NoRow.rec)
    BY Statuses DEF IndInv, NoRow, NoRecord
  <2> QED
    BY <1>1, <2>1 DEF SoundCall
<1>5. CASE held = {}
  <2>1. \A t \in x.tasks : x.options[t].key # None => HolderOf(x.options[t].key) \subseteq x.found
    <3> SUFFICES ASSUME NEW t \in x.tasks, x.options[t].key # None,
                        NEW s \in HolderOf(x.options[t].key)
                 PROVE  s \in x.found
      OBVIOUS
    <3>1. s \in SqlSpec!HolderOf(x.options[t].key)
      BY DEF HolderOf, SqlSpec!HolderOf, SqlSpec!IsStored, SqlSpec!TaskStatus,
             SqlSpec!QueuedStatuses, SqlSpec!TerminalStatuses, IsStored, TaskStatus,
             QueuedStatuses, TerminalStatuses
    <3>2. x.options[t].key \in keys
      OBVIOUS
    <3> HIDE DEF keys
    <3> QED
      BY <1>5, <3>1, <3>2
  <2> HIDE DEF held
  <2>2. /\ \A t \in x.tasks : rows'[t] = InsertedRow(x.options[t])
        /\ \A t \in Task \ x.tasks :
              \/ rows'[t] = rows[t]
              \/ t \in x.found /\ rows'[t] = [rows[t] EXCEPT !.holds_key = FALSE]
    BY <1>1, <1>2, <1>3, <1>4, <1>5
  <2> QED
    BY <1>1, <1>3, <2>1, <2>2, InsertsAreBirth
<1>6. CASE held # {}
  <2> HIDE DEF held
  <2>1. \A t \in Task : rows'[t] = rows[t]
    BY <1>1, <1>6
  <2> QED
    BY <1>1, <1>3, <2>1, LostInsertIsBirth
<1> QED
  BY <1>5, <1>6

LEMMA SqlSpecNext ==
    ASSUME IndInv, SqlSpec!Next
    PROVE  StepKept
<1>1. ASSUME NEW t \in Task, NEW o \in Options[t], SqlSpec!Enqueue(t, o) PROVE StepKept
  BY <1>1, SqlSpecEnqueue DEF StepKept
<1>2. ASSUME NEW S \in (SUBSET Task) \ {{}},
             NEW options \in [S -> UNION {Options[t] : t \in S}], SqlSpec!SelectKeys(S, options)
      PROVE  StepKept
  BY <1>2, SqlSpecSelectKeys DEF StepKept
<1>3. ASSUME SqlSpec!ClaimStep PROVE StepKept
  <2>1. ASSUME NEW t \in Task, SqlSpec!SelectForClaim(t) PROVE StepKept
    BY <2>1, SqlSpecReads DEF StepKept
  <2>2. ASSUME NEW t \in Task, SqlSpec!ClaimNext(t) PROVE StepKept
    BY <2>2, SqlSpecBatches DEF StepKept
  <2>3. ASSUME NEW t \in Task, SqlSpec!ClaimNextOptimistic(t) PROVE StepKept
    BY <2>1, <2>3 DEF SqlSpec!ClaimNextOptimistic
  <2>4. ASSUME NEW C \in SUBSET Task, NEW X \in SUBSET Task, SqlSpec!ClaimMany(C, X)
        PROVE  StepKept
    <3>1. CASE Task = {}
      BY <2>4, <3>1 DEF SqlSpec!ClaimMany
    <3>2. ASSUME NEW t \in Task PROVE TableStep
      BY <2>4, SqlSpecBatches
    <3> QED
      BY <3>1, <3>2 DEF StepKept
  <2>5. ASSUME NEW S \in SUBSET Task, SqlSpec!SelectOverdue(S) PROVE StepKept
    <3>1. PICK t \in Task : t \in S
      BY <2>5 DEF SqlSpec!SelectOverdue
    <3> QED
      BY <2>5, <3>1, SqlSpecReads DEF StepKept
  <2> QED
    BY <1>3, <2>1, <2>2, <2>3, <2>4, <2>5 DEF SqlSpec!ClaimStep
<1>4. ASSUME NEW t \in Task, NEW g, SqlSpec!AttemptStep(t, g) PROVE StepKept
  <2>1. ASSUME NEW a \in BOOLEAN, NEW b \in BOOLEAN,
               \/ SqlSpec!CompleteTaskCall(t, g) \/ SqlSpec!FailTaskCall(t, g, a, b)
               \/ SqlSpec!CancelTaskCall(t, a, g)
        PROVE  StepKept
    BY <2>1, SqlSpecOneRow DEF StepKept
  <2>2. ASSUME NEW w \in Worker,
               SqlSpec!AssignWorkerCall(t, g, w) \/ SqlSpec!InterruptTaskCall(t, g, w)
        PROVE  StepKept
    BY <2>2, SqlSpecOneRow DEF StepKept
  <2>3. CASE SqlSpec!SelectForNull(t, g)
    BY <2>3, SqlSpecReads DEF StepKept
  <2> QED
    BY <1>4, <2>1, <2>2, <2>3 DEF SqlSpec!AttemptStep
<1>5. ASSUME NEW t \in Task, NEW b \in BOOLEAN, SqlSpec!CancelTaskCall(t, b, None)
      PROVE  StepKept
  BY <1>5, SqlSpecOneRow DEF StepKept
<1>6. ASSUME NEW t \in Task, SqlSpec!DispatchStep(t) PROVE StepKept
  BY <1>6, SqlSpecOneRow DEF StepKept, SqlSpec!DispatchStep
<1>7. ASSUME NEW t \in Task, SqlSpec!SelectStale(t) \/ SqlSpec!ClockTick(t) PROVE StepKept
  BY <1>7, SqlSpecReads, SqlSpecOneRow DEF StepKept
<1>8. ASSUME NEW S \in SUBSET Task, NEW g,
             SqlSpec!TouchHeartbeats(S, g) \/ SqlSpec!CleanupTerminal(S)
      PROVE  StepKept
  <2>1. PICK t \in Task : t \in S
    BY <1>8 DEF SqlSpec!TouchHeartbeats, SqlSpec!CleanupTerminal
  <2> QED
    BY <1>8, <2>1, SqlSpecBatches DEF StepKept
<1>9. ASSUME NEW x \in inflight, SqlSpec!WriteStep(x) PROVE StepKept
  BY <1>9, SqlSpecInsertRows, SqlSpecWrites DEF StepKept, SqlSpec!WriteStep
<1> QED
  BY <1>1, <1>2, <1>3, <1>4, <1>5, <1>6, <1>7, <1>8, <1>9
     DEF SqlSpec!Next, SqlSpec!ProducerStep

----------------------------------------------------------------------------
\* AdvancedAlchemyQueueBackend.

LEMMA AlchemyReads ==
    ASSUME IndInv, NEW t \in Task, NEW g, NEW S \in SUBSET Task,
           \/ Alchemy!SelectStale(t) \/ Alchemy!SelectOverdue(S)
           \/ Alchemy!SelectForTouch(S, g)
    PROVE  ReadStep
<1>1. \A s \in Task : rows[s].rec.retry_count \in Nat
  BY RowOf DEF IndInv
<1>2. CASE Alchemy!SelectStale(t)
  <2> DEFINE x == [op |-> "stale", tasks |-> {t}, gen |-> rows[t].rec.retry_count]
  <2>1. HasRead(x)
    BY <1>2 DEF Alchemy!SelectStale, Alchemy!Select, HasRead
  <2>2. IsCall(x) /\ x.op # "enqueue"
    BY <1>1 DEF IsCall
  <2> QED
    BY <2>1, <2>2, SelectIsRead
<1>3. CASE Alchemy!SelectOverdue(S)
  <2> DEFINE x == [op |-> "expire", tasks |-> S, gen |-> None]
  <2>1. HasRead(x)
    BY <1>3 DEF Alchemy!SelectOverdue, Alchemy!Select, HasRead
  <2>2. IsCall(x) /\ x.op # "enqueue"
    BY DEF IsCall
  <2> QED
    BY <2>1, <2>2, SelectIsRead
<1>4. CASE Alchemy!SelectForTouch(S, g)
  <2> DEFINE live == {s \in S : Alchemy!Fenced(rows[s].rec, g)}
             x == [op |-> "touch", tasks |-> live, gen |-> g]
  <2>1. HasRead(x) /\ live # {}
    BY <1>4 DEF Alchemy!SelectForTouch, Alchemy!Select, HasRead
  <2>2. g \in Nat
    BY <1>1, <2>1 DEF Alchemy!Fenced
  <2>3. live \in SUBSET Task
    OBVIOUS
  <2> HIDE DEF live
  <2>4. IsCall(x) /\ x.op # "enqueue"
    BY <2>2, <2>3 DEF IsCall
  <2> QED
    BY <2>1, <2>4, SelectIsRead
<1> QED
  BY <1>2, <1>3, <1>4

LEMMA AlchemyWrites ==
    ASSUME IndInv, NEW x \in inflight,
           \/ Alchemy!ExpireSelected(x) \/ Alchemy!TouchSelected(x)
           \/ Alchemy!RecoverSelected(x)
    PROVE  TableStep
<1>1. CASE Alchemy!ExpireSelected(x)
  <2> DEFINE X == {t \in x.tasks : Alchemy!ExpireWhere(rows[t])}
  <2>1. /\ inflight' = inflight \ {x} /\ UNCHANGED claims /\ ReturnExpired(X)
        /\ rows' = [t \in Task |-> IF t \in X THEN SetRecord(rows[t], ExpireRecord(rows[t].rec))
                                              ELSE rows[t]]
    BY <1>1 DEF Alchemy!ExpireSelected, Alchemy!Update, Alchemy!ReturnExpired,
       Alchemy!SetRecord, Alchemy!ExpireRecord, ReturnExpired, SetRecord, ExpireRecord
  <2>2. \A t \in X \cap Task : IsQueued(rows[t].rec)
    BY DEF Alchemy!ExpireWhere, Alchemy!IsQueued, Alchemy!QueuedStatuses, IsQueued,
           QueuedStatuses
  <2> HIDE DEF X
  <2>3. RowsReturned({}, {}, X)
    BY <2>1, <2>2, NothingReturned DEF RowsReturned, RowsAreUpdated, IndInv
  <2> QED
    BY <2>3, ReturnedStep
<1>2. CASE Alchemy!TouchSelected(x)
  <2> DEFINE S == Alchemy!Touched(x)
  <2>1. /\ inflight' = inflight \ {x} /\ UNCHANGED <<claims, expiries>>
        /\ rows' = [t \in Task |-> IF t \in S THEN SetRecord(rows[t], TouchHeartbeat(rows[t].rec))
                                              ELSE rows[t]]
    BY <1>2 DEF Alchemy!TouchSelected, Alchemy!Update, Alchemy!SetRecord,
       Alchemy!TouchHeartbeat, SetRecord, TouchHeartbeat
  <2>2. \A t \in S \cap Task : IsStored(rows[t].rec)
    BY Statuses DEF Alchemy!Touched, Alchemy!Fenced
  <2> HIDE DEF S
  <2>3. ManyRowsMove(S)
    BY <2>1, <2>2 DEF ManyRowsMove, RowsAreUpdated
  <2> QED
    BY <2>3, ManyRowsStep
<1>3. CASE Alchemy!RecoverSelected(x)
  <2> DEFINE S == {t \in x.tasks : /\ Alchemy!Fenced(rows[t].rec, x.gen)
                                   /\ Alchemy!IsStale(rows[t].rec)}
  <2>1. /\ inflight' = inflight \ {x} /\ UNCHANGED <<claims, expiries>>
        /\ rows' = [t \in Task |-> IF t \in S THEN SetRecord(rows[t], RecoverStale(rows[t].rec))
                                              ELSE rows[t]]
    BY <1>3 DEF Alchemy!RecoverSelected, Alchemy!Update, Alchemy!SetRecord,
       Alchemy!RecoverStale, Alchemy!AttemptsConsumed, SetRecord, RecoverStale, AttemptsConsumed
  <2>2. \A t \in S \cap Task : rows[t].rec.status = "running"
    BY DEF Alchemy!Fenced
  <2> HIDE DEF S
  <2>3. ManyRowsMove(S)
    BY <2>1, <2>2 DEF ManyRowsMove, RowsAreUpdated
  <2> QED
    BY <2>3, ManyRowsStep
<1> QED
  BY <1>1, <1>2, <1>3

LEMMA AlchemyClaims ==
    ASSUME IndInv, NEW t \in Task, NEW expected, NEW ref,
           Alchemy!ClaimTaskWithExpired(t, expected, ref)
    PROVE  TableStep
<1> DEFINE won == Alchemy!ClaimWhere(rows[t], expected, ref)
<1>1. /\ inflight' = inflight /\ IsQueued(rows[t].rec)
      /\ ReturnClaims(IF won THEN {t} ELSE {}) /\ ReturnExpired(IF won THEN {} ELSE {t})
      /\ rows' = [s \in Task |->
            IF s \in {t}
            THEN SetRecord(rows[s], IF won THEN ClaimTask(rows[s].rec) ELSE ExpireRecord(rows[s].rec))
            ELSE rows[s]]
  BY DEF Alchemy!ClaimTaskWithExpired, Alchemy!ExpireWhere, Alchemy!ClaimWhere,
     Alchemy!Update, Alchemy!ReturnClaims, Alchemy!ReturnExpired, Alchemy!SetRecord,
     Alchemy!ClaimTask, Alchemy!ExpireRecord, Alchemy!IsQueued, Alchemy!QueuedStatuses,
     ReturnClaims, ReturnExpired, SetRecord, ClaimTask, ExpireRecord, IsQueued, QueuedStatuses
<1> HIDE DEF won
<1>2. CASE won
  <2>1. RowsReturned({t}, {}, {})
    BY <1>1, <1>2 DEF RowsReturned, RowsAreUpdated
  <2> QED
    BY <2>1, ReturnedStep
<1>3. CASE ~won
  <2>1. RowsReturned({}, {}, {t})
    BY <1>1, <1>3 DEF RowsReturned, RowsAreUpdated
  <2> QED
    BY <2>1, ReturnedStep
<1> QED
  BY <1>2, <1>3

LEMMA AlchemyBatches ==
    ASSUME IndInv, NEW S \in SUBSET Task, NEW X \in SUBSET Task,
           \/ Alchemy!ClaimManyWithExpired(S, X) \/ Alchemy!ClaimManySkipLocked(S)
           \/ Alchemy!CleanupTerminal(S)
    PROVE  TableStep
<1>1. CASE Alchemy!ClaimManyWithExpired(S, X)
  <2>1. /\ inflight' = inflight /\ ReturnClaims(S) /\ ReturnExpired(X)
        /\ \A s \in S : IsQueued(rows[s].rec) /\ ~IsOverdue(rows[s].rec)
        /\ \A s \in X : IsQueued(rows[s].rec) /\ IsOverdue(rows[s].rec)
        /\ \A s \in X : Alchemy!ExpireWhere(rows[s])
        /\ \A s \in S : ~Alchemy!ExpireWhere(rows[s])
    BY <1>1 DEF Alchemy!ClaimManyWithExpired, Alchemy!IsCandidate, Alchemy!IsClaimable,
       Alchemy!ExpireWhere, Alchemy!IsQueued, Alchemy!QueuedStatuses, Alchemy!IsOverdue,
       Alchemy!ReturnClaims, Alchemy!ReturnExpired, ReturnClaims, ReturnExpired,
       IsQueued, QueuedStatuses, IsOverdue
  <2>2. rows' = [s \in Task |->
            IF s \in S \cup X
            THEN SetRecord(rows[s], IF Alchemy!ExpireWhere(rows[s]) THEN ExpireRecord(rows[s].rec)
                                                                   ELSE ClaimTask(rows[s].rec))
            ELSE rows[s]]
    BY <1>1 DEF Alchemy!ClaimManyWithExpired, Alchemy!Update, Alchemy!SetRecord,
       Alchemy!ClaimTask, Alchemy!ExpireRecord, SetRecord, ClaimTask, ExpireRecord
  <2>3. S \cap X = {}
    BY <2>1
  <2>4. RowsReturned(S, {}, X)
    BY <2>1, <2>2, <2>3 DEF RowsReturned, RowsAreUpdated
  <2> QED
    BY <2>4, ReturnedStep
<1>2. CASE Alchemy!ClaimManySkipLocked(S)
  <2>1. /\ inflight' = inflight /\ UNCHANGED expiries /\ ReturnClaims(S)
        /\ \A s \in S : IsQueued(rows[s].rec)
        /\ rows' = [s \in Task |-> IF s \in S THEN SetRecord(rows[s], ClaimTask(rows[s].rec))
                                              ELSE rows[s]]
    BY <1>2 DEF Alchemy!ClaimManySkipLocked, Alchemy!IsCandidate, Alchemy!IsClaimable,
       Alchemy!Update, Alchemy!SetRecord, Alchemy!ClaimTask, Alchemy!ReturnClaims,
       Alchemy!IsQueued, Alchemy!QueuedStatuses, SetRecord, ClaimTask, ReturnClaims,
       IsQueued, QueuedStatuses
  <2>2. RowsReturned(S, {}, {})
    BY <2>1, NothingReturned DEF RowsReturned, RowsAreUpdated, IndInv
  <2> QED
    BY <2>2, ReturnedStep
<1>3. CASE Alchemy!CleanupTerminal(S)
  <2>1. /\ UNCHANGED <<inflight, claims, expiries>>
        /\ \A s \in S : IsTerminal(rows[s].rec)
        /\ rows' = [s \in Task |->
              IF s \in S THEN [SetRecord(rows[s], DeleteRecord(rows[s].rec)) EXCEPT
                                  !.ref = "none", !.holds_key = FALSE]
                         ELSE rows[s]]
    BY <1>3 DEF Alchemy!CleanupTerminal, Alchemy!IsTerminal, Alchemy!TerminalStatuses,
       Alchemy!Update, Alchemy!SetRecord, Alchemy!DeleteRecord,
       IsTerminal, TerminalStatuses, SetRecord, DeleteRecord
  <2>2. ManyRowsMove(S)
    BY <2>1 DEF ManyRowsMove, RowsAreUpdated
  <2> QED
    BY <2>2, ManyRowsStep
<1> QED
  BY <1>1, <1>2, <1>3

LEMMA AlchemySelectKey ==
    ASSUME IndInv, NEW t \in Task, NEW o \in Options[t], Alchemy!SelectKey(t, o)
    PROVE  ReadStep
<1> DEFINE found == IF o.key = None THEN {} ELSE Alchemy!HolderOf(o.key)
           S == {t}
           options == [s \in S |-> o]
<1>1. /\ IsFresh(t)
      /\ \A s \in found : Ended(rows[s].rec)
      /\ HasRead([op |-> "enqueue", tasks |-> S, options |-> options, found |-> found])
  BY Statuses DEF Alchemy!SelectKey, Alchemy!Replaceable, Alchemy!IsFresh,
         Alchemy!IsTerminal, Alchemy!TerminalStatuses, Alchemy!Select, Alchemy!NoRow,
         Alchemy!NoRecord, HasRead, IsFresh, NoRow, NoRecord
<1>2. found \in SUBSET Task
  BY DEF Alchemy!HolderOf
<1>3. options \in [S -> EnqueueOptions] /\ S \in SUBSET Task /\ \A s \in S : IsFresh(s)
  BY <1>1, SqlTableAssumption
<1>4. \A r, s \in S : r = s
  OBVIOUS
<1> HIDE DEF found, S, options
<1> QED
  BY <1>1, <1>2, <1>3, <1>4, KeysAreRead

LEMMA AlchemyInsertRow ==
    ASSUME IndInv, NEW x \in inflight, Alchemy!InsertRow(x)
    PROVE  BirthStep
<1> DEFINE held == Alchemy!UpsertConflicts(x)
<1>1. /\ x.op = "enqueue" /\ inflight' = inflight \ {x} /\ UNCHANGED <<claims, expiries>>
      /\ rows' = [t \in Task |->
            CASE held = {} /\ t \in x.tasks -> Alchemy!InsertValues(x.options[t])
              [] t \in x.found -> [rows[t] EXCEPT !.holds_key = FALSE]
              [] OTHER -> rows[t]]
  BY DEF Alchemy!InsertRow
<1>2. \A o : Alchemy!InsertValues(o) = InsertedRow(o)
  BY DEF Alchemy!InsertValues, Alchemy!NoRow, Alchemy!NoRecord, Alchemy!NewRecord,
         InsertedRow, NoRow, NoRecord, NewRecord
<1>3. x.tasks \subseteq Task /\ rows' = [t \in Task |-> rows'[t]]
  BY <1>1 DEF IndInv, TypeOK, IsCall
<1>4. x.tasks \cap x.found = {}
  <2>1. SoundCall(x) /\ ~Ended(NoRow.rec)
    BY Statuses DEF IndInv, NoRow, NoRecord
  <2> QED
    BY <1>1, <2>1 DEF SoundCall
<1>5. CASE held = {}
  <2>1. \A t \in x.tasks : x.options[t].key # None => HolderOf(x.options[t].key) \subseteq x.found
    <3> SUFFICES ASSUME NEW t \in x.tasks, NEW s \in HolderOf(x.options[t].key)
                 PROVE  s \in x.found
      OBVIOUS
    <3>1. s \in Alchemy!HolderOf(x.options[t].key)
      BY DEF HolderOf, Alchemy!HolderOf, Alchemy!IsStored, Alchemy!TaskStatus,
             Alchemy!QueuedStatuses, Alchemy!TerminalStatuses, IsStored, TaskStatus,
             QueuedStatuses, TerminalStatuses
    <3> QED
      BY <1>5, <3>1 DEF Alchemy!UpsertConflicts
  <2> HIDE DEF held
  <2>2. /\ \A t \in x.tasks : rows'[t] = InsertedRow(x.options[t])
        /\ \A t \in Task \ x.tasks :
              \/ rows'[t] = rows[t]
              \/ t \in x.found /\ rows'[t] = [rows[t] EXCEPT !.holds_key = FALSE]
    BY <1>1, <1>2, <1>3, <1>4, <1>5
  <2> QED
    BY <1>1, <1>3, <2>1, <2>2, InsertsAreBirth
<1>6. CASE held # {}
  <2> HIDE DEF held
  <2>1. \A t \in Task :
          \/ rows'[t] = rows[t]
          \/ t \in x.found /\ rows'[t] = [rows[t] EXCEPT !.holds_key = FALSE]
    BY <1>1, <1>6
  <2> QED
    BY <1>1, <1>3, <2>1, LostInsertIsBirth
<1> QED
  BY <1>5, <1>6

LEMMA AlchemyNext ==
    ASSUME IndInv, Alchemy!Next
    PROVE  StepKept
<1>1. ASSUME NEW t \in Task, Alchemy!EnqueueCall(t) PROVE StepKept
  BY <1>1, AlchemySelectKey DEF StepKept, Alchemy!EnqueueCall
<1>2. ASSUME NEW t \in Task, NEW g, Alchemy!AttemptCall(t, g) PROVE StepKept
  BY <1>2, AlchemyOneRow DEF StepKept, Alchemy!AttemptCall
<1>3. ASSUME NEW t \in Task, Alchemy!ClaimCall(t) PROVE StepKept
  BY <1>3, AlchemyClaims DEF StepKept, Alchemy!ClaimCall, Alchemy!ClaimNext
<1>4. ASSUME NEW t \in Task, Alchemy!CancelCall(t) \/ Alchemy!DispatchCall(t) PROVE StepKept
  BY <1>4, AlchemyOneRow DEF StepKept, Alchemy!CancelCall, Alchemy!DispatchCall
<1>5. ASSUME NEW t \in Task, Alchemy!SelectStale(t) \/ Alchemy!ClockTick(t) PROVE StepKept
  BY <1>5, AlchemyReads, AlchemyOneRow DEF StepKept
<1>6. ASSUME NEW S \in SUBSET Task, NEW X \in SUBSET Task,
             \/ Alchemy!ClaimManyWithExpired(S, X) \/ Alchemy!ClaimManySkipLocked(S)
             \/ Alchemy!CleanupTerminal(S)
      PROVE  StepKept
  BY <1>6, AlchemyBatches DEF StepKept
<1>7. ASSUME NEW S \in SUBSET Task, NEW g,
             Alchemy!SelectOverdue(S) \/ Alchemy!SelectForTouch(S, g)
      PROVE  StepKept
  <2>1. PICK t \in Task : t \in S
    BY <1>7 DEF Alchemy!SelectOverdue, Alchemy!SelectForTouch
  <2> QED
    BY <1>7, <2>1, AlchemyReads DEF StepKept
<1>8. ASSUME NEW x \in inflight,
             \/ Alchemy!InsertRow(x) \/ Alchemy!ExpireSelected(x)
             \/ Alchemy!TouchSelected(x) \/ Alchemy!RecoverSelected(x)
      PROVE  StepKept
  BY <1>8, AlchemyInsertRow, AlchemyWrites DEF StepKept
<1> QED
  BY <1>1, <1>2, <1>3, <1>4, <1>5, <1>6, <1>7, <1>8 DEF Alchemy!Next

----------------------------------------------------------------------------
\* EphemeralQueueBackend.

LEMMA EphemeralEnqueue ==
    ASSUME IndInv, NEW t \in Task, NEW o \in Options[t], Ephemeral!Enqueue(t, o)
    PROVE  BirthStep
<1>1. o \in EnqueueOptions
  BY SqlTableAssumption
<1>2. /\ IsFresh(t) /\ Statement(t, InsertedRow(o))
      /\ o.key # None => Ephemeral!ActiveByKey(o.key) = {}
  BY DEF Ephemeral!Enqueue, Ephemeral!IsFresh, Ephemeral!Statement,
         Ephemeral!NoRow, Ephemeral!NoRecord, Ephemeral!NewRecord,
         IsFresh, Statement, InsertedRow, NoRow, NoRecord, NewRecord
<1>3. o.key # None => \A s \in Task : IsActive(rows[s].rec) => rows[s].rec.key # o.key
  BY <1>2 DEF Ephemeral!ActiveByKey, Ephemeral!IsActive, Ephemeral!IsQueued,
              Ephemeral!QueuedStatuses, IsActive, IsQueued, QueuedStatuses
<1> QED
  BY <1>1, <1>2, <1>3, InsertIsBirth

LEMMA EphemeralEnqueueMany ==
    ASSUME IndInv, NEW s \in Task, NEW t \in Task, NEW o \in Options[s], NEW p \in Options[t],
           Ephemeral!EnqueueMany(s, t, o, p)
    PROVE  BirthStep
<1> DEFINE B == {s, t}
           q == [b \in B |-> IF b = s THEN o ELSE p]
<1>1. o \in EnqueueOptions /\ p \in EnqueueOptions
  BY SqlTableAssumption
<1>2. /\ s # t /\ IsFresh(s) /\ IsFresh(t)
      /\ o.key # p.key \/ o.key = None
      /\ rows' = [rows EXCEPT ![s] = InsertedRow(o), ![t] = InsertedRow(p)]
      /\ UNCHANGED <<inflight, claims, expiries>>
  BY DEF Ephemeral!EnqueueMany, Ephemeral!IsFresh, Ephemeral!NoRow, Ephemeral!NoRecord,
         Ephemeral!NewRecord, IsFresh, InsertedRow, NoRow, NoRecord, NewRecord
<1>3. ASSUME NEW k \in {o.key, p.key}, k # None, NEW u \in Task, IsActive(rows[u].rec)
      PROVE  rows[u].rec.key # k
  <2>1. Ephemeral!ActiveByKey(k) = {}
    BY <1>3 DEF Ephemeral!EnqueueMany
  <2> QED
    BY <1>3, <2>1 DEF Ephemeral!ActiveByKey, Ephemeral!IsActive, Ephemeral!IsQueued,
              Ephemeral!QueuedStatuses, IsActive, IsQueued, QueuedStatuses
<1>4. /\ q[s] = o /\ q[t] = p
      /\ B \in SUBSET Task /\ q \in [B -> EnqueueOptions]
  BY <1>1, <1>2
<1>5. rows \in [Task -> Row]
  BY DEF IndInv, TypeOK
<1>6. /\ rows' = [u \in Task |-> rows'[u]]
      /\ rows'[s] = InsertedRow(o) /\ rows'[t] = InsertedRow(p)
      /\ \A u \in Task \ B : rows'[u] = rows[u]
  BY <1>2, <1>5
<1>7. Birth(B, q)
  <2>1. \A b \in B : rows[b] = NoRow /\ rows'[b] = InsertedRow(q[b])
    BY <1>2, <1>4, <1>6 DEF IsFresh
  <2>2. \A a, b \in B : q[a].key = q[b].key /\ q[a].key # None => a = b
    BY <1>2, <1>4
  <2>3. \A b \in B, u \in Task :
          IsActive(rows[u].rec) /\ q[b].key # None => rows[u].rec.key # q[b].key
    BY <1>3, <1>4
  <2>4. \A x \in inflight' : x.op = "enqueue" => x.tasks \cap B = {}
    BY <1>2 DEF IsFresh
  <2> HIDE DEF B, q
  <2> QED
    BY <1>2, <1>6, <2>1, <2>2, <2>3, <2>4 DEF Birth
<1> QED
  BY <1>4, <1>7 DEF BirthStep

LEMMA EphemeralClaims ==
    ASSUME IndInv, NEW t \in Task, NEW expected, NEW ref,
           Ephemeral!ClaimTaskWithExpired(t, expected, ref)
    PROVE  TableStep
<1> DEFINE late == rows[t].ref = "none" /\ IsOverdue(rows[t].rec)
<1>1. /\ inflight' = inflight /\ IsQueued(rows[t].rec)
      /\ ReturnClaims(IF late THEN {} ELSE {t}) /\ ReturnExpired(IF late THEN {t} ELSE {})
      /\ rows' = [s \in Task |->
            IF s \in {t}
            THEN SetRecord(rows[s], IF late THEN ExpireRecord(rows[s].rec) ELSE ClaimTask(rows[s].rec))
            ELSE rows[s]]
  BY DEF Ephemeral!ClaimTaskWithExpired, Ephemeral!IsOverdue, Ephemeral!Update,
     Ephemeral!ReturnClaims, Ephemeral!ReturnExpired, Ephemeral!SetRecord,
     Ephemeral!ClaimTask, Ephemeral!ExpireRecord, Ephemeral!IsQueued, Ephemeral!QueuedStatuses,
     IsOverdue, ReturnClaims, ReturnExpired, SetRecord, ClaimTask, ExpireRecord, IsQueued,
     QueuedStatuses
<1> HIDE DEF late
<1>2. CASE late
  <2>1. RowsReturned({}, {}, {t})
    BY <1>1, <1>2 DEF RowsReturned, RowsAreUpdated
  <2> QED
    BY <2>1, ReturnedStep
<1>3. CASE ~late
  <2>1. RowsReturned({t}, {}, {})
    BY <1>1, <1>3 DEF RowsReturned, RowsAreUpdated
  <2> QED
    BY <2>1, ReturnedStep
<1> QED
  BY <1>2, <1>3

LEMMA EphemeralBatches ==
    ASSUME IndInv, NEW S \in SUBSET Task, NEW page \in SUBSET Task,
           \/ Ephemeral!ClaimManyWithExpired(S, page) \/ Ephemeral!ExpireOverdue(page)
    PROVE  TableStep
<1>1. CASE Ephemeral!ClaimManyWithExpired(S, page)
  <2> DEFINE X == {t \in S : Ephemeral!ExpiredByClaims(rows[t])}
             C == {t \in page : rows[t].ref # "reservation"}
  <2>1. /\ inflight' = inflight /\ ReturnClaims(C) /\ ReturnExpired(X)
        /\ page \subseteq {t \in S : Ephemeral!IsPaged(rows[t])}
        /\ rows' = [s \in Task |->
              IF s \in C \cup X
              THEN SetRecord(rows[s], IF IsOverdue(rows[s].rec) THEN ExpireRecord(rows[s].rec)
                                                                ELSE ClaimTask(rows[s].rec))
              ELSE rows[s]]
    BY <1>1 DEF Ephemeral!ClaimManyWithExpired, Ephemeral!Update, Ephemeral!SetRecord,
       Ephemeral!IsOverdue, Ephemeral!ClaimTask, Ephemeral!ExpireRecord,
       Ephemeral!ReturnClaims, Ephemeral!ReturnExpired,
       SetRecord, IsOverdue, ClaimTask, ExpireRecord, ReturnClaims, ReturnExpired
  <2>2. /\ \A s \in C : IsQueued(rows[s].rec) /\ ~IsOverdue(rows[s].rec)
        /\ \A s \in X : IsQueued(rows[s].rec) /\ IsOverdue(rows[s].rec)
    BY <2>1 DEF Ephemeral!ExpiredByClaims, Ephemeral!IsPaged, Ephemeral!IsQueued,
       Ephemeral!QueuedStatuses, Ephemeral!IsOverdue, IsQueued, QueuedStatuses, IsOverdue
  <2>3. C \cap X = {}
    BY <2>2
  <2> HIDE DEF C, X
  <2>4. RowsReturned(C, {}, X)
    BY <2>1, <2>2, <2>3 DEF RowsReturned, RowsAreUpdated
  <2> QED
    BY <2>4, ReturnedStep
<1>2. CASE Ephemeral!ExpireOverdue(page)
  <2> DEFINE X == {t \in page : rows[t].ref = "none"}
  <2>1. /\ inflight' = inflight /\ UNCHANGED claims /\ ReturnExpired(X)
        /\ \A s \in X : IsQueued(rows[s].rec)
        /\ rows' = [s \in Task |-> IF s \in X THEN SetRecord(rows[s], ExpireRecord(rows[s].rec))
                                              ELSE rows[s]]
    BY <1>2 DEF Ephemeral!ExpireOverdue, Ephemeral!Update, Ephemeral!SetRecord,
       Ephemeral!ExpireRecord, Ephemeral!ReturnExpired, Ephemeral!IsQueued,
       Ephemeral!QueuedStatuses, SetRecord, ExpireRecord, ReturnExpired, IsQueued, QueuedStatuses
  <2> HIDE DEF X
  <2>2. RowsReturned({}, {}, X)
    BY <2>1, NothingReturned DEF RowsReturned, RowsAreUpdated, IndInv
  <2> QED
    BY <2>2, ReturnedStep
<1> QED
  BY <1>1, <1>2

\* The transactions that return nothing.
LEMMA EphemeralTransactions ==
    ASSUME IndInv, NEW S \in SUBSET Task,
           \/ \E g : Ephemeral!TouchHeartbeats(S, g) \/ Ephemeral!NullHeartbeats(S, g)
           \/ \E b \in BOOLEAN : Ephemeral!CancelTasks(S, b)
           \/ Ephemeral!RequeueStaleRunning(S) \/ Ephemeral!CleanupTerminal(S)
    PROVE  TableStep
<1>1. ASSUME NEW g, Ephemeral!TouchHeartbeats(S, g) PROVE TableStep
  <2> DEFINE T == {s \in S : Ephemeral!Fenced(rows[s].rec, g)}
  <2>1. /\ UNCHANGED <<inflight, claims, expiries>>
        /\ rows' = [s \in Task |-> IF s \in T THEN SetRecord(rows[s], TouchHeartbeat(rows[s].rec))
                                              ELSE rows[s]]
    BY <1>1 DEF Ephemeral!TouchHeartbeats, Ephemeral!Transaction, Ephemeral!Update,
       Ephemeral!SetRecord, Ephemeral!TouchHeartbeat, SetRecord, TouchHeartbeat
  <2>2. \A s \in T \cap Task : IsStored(rows[s].rec)
    BY Statuses DEF Ephemeral!Fenced
  <2> HIDE DEF T
  <2>3. ManyRowsMove(T)
    BY <2>1, <2>2 DEF ManyRowsMove, RowsAreUpdated
  <2> QED
    BY <2>3, ManyRowsStep
<1>2. ASSUME NEW g, Ephemeral!NullHeartbeats(S, g) PROVE TableStep
  <2> DEFINE T == {s \in S : Ephemeral!IsStored(rows[s].rec) /\ rows[s].rec.retry_count = g}
  <2>1. /\ UNCHANGED <<inflight, claims, expiries>>
        /\ rows' = [s \in Task |-> IF s \in T THEN SetRecord(rows[s], NullHeartbeat(rows[s].rec))
                                              ELSE rows[s]]
    BY <1>2 DEF Ephemeral!NullHeartbeats, Ephemeral!Transaction, Ephemeral!Update,
       Ephemeral!SetRecord, Ephemeral!NullHeartbeat, SetRecord, NullHeartbeat
  <2>2. \A s \in T \cap Task : IsStored(rows[s].rec)
    BY DEF Ephemeral!IsStored, Ephemeral!TaskStatus, Ephemeral!QueuedStatuses,
       Ephemeral!TerminalStatuses, IsStored, TaskStatus, QueuedStatuses, TerminalStatuses
  <2> HIDE DEF T
  <2>3. ManyRowsMove(T)
    BY <2>1, <2>2 DEF ManyRowsMove, RowsAreUpdated
  <2> QED
    BY <2>3, ManyRowsStep
<1>3. ASSUME NEW b \in BOOLEAN, Ephemeral!CancelTasks(S, b) PROVE TableStep
  <2> DEFINE T == {s \in S : \/ Ephemeral!IsQueued(rows[s].rec)
                             \/ b /\ rows[s].rec.status = "running"}
  <2>1. /\ UNCHANGED <<inflight, claims, expiries>>
        /\ rows' = [s \in Task |-> IF s \in T THEN SetRecord(rows[s], CancelTask(rows[s].rec))
                                              ELSE rows[s]]
    BY <1>3 DEF Ephemeral!CancelTasks, Ephemeral!Transaction, Ephemeral!Update,
       Ephemeral!SetRecord, Ephemeral!CancelTask, SetRecord, CancelTask
  <2>2. \A s \in T \cap Task : IsActive(rows[s].rec)
    BY DEF Ephemeral!IsQueued, Ephemeral!QueuedStatuses, IsActive, IsQueued, QueuedStatuses
  <2> HIDE DEF T
  <2>3. ManyRowsMove(T)
    BY <2>1, <2>2 DEF ManyRowsMove, RowsAreUpdated
  <2> QED
    BY <2>3, ManyRowsStep
<1>4. CASE Ephemeral!RequeueStaleRunning(S)
  <2>1. /\ UNCHANGED <<inflight, claims, expiries>>
        /\ \A s \in S : rows[s].rec.status = "running"
        /\ rows' = [s \in Task |-> IF s \in S THEN SetRecord(rows[s], RecoverStale(rows[s].rec))
                                              ELSE rows[s]]
    BY <1>4 DEF Ephemeral!RequeueStaleRunning, Ephemeral!IsStale, Ephemeral!Transaction,
       Ephemeral!Update, Ephemeral!SetRecord, Ephemeral!RecoverStale,
       Ephemeral!AttemptsConsumed, SetRecord, RecoverStale, AttemptsConsumed
  <2>2. ManyRowsMove(S)
    BY <2>1 DEF ManyRowsMove, RowsAreUpdated
  <2> QED
    BY <2>2, ManyRowsStep
<1>5. CASE Ephemeral!CleanupTerminal(S)
  <2>1. /\ UNCHANGED <<inflight, claims, expiries>>
        /\ \A s \in S : IsTerminal(rows[s].rec)
        /\ rows' = [s \in Task |->
              IF s \in S THEN [SetRecord(rows[s], DeleteRecord(rows[s].rec)) EXCEPT
                                  !.ref = "none", !.holds_key = FALSE]
                         ELSE rows[s]]
    BY <1>5 DEF Ephemeral!CleanupTerminal, Ephemeral!IsTerminal, Ephemeral!TerminalStatuses,
       Ephemeral!Transaction, Ephemeral!Update, Ephemeral!SetRecord, Ephemeral!DeleteRecord,
       IsTerminal, TerminalStatuses, SetRecord, DeleteRecord
  <2>2. ManyRowsMove(S)
    BY <2>1 DEF ManyRowsMove, RowsAreUpdated
  <2> QED
    BY <2>2, ManyRowsStep
<1> QED
  BY <1>1, <1>2, <1>3, <1>4, <1>5

LEMMA EphemeralNext ==
    ASSUME IndInv, Ephemeral!Next
    PROVE  StepKept
<1>1. ASSUME NEW t \in Task, NEW o \in Options[t], Ephemeral!Enqueue(t, o) PROVE StepKept
  BY <1>1, EphemeralEnqueue DEF StepKept
<1>2. ASSUME NEW s \in Task, NEW t \in Task, NEW o \in Options[s], NEW p \in Options[t],
             Ephemeral!EnqueueMany(s, t, o, p)
      PROVE  StepKept
  BY <1>2, EphemeralEnqueueMany DEF StepKept
<1>3. ASSUME NEW t \in Task, NEW g, Ephemeral!AttemptCall(t, g) PROVE StepKept
  BY <1>3, EphemeralOneRow, EphemeralTransactions DEF StepKept, Ephemeral!AttemptCall
<1>4. ASSUME NEW t \in Task, NEW b \in BOOLEAN, Ephemeral!CancelTaskCall(t, b, None)
      PROVE  StepKept
  BY <1>4, EphemeralOneRow DEF StepKept
<1>5. ASSUME NEW t \in Task, Ephemeral!DispatchCall(t) \/ Ephemeral!ClockTick(t)
      PROVE  StepKept
  BY <1>5, EphemeralOneRow DEF StepKept, Ephemeral!DispatchCall
<1>6. ASSUME NEW S \in SUBSET Task,
             \/ \E b \in BOOLEAN : Ephemeral!CancelTasks(S, b)
             \/ Ephemeral!RequeueStaleRunning(S) \/ Ephemeral!CleanupTerminal(S)
      PROVE  StepKept
  BY <1>6, EphemeralTransactions DEF StepKept
<1>7. CASE Ephemeral!ClaimCall
  <2>1. ASSUME NEW t \in Task, NEW ref, NEW expected,
               Ephemeral!ClaimTaskWithExpired(t, expected, ref)
        PROVE  StepKept
    BY <2>1, EphemeralClaims DEF StepKept
  <2>2. ASSUME NEW S \in SUBSET Task, NEW page \in SUBSET S,
               Ephemeral!ClaimManyWithExpired(S, page)
        PROVE  StepKept
    <3>1. page \in SUBSET Task
      OBVIOUS
    <3> QED
      BY <2>2, <3>1, EphemeralBatches DEF StepKept
  <2>3. ASSUME NEW page \in SUBSET Task, Ephemeral!ExpireOverdue(page) PROVE StepKept
    BY <2>3, EphemeralBatches DEF StepKept
  <2> QED
    BY <1>7, <2>1, <2>2, <2>3 DEF Ephemeral!ClaimCall
<1> QED
  BY <1>1, <1>2, <1>3, <1>4, <1>5, <1>6, <1>7 DEF Ephemeral!Next

----------------------------------------------------------------------------
\* Whichever store it is.

LEMMA NextKeeps ==
    ASSUME IndInv, [StoreNext]_<<vars, store>>
    PROVE  IndInv' /\ RowsLiveOn
<1>1. CASE StoreNext
  <2>1. StepKept
    BY <1>1, SqlSpecNext, AlchemyNext, EphemeralNext DEF StoreNext
  <2> QED
    BY <2>1, TableStepKeeps, ReadStepKeeps, BirthKeeps DEF StepKept, BirthStep
<1>2. CASE UNCHANGED <<vars, store>>
  <2>1. TableStep
    BY <1>2 DEF TableStep, RowStep, vars, IndInv, TypeOK
  <2> QED
    BY <2>1, TableStepKeeps
<1> QED
  BY <1>1, <1>2

LEMMA Invariance == Spec => []IndInv
<1>1. StoreInit => IndInv
  BY InitInv DEF StoreInit
<1>2. IndInv /\ [StoreNext]_<<vars, store>> => IndInv'
  BY NextKeeps
<1> QED
  BY <1>1, <1>2, PTL DEF Spec

\* Every statement of the three stores leaves rows, calls and returned claims
\* of the shape they were declared with.
THEOREM TypeCorrect == Spec => []TypeOK
<1>1. IndInv => TypeOK
  BY DEF IndInv
<1> QED
  BY <1>1, Invariance, PTL

\* However many producers read a key at the same time, free it from ended rows
\* and insert under it, it has at most one active row: the unique column holds
\* for the rows that still hold their key, and active rows never give it up.
THEOREM OneActiveRowPerKey == Spec => []OneActivePerKey
<1>1. IndInv => OneActivePerKey
  BY DEF IndInv
<1> QED
  BY <1>1, Invariance, PTL

\* No generation of a row is returned to two callers, by any mix of single
\* claims, batches and late updates.  SQLSpec needs a driver that tells an
\* update of no row from an unknown count: without it the claim is settled by
\* reading the row again, and two callers can both believe they won.
THEOREM ClaimsAreExclusive ==
    ASSUME ReliableRowcount = TRUE
    PROVE  Spec => []ClaimIsExclusive
<1>1. IndInv => ClaimIsExclusive
  BY DEF IndInv
<1> QED
  BY <1>1, Invariance, PTL

\* Claims and sweeps that race to expire a row report it at most once between
\* them, and only a row that has expired.
THEOREM ExpiriesAreReportedOnce == Spec => []ExpiryReportedOnce
<1>1. IndInv => ExpiryReportedOnce
  <2> SUFFICES ASSUME IndInv, NEW t \in Task
               PROVE  /\ expiries[t] <= 1
                      /\ expiries[t] = 1 => rows[t].rec.status \in {"expired", "deleted"}
    BY DEF ExpiryReportedOnce
  <2> QED
    BY DEF IndInv, RowInv
<1> QED
  BY <1>1, Invariance, PTL

\* Refinement: under every interleaving of reads and guarded updates, each row
\* of each store steps through the life cycle of TaskLifecycle or stutters.
THEOREM RecordsLiveThePromisedLife == Spec => LivesThePromisedLife
<1>1. StoreInit => Lifecycle!Init
  <2> SUFFICES ASSUME StoreInit, NEW t \in Task PROVE LifeOf(t) = Lifecycle!Unborn
    BY DEF Lifecycle!Init
  <2>1. rows[t].rec = NoRecord /\ GenerationsClaimed(t) = {}
    BY DEF StoreInit, Init, NoRow, GenerationsClaimed
  <2>2. NoRecord \in QueuedTaskRecord /\ NoRecord.status = "absent" /\ NoRecord.retry_count = 0
    BY DEF NoRecord, QueuedTaskRecord
  <2> QED
    BY <2>1, <2>2, LifeStates DEF LifeOf, LifeOfRecord, Lifecycle!Unborn
<1>2. IndInv /\ [StoreNext]_<<vars, store>> => [Lifecycle!Next]_([t \in Task |-> LifeOf(t)])
  <2> SUFFICES ASSUME IndInv, [StoreNext]_<<vars, store>>, NEW t \in Task
               PROVE  LifeOf(t)' = LifeOf(t) \/ Lifecycle!Move(LifeOf(t), LifeOf(t)')
    BY DEF Lifecycle!Next
  <2>1. TypeOK' /\ RowsLiveOn
    BY NextKeeps DEF IndInv
  <2> QED
    BY <2>1, LifeMoves
<1> QED
  BY <1>1, <1>2, Invariance, PTL DEF Spec, LivesThePromisedLife, Lifecycle!Spec


(***************************************************************************)
(* Recovery of a stale heartbeat.                                          *)
(***************************************************************************)

\* Of the calls that have read and not yet written, each writes by an action
\* that asks for its kind: only recovery ends a call that has read a stale row.
LEMMA SqlSpecRecovery ==
    ASSUME SqlSpec!Next, NEW x \in inflight, x.op = "stale", x \notin inflight'
    PROVE  SqlSpec!RecoverSelected(x)
<1>1. CASE SqlSpec!ProducerStep
  BY <1>1 DEF SqlSpec!ProducerStep, SqlSpec!Enqueue, SqlSpec!Statement, SqlSpec!SelectKeys,
     SqlSpec!Select
<1>2. CASE SqlSpec!ClaimStep
  BY <1>2 DEF SqlSpec!ClaimStep, SqlSpec!SelectForClaim, SqlSpec!ClaimNext,
     SqlSpec!ClaimNextOptimistic, SqlSpec!ClaimMany, SqlSpec!SelectOverdue, SqlSpec!Select
<1>3. ASSUME NEW t \in Task, NEW g, SqlSpec!AttemptStep(t, g) PROVE FALSE
  BY <1>3 DEF SqlSpec!AttemptStep, SqlSpec!CompleteTaskCall, SqlSpec!FailTaskCall,
     SqlSpec!AssignWorkerCall, SqlSpec!InterruptTaskCall, SqlSpec!SelectForNull,
     SqlSpec!CancelTaskCall, SqlSpec!Statement, SqlSpec!Select
<1>4. ASSUME NEW t \in Task,
             \/ \E b \in BOOLEAN : SqlSpec!CancelTaskCall(t, b, None)
             \/ SqlSpec!SelectStale(t) \/ SqlSpec!ClockTick(t)
      PROVE  FALSE
  BY <1>4 DEF SqlSpec!CancelTaskCall, SqlSpec!SelectStale, SqlSpec!ClockTick,
     SqlSpec!Statement, SqlSpec!Select
<1>5. ASSUME NEW t \in Task, SqlSpec!DispatchStep(t) PROVE FALSE
  BY <1>5 DEF SqlSpec!DispatchStep, SqlSpec!SetExecutionRef, SqlSpec!SetExecutionBackend,
     SqlSpec!ReserveExternalDispatch, SqlSpec!ReserveScheduledExecutionRef,
     SqlSpec!ClearExecutionRef, SqlSpec!ReplaceExecutionRef, SqlSpec!ReleaseExternalDispatch,
     SqlSpec!FinalizeExternalDispatch, SqlSpec!Statement
<1>6. ASSUME NEW S \in SUBSET Task,
             (\E g : SqlSpec!TouchHeartbeats(S, g)) \/ SqlSpec!CleanupTerminal(S)
      PROVE  FALSE
  BY <1>6 DEF SqlSpec!TouchHeartbeats, SqlSpec!CleanupTerminal
<1>7. ASSUME NEW y \in inflight, SqlSpec!WriteStep(y) PROVE SqlSpec!RecoverSelected(x)
  BY <1>7 DEF SqlSpec!WriteStep, SqlSpec!InsertRows, SqlSpec!ExpireSelected,
     SqlSpec!NullSelected, SqlSpec!RecoverSelected, SqlSpec!ClaimSelected
<1> QED
  BY <1>1, <1>2, <1>3, <1>4, <1>5, <1>6, <1>7 DEF SqlSpec!Next

LEMMA AlchemyRecovery ==
    ASSUME Alchemy!Next, NEW x \in inflight, x.op = "stale", x \notin inflight'
    PROVE  Alchemy!RecoverSelected(x)
<1>1. ASSUME NEW t \in Task,
             \/ Alchemy!EnqueueCall(t) \/ Alchemy!ClaimCall(t) \/ Alchemy!CancelCall(t)
             \/ Alchemy!SelectStale(t) \/ Alchemy!ClockTick(t)
      PROVE  FALSE
  BY <1>1 DEF Alchemy!EnqueueCall, Alchemy!SelectKey, Alchemy!ClaimCall, Alchemy!ClaimNext,
     Alchemy!ClaimTaskWithExpired, Alchemy!CancelCall, Alchemy!CancelTaskCall,
     Alchemy!SelectStale, Alchemy!ClockTick, Alchemy!Statement, Alchemy!Select
<1>2. ASSUME NEW t \in Task, NEW g, Alchemy!AttemptCall(t, g) PROVE FALSE
  BY <1>2 DEF Alchemy!AttemptCall, Alchemy!CompleteTaskCall, Alchemy!FailTaskCall,
     Alchemy!AssignWorkerCall, Alchemy!InterruptTaskCall, Alchemy!NullHeartbeats,
     Alchemy!Statement
<1>3. ASSUME NEW t \in Task, Alchemy!DispatchCall(t) PROVE FALSE
  BY <1>3 DEF Alchemy!DispatchCall, Alchemy!SetExecutionRef, Alchemy!SetExecutionBackend,
     Alchemy!ReserveExternalDispatch, Alchemy!ReserveScheduledExecutionRef,
     Alchemy!ClearExecutionRef, Alchemy!ReplaceExecutionRef, Alchemy!ReleaseExternalDispatch,
     Alchemy!FinalizeExternalDispatch, Alchemy!Statement
<1>4. ASSUME NEW S \in SUBSET Task,
             \/ \E X : Alchemy!ClaimManyWithExpired(S, X)
             \/ Alchemy!ClaimManySkipLocked(S) \/ Alchemy!SelectOverdue(S)
             \/ Alchemy!CleanupTerminal(S) \/ \E g : Alchemy!SelectForTouch(S, g)
      PROVE  FALSE
  BY <1>4 DEF Alchemy!ClaimManyWithExpired, Alchemy!ClaimManySkipLocked,
     Alchemy!SelectOverdue, Alchemy!CleanupTerminal, Alchemy!SelectForTouch, Alchemy!Select
<1>5. ASSUME NEW y \in inflight,
             \/ Alchemy!InsertRow(y) \/ Alchemy!ExpireSelected(y)
             \/ Alchemy!TouchSelected(y) \/ Alchemy!RecoverSelected(y)
      PROVE  Alchemy!RecoverSelected(x)
  BY <1>5 DEF Alchemy!InsertRow, Alchemy!ExpireSelected, Alchemy!TouchSelected,
     Alchemy!RecoverSelected
<1> QED
  BY <1>1, <1>2, <1>3, <1>4, <1>5 DEF Alchemy!Next

\* No step of the ephemeral store leaves a call half done.
LEMMA EphemeralIsAtomic ==
    ASSUME Ephemeral!Next
    PROVE  UNCHANGED inflight
<1>1. ASSUME NEW t \in Task, NEW s \in Task, NEW o, NEW p,
             \/ Ephemeral!Enqueue(t, o) \/ Ephemeral!EnqueueMany(s, t, o, p)
             \/ \E b \in BOOLEAN : Ephemeral!CancelTaskCall(t, b, None)
             \/ Ephemeral!ClockTick(t)
      PROVE  UNCHANGED inflight
  BY <1>1 DEF Ephemeral!Enqueue, Ephemeral!EnqueueMany, Ephemeral!CancelTaskCall,
     Ephemeral!ClockTick, Ephemeral!Statement
<1>2. ASSUME NEW t \in Task, NEW g, Ephemeral!AttemptCall(t, g) PROVE UNCHANGED inflight
  BY <1>2 DEF Ephemeral!AttemptCall, Ephemeral!CompleteTaskCall, Ephemeral!FailTaskCall,
     Ephemeral!AssignWorkerCall, Ephemeral!InterruptTaskCall, Ephemeral!TouchHeartbeats,
     Ephemeral!NullHeartbeats, Ephemeral!CancelTaskCall, Ephemeral!Transaction,
     Ephemeral!Statement
<1>3. ASSUME NEW t \in Task, Ephemeral!DispatchCall(t) PROVE UNCHANGED inflight
  BY <1>3 DEF Ephemeral!DispatchCall, Ephemeral!SetExecutionRef,
     Ephemeral!SetExecutionBackend, Ephemeral!ReserveExternalDispatch,
     Ephemeral!ReserveScheduledExecutionRef, Ephemeral!ClearExecutionRef,
     Ephemeral!ReplaceExecutionRef, Ephemeral!ReleaseExternalDispatch,
     Ephemeral!FinalizeExternalDispatch, Ephemeral!Statement
<1>4. ASSUME NEW S \in SUBSET Task,
             \/ \E b \in BOOLEAN : Ephemeral!CancelTasks(S, b)
             \/ Ephemeral!RequeueStaleRunning(S) \/ Ephemeral!CleanupTerminal(S)
      PROVE  UNCHANGED inflight
  BY <1>4 DEF Ephemeral!CancelTasks, Ephemeral!RequeueStaleRunning,
     Ephemeral!CleanupTerminal, Ephemeral!Transaction
<1>5. CASE Ephemeral!ClaimCall
  BY <1>5 DEF Ephemeral!ClaimCall, Ephemeral!ClaimTaskWithExpired,
     Ephemeral!ClaimManyWithExpired, Ephemeral!ExpireOverdue
<1> QED
  BY <1>1, <1>2, <1>3, <1>4, <1>5 DEF Ephemeral!Next

\* requeue_stale_running reads a page of stale rows and writes them one by one
\* later.  The heartbeat_cutoff in that update leaves every row alone that its
\* owner has touched in between, in every store.
THEOREM TouchedRowsAreLeftAlone == Spec => LiveClaimIsNotRecovered
<1>1. IndInv /\ [StoreNext]_<<vars, store>> =>
        [\A x \in inflight : x.op = "stale" /\ x \notin inflight' =>
            \A t \in x.tasks : rows'[t] # rows[t] => IsStale(rows[t].rec)]_vars
  <2> SUFFICES ASSUME IndInv, StoreNext, NEW x \in inflight, x.op = "stale", x \notin inflight',
                      NEW t \in x.tasks, rows'[t] # rows[t]
               PROVE  IsStale(rows[t].rec)
    BY DEF vars
  <2>1. t \in Task /\ rows \in [Task -> Row]
    <3>1. x \in [op : {"claim", "claim_expired", "expire", "touch", "null", "stale"},
                 tasks : SUBSET Task, gen : Nat \cup {None}]
      BY DEF IndInv, TypeOK, IsCall
    <3> QED
      BY <3>1 DEF IndInv, TypeOK
  <2>2. CASE store = "sqlspec" /\ SqlSpec!Next
    <3>1. SqlSpec!RecoverSelected(x)
      BY <2>2, SqlSpecRecovery
    <3>2. SqlSpec!RecoverWhere(rows[t], x.gen)
      BY <3>1, <2>1 DEF SqlSpec!RecoverSelected, SqlSpec!Update
    <3> QED
      BY <3>2 DEF SqlSpec!RecoverWhere, SqlSpec!IsStale, IsStale
  <2>3. CASE store = "alchemy" /\ Alchemy!Next
    <3>1. Alchemy!RecoverSelected(x)
      BY <2>3, AlchemyRecovery
    <3>2. Alchemy!IsStale(rows[t].rec)
      BY <3>1, <2>1 DEF Alchemy!RecoverSelected, Alchemy!Update
    <3> QED
      BY <3>2 DEF Alchemy!IsStale, IsStale
  <2>4. CASE store = "ephemeral" /\ Ephemeral!Next
    BY <2>4, EphemeralIsAtomic
  <2> QED
    BY <2>2, <2>3, <2>4 DEF StoreNext
<1> QED
  BY <1>1, Invariance, PTL DEF Spec, LiveClaimIsNotRecovered

=============================================================================
