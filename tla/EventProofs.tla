---------------------------- MODULE EventProofs ----------------------------
(***************************************************************************)
(* An event moves through the buffers of the history and of live delivery  *)
(* in one direction only.  The buffers are eight stages in a row, from     *)
(* what subscribers have seen to what is still to be published, and the    *)
(* invariant says that of one task every event of an earlier stage comes   *)
(* before every event of a later one.                                      *)
(***************************************************************************)
EXTENDS EventDelivery, Integers, FiniteSetTheorems, SequenceTheorems, TLAPS

----------------------------------------------------------------------------
\* Sequences of events.

\* Of one task, all events of A come before all events of B.
Before(A, B) == \A x \in A, y \in B : x.task = y.task => x.n < y.n

Sorted(s) == \A i, j \in DOMAIN s : i < j /\ s[i].task = s[j].task => s[i].n < s[j].n

LEMMA EmptyIsSorted == Sorted(<<>>) /\ ToSet(<<>>) = {}
  BY DEF Sorted, ToSet

LEMMA OneIsSorted ==
    ASSUME NEW e \in Event
    PROVE  <<e>> \in Seq(Event) /\ Sorted(<<e>>) /\ ToSet(<<e>>) = {e}
  BY DEF Sorted, ToSet

LEMMA ElementsAreEvents ==
    ASSUME NEW s \in Seq(Event)
    PROVE  ToSet(s) \subseteq Event /\ (ToSet(s) = {} <=> s = <<>>)
<1>1. Len(s) \in Nat /\ DOMAIN s = 1..Len(s) /\ \A i \in 1..Len(s) : s[i] \in Event
  BY LenProperties, ElementOfSeq
<1>2. s # <<>> => 1 \in 1..Len(s)
  BY <1>1, EmptySeq
<1>3. s = <<>> => 1..Len(s) = {}
  BY <1>1
<1> QED
  BY <1>1, <1>2, <1>3 DEF ToSet

LEMMA Concatenation ==
    ASSUME NEW s \in Seq(Event), NEW t \in Seq(Event)
    PROVE  /\ s \o t \in Seq(Event)
           /\ ToSet(s \o t) = ToSet(s) \cup ToSet(t)
           /\ Sorted(s) /\ Sorted(t) /\ Before(ToSet(s), ToSet(t)) => Sorted(s \o t)
<1> DEFINE m == Len(s)
           n == Len(t)
<1>1. /\ m \in Nat /\ n \in Nat /\ DOMAIN s = 1..m /\ DOMAIN t = 1..n
      /\ s \o t \in Seq(Event) /\ DOMAIN (s \o t) = 1..(m + n)
      /\ \A i \in 1..m : (s \o t)[i] = s[i]
      /\ \A i \in 1..n : (s \o t)[m + i] = t[i]
  BY ConcatProperties, LenProperties
<1> HIDE DEF m, n
<1>2. \A i \in 1..(m + n) : i \in 1..m \/ (i - m \in 1..n /\ i = m + (i - m))
  BY <1>1
<1>3. ToSet(s \o t) = ToSet(s) \cup ToSet(t)
  <2>1. ToSet(s \o t) \subseteq ToSet(s) \cup ToSet(t)
    BY <1>1, <1>2 DEF ToSet
  <2>2. ToSet(s) \subseteq ToSet(s \o t)
    <3>1. \A i \in 1..m : i \in 1..(m + n)
      BY <1>1
    <3> QED
      BY <1>1, <3>1 DEF ToSet
  <2>3. ToSet(t) \subseteq ToSet(s \o t)
    <3>1. \A i \in 1..n : m + i \in 1..(m + n)
      BY <1>1
    <3> QED
      BY <1>1, <3>1 DEF ToSet
  <2> QED
    BY <2>1, <2>2, <2>3
<1>4. ASSUME Sorted(s), Sorted(t), Before(ToSet(s), ToSet(t)),
             NEW i \in 1..(m + n), NEW j \in 1..(m + n), i < j,
             (s \o t)[i].task = (s \o t)[j].task
      PROVE  (s \o t)[i].n < (s \o t)[j].n
  <2>1. CASE j \in 1..m
    <3>1. i \in 1..m
      BY <1>1, <1>4, <2>1
    <3> QED
      BY <1>1, <1>4, <2>1, <3>1 DEF Sorted
  <2>2. CASE i \in 1..m /\ j \notin 1..m
    <3>1. (s \o t)[i] \in ToSet(s)
      BY <1>1, <2>2 DEF ToSet
    <3>2. j - m \in 1..n /\ (s \o t)[j] = t[j - m]
      BY <1>1, <1>2, <2>2
    <3>3. (s \o t)[j] \in ToSet(t)
      BY <1>1, <3>2 DEF ToSet
    <3> QED
      BY <1>4, <3>1, <3>3 DEF Before
  <2>3. CASE i \notin 1..m
    <3>1. /\ i - m \in 1..n /\ j - m \in 1..n /\ i - m < j - m
      BY <1>1, <1>2, <1>4, <2>3
    <3>2. (s \o t)[i] = t[i - m] /\ (s \o t)[j] = t[j - m]
      BY <1>1, <1>2, <1>4, <2>3, <3>1
    <3>3. \A a, b \in 1..n : a < b /\ t[a].task = t[b].task => t[a].n < t[b].n
      BY <1>1, <1>4 DEF Sorted
    <3> QED
      BY <1>4, <3>1, <3>2, <3>3
  <2> QED
    BY <2>1, <2>2, <2>3
<1> QED
  BY <1>1, <1>3, <1>4 DEF Sorted

LEMMA Appending ==
    ASSUME NEW s \in Seq(Event), NEW e \in Event
    PROVE  /\ Append(s, e) \in Seq(Event)
           /\ ToSet(Append(s, e)) = ToSet(s) \cup {e}
           /\ Sorted(s) /\ Before(ToSet(s), {e}) => Sorted(Append(s, e))
<1>1. Append(s, e) = s \o <<e>>
  BY AppendIsConcat
<1> QED
  BY <1>1, Concatenation, OneIsSorted

\* Taking a prefix off.
LEMMA Splitting ==
    ASSUME NEW s \in Seq(Event), NEW k \in 0..Len(s)
    PROVE  LET a == SubSeq(s, 1, k)
               b == SubSeq(s, k + 1, Len(s))
           IN  /\ a \in Seq(Event) /\ b \in Seq(Event) /\ Len(a) = k
               /\ ToSet(s) = ToSet(a) \cup ToSet(b)
               /\ Sorted(s) => Sorted(a) /\ Sorted(b) /\ Before(ToSet(a), ToSet(b))
<1> DEFINE a == SubSeq(s, 1, k)
           b == SubSeq(s, k + 1, Len(s))
           m == Len(s)
<1>1. m \in Nat /\ DOMAIN s = 1..m /\ \A i \in 1..m : s[i] \in Event
  BY LenProperties, ElementOfSeq
<1>2. /\ a \in Seq(Event) /\ Len(a) = k /\ DOMAIN a = 1..k
      /\ \A i \in 1..k : a[i] = s[i]
  <2>1. \A i \in 1..k : s[i] \in Event
    BY <1>1
  <2> HIDE DEF m
  <2>2. a \in Seq(Event) /\ Len(a) = (IF 1 <= k THEN k - 1 + 1 ELSE 0)
        /\ \A i \in 1..(k - 1 + 1) : a[i] = s[1 + i - 1]
    BY <1>1, <2>1, SubSeqProperties
  <2>3. Len(a) = k
    BY <1>1, <2>2
  <2> QED
    BY <1>1, <2>2, <2>3, LenProperties
<1>3. /\ b \in Seq(Event) /\ Len(b) = m - k /\ DOMAIN b = 1..(m - k)
      /\ \A i \in 1..(m - k) : b[i] = s[k + i]
  <2>1. \A i \in (k + 1)..m : s[i] \in Event
    BY <1>1
  <2>2. b \in Seq(Event) /\ Len(b) = (IF k + 1 <= m THEN m - (k + 1) + 1 ELSE 0)
        /\ \A i \in 1..(m - (k + 1) + 1) : b[i] = s[(k + 1) + i - 1]
    BY <1>1, <2>1, SubSeqProperties
  <2> HIDE DEF m, b
  <2>3. Len(b) = m - k
    BY <1>1, <2>2
  <2>4. \A i \in 1..(m - k) : i \in 1..(m - (k + 1) + 1) /\ (k + 1) + i - 1 = k + i
    BY <1>1
  <2> QED
    BY <1>1, <2>2, <2>3, <2>4, LenProperties
<1> HIDE DEF a, b, m
<1>4. ToSet(s) = ToSet(a) \cup ToSet(b)
  <2>1. ToSet(s) \subseteq ToSet(a) \cup ToSet(b)
    <3> SUFFICES ASSUME NEW i \in 1..m PROVE s[i] \in ToSet(a) \cup ToSet(b)
      BY <1>1 DEF ToSet
    <3>1. CASE i <= k
      <4>1. i \in 1..k /\ a[i] = s[i]
        BY <1>1, <1>2, <3>1
      <4> QED
        BY <1>2, <4>1 DEF ToSet
    <3>2. CASE i > k
      <4>1. i - k \in 1..(m - k) /\ k + (i - k) = i
        BY <1>1, <3>2
      <4>2. b[i - k] = s[i]
        BY <1>3, <4>1
      <4> QED
        BY <1>3, <4>1, <4>2 DEF ToSet
    <3> QED
      BY <1>1, <3>1, <3>2
  <2>2. ToSet(a) \subseteq ToSet(s)
    <3>1. \A i \in 1..k : i \in 1..m
      BY <1>1 DEF m
    <3> QED
      BY <1>1, <1>2, <3>1 DEF ToSet
  <2>3. ToSet(b) \subseteq ToSet(s)
    <3>1. \A i \in 1..(m - k) : k + i \in 1..m
      BY <1>1
    <3> QED
      BY <1>1, <1>3, <3>1 DEF ToSet
  <2> QED
    BY <2>1, <2>2, <2>3
<1>5. ASSUME Sorted(s) PROVE Sorted(a) /\ Sorted(b) /\ Before(ToSet(a), ToSet(b))
  <2>1. Sorted(a)
    <3>1. \A i \in 1..k : i \in 1..m
      BY <1>1 DEF m
    <3> QED
      BY <1>1, <1>2, <1>5, <3>1 DEF Sorted
  <2>2. Sorted(b)
    <3>1. \A i, j \in 1..(m - k) : k + i \in 1..m /\ (i < j => k + i < k + j)
      BY <1>1
    <3>2. \A x, y \in 1..m : x < y /\ s[x].task = s[y].task => s[x].n < s[y].n
      BY <1>1, <1>5 DEF Sorted
    <3> SUFFICES ASSUME NEW i \in 1..(m - k), NEW j \in 1..(m - k), i < j, b[i].task = b[j].task
                 PROVE  b[i].n < b[j].n
      BY <1>3 DEF Sorted
    <3>3. b[i] = s[k + i] /\ b[j] = s[k + j]
      BY <1>3
    <3> QED
      BY <3>1, <3>2, <3>3
  <2>3. Before(ToSet(a), ToSet(b))
    <3>1. ASSUME NEW i \in 1..k, NEW j \in 1..(m - k), a[i].task = b[j].task
          PROVE  a[i].n < b[j].n
      <4>1. i \in 1..m /\ k + j \in 1..m /\ i < k + j
        BY <1>1 DEF m
      <4>2. a[i] = s[i] /\ b[j] = s[k + j]
        BY <1>2, <1>3
      <4>3. \A x, y \in 1..m : x < y /\ s[x].task = s[y].task => s[x].n < s[y].n
        BY <1>1, <1>5 DEF Sorted
      <4> QED
        BY <3>1, <4>1, <4>2, <4>3
    <3>2. ToSet(a) = {a[i] : i \in 1..k} /\ ToSet(b) = {b[j] : j \in 1..(m - k)}
      BY <1>2, <1>3 DEF ToSet
    <3> QED
      BY <3>1, <3>2 DEF Before
  <2> QED
    BY <2>1, <2>2, <2>3
<1>6. /\ a \in Seq(Event) /\ b \in Seq(Event) /\ Len(a) = k
      /\ ToSet(s) = ToSet(a) \cup ToSet(b)
      /\ Sorted(s) => Sorted(a) /\ Sorted(b) /\ Before(ToSet(a), ToSet(b))
  BY <1>2, <1>3, <1>4, <1>5
<1> QED
  BY <1>6 DEF a, b, m

LEMMA HeadAndTail ==
    ASSUME NEW s \in Seq(Event), s # <<>>
    PROVE  /\ Head(s) \in Event /\ Tail(s) \in Seq(Event)
           /\ ToSet(s) = {Head(s)} \cup ToSet(Tail(s))
           /\ Sorted(s) => Sorted(Tail(s)) /\ Before({Head(s)}, ToSet(Tail(s)))
<1> DEFINE a == SubSeq(s, 1, 1)
           b == SubSeq(s, 1 + 1, Len(s))
<1>1. Len(s) \in Nat /\ 1 \in 1..Len(s) /\ 1 \in 0..Len(s)
  BY EmptySeq, LenProperties
<1>2. Head(s) \in Event /\ Head(s) = s[1] /\ Tail(s) = b
  BY HeadTailProperties, TailIsSubSeq
<1>3. /\ a \in Seq(Event) /\ b \in Seq(Event) /\ Len(a) = 1
      /\ ToSet(s) = ToSet(a) \cup ToSet(b)
      /\ Sorted(s) => Sorted(a) /\ Sorted(b) /\ Before(ToSet(a), ToSet(b))
  BY <1>1, Splitting
<1>4. a[1] = s[1]
  <2>1. \A i \in 1..1 : s[i] \in Event
    BY <1>1, ElementOfSeq
  <2>2. \A i \in 1..(1 - 1 + 1) : a[i] = s[1 + i - 1]
    BY <2>1, SubSeqProperties
  <2> QED
    BY <2>2
<1> HIDE DEF a, b
<1>5. ToSet(a) = {Head(s)}
  <2>1. DOMAIN a = {1}
    BY <1>3, LenProperties
  <2> QED
    BY <1>2, <1>4, <2>1 DEF ToSet
<1> QED
  BY <1>2, <1>3, <1>5

\* What Of keeps are the events of T, in their order: the k-th of them is the
\* one that has k of them up to its place.
LEMMA OfFacts ==
    ASSUME NEW s \in Seq(Event), NEW T
    PROVE  /\ Of(s, T) \in Seq(Event)
           /\ ToSet(Of(s, T)) = {x \in ToSet(s) : x.task \in T}
           /\ Sorted(s) => Sorted(Of(s, T))
<1> DEFINE at == {i \in DOMAIN s : s[i].task \in T}
           upTo(i) == {j \in at : j <= i}
           rank == [i \in at |-> Cardinality(upTo(i))]
           N == Cardinality(at)
           place(k) == CHOOSE i \in at : Cardinality(upTo(i)) = k
           o == [k \in 1..N |-> s[place(k)]]
<1>1. Len(s) \in Nat /\ DOMAIN s = 1..Len(s) /\ \A i \in 1..Len(s) : s[i] \in Event
  BY LenProperties, ElementOfSeq
<1>2. IsFiniteSet(at) /\ at \subseteq 1..Len(s)
  <2>1. at \in SUBSET (1..Len(s)) /\ IsFiniteSet(1..Len(s))
    BY <1>1, FS_Interval
  <2> HIDE DEF at
  <2> QED
    BY <2>1, FS_Subset
<1>3. N \in Nat
  BY <1>2, FS_CardinalityType
<1>4. \A i \in at : IsFiniteSet(upTo(i)) /\ rank[i] = Cardinality(upTo(i)) /\ rank[i] \in 1..N
  <2> SUFFICES ASSUME NEW i \in at
               PROVE  IsFiniteSet(upTo(i)) /\ Cardinality(upTo(i)) \in 1..N
    OBVIOUS
  <2>1. IsFiniteSet(upTo(i)) /\ Cardinality(upTo(i)) <= N
    <3>1. upTo(i) \in SUBSET at
      OBVIOUS
    <3> HIDE DEF at, upTo
    <3> QED
      BY <1>2, <3>1, FS_Subset
  <2>2. Cardinality(upTo(i)) \in Nat
    BY <2>1, FS_CardinalityType
  <2>3. upTo(i) # {}
    BY <1>2
  <2>4. Cardinality(upTo(i)) # 0
    BY <2>1, <2>3, FS_EmptySet
  <2> HIDE DEF at, upTo
  <2> QED
    BY <1>3, <2>1, <2>2, <2>4
<1>5. \A i, j \in at : i < j => rank[i] < rank[j]
  <2> SUFFICES ASSUME NEW i \in at, NEW j \in at, i < j
               PROVE  rank[i] < rank[j]
    OBVIOUS
  <2>1. upTo(i) \in SUBSET upTo(j) /\ j \in upTo(j) /\ j \notin upTo(i)
    BY <1>2
  <2> HIDE DEF at, upTo, rank, N
  <2>2. rank[i] = Cardinality(upTo(i)) /\ rank[j] = Cardinality(upTo(j)) /\ IsFiniteSet(upTo(j))
        /\ rank[i] \in Nat /\ rank[j] \in Nat
    BY <1>3, <1>4
  <2>3. Cardinality(upTo(i)) <= Cardinality(upTo(j)) /\ Cardinality(upTo(i)) # Cardinality(upTo(j))
    BY <2>1, <2>2, FS_Subset
  <2> QED
    BY <2>2, <2>3
<1>6. \A i, j \in at : (rank[i] = rank[j] => i = j) /\ (rank[i] < rank[j] => i < j)
  <2> SUFFICES ASSUME NEW i \in at, NEW j \in at
               PROVE  (rank[i] = rank[j] => i = j) /\ (rank[i] < rank[j] => i < j)
    OBVIOUS
  <2> HIDE DEF at, upTo, rank, N
  <2>1. i \in Nat /\ j \in Nat /\ rank[i] \in Nat /\ rank[j] \in Nat
    BY <1>1, <1>2, <1>3, <1>4
  <2>2. (i < j => rank[i] < rank[j]) /\ (j < i => rank[j] < rank[i])
    BY <1>5
  <2> QED
    BY <2>1, <2>2
<1>7. \A k \in 1..N : \E i \in at : rank[i] = k
  <2>1. IsFiniteSet(1..N) /\ Cardinality(1..N) = N
    <3> HIDE DEF N
    <3>1. IsFiniteSet(1..N) /\ Cardinality(1..N) = IF 1 > N THEN 0 ELSE N - 1 + 1
      BY <1>3, FS_Interval
    <3> QED
      BY <1>3, <3>1
  <2>2. rank \in [at -> 1..N]
    BY <1>4
  <2>3. rank \in Injection(at, 1..N)
    BY <1>6, <2>2 DEF Injection, IsInjective
  <2> HIDE DEF at, rank
  <2>4. rank \in Surjection(at, 1..N)
    BY <2>1, <2>3, FS_Injection
  <2> QED
    BY <2>4 DEF Surjection
<1>8. \A k \in 1..N : place(k) \in at /\ rank[place(k)] = k
  <2> SUFFICES ASSUME NEW k \in 1..N
               PROVE  place(k) \in at /\ Cardinality(upTo(place(k))) = k
    OBVIOUS
  <2>1. \E i \in at : Cardinality(upTo(i)) = k
    BY <1>4, <1>7
  <2> HIDE DEF at, upTo
  <2> QED
    BY <2>1
<1>9. Of(s, T) = o
  BY DEF Of
<1> HIDE DEF at, upTo, rank, N, place
<1>10. \A k \in 1..N : o[k] = s[place(k)] /\ place(k) \in 1..Len(s) /\ o[k] \in Event
  BY <1>1, <1>2, <1>8
<1>11. o \in Seq(Event) /\ Len(o) = N /\ DOMAIN o = 1..N
  BY <1>3, <1>10
<1> HIDE DEF o
<1>12. ToSet(o) = {x \in ToSet(s) : x.task \in T}
  <2>1. ToSet(o) = {s[i] : i \in at}
    <3>1. \A i \in at : rank[i] \in 1..N /\ place(rank[i]) = i
      BY <1>4, <1>6, <1>8
    <3>2. \A i \in at : o[rank[i]] = s[i]
      BY <1>10, <3>1
    <3> QED
      BY <1>8, <1>10, <1>11, <3>1, <3>2 DEF ToSet
  <2> QED
    BY <2>1 DEF ToSet, at
<1>13. ASSUME Sorted(s) PROVE Sorted(o)
  <2> SUFFICES ASSUME NEW k \in 1..N, NEW m \in 1..N, k < m, o[k].task = o[m].task
               PROVE  o[k].n < o[m].n
    BY <1>11 DEF Sorted
  <2>1. place(k) < place(m)
    BY <1>6, <1>8
  <2> QED
    BY <1>1, <1>10, <1>13, <2>1 DEF Sorted
<1> QED
  BY <1>9, <1>11, <1>12, <1>13

\* A batch is no longer than what is pending.
LEMMA BatchIsPending ==
    ASSUME NEW s \in Seq(Event), NEW targets
    PROVE  Cardinality(ToSet(s) \cap targets) \in 0..Len(s)
<1>1. Len(s) \in Nat /\ DOMAIN s = 1..Len(s) /\ s \in [1..Len(s) -> Event]
  BY LenProperties
<1>2. IsFiniteSet(1..Len(s)) /\ Cardinality(1..Len(s)) = Len(s)
  <2>1. IsFiniteSet(1..Len(s)) /\ Cardinality(1..Len(s)) = IF 1 > Len(s) THEN 0 ELSE Len(s) - 1 + 1
    BY <1>1, FS_Interval
  <2> QED
    BY <1>1, <2>1
<1>3. s \in Surjection(1..Len(s), ToSet(s))
  BY <1>1 DEF Surjection, ToSet
<1>4. IsFiniteSet(ToSet(s)) /\ Cardinality(ToSet(s)) <= Len(s)
  BY <1>2, <1>3, FS_Surjection
<1>5. IsFiniteSet(ToSet(s) \cap targets) /\ Cardinality(ToSet(s) \cap targets) <= Cardinality(ToSet(s))
  BY <1>4, FS_Subset
<1> QED
  BY <1>1, <1>4, <1>5, FS_CardinalityType

----------------------------------------------------------------------------
\* The types of the variables.

Delivery == [items : Seq(Event), release : Event \cup {NoEvent}, sending : BOOLEAN]
Buffer == [order : Seq(Event), deferred : Seq(Delivery), deferred_size : Int, lost : SUBSET Event]
Drain == [owner : Thread \cup {"none"}, key : Task \cup {All}, release : Event \cup {NoEvent},
          stage : {"none", "before", "after"}, op : Delivery]
Call == [op : {"idle", "add", "drain"}, key : Task \cup {All}, event : Event \cup {NoEvent}]
History == [state : {"accepting", "closing", "draining", "closed"}, pending : Seq(Event),
            committed : Seq(Event), active : Event \cup {NoEvent}, error : BOOLEAN,
            fatal : BOOLEAN, backoff : BOOLEAN]
Flush == [pc : {"idle", "lock", "writing", "wait"}, targets : SUBSET Event, batch : Seq(Event)]

TypeInv ==
    /\ config \in Configs
    /\ live \in Buffer /\ drain \in Drain /\ calls \in [Thread -> Call]
    /\ callback \in {NoEvent, Reply} /\ bound \subseteq {Reply}
    /\ seen \in [Task -> Seq(Event)]
    /\ hist \in History /\ flushes \in [Flusher -> Flush] /\ log \in [Event -> Nat]
    /\ next \in [Producer -> 1..(MaxLength + 1)]

LEMMA EventFacts ==
    /\ NoEvent \notin Event /\ Reply \in Event /\ Reply.task = "reply" /\ Reply.n = 1
    /\ \A e \in Event : e.task \in Task /\ e.n \in Nat
    /\ \A e \in Event : e.task = "reply" <=> e = Reply
    /\ \A e \in Event : e # Reply => e.task \in Producer /\ e.n \in 1..MaxLength
                                      /\ e = [task |-> e.task, n |-> e.n]
    /\ \A p \in Producer, n \in 1..MaxLength :
          [task |-> p, n |-> n] \in Event /\ [task |-> p, n |-> n] # Reply
    /\ MaxLength \in Nat
<1>1. MaxLength \in Nat /\ "reply" \notin Producer /\ "none" \notin Producer
  BY LiveEventsAssumption
<1> QED
  BY <1>1 DEF Event, NoEvent, Reply, Task

LEMMA NameFacts ==
    /\ All \notin Task /\ "reply" \in Task /\ "reply" \notin Producer
    /\ "none" \notin Thread /\ "none" \notin Flusher
    /\ {"releaser", "loop", "closer"} \subseteq Thread /\ Producer \subseteq Thread
    /\ {"timer", "closer", "callback"} \subseteq Flusher /\ Producer \subseteq Flusher
    /\ Producer \cap {"releaser", "loop", "closer", "timer", "callback"} = {}
  BY LiveEventsAssumption DEF All, Task, Thread, Flusher

----------------------------------------------------------------------------
\* The stages, and the invariant.

OpEvents(op) == ToSet(op.items) \cup ({op.release} \ {NoEvent})

\* An operation sends its items and then its own event.
OpSorted(op) == Sorted(op.items) /\ Before(ToSet(op.items), {op.release} \ {NoEvent})

\* The same of a queue of operations.
EventsOf(q) == UNION {OpEvents(q[i]) : i \in DOMAIN q}

InLine(q) ==
    /\ \A i \in DOMAIN q : OpSorted(q[i])
    /\ \A i, j \in DOMAIN q : i < j => Before(OpEvents(q[i]), OpEvents(q[j]))

SeenEvents == UNION {ToSet(seen[task]) : task \in Task}
DeferredEvents == EventsOf(live.deferred)

\* The events of the calls that wait.  A drain has its own event among these
\* until it comes to it.
Waiting == {calls[t].event : t \in {u \in Thread : drain.owner # u \/ drain.stage = "before"}} \ {NoEvent}

NothingSeen == \A task \in Task : seen[task] = <<>>
ReplyIsDue == (callback = Reply /\ bound = {}) \/ NothingSeen
Unpublished == {e \in Event : IF e = Reply THEN ReplyIsDue ELSE e.n >= next[e.task]}

Stage == <<SeenEvents, OpEvents(drain.op), DeferredEvents, ToSet(live.order), Waiting,
           ToSet(hist.committed), ToSet(hist.pending), Unpublished>>

\* Of one task, the events of an earlier stage come before those of a later one.
Chain(s) == \A k, m \in 1..8 : k < m => Before(s[k], s[m])

\* And within a stage that is a queue, they are in order.
Queues ==
    /\ \A task \in Task : Sorted(seen[task]) /\ \A i \in DOMAIN seen[task] : seen[task][i].task = task
    /\ OpSorted(drain.op)
    /\ InLine(live.deferred)
    /\ Sorted(live.order) /\ Sorted(hist.committed) /\ Sorted(hist.pending)

\* What thread t may wait for.
CallIsRight(t, c) ==
    /\ c.op = "idle" => c = IdleCall
    /\ c.op = "add" => c.event # NoEvent
    /\ c.op = "drain" => c.key = IF c.event = NoEvent THEN All ELSE c.event.task
    /\ t \in Producer /\ c.event # NoEvent => c.event.task = t
    /\ t \in {"loop", "closer"} => c.event = NoEvent /\ c.op # "add"

\* A publisher without a history has nothing in it, and one with a history
\* sends nothing in the producers' own time.
Paths ==
    /\ Buffered => \A p \in Producer : calls[p] = IdleCall
    /\ ~Buffered => calls["releaser"] = IdleCall /\ hist.pending = <<>> /\ hist.committed = <<>> /\ bound = {}
    /\ hist.active = NoEvent => calls["releaser"] = IdleCall

CallsInv ==
    /\ \A t \in Thread : CallIsRight(t, calls[t])
    /\ \A t \in Thread : drain.owner = t =>
          /\ calls[t].op = "drain" /\ drain.key = calls[t].key
          /\ drain.release = calls[t].event /\ drain.stage # "none"
    /\ drain.owner = "none" => drain = NoDrain
    /\ callback = Reply => drain # NoDrain /\ ~NothingSeen
    /\ Paths

\* A write is under way under the lock, for a batch at the front of pending.
Batches ==
    \A t \in Flusher : flushes[t].pc = "writing" =>
        /\ writer = t
        /\ Len(flushes[t].batch) <= Len(hist.pending)
        /\ flushes[t].batch = SubSeq(hist.pending, 1, Len(flushes[t].batch))

\* Every event of a producer is at a stage, or lost knowingly.
Accounted ==
    \A e \in Event : e # Reply => e \in live.lost \/ \E k \in 1..8 : e \in Stage[k]

\* What has left the history has its row.
Durable == Buffered => \A k \in 1..6 : \A e \in Stage[k] : log[e] = 1

IInv == TypeInv /\ Chain(Stage) /\ Queues /\ CallsInv /\ Batches /\ Accounted /\ Durable

----------------------------------------------------------------------------
\* Moving events along the stages.

\* The events X leave stages lo..hi for stage to, and otherwise nothing comes
\* to a stage.
Moves(s, u, X, lo, to, hi) ==
    /\ \A x \in X : \E j \in lo..hi : x \in s[j]
    /\ \A k \in 1..8 : k # to => u[k] \subseteq s[k]
    /\ u[to] \subseteq s[to] \cup X
    /\ \A k \in lo..hi : (k < to => Before(u[k], X)) /\ (k > to => Before(X, u[k]))

LEMMA MovingKeepsChain ==
    ASSUME NEW s, NEW u, NEW X, NEW lo \in 1..8, NEW to \in 1..8, NEW hi \in 1..8,
           lo <= to, to <= hi, Chain(s), Moves(s, u, X, lo, to, hi)
    PROVE  Chain(u)
<1> SUFFICES ASSUME NEW k \in 1..8, NEW m \in 1..8, k < m,
                    NEW x \in u[k], NEW y \in u[m], x.task = y.task
             PROVE  x.n < y.n
  BY DEF Chain, Before
<1>1. CASE x \in s[k] /\ y \in s[m]
  BY <1>1 DEF Chain, Before
<1>2. CASE y \notin s[m]
  <2>1. m = to /\ y \in X
    BY <1>2 DEF Moves
  <2>2. CASE k \in lo..hi
    BY <2>1, <2>2 DEF Moves, Before
  <2>3. CASE k \notin lo..hi
    <3>1. PICK j \in lo..hi : y \in s[j]
      BY <2>1 DEF Moves
    <3>2. j \in 1..8 /\ k < j /\ x \in s[k]
      BY <2>1, <2>3 DEF Moves
    <3> QED
      BY <3>1, <3>2 DEF Chain, Before
  <2> QED
    BY <2>2, <2>3
<1>3. CASE x \notin s[k]
  <2>1. k = to /\ x \in X
    BY <1>3 DEF Moves
  <2>2. CASE m \in lo..hi
    BY <2>1, <2>2 DEF Moves, Before
  <2>3. CASE m \notin lo..hi
    <3>1. PICK j \in lo..hi : x \in s[j]
      BY <2>1 DEF Moves
    <3>2. j \in 1..8 /\ j < m /\ y \in s[m]
      BY <2>1, <2>3 DEF Moves
    <3> QED
      BY <3>1, <3>2 DEF Chain, Before
  <2> QED
    BY <2>2, <2>3
<1> QED
  BY <1>1, <1>2, <1>3

----------------------------------------------------------------------------
\* The operations of the live buffer.

LEMMA MatchingFacts ==
    ASSUME NEW l \in Buffer, NEW key \in Task \cup {All}
    PROVE  /\ Matching(l, key) \in Seq(Event) /\ Without(l, key) \in Seq(Event)
           /\ ToSet(l.order) = ToSet(Matching(l, key)) \cup ToSet(Without(l, key))
           /\ \A x \in ToSet(Matching(l, key)), y \in ToSet(Without(l, key)) : x.task # y.task
           /\ key # All => /\ \A x \in ToSet(Matching(l, key)) : x.task = key
                           /\ \A x \in ToSet(Without(l, key)) : x.task # key
           /\ key = All => ToSet(Without(l, key)) = {}
           /\ Sorted(l.order) => Sorted(Matching(l, key)) /\ Sorted(Without(l, key))
<1>1. l.order \in Seq(Event)
  BY DEF Buffer
<1>2. /\ Matching(l, key) \in Seq(Event) /\ Without(l, key) \in Seq(Event)
      /\ ToSet(Matching(l, key)) = {x \in ToSet(l.order) : x.task \in KeyTasks(key)}
      /\ ToSet(Without(l, key)) = {x \in ToSet(l.order) : x.task \in Task \ KeyTasks(key)}
      /\ Sorted(l.order) => Sorted(Matching(l, key)) /\ Sorted(Without(l, key))
  BY <1>1, OfFacts DEF Matching, Without
<1>3. \A x \in ToSet(l.order) : x.task \in Task
  BY <1>1, ElementsAreEvents, EventFacts
<1>4. KeyTasks(key) = IF key = All THEN Task ELSE {key}
  BY DEF KeyTasks
<1> QED
  BY <1>2, <1>3, <1>4

\* r is what becomes of the buffer l that an event e is added to, as long as
\* nothing leaves it for the sink.
Admits(l, r, e) ==
    /\ r \in Buffer /\ r.deferred = l.deferred /\ l.lost \subseteq r.lost
    /\ Sorted(r.order) /\ ToSet(r.order) \subseteq ToSet(l.order) \cup {e}
    /\ ToSet(l.order) \subseteq ToSet(r.order) \cup r.lost

LEMMA AddOutcomes ==
    ASSUME NEW l \in Buffer, NEW e \in Event, NEW reentrant \in BOOLEAN,
           Sorted(l.order), Before(ToSet(l.order), {e})
    PROVE  \/ Add(l, e, reentrant) = Outcome(l, "block") /\ ~reentrant
           \/ \E r \in Buffer :
                 /\ Admits(l, r, e) /\ e \in ToSet(r.order) \cup r.lost
                 /\ Add(l, e, reentrant) \in {Outcome(r, "done"), Outcome(r, "raise"),
                                              Dispatch(r, All, NoEvent, reentrant)}
<1> DEFINE full == Len(l.order) >= LivePending
           dropped == full /\ config.overflow = "drop_oldest"
           room == IF full /\ config.overflow = "drop_oldest"
                   THEN [l EXCEPT !.order = Tail(@), !.lost = @ \cup {Head(l.order)}] ELSE l
           refused == [room EXCEPT !.lost = @ \cup {e}]
           flushes0 == Len(room.order) + 1 >= LiveBatch
           added == [room EXCEPT !.order = Append(@, e)]
           crowded == room.deferred_size + Len(room.order) + 1 > LivePending
<1>1. l.order \in Seq(Event) /\ l.lost \subseteq Event /\ l.deferred \in Seq(Delivery) /\ l.deferred_size \in Int
  BY DEF Buffer
<1>2. room \in Buffer /\ Admits(l, room, e) /\ Before(ToSet(room.order), {e})
  <2>1. CASE dropped
    <3>1. l.order # <<>>
      BY <1>1, <2>1, LenProperties, LiveEventsAssumption
    <3>2. /\ Head(l.order) \in Event /\ Tail(l.order) \in Seq(Event)
          /\ ToSet(l.order) = {Head(l.order)} \cup ToSet(Tail(l.order)) /\ Sorted(Tail(l.order))
      BY <1>1, <3>1, HeadAndTail
    <3>3. room = [l EXCEPT !.order = Tail(@), !.lost = @ \cup {Head(l.order)}]
      BY <2>1
    <3>4. /\ room \in Buffer /\ room.order = Tail(l.order) /\ room.lost = l.lost \cup {Head(l.order)}
          /\ room.deferred = l.deferred
      BY <1>1, <3>2, <3>3 DEF Buffer
    <3> HIDE DEF room
    <3> QED
      BY <3>2, <3>4 DEF Admits, Before
  <2>2. CASE ~dropped
    BY <2>2 DEF Admits
  <2> QED
    BY <2>1, <2>2
<1> HIDE DEF room
<1>3. refused \in Buffer /\ Admits(l, refused, e) /\ e \in ToSet(refused.order) \cup refused.lost
  <2>1. /\ refused \in Buffer /\ refused.order = room.order /\ refused.deferred = room.deferred
        /\ refused.lost = room.lost \cup {e}
    BY <1>2 DEF Buffer
  <2> HIDE DEF refused
  <2> QED
    BY <1>2, <2>1 DEF Admits
<1>4. added \in Buffer /\ Admits(l, added, e) /\ e \in ToSet(added.order) \cup added.lost
  <2>1. room.order \in Seq(Event) /\ Sorted(room.order)
    BY <1>2 DEF Buffer, Admits
  <2>2. /\ Append(room.order, e) \in Seq(Event) /\ Sorted(Append(room.order, e))
        /\ ToSet(Append(room.order, e)) = ToSet(room.order) \cup {e}
    BY <1>2, <2>1, Appending
  <2>3. /\ added \in Buffer /\ added.order = Append(room.order, e) /\ added.deferred = room.deferred
        /\ added.lost = room.lost
    BY <1>2, <2>2 DEF Buffer
  <2> HIDE DEF added
  <2> QED
    BY <1>2, <2>2, <2>3 DEF Admits
<1> HIDE DEF refused, added
<1>5. \/ Add(l, e, reentrant) = Outcome(l, "block") /\ ~reentrant
      \/ Add(l, e, reentrant) \in {Outcome(refused, "done"), Outcome(refused, "raise"),
                                   Outcome(added, "done"), Dispatch(added, All, NoEvent, reentrant)}
  BY DEF Add, room, refused, added
<1> QED
  BY <1>3, <1>4, <1>5

\* What is deferred is one sorted operation behind the others.
LEMMA DeferOutcomes ==
    ASSUME NEW l \in Buffer, NEW key \in Task \cup {All}, NEW release \in Event \cup {NoEvent},
           Sorted(l.order), release # NoEvent => key = release.task,
           Before(ToSet(l.order), {release} \ {NoEvent})
    PROVE  /\ Defer(l, key, release).then \in {"done", "raise"}
           /\ LET d == Defer(l, key, release).live
              IN  /\ d \in Buffer /\ l.lost \subseteq d.lost
                  /\ \/ d.order = l.order /\ d.deferred = l.deferred /\ {release} \ {NoEvent} \subseteq d.lost
                     \/ \E op \in Delivery :
                           /\ d.deferred = Append(l.deferred, op) /\ OpSorted(op)
                           /\ OpEvents(op) = ToSet(Matching(l, key)) \cup ({release} \ {NoEvent})
                           /\ d.order = Without(l, key) /\ d.lost = l.lost
<1> DEFINE op == Operation(Matching(l, key), release)
           o == Defer(l, key, release)
           d1 == [l EXCEPT !.lost = @ \cup ({release} \ {NoEvent})]
           d2 == [l EXCEPT !.order = Without(l, key), !.deferred = Append(@, op), !.deferred_size = @ + SizeOf(op)]
<1>1. \/ o = Outcome(l, "done") /\ op = NoOperation
      \/ o = Outcome(d1, "raise")
      \/ o = Outcome(d2, "done")
  BY Zenon DEF Defer
<1>2. /\ Matching(l, key) \in Seq(Event) /\ Without(l, key) \in Seq(Event)
      /\ ToSet(Matching(l, key)) \subseteq ToSet(l.order) /\ Sorted(Matching(l, key))
  BY MatchingFacts
<1>3. /\ op \in Delivery /\ OpSorted(op) /\ SizeOf(op) \in Int
      /\ OpEvents(op) = ToSet(Matching(l, key)) \cup ({release} \ {NoEvent})
  <2>1. op.items = Matching(l, key) /\ op.release = release /\ op \in Delivery
    BY <1>2 DEF Operation, Delivery
  <2>2. Len(op.items) \in Nat
    BY <1>2, <2>1, LenProperties
  <2> HIDE DEF op
  <2> QED
    BY <1>2, <2>1, <2>2 DEF OpSorted, OpEvents, SizeOf, Before
<1>4. op = NoOperation => release = NoEvent
  BY DEF Operation, NoOperation
<1> HIDE DEF op
<1>5. d1 \in Buffer /\ d1.order = l.order /\ d1.deferred = l.deferred /\ d1.lost = l.lost \cup ({release} \ {NoEvent})
  BY DEF Buffer
<1>6. /\ d2 \in Buffer /\ d2.order = Without(l, key) /\ d2.lost = l.lost
      /\ d2.deferred = Append(l.deferred, op)
  <2>1. Append(l.deferred, op) \in Seq(Delivery) /\ l.deferred_size + SizeOf(op) \in Int
    BY <1>3, AppendProperties DEF Buffer
  <2> QED
    BY <1>2, <2>1 DEF Buffer
<1> HIDE DEF d1, d2, o
<1>7. CASE o = Outcome(l, "done") /\ op = NoOperation
  BY <1>4, <1>7 DEF Outcome, o
<1>8. CASE o = Outcome(d1, "raise")
  BY <1>5, <1>8 DEF Outcome, o
<1>9. CASE o = Outcome(d2, "done")
  BY <1>3, <1>6, <1>9 DEF Outcome, o
<1> QED
  BY <1>1, <1>7, <1>8, <1>9

\* A release outside of any drain: the event is in the buffer, lost, or what
\* its thread waits with.
LEMMA ReleaseEffect ==
    ASSUME TypeInv, NEW t \in Thread \ {"loop", "closer"}, NEW e \in Event,
           t \in Producer => e.task = t,
           Sorted(live.order), Before(ToSet(live.order), {e}), ReleaseBy(t, e, FALSE)
    PROVE  /\ Admits(live, live', e)
           /\ calls' = [calls EXCEPT ![t] = calls'[t]]
           /\ calls'[t] \in Call /\ CallIsRight(t, calls'[t]) /\ calls'[t].event \in {e, NoEvent}
           /\ e \in ToSet(live'.order) \cup live'.lost \cup {calls'[t].event}
           /\ calls'[t].event = e => live' = live
           /\ Release(e, FALSE).then \in {"done", "raise", "block", "drain"}
           /\ Release(e, FALSE).then \in {"done", "raise"} => calls'[t] = IdleCall
<1> DEFINE o == Release(e, FALSE)
<1>1. live \in Buffer /\ calls \in [Thread -> Call] /\ e # NoEvent /\ e.task \in Task
  BY EventFacts DEF TypeInv
<1>2. live' = o.live /\ calls' = [calls EXCEPT ![t] = WaitsFor(o, e)] /\ calls'[t] = WaitsFor(o, e)
  BY <1>1 DEF ReleaseBy
<1>3. Admits(live, live, e)
  BY <1>1 DEF Admits
<1>4. IdleCall \in Call /\ CallIsRight(t, IdleCall) /\ IdleCall.event = NoEvent
  BY <1>1 DEF IdleCall, Call, CallIsRight
<1>5. IsBarrier(e) => o = Outcome(live, "drain")
  BY DEF Release, Dispatch
<1>6. ~IsBarrier(e) => o = Add(live, e, FALSE)
  BY DEF Release
<1> HIDE DEF o
<1>7. CASE IsBarrier(e)
  <2>1. o = Outcome(live, "drain")
    BY <1>7, <1>5
  <2>2. o.live = live /\ o.then = "drain"
    BY <2>1 DEF Outcome
  <2>3. WaitsFor(o, e) = [op |-> "drain", key |-> e.task, event |-> e]
    BY <1>7, <2>2 DEF WaitsFor
  <2>4. calls'[t] \in Call /\ CallIsRight(t, calls'[t]) /\ calls'[t].event = e
    <3>1. calls'[t] = [op |-> "drain", key |-> e.task, event |-> e]
      BY <1>2, <2>3
    <3> QED
      BY <1>1, <3>1 DEF Call, CallIsRight
  <2> QED
    BY <1>2, <1>3, <2>2, <2>4 DEF o
<1>8. CASE ~IsBarrier(e)
  <2>1. o = Add(live, e, FALSE)
    BY <1>8, <1>6
  <2>2. CASE o = Outcome(live, "block")
    <3>1. o.live = live /\ o.then = "block"
      BY <2>2 DEF Outcome
    <3>2. WaitsFor(o, e) = [op |-> "add", key |-> All, event |-> e]
      BY <3>1 DEF WaitsFor
    <3>3. calls'[t] \in Call /\ CallIsRight(t, calls'[t]) /\ calls'[t].event = e
      <4>1. calls'[t] = [op |-> "add", key |-> All, event |-> e]
        BY <1>2, <3>2
      <4> QED
        BY <1>1, <4>1 DEF Call, CallIsRight
    <3> QED
      BY <1>2, <1>3, <3>1, <3>3 DEF o
  <2>3. CASE o # Outcome(live, "block")
    <3>1. PICK r \in Buffer :
             /\ Admits(live, r, e) /\ e \in ToSet(r.order) \cup r.lost
             /\ o \in {Outcome(r, "done"), Outcome(r, "raise"), Dispatch(r, All, NoEvent, FALSE)}
      BY <1>1, <2>1, <2>3, AddOutcomes
    <3>2. o \in {Outcome(r, "done"), Outcome(r, "raise"), Outcome(r, "drain")}
      BY <3>1 DEF Dispatch
    <3>3. o.live = r /\ o.then \in {"done", "raise", "drain"}
      BY <3>2 DEF Outcome
    <3>4. WaitsFor(o, e) = IF o.then = "drain" THEN [op |-> "drain", key |-> All, event |-> NoEvent] ELSE IdleCall
      BY <1>8, <3>3 DEF WaitsFor
    <3>5. calls'[t] \in Call /\ CallIsRight(t, calls'[t]) /\ calls'[t].event = NoEvent
      <4>1. [op |-> "drain", key |-> All, event |-> NoEvent] \in Call
            /\ CallIsRight(t, [op |-> "drain", key |-> All, event |-> NoEvent])
        BY <1>1 DEF Call, CallIsRight
      <4> HIDE DEF IdleCall
      <4> QED
        BY <1>2, <1>4, <3>4, <4>1
    <3> QED
      BY <1>1, <1>2, <3>1, <3>3, <3>4, <3>5 DEF o
  <2> QED
    BY <2>2, <2>3
<1> QED
  BY <1>7, <1>8

\* The reply that is released inside of a drain: it is in the buffer, lost, or
\* deferred behind what it has to follow.
LEMMA ReentrantEffect ==
    ASSUME TypeInv, Sorted(live.order), Before(ToSet(live.order), {Reply})
    PROVE  LET o == Release(Reply, TRUE)
           IN  /\ o.then \in {"done", "raise"} /\ o.live \in Buffer /\ live.lost \subseteq o.live.lost
               /\ \/ Admits(live, o.live, Reply)
                  \/ \E op \in Delivery :
                        /\ o.live.deferred = Append(live.deferred, op) /\ OpSorted(op)
                        /\ OpEvents(op) \subseteq ToSet(live.order) \cup {Reply}
                        /\ Sorted(o.live.order) /\ ToSet(o.live.order) \subseteq ToSet(live.order)
                        /\ ToSet(live.order) \subseteq ToSet(o.live.order) \cup OpEvents(op) \cup o.live.lost
                        /\ Before(OpEvents(op), ToSet(o.live.order))
<1> DEFINE o == Release(Reply, TRUE)
<1>1. live \in Buffer /\ Reply \in Event /\ Reply # NoEvent /\ Reply.task = "reply" /\ "reply" \in Task /\ "reply" # All
  BY EventFacts, NameFacts DEF TypeInv
<1>2. IsBarrier(Reply) => o = Defer(live, "reply", Reply)
  BY <1>1 DEF Release, Dispatch
<1>3. ~IsBarrier(Reply) => o = Add(live, Reply, TRUE)
  BY DEF Release
<1> HIDE DEF o
<1>4. Before(ToSet(live.order), {Reply} \ {NoEvent}) /\ Sorted(live.order)
  BY DEF Before
<1>5. CASE IsBarrier(Reply)
  <2>1. o = Defer(live, "reply", Reply)
    BY <1>5, <1>2
  <2>2. /\ o.then \in {"done", "raise"} /\ o.live \in Buffer /\ live.lost \subseteq o.live.lost
        /\ \/ o.live.order = live.order /\ o.live.deferred = live.deferred
           \/ \E op \in Delivery :
                 /\ o.live.deferred = Append(live.deferred, op) /\ OpSorted(op)
                 /\ OpEvents(op) = ToSet(Matching(live, "reply")) \cup ({Reply} \ {NoEvent})
                 /\ o.live.order = Without(live, "reply") /\ o.live.lost = live.lost
    <3>1. "reply" \in Task \cup {All} /\ Reply \in Event \cup {NoEvent}
      BY <1>1
    <3>2. /\ Defer(live, "reply", Reply).then \in {"done", "raise"}
          /\ LET d == Defer(live, "reply", Reply).live
             IN  /\ d \in Buffer /\ live.lost \subseteq d.lost
                 /\ \/ d.order = live.order /\ d.deferred = live.deferred /\ {Reply} \ {NoEvent} \subseteq d.lost
                    \/ \E op \in Delivery :
                          /\ d.deferred = Append(live.deferred, op) /\ OpSorted(op)
                          /\ OpEvents(op) = ToSet(Matching(live, "reply")) \cup ({Reply} \ {NoEvent})
                          /\ d.order = Without(live, "reply") /\ d.lost = live.lost
      BY <1>1, <1>4, <3>1, DeferOutcomes
    <3> QED
      BY <2>1, <3>2
  <2>3. /\ ToSet(live.order) = ToSet(Matching(live, "reply")) \cup ToSet(Without(live, "reply"))
        /\ \A x \in ToSet(Matching(live, "reply")) : x.task = "reply"
        /\ \A x \in ToSet(Without(live, "reply")) : x.task # "reply"
        /\ Sorted(Without(live, "reply"))
    BY <1>1, MatchingFacts
  <2>4. CASE o.live.order = live.order /\ o.live.deferred = live.deferred
    BY <2>2, <2>4 DEF Admits, o
  <2>5. CASE ~(o.live.order = live.order /\ o.live.deferred = live.deferred)
    <3>1. PICK op \in Delivery :
             /\ o.live.deferred = Append(live.deferred, op) /\ OpSorted(op)
             /\ OpEvents(op) = ToSet(Matching(live, "reply")) \cup ({Reply} \ {NoEvent})
             /\ o.live.order = Without(live, "reply") /\ o.live.lost = live.lost
      BY <2>2, <2>5
    <3>2. Before(OpEvents(op), ToSet(o.live.order))
      BY <1>1, <2>3, <3>1 DEF Before
    <3> QED
      BY <2>2, <2>3, <3>1, <3>2 DEF o
  <2> QED
    BY <2>4, <2>5
<1>6. CASE ~IsBarrier(Reply)
  <2>1. o = Add(live, Reply, TRUE)
    BY <1>6, <1>3
  <2>2. PICK r \in Buffer :
           /\ Admits(live, r, Reply)
           /\ o \in {Outcome(r, "done"), Outcome(r, "raise"), Dispatch(r, All, NoEvent, TRUE)}
    BY <1>1, <2>1, AddOutcomes
  <2>3. CASE o \in {Outcome(r, "done"), Outcome(r, "raise")}
    <3>1. o = Outcome(r, "done") \/ o = Outcome(r, "raise")
      BY <2>3
    <3>2. o.live = r /\ o.then \in {"done", "raise"}
      BY <3>1 DEF Outcome
    <3> QED
      BY <2>2, <3>2 DEF Admits, o
  <2>4. CASE o = Dispatch(r, All, NoEvent, TRUE)
    <3>1. o = Defer(r, All, NoEvent)
      BY <2>4 DEF Dispatch
    <3>2. Sorted(r.order) /\ Before(ToSet(r.order), {NoEvent} \ {NoEvent})
      BY <2>2 DEF Admits, Before
    <3>3. /\ o.then \in {"done", "raise"} /\ o.live \in Buffer /\ r.lost \subseteq o.live.lost
          /\ \/ o.live.order = r.order /\ o.live.deferred = r.deferred
             \/ \E op \in Delivery :
                   /\ o.live.deferred = Append(r.deferred, op) /\ OpSorted(op)
                   /\ OpEvents(op) = ToSet(Matching(r, All)) \cup ({NoEvent} \ {NoEvent})
                   /\ o.live.order = Without(r, All) /\ o.live.lost = r.lost
      <4>1. /\ Defer(r, All, NoEvent).then \in {"done", "raise"}
            /\ LET d == Defer(r, All, NoEvent).live
               IN  /\ d \in Buffer /\ r.lost \subseteq d.lost
                   /\ \/ d.order = r.order /\ d.deferred = r.deferred /\ {NoEvent} \ {NoEvent} \subseteq d.lost
                      \/ \E op \in Delivery :
                            /\ d.deferred = Append(r.deferred, op) /\ OpSorted(op)
                            /\ OpEvents(op) = ToSet(Matching(r, All)) \cup ({NoEvent} \ {NoEvent})
                            /\ d.order = Without(r, All) /\ d.lost = r.lost
        <5>1. All \in Task \cup {All} /\ NoEvent \in Event \cup {NoEvent}
          OBVIOUS
        <5>2. NoEvent # NoEvent => All = NoEvent.task
          OBVIOUS
        <5> HIDE DEF All, NoEvent
        <5> QED
          BY <3>2, <5>1, <5>2, DeferOutcomes
      <4> QED
        BY <3>1, <4>1
    <3>4. CASE o.live.order = r.order /\ o.live.deferred = r.deferred
      BY <2>2, <3>3, <3>4 DEF Admits, o
    <3>5. CASE ~(o.live.order = r.order /\ o.live.deferred = r.deferred)
      <4>1. PICK op \in Delivery :
               /\ o.live.deferred = Append(r.deferred, op) /\ OpSorted(op)
               /\ OpEvents(op) = ToSet(Matching(r, All)) \cup ({NoEvent} \ {NoEvent})
               /\ o.live.order = Without(r, All) /\ o.live.lost = r.lost
        BY <3>3, <3>5
      <4>2. /\ ToSet(r.order) = ToSet(Matching(r, All)) \cup ToSet(Without(r, All))
            /\ ToSet(Without(r, All)) = {} /\ Sorted(Without(r, All))
        BY <3>2, MatchingFacts
      <4>3. Before(OpEvents(op), ToSet(o.live.order))
        BY <4>1, <4>2 DEF Before
      <4> QED
        BY <2>2, <3>3, <4>1, <4>2, <4>3 DEF Admits, o
    <3> QED
      BY <3>4, <3>5
  <2> QED
    BY <2>2, <2>3, <2>4
<1> QED
  BY <1>5, <1>6 DEF o

----------------------------------------------------------------------------
\* The stages, one by one, and what leaves a stage as it was.

LEMMA StageIs ==
    /\ Stage[1] = SeenEvents /\ Stage[2] = OpEvents(drain.op) /\ Stage[3] = DeferredEvents
    /\ Stage[4] = ToSet(live.order) /\ Stage[5] = Waiting /\ Stage[6] = ToSet(hist.committed)
    /\ Stage[7] = ToSet(hist.pending) /\ Stage[8] = Unpublished
    /\ Stage'[1] = SeenEvents' /\ Stage'[2] = OpEvents(drain.op)' /\ Stage'[3] = DeferredEvents'
    /\ Stage'[4] = ToSet(live.order)' /\ Stage'[5] = Waiting' /\ Stage'[6] = ToSet(hist.committed)'
    /\ Stage'[7] = ToSet(hist.pending)' /\ Stage'[8] = Unpublished'
  BY DEF Stage

LEMMA StageFrame ==
    /\ seen' = seen => Stage'[1] = Stage[1]
    /\ drain'.op = drain.op => Stage'[2] = Stage[2]
    /\ live'.deferred = live.deferred => Stage'[3] = Stage[3]
    /\ live'.order = live.order => Stage'[4] = Stage[4]
    /\ calls' = calls /\ drain'.owner = drain.owner /\ drain'.stage = drain.stage => Stage'[5] = Stage[5]
    /\ hist'.committed = hist.committed => Stage'[6] = Stage[6]
    /\ hist'.pending = hist.pending => Stage'[7] = Stage[7]
    /\ next' = next /\ callback' = callback /\ bound' = bound /\ seen' = seen => Stage'[8] = Stage[8]
  BY StageIs DEF SeenEvents, DeferredEvents, Waiting, Unpublished, ReplyIsDue, NothingSeen

\* An event can be at one stage only, and which is which matters for none of
\* the following: nothing that was accounted for gets lost, and what has its
\* row keeps it.
Keeps(X, to) ==
    /\ live.lost \subseteq live'.lost
    /\ \A k \in 1..8 : \A e \in Stage[k] :
          e = Reply \/ e \in live'.lost \/ e \in Stage'[k] \/ (e \in X /\ e \in Stage'[to])
    /\ config' = config /\ \A e \in Event : log[e] = 1 => log'[e] = 1
    /\ Buffered /\ to \in 1..6 => \A e \in X : log'[e] = 1

\* One step of the invariant: the events X come to stage to.
LEMMA StepKeepsStages ==
    ASSUME IInv, NEW X, NEW lo \in 1..8, NEW to \in 1..8, NEW hi \in 1..8, lo <= to, to <= hi,
           Moves(Stage, Stage', X, lo, to, hi), Keeps(X, to),
           \A k \in 1..8 : Stage[k] \subseteq Event
    PROVE  (Chain(Stage) /\ Accounted /\ Durable)'
<1>1. Chain(Stage)'
  <2>1. Chain(Stage')
    BY MovingKeepsChain DEF IInv
  <2> QED
    BY <2>1 DEF Chain
<1>2. Accounted'
  <2> SUFFICES ASSUME NEW e \in Event, e # Reply
               PROVE  e \in live'.lost \/ \E k \in 1..8 : e \in Stage'[k]
    BY DEF Accounted
  <2>1. e \in live.lost \/ \E k \in 1..8 : e \in Stage[k]
    BY DEF IInv, Accounted
  <2> QED
    BY <2>1 DEF Keeps
<1>3. Durable'
  <2> SUFFICES ASSUME Buffered', NEW k \in 1..6, NEW e \in Stage'[k]
               PROVE  log'[e] = 1
    BY DEF Durable
  <2>1. Buffered
    BY DEF Keeps, Buffered
  <2>2. CASE e \in Stage[k]
    BY <2>1, <2>2 DEF IInv, Durable, Keeps
  <2>3. CASE e \notin Stage[k]
    <3>1. k = to /\ e \in X
      BY <2>3 DEF Moves
    <3> QED
      BY <2>1, <3>1 DEF Keeps
  <2> QED
    BY <2>2, <2>3
<1> QED
  BY <1>1, <1>2, <1>3

LEMMA StagesAreEvents ==
    ASSUME TypeInv
    PROVE  \A k \in 1..8 : Stage[k] \subseteq Event
<1>1. SeenEvents \subseteq Event
  BY ElementsAreEvents DEF TypeInv, SeenEvents
<1>2. \A op \in Delivery : OpEvents(op) \subseteq Event
  BY ElementsAreEvents DEF Delivery, OpEvents
<1>3. OpEvents(drain.op) \subseteq Event
  BY <1>2 DEF TypeInv, Drain
<1>4. DeferredEvents \subseteq Event
  <2>1. live.deferred \in Seq(Delivery)
    BY DEF TypeInv, Buffer
  <2>2. \A i \in DOMAIN live.deferred : live.deferred[i] \in Delivery
    BY <2>1, LenProperties, ElementOfSeq
  <2> QED
    BY <1>2, <2>2 DEF DeferredEvents, EventsOf
<1>5. ToSet(live.order) \subseteq Event /\ ToSet(hist.committed) \subseteq Event /\ ToSet(hist.pending) \subseteq Event
  BY ElementsAreEvents DEF TypeInv, Buffer, History
<1>6. Waiting \subseteq Event
  BY DEF TypeInv, Waiting, Call
<1>7. Unpublished \subseteq Event
  BY DEF Unpublished
<1> QED
  BY <1>1, <1>3, <1>4, <1>5, <1>6, <1>7, StageIs

----------------------------------------------------------------------------
\* The history's own steps.

\* Steps of flushers, timer and close that move no event.
LEMMA HistoryOnly ==
    ASSUME IInv, TypeInv', Batches',
           UNCHANGED <<config, next, live, drain, calls, callback, bound, seen>>,
           hist'.pending = hist.pending, hist'.committed = hist.committed,
           hist'.active = hist.active \/ calls["releaser"] = IdleCall,
           \A e \in Event : log[e] = 1 => log'[e] = 1
    PROVE  IInv'
<1>1. \A k \in 1..8 : Stage'[k] = Stage[k]
  BY StageFrame
<1>2. Moves(Stage, Stage', {}, 1, 1, 1) /\ Keeps({}, 1)
  BY <1>1 DEF Moves, Keeps, Before
<1>3. (Chain(Stage) /\ Accounted /\ Durable)'
  BY <1>2, StepKeepsStages, StagesAreEvents DEF IInv
<1>4. Queues'
  BY DEF IInv, Queues
<1>5. CallsInv'
  BY DEF IInv, CallsInv, Paths, NothingSeen, Buffered
<1> QED
  BY <1>3, <1>4, <1>5 DEF IInv

\* The next batch is written, or the lock is released.
LEMMA NextWriteEffect ==
    ASSUME NEW t \in Flusher, flushes \in [Flusher -> Flush], NEW h \in History,
           \A u \in Flusher : u # t => flushes[u].pc # "writing", NextWrite(t, h)
    PROVE  /\ hist' \in History /\ flushes' \in [Flusher -> Flush] /\ Batches'
           /\ hist'.pending = h.pending /\ hist'.committed = h.committed /\ hist'.active = h.active
<1> DEFINE k == Cardinality(ToSet(h.pending) \cap flushes[t].targets)
           m == IF k < HistoryBatch THEN k ELSE HistoryBatch
           batch == NextBatch(h, flushes[t].targets)
<1>1. h.pending \in Seq(Event) /\ Len(h.pending) \in Nat /\ flushes[t] \in Flush
  BY LenProperties DEF History
<1>2. m \in 0..Len(h.pending) /\ batch = SubSeq(h.pending, 1, m)
  <2>1. k \in 0..Len(h.pending) /\ HistoryBatch \in Nat
    BY <1>1, BatchIsPending, EventHistoryAssumption
  <2>2. batch = SubSeq(h.pending, 1, m)
    BY DEF NextBatch
  <2> HIDE DEF k, batch
  <2> QED
    BY <1>1, <2>1, <2>2
<1> HIDE DEF m, batch
<1>3. batch \in Seq(Event) /\ Len(batch) = m
  BY <1>1, <1>2, Splitting
<1>4. CASE batch # <<>> /\ ~h.fatal
  <2>1. /\ writer' = t /\ hist' = h
        /\ flushes' = [flushes EXCEPT ![t].pc = "writing", ![t].batch = batch]
    BY <1>4 DEF NextWrite, batch
  <2>2. flushes' = [flushes EXCEPT ![t] = [flushes[t] EXCEPT !.pc = "writing", !.batch = batch]]
    BY <1>1, <2>1
  <2>3. [flushes[t] EXCEPT !.pc = "writing", !.batch = batch] \in Flush
    BY <1>1, <1>3 DEF Flush
  <2>4. flushes' \in [Flusher -> Flush] /\ flushes'[t].batch = batch
        /\ \A u \in Flusher : u # t => flushes'[u] = flushes[u]
    BY <1>1, <2>2, <2>3 DEF Flush
  <2>5. Batches'
    BY <1>1, <1>2, <1>3, <2>1, <2>4 DEF Batches
  <2> QED
    BY <2>1, <2>4, <2>5
<1>5. CASE ~(batch # <<>> /\ ~h.fatal)
  <2>1. /\ writer' = "none" /\ AfterPersist(t) /\ hist' = Noticed(h, t, batch # <<>>)
    BY <1>5 DEF NextWrite, batch
  <2>2. hist' = [h EXCEPT !.error = @ \/ (t = "timer" /\ batch # <<>>)]
    BY <2>1 DEF Noticed
  <2>3. hist' \in History /\ hist'.pending = h.pending /\ hist'.committed = h.committed /\ hist'.active = h.active
    <3>1. (h.error \/ (t = "timer" /\ batch # <<>>)) \in BOOLEAN
      BY DEF History
    <3> QED
      BY <2>2, <3>1 DEF History
  <2>4. /\ flushes' \in [Flusher -> Flush] /\ flushes'[t].pc # "writing"
        /\ \A u \in Flusher : u # t => flushes'[u] = flushes[u]
    <3>1. [flushes[t] EXCEPT !.pc = "wait", !.batch = <<>>] \in Flush
      BY <1>1, EmptySeq DEF Flush
    <3>2. IdleFlush \in Flush
      BY EmptySeq DEF Flush, IdleFlush
    <3>3. \/ flushes' = [flushes EXCEPT ![t] = [flushes[t] EXCEPT !.pc = "wait", !.batch = <<>>]]
          \/ flushes' = [flushes EXCEPT ![t] = IdleFlush]
      BY <2>1 DEF AfterPersist
    <3>4. CASE flushes' = [flushes EXCEPT ![t] = [flushes[t] EXCEPT !.pc = "wait", !.batch = <<>>]]
      BY <1>1, <3>1, <3>4 DEF Flush
    <3>5. CASE flushes' = [flushes EXCEPT ![t] = IdleFlush]
      BY <3>2, <3>5 DEF IdleFlush
    <3> QED
      BY <3>3, <3>4, <3>5
  <2> QED
    BY <2>3, <2>4 DEF Batches
<1> QED
  BY <1>4, <1>5

\* A write that comes back, or is cut off, leaves the rows or not.
LEMMA InsertFacts ==
    ASSUME log \in [Event -> Nat], NEW batch \in Seq(Event)
    PROVE  /\ InsertMissing(batch) \in [Event -> Nat]
           /\ \A e \in Event : log[e] = 1 => InsertMissing(batch)[e] = 1
           /\ \A e \in ToSet(batch) : InsertMissing(batch)[e] = 1
  BY ElementsAreEvents DEF InsertMissing

LEMMA LockTakenKeeps ==
    ASSUME IInv, NEW t \in Flusher, HistoryStep(LockTaken(t) /\ UNCHANGED faults)
    PROVE  IInv'
<1>1. /\ flushes[t].pc = "lock" /\ writer = "none" /\ NextWrite(t, hist) /\ log' = log
      /\ UNCHANGED <<config, next, live, drain, calls, callback, bound, seen>>
  BY DEF HistoryStep, LockTaken, liveVars
<1>2. TypeInv /\ flushes \in [Flusher -> Flush] /\ hist \in History
  BY DEF IInv, TypeInv
<1>3. \A u \in Flusher : u # t => flushes[u].pc # "writing"
  BY <1>1, NameFacts DEF IInv, Batches
<1>4. /\ hist' \in History /\ flushes' \in [Flusher -> Flush] /\ Batches'
      /\ hist'.pending = hist.pending /\ hist'.committed = hist.committed /\ hist'.active = hist.active
  BY <1>1, <1>2, <1>3, NextWriteEffect
<1>5. TypeInv'
  BY <1>1, <1>2, <1>4 DEF TypeInv
<1> QED
  BY <1>1, <1>4, <1>5, HistoryOnly

\* A thread leaves its flush, or comes to wait in it, and no batch is started.
LEMMA FlushLeaves ==
    ASSUME IInv, NEW t \in Flusher, NEW f \in Flush, f.pc # "writing",
           flushes' = [flushes EXCEPT ![t] = f], hist'.pending = hist.pending,
           writer' = writer \/ writer = t
    PROVE  flushes' \in [Flusher -> Flush] /\ Batches'
<1>1. flushes \in [Flusher -> Flush]
  BY DEF IInv, TypeInv
<1>2. flushes' \in [Flusher -> Flush] /\ flushes'[t] = f /\ \A u \in Flusher : u # t => flushes'[u] = flushes[u]
  BY <1>1
<1> QED
  BY <1>2 DEF IInv, Batches

LEMMA IdleFacts ==
    /\ IdleFlush \in Flush /\ IdleFlush.pc = "idle"
    /\ \A h \in History : FlushTo(h) \in Flush /\ FlushTo(h).pc = "lock"
<1>1. IdleFlush \in Flush /\ IdleFlush.pc = "idle"
  BY EmptySeq DEF Flush, IdleFlush
<1>2. ASSUME NEW h \in History PROVE FlushTo(h) \in Flush /\ FlushTo(h).pc = "lock"
  <2>1. Unreleased(h) \subseteq Event
    BY ElementsAreEvents DEF Unreleased, History
  <2> QED
    BY <2>1, EmptySeq DEF Flush, FlushTo
<1> QED
  BY <1>1, <1>2

LEMMA ReleasesSeenKeeps ==
    ASSUME IInv, NEW t \in Flusher, HistoryStep(ReleasesSeen(t) /\ UNCHANGED faults)
    PROVE  IInv'
<1>1. PICK raised \in BOOLEAN : /\ flushes' = [flushes EXCEPT ![t] = IdleFlush]
      /\ hist' = [hist EXCEPT !.error = @ /\ ~raised]
      /\ UNCHANGED <<config, next, live, drain, calls, callback, bound, seen, writer, log>>
  BY DEF HistoryStep, ReleasesSeen, liveVars
<1>2. /\ hist' \in History /\ hist'.pending = hist.pending
      /\ hist'.committed = hist.committed /\ hist'.active = hist.active
  <2>1. hist \in History
    BY DEF IInv, TypeInv
  <2>2. (hist.error /\ ~raised) \in BOOLEAN
    OBVIOUS
  <2> QED
    BY <1>1, <2>1, <2>2 DEF History
<1>3. flushes' \in [Flusher -> Flush] /\ Batches'
  BY <1>1, <1>2, FlushLeaves, IdleFacts
<1>4. TypeInv'
  BY <1>1, <1>2, <1>3 DEF IInv, TypeInv
<1> QED
  BY <1>1, <1>2, <1>3, <1>4, HistoryOnly

LEMMA WriteFailsKeeps ==
    ASSUME IInv, NEW t \in Flusher, HistoryStep(WriteFails(t))
    PROVE  IInv'
<1>1. /\ flushes[t].pc = "writing" /\ log' \in {log, InsertMissing(flushes[t].batch)}
      /\ writer' = "none" /\ AfterPersist(t)
      /\ UNCHANGED <<config, next, live, drain, calls, callback, bound, seen>>
  BY DEF HistoryStep, WriteFails, liveVars
<1>2. PICK fatal \in BOOLEAN :
         hist' = Noticed([hist EXCEPT !.backoff = TRUE, !.fatal = fatal], t, fatal \/ config.strict)
  BY DEF HistoryStep, WriteFails
<1>3. TypeInv /\ flushes[t] \in Flush /\ hist \in History /\ writer = t
  BY <1>1 DEF IInv, TypeInv, Batches
<1>4. hist' \in History /\ hist'.pending = hist.pending /\ hist'.committed = hist.committed /\ hist'.active = hist.active
  <2> DEFINE h == [hist EXCEPT !.backoff = TRUE, !.fatal = fatal]
  <2>1. h \in History /\ h.pending = hist.pending /\ h.committed = hist.committed /\ h.active = hist.active
    BY <1>3 DEF History
  <2>2. hist' = [h EXCEPT !.error = @ \/ (t = "timer" /\ (fatal \/ config.strict))]
    BY <1>2 DEF Noticed
  <2> HIDE DEF h
  <2>3. (h.error \/ (t = "timer" /\ (fatal \/ config.strict))) \in BOOLEAN
    OBVIOUS
  <2> QED
    BY <2>1, <2>2, <2>3 DEF History
<1>5. PICK f \in Flush : f.pc # "writing" /\ flushes' = [flushes EXCEPT ![t] = f]
  <2>1. [flushes[t] EXCEPT !.pc = "wait", !.batch = <<>>] \in Flush
    BY <1>3, EmptySeq DEF Flush
  <2>2. [flushes[t] EXCEPT !.pc = "wait", !.batch = <<>>].pc = "wait"
    BY <1>3 DEF Flush
  <2>3. \/ flushes' = [flushes EXCEPT ![t] = [flushes[t] EXCEPT !.pc = "wait", !.batch = <<>>]]
        \/ flushes' = [flushes EXCEPT ![t] = IdleFlush]
    BY <1>1 DEF AfterPersist
  <2> QED
    BY <2>1, <2>2, <2>3, IdleFacts
<1>6. flushes' \in [Flusher -> Flush] /\ Batches'
  BY <1>3, <1>4, <1>5, FlushLeaves
<1>7. log' \in [Event -> Nat] /\ \A e \in Event : log[e] = 1 => log'[e] = 1
  BY <1>1, <1>3, InsertFacts DEF TypeInv, Flush
<1>8. TypeInv'
  BY <1>1, <1>3, <1>4, <1>6, <1>7 DEF TypeInv
<1> QED
  BY <1>1, <1>4, <1>6, <1>7, <1>8, HistoryOnly
LEMMA FlushCancelledKeeps ==
    ASSUME IInv, NEW t \in Flusher, FlushCancelled(t), hist' \in History,
           hist'.pending = hist.pending, hist'.committed = hist.committed, hist'.active = hist.active,
           UNCHANGED <<config, next, live, drain, calls, callback, bound, seen>>
    PROVE  IInv'
<1>1. /\ log' \in {log, InsertMissing(flushes[t].batch)} /\ writer' = IF writer = t THEN "none" ELSE writer
      /\ flushes' = [flushes EXCEPT ![t] = IdleFlush]
  BY DEF FlushCancelled
<1>2. TypeInv /\ flushes[t] \in Flush
  BY DEF IInv, TypeInv
<1>3. writer' = writer \/ writer = t
  BY <1>1
<1>4. flushes' \in [Flusher -> Flush] /\ Batches'
  BY <1>1, <1>3, FlushLeaves, IdleFacts
<1>5. log' \in [Event -> Nat] /\ \A e \in Event : log[e] = 1 => log'[e] = 1
  BY <1>1, <1>2, InsertFacts DEF TypeInv, Flush
<1>6. TypeInv'
  BY <1>2, <1>4, <1>5 DEF TypeInv
<1> QED
  BY <1>4, <1>5, <1>6, HistoryOnly

LEMMA PublishCancelledKeeps ==
    ASSUME IInv, NEW p \in Producer, PublishCancelled(p)
    PROVE  IInv'
  BY FlushCancelledKeeps, NameFacts DEF PublishCancelled, IInv, TypeInv, liveVars

\* A thread comes to the write lock, or the state of the history changes.
LEMMA FlushBegins ==
    ASSUME IInv, NEW t \in Flusher, flushes' = [flushes EXCEPT ![t] = FlushTo(hist)],
           writer' = writer, log' = log, hist' \in History,
           hist'.pending = hist.pending, hist'.committed = hist.committed, hist'.active = hist.active,
           UNCHANGED <<config, next, live, drain, calls, callback, bound, seen>>
    PROVE  IInv'
<1>1. TypeInv /\ FlushTo(hist) \in Flush /\ FlushTo(hist).pc = "lock"
  BY IdleFacts DEF IInv, TypeInv
<1>2. flushes' \in [Flusher -> Flush] /\ Batches'
  BY <1>1, FlushLeaves
<1>3. TypeInv'
  BY <1>1, <1>2 DEF TypeInv
<1> QED
  BY <1>2, <1>3, HistoryOnly

LEMMA HistoryRests ==
    ASSUME IInv, hist' \in History, UNCHANGED <<flushes, writer, log>>,
           hist'.pending = hist.pending, hist'.committed = hist.committed,
           hist'.active = hist.active \/ calls["releaser"] = IdleCall,
           UNCHANGED <<config, next, live, drain, calls, callback, bound, seen>>
    PROVE  IInv'
<1>1. Batches'
  BY DEF IInv, Batches
<1>2. TypeInv'
  BY DEF IInv, TypeInv
<1> QED
  BY <1>1, <1>2, HistoryOnly

LEMMA TimerFiresKeeps ==
    ASSUME IInv, TimerStep
    PROVE  IInv'
  BY FlushBegins, NameFacts DEF TimerStep, HistoryStep, TimerFires, liveVars, IInv, TypeInv

LEMMA ReleaseEndsKeeps ==
    ASSUME IInv, ReleaseEnds, UNCHANGED <<liveVars, config, next>>
    PROVE  IInv'
<1>1. /\ hist' = [hist EXCEPT !.active = NoEvent] /\ calls["releaser"] = IdleCall /\ hist \in History
      /\ UNCHANGED <<flushes, writer, log>>
  BY DEF ReleaseEnds, IInv, TypeInv
<1>2. hist' \in History /\ hist'.pending = hist.pending /\ hist'.committed = hist.committed
  BY <1>1 DEF History
<1> QED
  BY <1>1, <1>2, HistoryRests DEF liveVars

LEMMA CloseStepKeeps ==
    ASSUME IInv, DrainHistory \/ HistoryClosed \/ BufferClosed \/ CloseHistory
    PROVE  IInv'
<1>1. hist \in History
  BY DEF IInv, TypeInv
<1>2. CASE DrainHistory
  <2>1. /\ hist' = [hist EXCEPT !.state = "draining"] /\ flushes' = [flushes EXCEPT !["closer"] = FlushTo(hist)]
        /\ UNCHANGED <<config, next, liveVars, writer, log>>
    BY <1>2 DEF DrainHistory
  <2>2. hist' \in History /\ hist'.pending = hist.pending /\ hist'.committed = hist.committed
        /\ hist'.active = hist.active
    BY <1>1, <2>1 DEF History
  <2> QED
    BY <2>1, <2>2, FlushBegins, NameFacts DEF liveVars
<1>3. CASE HistoryClosed
  <2>1. /\ hist' = [hist EXCEPT !.state = "closed"]
        /\ UNCHANGED <<config, next, liveVars, flushes, writer, log>>
    BY <1>3 DEF HistoryClosed
  <2>2. hist' \in History /\ hist'.pending = hist.pending /\ hist'.committed = hist.committed
        /\ hist'.active = hist.active
    BY <1>1, <2>1 DEF History
  <2> QED
    BY <2>1, <2>2, HistoryRests DEF liveVars
<1>4. CASE BufferClosed
  <2>1. UNCHANGED <<config, next, liveVars, histVars>>
    BY <1>4 DEF BufferClosed
  <2> QED
    BY <1>1, <2>1, HistoryRests DEF liveVars, histVars
<1>5. CASE CloseHistory
  <2>1. /\ hist' = [hist EXCEPT !.state = "closing", !.error = FALSE]
        /\ UNCHANGED <<config, next, liveVars>>
        /\ FlushCancelled("timer") \/ UNCHANGED <<flushes, writer, log>>
    BY <1>5 DEF CloseHistory
  <2>2. hist' \in History /\ hist'.pending = hist.pending /\ hist'.committed = hist.committed
        /\ hist'.active = hist.active
    BY <1>1, <2>1 DEF History
  <2>3. CASE FlushCancelled("timer")
    BY <2>1, <2>2, <2>3, FlushCancelledKeeps, NameFacts DEF liveVars
  <2>4. CASE UNCHANGED <<flushes, writer, log>>
    BY <2>1, <2>2, <2>4, HistoryRests DEF liveVars
  <2> QED
    BY <2>1, <2>3, <2>4
<1> QED
  BY <1>2, <1>3, <1>4, <1>5

\* A batch is committed: it moves from the front of pending to the end of
\* committed.
LEMMA WriteCommitsKeeps ==
    ASSUME IInv, NEW t \in Flusher, HistoryStep(WriteCommits(t) /\ UNCHANGED faults)
    PROVE  IInv'
<1> DEFINE batch == flushes[t].batch
           k == Len(batch)
           rest == SubSeq(hist.pending, k + 1, Len(hist.pending))
           h == [hist EXCEPT !.pending = SubSeq(@, Len(batch) + 1, Len(@)),
                             !.committed = @ \o batch, !.backoff = FALSE]
<1>1. /\ flushes[t].pc = "writing" /\ log' = InsertMissing(batch) /\ NextWrite(t, h)
      /\ UNCHANGED <<config, next, live, drain, calls, callback, bound, seen>>
  BY DEF HistoryStep, WriteCommits, liveVars
<1>2. /\ TypeInv /\ flushes \in [Flusher -> Flush] /\ hist \in History /\ flushes[t] \in Flush
      /\ hist.pending \in Seq(Event) /\ hist.committed \in Seq(Event) /\ log \in [Event -> Nat]
  BY DEF IInv, TypeInv, History
<1>3. writer = t /\ k <= Len(hist.pending) /\ batch = SubSeq(hist.pending, 1, k)
  BY <1>1 DEF IInv, Batches
<1>4. k \in 0..Len(hist.pending) /\ batch \in Seq(Event)
  <2>1. k \in Nat /\ batch \in Seq(Event)
    BY <1>2, LenProperties DEF Flush
  <2>2. Len(hist.pending) \in Nat
    BY <1>2, LenProperties
  <2> HIDE DEF k, batch
  <2> QED
    BY <1>3, <2>1, <2>2
<1>5. /\ rest \in Seq(Event) /\ ToSet(hist.pending) = ToSet(batch) \cup ToSet(rest)
      /\ Sorted(hist.pending) => Sorted(batch) /\ Sorted(rest) /\ Before(ToSet(batch), ToSet(rest))
  BY <1>2, <1>3, <1>4, Splitting
<1>6. Sorted(batch) /\ Sorted(rest) /\ Before(ToSet(batch), ToSet(rest)) /\ Sorted(hist.committed)
  BY <1>5 DEF IInv, Queues
<1>7. Before(ToSet(hist.committed), ToSet(batch))
  <2>1. Before(Stage[6], Stage[7])
    BY DEF IInv, Chain
  <2> QED
    BY <1>5, <2>1, StageIs DEF Before
<1>8. /\ hist.committed \o batch \in Seq(Event) /\ Sorted(hist.committed \o batch)
      /\ ToSet(hist.committed \o batch) = ToSet(hist.committed) \cup ToSet(batch)
  BY <1>2, <1>4, <1>6, <1>7, Concatenation
<1>9. h \in History /\ h.pending = rest /\ h.committed = hist.committed \o batch /\ h.active = hist.active
  BY <1>2, <1>5, <1>8 DEF History
<1>10. \A u \in Flusher : u # t => flushes[u].pc # "writing"
  BY <1>3 DEF IInv, Batches
<1> HIDE DEF h, rest, batch, k
<1>11. /\ hist' \in History /\ flushes' \in [Flusher -> Flush] /\ Batches'
       /\ hist'.pending = rest /\ hist'.committed = hist.committed \o batch /\ hist'.active = hist.active
  BY <1>1, <1>2, <1>9, <1>10, NextWriteEffect
<1>12. /\ log' \in [Event -> Nat] /\ \A e \in Event : log[e] = 1 => log'[e] = 1
       /\ \A e \in ToSet(batch) : log'[e] = 1
  BY <1>1, <1>2, <1>4, InsertFacts
<1>13. TypeInv'
  BY <1>1, <1>2, <1>11, <1>12 DEF TypeInv
<1>14. /\ \A i \in {1, 2, 3, 4, 5, 8} : Stage'[i] = Stage[i]
       /\ Stage[6] = ToSet(hist.committed) /\ Stage[7] = ToSet(batch) \cup ToSet(rest)
       /\ Stage'[6] = ToSet(hist.committed) \cup ToSet(batch) /\ Stage'[7] = ToSet(rest)
  BY <1>1, <1>5, <1>8, <1>11, StageFrame, StageIs
<1>15. Moves(Stage, Stage', ToSet(batch), 6, 6, 7)
  BY <1>6, <1>14 DEF Moves, Before
<1>16. Keeps(ToSet(batch), 6)
  BY <1>1, <1>12, <1>14 DEF Keeps
<1>17. (Chain(Stage) /\ Accounted /\ Durable)'
  <2>1. \A i \in 1..8 : Stage[i] \subseteq Event
    BY <1>2, StagesAreEvents
  <2> QED
    BY <1>15, <1>16, <2>1, StepKeepsStages
<1>18. Queues'
  BY <1>1, <1>6, <1>8, <1>11 DEF IInv, Queues
<1>19. CallsInv'
  <2>1. ~Buffered => rest = <<>> /\ hist.committed \o batch = <<>>
    <3>1. ~Buffered => ToSet(hist.pending) = {} /\ ToSet(hist.committed) = {}
      BY ElementsAreEvents, <1>2 DEF IInv, CallsInv, Paths
    <3> QED
      BY <1>5, <1>8, <3>1, ElementsAreEvents
  <2> QED
    BY <1>1, <1>11, <2>1 DEF IInv, CallsInv, Paths, NothingSeen, Buffered
<1> QED
  BY <1>11, <1>13, <1>17, <1>18, <1>19 DEF IInv
----------------------------------------------------------------------------
\* What publish puts into the history.

LEMMA PrefixOfAppend ==
    ASSUME NEW s \in Seq(Event), NEW e \in Event, NEW k \in 0..Len(s)
    PROVE  k <= Len(Append(s, e)) /\ SubSeq(Append(s, e), 1, k) = SubSeq(s, 1, k)
<1> DEFINE a == Append(s, e)
<1>1. /\ Len(s) \in Nat /\ a \in Seq(Event) /\ Len(a) = Len(s) + 1
      /\ \A i \in 1..Len(s) : a[i] = s[i] /\ s[i] \in Event
  BY AppendProperties, LenProperties, ElementOfSeq
<1> HIDE DEF a
<1>2. \A i \in 1..k : a[i] = s[i] /\ s[i] \in Event
  BY <1>1
<1>3. /\ SubSeq(s, 1, k) \in Seq(Event) /\ Len(SubSeq(s, 1, k)) = (IF 1 <= k THEN k - 1 + 1 ELSE 0)
      /\ \A i \in 1..(k - 1 + 1) : SubSeq(s, 1, k)[i] = s[1 + i - 1]
  BY <1>1, <1>2, SubSeqProperties
<1>4. /\ SubSeq(a, 1, k) \in Seq(Event) /\ Len(SubSeq(a, 1, k)) = (IF 1 <= k THEN k - 1 + 1 ELSE 0)
      /\ \A i \in 1..(k - 1 + 1) : SubSeq(a, 1, k)[i] = a[1 + i - 1]
  BY <1>1, <1>2, SubSeqProperties
<1>5. Len(SubSeq(s, 1, k)) = k /\ Len(SubSeq(a, 1, k)) = k
  BY <1>1, <1>3, <1>4
<1>6. \A i \in 1..k : i \in 1..(k - 1 + 1) /\ 1 + i - 1 = i
  BY <1>1
<1>7. \A i \in 1..k : SubSeq(s, 1, k)[i] = SubSeq(a, 1, k)[i]
  BY <1>2, <1>3, <1>4, <1>6
<1>8. SubSeq(a, 1, k) = SubSeq(s, 1, k)
  <2> DEFINE x == SubSeq(a, 1, k)
             y == SubSeq(s, 1, k)
  <2>1. x \in Seq(Event) /\ y \in Seq(Event) /\ Len(x) = Len(y) /\ \A i \in 1..Len(x) : x[i] = y[i]
    BY <1>3, <1>4, <1>5, <1>7
  <2> HIDE DEF x, y
  <2>2. x = y
    BY <2>1, SeqEqual
  <2> QED
    BY <2>2 DEF x, y
<1> QED
  BY <1>1, <1>8 DEF a

LEMMA EnqueueEffect ==
    ASSUME IInv, NEW t \in Flusher, NEW e \in Event, e \in Stage[8], Enqueue(t, e)
    PROVE  /\ hist' \in History /\ flushes' \in [Flusher -> Flush] /\ Batches' /\ log' = log
           /\ hist'.committed = hist.committed /\ hist'.active = hist.active
           /\ ToSet(hist'.pending) = ToSet(hist.pending) \cup {e} /\ Sorted(hist'.pending)
<1> DEFINE h == [hist EXCEPT !.pending = Append(@, e)]
<1>1. /\ TypeInv /\ hist \in History /\ hist.pending \in Seq(Event) /\ flushes \in [Flusher -> Flush]
      /\ Sorted(hist.pending)
  BY DEF IInv, TypeInv, History, Queues
<1>2. Before(ToSet(hist.pending), {e})
  <2>1. Before(Stage[7], Stage[8])
    BY DEF IInv, Chain
  <2> QED
    BY <2>1, StageIs DEF Before
<1>3. /\ Append(hist.pending, e) \in Seq(Event) /\ Sorted(Append(hist.pending, e))
      /\ ToSet(Append(hist.pending, e)) = ToSet(hist.pending) \cup {e}
  BY <1>1, <1>2, Appending
<1>4. /\ h \in History /\ h.pending = Append(hist.pending, e) /\ h.committed = hist.committed
      /\ h.active = hist.active
  BY <1>1, <1>3 DEF History
<1>5. hist' = h /\ writer' = writer /\ log' = log
  BY DEF Enqueue
<1>6. flushes' = [flushes EXCEPT ![t] = FlushTo(h)] \/ flushes' = flushes
  BY DEF Enqueue
<1> HIDE DEF h
<1>7. FlushTo(h) \in Flush /\ FlushTo(h).pc = "lock"
  BY <1>4, IdleFacts
<1>8. flushes' \in [Flusher -> Flush]
  BY <1>1, <1>6, <1>7
<1>9. \A u \in Flusher : flushes'[u].pc = "writing" => flushes'[u] = flushes[u]
  BY <1>1, <1>6, <1>7
<1>10. Batches'
  <2> SUFFICES ASSUME NEW u \in Flusher, flushes'[u].pc = "writing"
               PROVE  /\ writer' = u
                      /\ Len(flushes'[u].batch) <= Len(hist'.pending)
                      /\ flushes'[u].batch = SubSeq(hist'.pending, 1, Len(flushes'[u].batch))
    BY DEF Batches
  <2>1. /\ writer = u /\ flushes'[u].batch = flushes[u].batch
        /\ Len(flushes[u].batch) <= Len(hist.pending)
        /\ flushes[u].batch = SubSeq(hist.pending, 1, Len(flushes[u].batch))
    BY <1>9 DEF IInv, Batches
  <2>2. Len(flushes[u].batch) \in 0..Len(hist.pending)
    <3>1. flushes[u].batch \in Seq(Event)
      BY <1>1 DEF Flush
    <3>2. Len(flushes[u].batch) \in Nat /\ Len(hist.pending) \in Nat
      BY <1>1, <3>1, LenProperties
    <3> QED
      BY <2>1, <3>2
  <2> QED
    BY <1>1, <1>4, <1>5, <2>1, <2>2, PrefixOfAppend
<1> QED
  BY <1>3, <1>4, <1>5, <1>8, <1>10

LEMMA PublishBufferedKeeps ==
    ASSUME IInv, NEW p \in Producer, PublishBuffered(p)
    PROVE  IInv'
<1> DEFINE e == [task |-> p, n |-> next[p]]
<1>1. /\ next[p] <= config.length[p] /\ Buffered /\ next' = [next EXCEPT ![p] = @ + 1]
      /\ UNCHANGED <<config, drain, calls, callback, bound, seen>>
      /\ \/ Enqueue(p, e) /\ UNCHANGED live
         \/ EnqueueRaises /\ live' = [live EXCEPT !.lost = @ \cup {e}]
  BY DEF PublishBuffered
<1>2. TypeInv /\ next \in [Producer -> 1..(MaxLength + 1)] /\ p \in Flusher /\ config.length[p] \in 0..MaxLength
  BY LiveEventsAssumption, NameFacts DEF IInv, TypeInv
<1>3. e \in Event /\ e # Reply /\ e.task = p /\ e.n = next[p] /\ next[p] \in 1..MaxLength
  BY <1>1, <1>2, EventFacts
<1>4. next' \in [Producer -> 1..(MaxLength + 1)] /\ next'[p] = next[p] + 1
      /\ \A q \in Producer : q # p => next'[q] = next[q]
  BY <1>1, <1>2, <1>3, EventFacts
<1>5. e \in Stage[8]
  BY <1>3, StageIs DEF Unpublished
<1>6. /\ Stage'[8] \subseteq Stage[8] /\ \A x \in Stage[8] : x = e \/ x \in Stage'[8]
      /\ Before({e}, Stage'[8])
  <2>1. Stage[8] = Unpublished /\ Stage'[8] = Unpublished' /\ (ReplyIsDue' <=> ReplyIsDue)
    BY <1>1, StageIs DEF ReplyIsDue, NothingSeen
  <2>2. \A x \in Event \ {Reply} : x.task \in Producer /\ x.n \in Nat /\ x = [task |-> x.task, n |-> x.n]
    BY EventFacts
  <2>3. \A x \in Event \ {Reply} : /\ x.n >= next'[x.task] => x.n >= next[x.task]
                                   /\ x.n >= next[x.task] => x = e \/ x.n >= next'[x.task]
                                   /\ x.n >= next'[x.task] /\ x.task = p => x.n > e.n
    BY <1>2, <1>3, <1>4, <2>2
  <2>4. Reply.task # p
    BY EventFacts, NameFacts
  <2> HIDE DEF e
  <2> QED
    BY <1>3, <2>1, <2>3, <2>4 DEF Unpublished, Before
<1> HIDE DEF e
<1>7. CASE Enqueue(p, e) /\ UNCHANGED live
  <2>1. /\ hist' \in History /\ flushes' \in [Flusher -> Flush] /\ Batches' /\ log' = log
        /\ hist'.committed = hist.committed /\ hist'.active = hist.active
        /\ ToSet(hist'.pending) = ToSet(hist.pending) \cup {e} /\ Sorted(hist'.pending)
    BY <1>2, <1>3, <1>5, <1>7, EnqueueEffect
  <2>2. TypeInv'
    BY <1>1, <1>2, <1>4, <1>7, <2>1 DEF TypeInv
  <2>3. (\A k \in 1..6 : Stage'[k] = Stage[k]) /\ Stage'[7] = Stage[7] \cup {e}
    BY <1>1, <1>7, <2>1, StageFrame, StageIs
  <2>4. Moves(Stage, Stage', {e}, 7, 7, 8)
    BY <1>5, <1>6, <2>3 DEF Moves
  <2>5. Keeps({e}, 7)
    BY <1>1, <1>6, <1>7, <2>1, <2>3 DEF Keeps
  <2>6. (Chain(Stage) /\ Accounted /\ Durable)'
    <3>1. \A i \in 1..8 : Stage[i] \subseteq Event
      BY <1>2, StagesAreEvents
    <3> QED
      BY <2>4, <2>5, <3>1, StepKeepsStages
  <2>7. Queues'
    BY <1>1, <1>7, <2>1 DEF IInv, Queues
  <2>8. CallsInv'
    BY <1>1, <2>1 DEF IInv, CallsInv, Paths, NothingSeen, Buffered
  <2> QED
    BY <2>1, <2>2, <2>6, <2>7, <2>8 DEF IInv
<1>8. CASE EnqueueRaises /\ live' = [live EXCEPT !.lost = @ \cup {e}]
  <2>1. /\ hist' = [hist EXCEPT !.error = FALSE] /\ UNCHANGED <<flushes, writer, log>>
        /\ live \in Buffer /\ hist \in History
    BY <1>2, <1>8 DEF EnqueueRaises, TypeInv
  <2>2. /\ hist' \in History /\ hist'.pending = hist.pending /\ hist'.committed = hist.committed
        /\ hist'.active = hist.active
    BY <2>1 DEF History
  <2>3. /\ live' \in Buffer /\ live'.order = live.order /\ live'.deferred = live.deferred
        /\ live'.lost = live.lost \cup {e}
    BY <1>3, <1>8, <2>1 DEF Buffer
  <2>4. TypeInv'
    BY <1>1, <1>2, <1>4, <2>1, <2>2, <2>3 DEF TypeInv
  <2>5. \A k \in 1..7 : Stage'[k] = Stage[k]
    BY <1>1, <2>2, <2>3, StageFrame
  <2>6. Moves(Stage, Stage', {}, 1, 1, 1)
    BY <1>6, <2>5 DEF Moves, Before
  <2>7. Keeps({}, 1)
    BY <1>1, <1>6, <2>1, <2>3, <2>5 DEF Keeps
  <2>8. (Chain(Stage) /\ Accounted /\ Durable)'
    <3>1. \A i \in 1..8 : Stage[i] \subseteq Event
      BY <1>2, StagesAreEvents
    <3> QED
      BY <2>6, <2>7, <3>1, StepKeepsStages
  <2>9. Queues'
    BY <1>1, <2>2, <2>3 DEF IInv, Queues
  <2>10. CallsInv'
    BY <1>1, <2>2 DEF IInv, CallsInv, Paths, NothingSeen, Buffered
  <2>11. Batches'
    BY <2>1, <2>2 DEF IInv, Batches
  <2> QED
    BY <2>4, <2>8, <2>9, <2>10, <2>11 DEF IInv
<1> QED
  BY <1>1, <1>7, <1>8 DEF e

\* The sink's reply leaves the callback.
LEMMA ReplyLeaves ==
    ASSUME IInv, callback = Reply, bound = {}, UNCHANGED <<seen, next>>,
           callback' = NoEvent \/ bound' = {Reply}
    PROVE  /\ Reply \in Stage[8] /\ Stage'[8] = Stage[8] \ {Reply}
           /\ \A x \in Stage'[8] : x.task # "reply"
<1>1. ~NothingSeen /\ ~NothingSeen'
  BY DEF IInv, CallsInv, NothingSeen
<1>2. ReplyIsDue /\ ~ReplyIsDue'
  BY <1>1, EventFacts DEF ReplyIsDue
<1> QED
  BY <1>2, EventFacts, StageIs DEF Unpublished

LEMMA CallbackBufferedKeeps ==
    ASSUME IInv, CallbackBuffered
    PROVE  IInv'
<1>1. /\ callback = Reply /\ Buffered /\ bound = {} /\ UNCHANGED <<config, next, live, drain, calls, seen>>
      /\ \/ Enqueue("callback", Reply) /\ bound' = {Reply} /\ UNCHANGED callback
         \/ EnqueueRaises /\ callback' = NoEvent /\ UNCHANGED bound
  BY DEF CallbackBuffered
<1>2. TypeInv /\ "callback" \in Flusher /\ Reply \in Event /\ Reply.task = "reply" /\ NoEvent # Reply
  BY EventFacts, NameFacts DEF IInv
<1>3. /\ Reply \in Stage[8] /\ Stage'[8] = Stage[8] \ {Reply}
      /\ \A x \in Stage'[8] : x.task # "reply"
  BY <1>1, ReplyLeaves
<1> HIDE DEF Reply, NoEvent
<1>4. CASE Enqueue("callback", Reply) /\ bound' = {Reply} /\ UNCHANGED callback
  <2>1. /\ hist' \in History /\ flushes' \in [Flusher -> Flush] /\ Batches' /\ log' = log
        /\ hist'.committed = hist.committed /\ hist'.active = hist.active
        /\ ToSet(hist'.pending) = ToSet(hist.pending) \cup {Reply} /\ Sorted(hist'.pending)
    BY <1>2, <1>3, <1>4, EnqueueEffect
  <2>2. TypeInv'
    BY <1>1, <1>2, <1>4, <2>1 DEF TypeInv
  <2>3. (\A k \in 1..6 : Stage'[k] = Stage[k]) /\ Stage'[7] = Stage[7] \cup {Reply}
    BY <1>1, <2>1, StageFrame, StageIs
  <2>4. Moves(Stage, Stage', {Reply}, 7, 7, 8)
    BY <1>2, <1>3, <2>3 DEF Moves, Before
  <2>5. Keeps({Reply}, 7)
    BY <1>1, <1>3, <2>1, <2>3 DEF Keeps
  <2>6. (Chain(Stage) /\ Accounted /\ Durable)'
    <3>1. \A i \in 1..8 : Stage[i] \subseteq Event
      BY <1>2, StagesAreEvents
    <3> QED
      BY <2>4, <2>5, <3>1, StepKeepsStages
  <2>7. Queues'
    BY <1>1, <2>1 DEF IInv, Queues
  <2>8. CallsInv'
    BY <1>1, <1>4, <2>1 DEF IInv, CallsInv, Paths, NothingSeen, Buffered
  <2> QED
    BY <2>1, <2>2, <2>6, <2>7, <2>8 DEF IInv
<1>5. CASE EnqueueRaises /\ callback' = NoEvent /\ UNCHANGED bound
  <2>1. /\ hist' = [hist EXCEPT !.error = FALSE] /\ UNCHANGED <<flushes, writer, log>> /\ hist \in History
    BY <1>2, <1>5 DEF EnqueueRaises, TypeInv
  <2>2. /\ hist' \in History /\ hist'.pending = hist.pending /\ hist'.committed = hist.committed
        /\ hist'.active = hist.active
    BY <2>1 DEF History
  <2>3. TypeInv'
    BY <1>1, <1>2, <1>5, <2>1, <2>2 DEF TypeInv
  <2>4. \A k \in 1..7 : Stage'[k] = Stage[k]
    BY <1>1, <2>2, StageFrame
  <2>5. Moves(Stage, Stage', {}, 1, 1, 1)
    BY <1>3, <2>4 DEF Moves, Before
  <2>6. Keeps({}, 1)
    BY <1>1, <1>3, <2>1, <2>4 DEF Keeps
  <2>7. (Chain(Stage) /\ Accounted /\ Durable)'
    <3>1. \A i \in 1..8 : Stage[i] \subseteq Event
      BY <1>2, StagesAreEvents
    <3> QED
      BY <2>5, <2>6, <3>1, StepKeepsStages
  <2>8. Queues'
    BY <1>1, <2>2 DEF IInv, Queues
  <2>9. CallsInv'
    BY <1>1, <1>2, <1>5, <2>2 DEF IInv, CallsInv, Paths, NothingSeen, Buffered
  <2>10. Batches'
    BY <2>1, <2>2 DEF IInv, Batches
  <2> QED
    BY <2>3, <2>7, <2>8, <2>9, <2>10 DEF IInv
<1> QED
  BY <1>1, <1>4, <1>5

LEMMA CallbackReturnsKeeps ==
    ASSUME IInv, CallbackReturns
    PROVE  IInv'
<1>1. /\ bound = {Reply} /\ callback' = NoEvent
      /\ UNCHANGED <<config, next, live, drain, calls, bound, seen, hist, flushes, writer, log>>
  BY DEF CallbackReturns, histVars
<1>2. TypeInv /\ NoEvent # Reply
  BY EventFacts DEF IInv
<1> HIDE DEF Reply, NoEvent
<1>3. \A k \in 1..7 : Stage'[k] = Stage[k]
  BY <1>1, StageFrame
<1>4. Stage'[8] = Stage[8]
  <2>1. ReplyIsDue' <=> ReplyIsDue
    BY <1>1 DEF ReplyIsDue, NothingSeen
  <2> QED
    BY <1>1, <2>1, StageIs DEF Unpublished
<1>5. \A k \in 1..8 : Stage'[k] = Stage[k]
  BY <1>3, <1>4
<1>6. Moves(Stage, Stage', {}, 1, 1, 1) /\ Keeps({}, 1)
  BY <1>1, <1>5 DEF Moves, Before, Keeps
<1>7. (Chain(Stage) /\ Accounted /\ Durable)'
  <2>1. \A i \in 1..8 : Stage[i] \subseteq Event
    BY <1>2, StagesAreEvents
  <2> QED
    BY <1>6, <2>1, StepKeepsStages
<1>8. TypeInv' /\ Queues' /\ Batches'
  BY <1>1 DEF IInv, TypeInv, Queues, Batches
<1>9. CallsInv'
  BY <1>1, <1>2 DEF IInv, CallsInv, Paths, NothingSeen, Buffered
<1> QED
  BY <1>7, <1>8, <1>9 DEF IInv
----------------------------------------------------------------------------
\* The calls that wait, and the release of an event.

\* No two threads wait with events of one task.
LEMMA OthersWait ==
    ASSUME TypeInv, CallsInv, NEW t \in Thread, NEW e \in Event,
           (t \in Producer /\ ~Buffered /\ e.task = t) \/ (t = "releaser" /\ Buffered)
    PROVE  \A u \in Thread \ {t} : calls[u].event = NoEvent \/ calls[u].event.task # e.task
<1>1. IdleCall.event = NoEvent
  BY DEF IdleCall
<1>2. \A u \in Thread : u \in Producer \/ u \in {"releaser", "loop", "closer"}
  BY DEF Thread
<1>3. \A u \in {"loop", "closer"} : u \in Thread => calls[u].event = NoEvent
  BY DEF CallsInv, CallIsRight
<1>4. CASE t \in Producer /\ ~Buffered /\ e.task = t
  <2>1. calls["releaser"].event = NoEvent
    BY <1>1, <1>4 DEF CallsInv, Paths
  <2>2. \A u \in Producer : u \in Thread => calls[u].event = NoEvent \/ calls[u].event.task = u
    BY DEF CallsInv, CallIsRight
  <2> QED
    BY <1>2, <1>3, <1>4, <2>1, <2>2
<1>5. CASE t = "releaser" /\ Buffered
  <2>1. \A u \in Producer : calls[u].event = NoEvent
    BY <1>1, <1>5 DEF CallsInv, Paths
  <2> QED
    BY <1>2, <1>3, <1>5, <2>1
<1> QED
  BY <1>4, <1>5

\* An event e leaves a stage behind the live buffer and is released.
LEMMA ReleaseKeeps ==
    ASSUME IInv, NEW t \in Thread \ {"loop", "closer"}, NEW e \in Event, NEW from \in {5, 6, 8},
           t \in Producer => e.task = t, ReleaseBy(t, e, FALSE), e \in Stage[from],
           calls[t].op # "drain", calls[t].event \in {NoEvent, e},
           \A u \in Thread \ {t} : calls[u].event = NoEvent \/ calls[u].event.task # e.task,
           UNCHANGED <<config, drain, seen>>,
           \A k \in 6..8 : Stage'[k] \subseteq Stage[k] /\ \A x \in Stage[k] : x = e \/ x \in Stage'[k],
           \A k \in 6..from : Before({e}, Stage'[k]),
           \A x \in Event : log[x] = 1 => log'[x] = 1, Buffered => log'[e] = 1
    PROVE  /\ (Chain(Stage) /\ Accounted /\ Durable)'
           /\ live' \in Buffer /\ live'.deferred = live.deferred /\ Sorted(live'.order)
           /\ calls' \in [Thread -> Call] /\ calls' = [calls EXCEPT ![t] = calls'[t]]
           /\ \A u \in Thread : CallIsRight(u, calls'[u])
           /\ Release(e, FALSE).then \in {"done", "raise", "block", "drain"}
           /\ Release(e, FALSE).then \in {"done", "raise"} => calls'[t] = IdleCall
<1>1. /\ TypeInv /\ live \in Buffer /\ calls \in [Thread -> Call] /\ e # NoEvent
      /\ Sorted(live.order) /\ t \in Thread /\ from \in 5..8
  BY EventFacts DEF IInv, TypeInv, Queues
<1>2. Before(ToSet(live.order), {e})
  <2>1. Before(Stage[4], Stage[from])
    BY <1>1 DEF IInv, Chain
  <2> QED
    BY <2>1, StageIs DEF Before
<1>3. /\ Admits(live, live', e)
      /\ calls' = [calls EXCEPT ![t] = calls'[t]]
      /\ calls'[t] \in Call /\ CallIsRight(t, calls'[t]) /\ calls'[t].event \in {e, NoEvent}
      /\ e \in ToSet(live'.order) \cup live'.lost \cup {calls'[t].event}
      /\ calls'[t].event = e => live' = live
      /\ Release(e, FALSE).then \in {"done", "raise", "block", "drain"}
      /\ Release(e, FALSE).then \in {"done", "raise"} => calls'[t] = IdleCall
  BY <1>1, <1>2, ReleaseEffect
<1>4. calls' \in [Thread -> Call] /\ \A u \in Thread : u # t => calls'[u] = calls[u]
  BY <1>1, <1>3
<1>5. \A u \in Thread : CallIsRight(u, calls'[u])
  BY <1>3, <1>4 DEF IInv, CallsInv
<1>6. drain.owner # t
  BY <1>1 DEF IInv, CallsInv
<1>7. /\ \A x \in Stage'[5] : x = calls'[t].event \/ (x \in Stage[5] /\ x.task # e.task)
      /\ \A x \in Stage[5] : x = e \/ x \in Stage'[5]
      /\ calls'[t].event = e => e \in Stage'[5]
  <2>1. /\ Waiting' = {calls'[u].event : u \in {v \in Thread : drain.owner # v \/ drain.stage = "before"}} \ {NoEvent}
        /\ Stage[5] = Waiting /\ Stage'[5] = Waiting'
    BY StageIs DEF Waiting
  <2> QED
    BY <1>1, <1>4, <1>6, <2>1 DEF Waiting
<1>8. (\A k \in 1..3 : Stage'[k] = Stage[k]) /\ Stage[4] = ToSet(live.order) /\ Stage'[4] = ToSet(live'.order)
  BY <1>3, StageFrame, StageIs DEF Admits
<1>9. live.lost \subseteq live'.lost /\ ToSet(live.order) \subseteq ToSet(live'.order) \cup live'.lost
      /\ ToSet(live'.order) \subseteq ToSet(live.order) \cup {e}
  BY <1>3 DEF Admits
<1>10. \A i \in 1..8 : Stage[i] \subseteq Event
  BY <1>1, StagesAreEvents
<1>11. CASE calls'[t].event = e
  <2>1. Stage'[4] = Stage[4]
    BY <1>3, <1>8, <1>11
  <2>2. \A k \in 1..8 : k # 5 => Stage'[k] \subseteq Stage[k]
    BY <1>8, <2>1
  <2>3. Moves(Stage, Stage', {e}, 5, 5, from)
    <3>1. from \in 5..from /\ \A k \in 5..from : k = 5 \/ k \in 6..from
      BY <1>1
    <3>2. Stage'[5] \subseteq Stage[5] \cup {e}
      BY <1>7, <1>11
    <3>3. \A x \in {e} : \E j \in 5..from : x \in Stage[j]
      BY <3>1
    <3>4. \A k \in 5..from : (k < 5 => Before(Stage'[k], {e})) /\ (k > 5 => Before({e}, Stage'[k]))
      <4> SUFFICES ASSUME NEW k \in 5..from
                   PROVE  ~(k < 5) /\ (k > 5 => Before({e}, Stage'[k]))
        OBVIOUS
      <4>1. ~(k < 5)
        BY <1>1
      <4>2. k > 5 => Before({e}, Stage'[k])
        <5>1. CASE k \in 6..from
          BY <5>1
        <5>2. CASE k \notin 6..from
          BY <3>1, <5>2
        <5> QED
          BY <5>1, <5>2
      <4> QED
        BY <4>1, <4>2
    <3> QED
      BY <2>2, <3>2, <3>3, <3>4 DEF Moves
  <2>4. Keeps({e}, 5)
    BY <1>7, <1>8, <1>9, <1>11, <2>1 DEF Keeps
  <2>5. 5 <= from /\ from \in 1..8
    OBVIOUS
  <2>6. (Chain(Stage) /\ Accounted /\ Durable)'
    BY <1>10, <2>3, <2>4, <2>5, StepKeepsStages
  <2> QED
    BY <1>3, <1>4, <1>5, <2>6 DEF Admits
<1>12. CASE calls'[t].event = NoEvent
  <2>1. \A x \in Stage'[5] : x \in Stage[5] /\ x.task # e.task
    <3>1. \A x \in Stage'[5] : x # NoEvent
      BY StageIs DEF Waiting
    <3> QED
      BY <1>7, <1>12, <3>1
  <2>2. \A k \in 1..8 : k # 4 => Stage'[k] \subseteq Stage[k]
    BY <1>8, <2>1
  <2>3. Before({e}, Stage'[5])
    BY <2>1 DEF Before
  <2>4. Moves(Stage, Stage', {e}, 4, 4, from)
    <3>1. from \in 4..from /\ \A k \in 4..from : k = 4 \/ k = 5 \/ k \in 6..from
      BY <1>1
    <3>2. Stage'[4] \subseteq Stage[4] \cup {e}
      BY <1>8, <1>9
    <3>3. \A x \in {e} : \E j \in 4..from : x \in Stage[j]
      BY <3>1
    <3>4. \A k \in 4..from : (k < 4 => Before(Stage'[k], {e})) /\ (k > 4 => Before({e}, Stage'[k]))
      <4> SUFFICES ASSUME NEW k \in 4..from
                   PROVE  ~(k < 4) /\ (k > 4 => Before({e}, Stage'[k]))
        OBVIOUS
      <4>1. ~(k < 4)
        BY <1>1
      <4>2. k > 4 => Before({e}, Stage'[k])
        <5>1. CASE k \in 6..from
          BY <5>1
        <5>2. CASE k \notin 6..from
          BY <2>3, <3>1, <5>2
        <5> QED
          BY <5>1, <5>2
      <4> QED
        BY <4>1, <4>2
    <3> QED
      BY <2>2, <3>2, <3>3, <3>4 DEF Moves
  <2>5. e \in Stage'[4] \cup live'.lost
    BY <1>1, <1>3, <1>8, <1>12
  <2>6. Keeps({e}, 4)
    BY <1>7, <1>8, <1>9, <2>5 DEF Keeps
  <2>7. 4 <= from /\ from \in 1..8
    OBVIOUS
  <2>8. (Chain(Stage) /\ Accounted /\ Durable)'
    BY <1>10, <2>4, <2>6, <2>7, StepKeepsStages
  <2> QED
    BY <1>3, <1>4, <1>5, <2>8 DEF Admits
<1> QED
  BY <1>3, <1>11, <1>12

LEMMA PublishLiveKeeps ==
    ASSUME IInv, NEW p \in Producer, PublishLive(p)
    PROVE  IInv'
<1> DEFINE e == [task |-> p, n |-> next[p]]
<1>1. /\ calls[p] = IdleCall /\ next[p] <= config.length[p] /\ ~Buffered /\ ReleaseBy(p, e, FALSE)
      /\ next' = [next EXCEPT ![p] = @ + 1] /\ log' \in {log, [log EXCEPT ![e] = 1]}
      /\ UNCHANGED <<config, drain, callback, bound, seen, hist, flushes, writer>>
  BY DEF PublishLive, InPublish
<1>2. /\ TypeInv /\ CallsInv /\ next \in [Producer -> 1..(MaxLength + 1)] /\ config.length[p] \in 0..MaxLength
      /\ p \in Thread \ {"loop", "closer"} /\ p \in Thread /\ log \in [Event -> Nat]
  BY LiveEventsAssumption, NameFacts DEF IInv, TypeInv
<1>3. e \in Event /\ e # Reply /\ e.task = p /\ e.n = next[p] /\ next[p] \in 1..MaxLength
  BY <1>1, <1>2, EventFacts
<1>4. next' \in [Producer -> 1..(MaxLength + 1)] /\ next'[p] = next[p] + 1
      /\ \A q \in Producer : q # p => next'[q] = next[q]
  BY <1>1, <1>2, <1>3, EventFacts
<1>5. e \in Stage[8]
  BY <1>3, StageIs DEF Unpublished
<1>6. /\ Stage'[8] \subseteq Stage[8] /\ \A x \in Stage[8] : x = e \/ x \in Stage'[8]
      /\ Before({e}, Stage'[8])
  <2>1. Stage[8] = Unpublished /\ Stage'[8] = Unpublished' /\ (ReplyIsDue' <=> ReplyIsDue)
    BY <1>1, StageIs DEF ReplyIsDue, NothingSeen
  <2>2. \A x \in Event \ {Reply} : x.task \in Producer /\ x.n \in Nat /\ x = [task |-> x.task, n |-> x.n]
    BY EventFacts
  <2>3. \A x \in Event \ {Reply} : /\ x.n >= next'[x.task] => x.n >= next[x.task]
                                   /\ x.n >= next[x.task] => x = e \/ x.n >= next'[x.task]
                                   /\ x.n >= next'[x.task] /\ x.task = p => x.n > e.n
    BY <1>2, <1>3, <1>4, <2>2
  <2>4. Reply.task # p
    BY EventFacts, NameFacts
  <2> HIDE DEF e
  <2> QED
    BY <1>3, <2>1, <2>3, <2>4 DEF Unpublished, Before
<1>7. log' \in [Event -> Nat] /\ \A x \in Event : log[x] = 1 => log'[x] = 1
  BY <1>1, <1>2
<1> HIDE DEF e
<1>8. /\ Stage'[6] = Stage[6] /\ Stage'[7] = Stage[7] /\ Stage[6] = {} /\ Stage[7] = {}
  BY <1>1, <1>2, StageFrame, StageIs, EmptyIsSorted DEF CallsInv, Paths
<1>9. /\ \A k \in 6..8 : Stage'[k] \subseteq Stage[k] /\ \A x \in Stage[k] : x = e \/ x \in Stage'[k]
      /\ \A k \in 6..8 : Before({e}, Stage'[k])
  <2>1. \A k \in 6..8 : k = 6 \/ k = 7 \/ k = 8
    OBVIOUS
  <2>2. Before({e}, Stage'[6]) /\ Before({e}, Stage'[7])
    BY <1>8 DEF Before
  <2> QED
    BY <1>6, <1>8, <2>1, <2>2
<1>10. calls[p].op # "drain" /\ calls[p].event = NoEvent
  BY <1>1 DEF IdleCall
<1>11. \A u \in Thread \ {p} : calls[u].event = NoEvent \/ calls[u].event.task # e.task
  BY <1>1, <1>2, <1>3, OthersWait
<1>12. /\ (Chain(Stage) /\ Accounted /\ Durable)'
       /\ live' \in Buffer /\ live'.deferred = live.deferred /\ Sorted(live'.order)
       /\ calls' \in [Thread -> Call] /\ calls' = [calls EXCEPT ![p] = calls'[p]]
       /\ \A u \in Thread : CallIsRight(u, calls'[u])
  BY <1>1, <1>2, <1>3, <1>5, <1>7, <1>9, <1>10, <1>11, ReleaseKeeps
<1>13. TypeInv'
  BY <1>1, <1>2, <1>4, <1>7, <1>12 DEF TypeInv
<1>14. Queues'
  BY <1>1, <1>12 DEF IInv, Queues
<1>15. \A u \in Thread : u # p => calls'[u] = calls[u]
  BY <1>12
<1>16. CallsInv'
  <2>1. "releaser" \in Thread /\ "releaser" # p /\ drain.owner # p
    BY <1>2, <1>10, NameFacts DEF CallsInv
  <2> QED
    BY <1>1, <1>2, <1>12, <1>15, <2>1 DEF CallsInv, Paths, NothingSeen, Buffered
<1>17. Batches'
  BY <1>1 DEF IInv, Batches
<1> QED
  BY <1>12, <1>13, <1>14, <1>16, <1>17 DEF IInv
\* The queue of deferred operations.

LEMMA OperationsAppended ==
    ASSUME NEW q \in Seq(Delivery), NEW op \in Delivery
    PROVE  /\ Append(q, op) \in Seq(Delivery)
           /\ EventsOf(Append(q, op)) = EventsOf(q) \cup OpEvents(op)
           /\ InLine(q) /\ OpSorted(op) /\ Before(EventsOf(q), OpEvents(op)) => InLine(Append(q, op))
<1> DEFINE n == Len(q)
           r == Append(q, op)
<1>1. /\ n \in Nat /\ DOMAIN q = 1..n /\ r \in Seq(Delivery) /\ DOMAIN r = 1..(n + 1)
      /\ (\A i \in 1..n : r[i] = q[i]) /\ r[n + 1] = op
  BY AppendProperties, LenProperties
<1> HIDE DEF n, r
<1>2. \A i \in 1..(n + 1) : i \in 1..n \/ i = n + 1
  BY <1>1
<1>3. (\A i \in 1..n : i \in 1..(n + 1) /\ i # n + 1 /\ i < n + 1) /\ n + 1 \in 1..(n + 1)
  BY <1>1
<1>4. EventsOf(r) = EventsOf(q) \cup OpEvents(op)
  <2>1. EventsOf(r) \subseteq EventsOf(q) \cup OpEvents(op)
    BY <1>1, <1>2 DEF EventsOf
  <2>2. EventsOf(q) \subseteq EventsOf(r)
    BY <1>1, <1>3 DEF EventsOf
  <2>3. OpEvents(op) \subseteq EventsOf(r)
    BY <1>1, <1>3 DEF EventsOf
  <2> QED
    BY <2>1, <2>2, <2>3
<1>5. ASSUME InLine(q), OpSorted(op), Before(EventsOf(q), OpEvents(op)) PROVE InLine(r)
  <2>1. \A i \in 1..(n + 1) : OpSorted(r[i])
    BY <1>1, <1>2, <1>5 DEF InLine
  <2>2. ASSUME NEW i \in 1..(n + 1), NEW j \in 1..(n + 1), i < j
        PROVE  Before(OpEvents(r[i]), OpEvents(r[j]))
    <3>1. i \in 1..n /\ r[i] = q[i]
      BY <1>1, <2>2
    <3>2. CASE j \in 1..n
      BY <1>1, <1>5, <2>2, <3>1, <3>2 DEF InLine
    <3>3. CASE j = n + 1
      <4>1. OpEvents(q[i]) \subseteq EventsOf(q)
        BY <1>1, <3>1 DEF EventsOf
      <4> QED
        BY <1>1, <1>5, <3>1, <3>3, <4>1 DEF Before
    <3> QED
      BY <1>2, <3>2, <3>3
  <2> QED
    BY <1>1, <2>1, <2>2 DEF InLine
<1> QED
  BY <1>1, <1>4, <1>5 DEF r

LEMMA OperationsPrepended ==
    ASSUME NEW q \in Seq(Delivery), NEW op \in Delivery
    PROVE  /\ <<op>> \o q \in Seq(Delivery)
           /\ EventsOf(<<op>> \o q) = OpEvents(op) \cup EventsOf(q)
           /\ InLine(q) /\ OpSorted(op) /\ Before(OpEvents(op), EventsOf(q)) => InLine(<<op>> \o q)
<1> DEFINE n == Len(q)
           s == <<op>>
           r == s \o q
<1>1. s \in Seq(Delivery) /\ Len(s) = 1 /\ s[1] = op
  OBVIOUS
<1> HIDE DEF s
<1> HIDE DEF Delivery
<1>2. /\ n \in Nat /\ DOMAIN q = 1..n /\ r \in Seq(Delivery) /\ DOMAIN r = 1..(1 + n)
      /\ r[1] = op /\ (\A i \in 1..n : r[1 + i] = q[i])
  <2>1. /\ r \in Seq(Delivery) /\ Len(r) = Len(s) + Len(q)
        /\ \A i \in 1..(Len(s) + Len(q)) : r[i] = IF i <= Len(s) THEN s[i] ELSE q[i - Len(s)]
    BY <1>1, ConcatProperties
  <2>2. n \in Nat /\ DOMAIN q = 1..n
    BY LenProperties
  <2>3. Len(r) = 1 + n /\ \A i \in 1..(1 + n) : r[i] = IF i <= 1 THEN s[i] ELSE q[i - 1]
    BY <1>1, <2>1
  <2> HIDE DEF r, n
  <2>4. 1 \in 1..(1 + n) /\ \A i \in 1..n : 1 + i \in 1..(1 + n) /\ ~(1 + i <= 1) /\ (1 + i) - 1 = i
    BY <2>2
  <2> QED
    BY <1>1, <2>1, <2>2, <2>3, <2>4, LenProperties
<1> HIDE DEF n, r
<1>3. \A i \in 1..(1 + n) : i = 1 \/ (i - 1 \in 1..n /\ i = 1 + (i - 1))
  BY <1>2
<1>4. (\A i \in 1..n : 1 + i \in 1..(1 + n)) /\ 1 \in 1..(1 + n)
  BY <1>2
<1>5. EventsOf(r) = OpEvents(op) \cup EventsOf(q)
  <2>1. EventsOf(r) \subseteq EventsOf(q) \cup OpEvents(op)
    BY <1>2, <1>3 DEF EventsOf
  <2>2. EventsOf(q) \subseteq EventsOf(r)
    BY <1>2, <1>4 DEF EventsOf
  <2>3. OpEvents(op) \subseteq EventsOf(r)
    BY <1>2, <1>4 DEF EventsOf
  <2> QED
    BY <2>1, <2>2, <2>3
<1>6. ASSUME InLine(q), OpSorted(op), Before(OpEvents(op), EventsOf(q)) PROVE InLine(r)
  <2>1. \A i \in 1..(1 + n) : OpSorted(r[i])
    <3>1. \A i \in 1..n : OpSorted(q[i])
      BY <1>2, <1>6 DEF InLine
    <3> QED
      BY <1>2, <1>3, <1>6, <3>1
  <2>2. ASSUME NEW i \in 1..(1 + n), NEW j \in 1..(1 + n), i < j
        PROVE  Before(OpEvents(r[i]), OpEvents(r[j]))
    <3>1. j - 1 \in 1..n /\ r[j] = q[j - 1]
      BY <1>2, <1>3, <2>2
    <3>2. CASE i = 1
      <4>1. OpEvents(q[j - 1]) \subseteq EventsOf(q)
        BY <1>2, <3>1 DEF EventsOf
      <4> QED
        BY <1>2, <1>6, <3>1, <3>2, <4>1 DEF Before
    <3>3. CASE i # 1
      <4>1. i - 1 \in 1..n /\ r[i] = q[i - 1] /\ i - 1 < j - 1
        BY <1>2, <1>3, <2>2, <3>3
      <4> QED
        BY <1>2, <1>6, <3>1, <4>1 DEF InLine
    <3> QED
      BY <3>2, <3>3
  <2> QED
    BY <1>2, <2>1, <2>2 DEF InLine
<1> QED
  BY <1>2, <1>5, <1>6 DEF r, s

LEMMA OperationTaken ==
    ASSUME NEW q \in Seq(Delivery), q # <<>>
    PROVE  /\ Head(q) \in Delivery /\ Tail(q) \in Seq(Delivery)
           /\ EventsOf(q) = OpEvents(Head(q)) \cup EventsOf(Tail(q))
           /\ InLine(q) => /\ OpSorted(Head(q)) /\ InLine(Tail(q))
                           /\ Before(OpEvents(Head(q)), EventsOf(Tail(q)))
<1> DEFINE n == Len(q)
           r == Tail(q)
           h == Head(q)
<1>1. /\ n \in Nat /\ n >= 1 /\ DOMAIN q = 1..n /\ h \in Delivery /\ h = q[1]
      /\ r \in Seq(Delivery) /\ DOMAIN r = 1..(n - 1) /\ \A i \in 1..(n - 1) : r[i] = q[i + 1]
  <2>1. n \in Nat /\ DOMAIN q = 1..n /\ n # 0
    BY LenProperties, EmptySeq
  <2>2. Head(q) \in Delivery /\ Head(q) = q[1]
    BY HeadTailProperties
  <2>3. r \in Seq(Delivery) /\ Len(r) = n - 1 /\ \A i \in 1..Len(r) : r[i] = q[i + 1]
    BY HeadTailProperties
  <2> HIDE DEF n, r
  <2> QED
    BY <2>1, <2>2, <2>3, LenProperties
<1> HIDE DEF n, r, h
<1>2. \A i \in 1..n : i = 1 \/ (i - 1 \in 1..(n - 1) /\ i = (i - 1) + 1)
  BY <1>1
<1>3. (\A i \in 1..(n - 1) : i + 1 \in 1..n /\ 1 < i + 1) /\ 1 \in 1..n
      /\ \A i, j \in 1..(n - 1) : i < j => i + 1 < j + 1
  BY <1>1
<1>4. EventsOf(q) = OpEvents(h) \cup EventsOf(r)
  <2>1. EventsOf(q) \subseteq OpEvents(h) \cup EventsOf(r)
    <3> SUFFICES ASSUME NEW x, NEW i \in 1..n, x \in OpEvents(q[i])
                 PROVE  x \in OpEvents(h) \cup EventsOf(r)
      BY <1>1 DEF EventsOf
    <3>1. CASE i = 1
      BY <1>1, <3>1
    <3>2. CASE i # 1
      <4>1. i - 1 \in 1..(n - 1) /\ r[i - 1] = q[i]
        BY <1>1, <1>2, <3>2
      <4> QED
        BY <1>1, <4>1 DEF EventsOf
    <3> QED
      BY <3>1, <3>2
  <2>2. EventsOf(r) \subseteq EventsOf(q)
    BY <1>1, <1>3 DEF EventsOf
  <2>3. OpEvents(h) \subseteq EventsOf(q)
    BY <1>1, <1>3 DEF EventsOf
  <2> QED
    BY <2>1, <2>2, <2>3
<1>5. ASSUME InLine(q) PROVE OpSorted(h) /\ InLine(r) /\ Before(OpEvents(h), EventsOf(r))
  <2>1. OpSorted(h) /\ InLine(r)
    BY <1>1, <1>3, <1>5 DEF InLine
  <2>2. \A i \in 1..(n - 1) : Before(OpEvents(h), OpEvents(r[i]))
    BY <1>1, <1>3, <1>5 DEF InLine
  <2> QED
    BY <1>1, <2>1, <2>2 DEF EventsOf, Before
<1> QED
  BY <1>1, <1>4, <1>5 DEF r, h
\* The reply leaves a stage behind the live buffer inside of a drain.
LEMMA ReentrantKeeps ==
    ASSUME IInv, NEW from \in {6, 8}, Reply \in Stage[from], Buffered => from = 6,
           live' = Release(Reply, TRUE).live, calls["releaser"] = IdleCall,
           UNCHANGED <<config, drain, calls, seen, log>>,
           \A k \in 6..8 : Stage'[k] \subseteq Stage[k] /\ \A x \in Stage[k] : x = Reply \/ x \in Stage'[k],
           \A k \in 6..from : Before({Reply}, Stage'[k])
    PROVE  /\ (Chain(Stage) /\ Accounted /\ Durable)'
           /\ live' \in Buffer /\ InLine(live'.deferred) /\ Sorted(live'.order)
           /\ Release(Reply, TRUE).then \in {"done", "raise"}
<1>1. /\ TypeInv /\ live \in Buffer /\ Sorted(live.order) /\ InLine(live.deferred)
      /\ live.deferred \in Seq(Delivery)
  BY DEF IInv, TypeInv, Queues, Buffer
<1>2. Before(ToSet(live.order), {Reply}) /\ Before(Stage[3], {Reply})
  <2>1. Before(Stage[4], Stage[from]) /\ Before(Stage[3], Stage[from])
    BY DEF IInv, Chain
  <2> QED
    BY <2>1, StageIs DEF Before
<1>3. /\ Release(Reply, TRUE).then \in {"done", "raise"} /\ live' \in Buffer /\ live.lost \subseteq live'.lost
      /\ \/ Admits(live, live', Reply)
         \/ \E op \in Delivery :
               /\ live'.deferred = Append(live.deferred, op) /\ OpSorted(op)
               /\ OpEvents(op) \subseteq ToSet(live.order) \cup {Reply}
               /\ Sorted(live'.order) /\ ToSet(live'.order) \subseteq ToSet(live.order)
               /\ ToSet(live.order) \subseteq ToSet(live'.order) \cup OpEvents(op) \cup live'.lost
               /\ Before(OpEvents(op), ToSet(live'.order))
  <2>1. LET o == Release(Reply, TRUE)
        IN  /\ o.then \in {"done", "raise"} /\ o.live \in Buffer /\ live.lost \subseteq o.live.lost
            /\ \/ Admits(live, o.live, Reply)
               \/ \E op \in Delivery :
                     /\ o.live.deferred = Append(live.deferred, op) /\ OpSorted(op)
                     /\ OpEvents(op) \subseteq ToSet(live.order) \cup {Reply}
                     /\ Sorted(o.live.order) /\ ToSet(o.live.order) \subseteq ToSet(live.order)
                     /\ ToSet(live.order) \subseteq ToSet(o.live.order) \cup OpEvents(op) \cup o.live.lost
                     /\ Before(OpEvents(op), ToSet(o.live.order))
    BY <1>1, <1>2, ReentrantEffect
  <2> QED
    BY <2>1
<1>4. /\ Stage'[1] = Stage[1] /\ Stage'[2] = Stage[2] /\ Stage'[5] = Stage[5]
      /\ Stage[3] = EventsOf(live.deferred) /\ Stage'[3] = EventsOf(live'.deferred)
      /\ Stage[4] = ToSet(live.order) /\ Stage'[4] = ToSet(live'.order)
  BY StageFrame, StageIs DEF DeferredEvents
<1>5. \A x \in Stage[5] : x.task # "reply"
  <2>1. IdleCall.event = NoEvent
    BY DEF IdleCall
  <2>2. \A u \in Thread : calls[u].event = NoEvent \/ (u \in Producer /\ calls[u].event.task = u)
    BY <2>1 DEF IInv, CallsInv, CallIsRight, Thread
  <2> QED
    BY <2>2, StageIs, NameFacts DEF Waiting
<1>6. \A i \in 1..8 : Stage[i] \subseteq Event
  BY <1>1, StagesAreEvents
<1>7. Reply.task = "reply" /\ Reply \in Event
  BY EventFacts
<1>8. from \in 1..8 /\ 3 <= from /\ 4 <= from /\ from \in 3..from /\ from \in 4..from /\ 4 \in 3..from
      /\ \A k \in 3..from : k = 3 \/ k = 4 \/ k = 5 \/ k \in 6..from
  OBVIOUS
<1> HIDE DEF Reply
<1>9. /\ Stage'[6] \subseteq Stage[6] /\ \A x \in Stage[6] : x = Reply \/ x \in Stage'[6]
      /\ Stage'[7] \subseteq Stage[7] /\ \A x \in Stage[7] : x = Reply \/ x \in Stage'[7]
      /\ Stage'[8] \subseteq Stage[8] /\ \A x \in Stage[8] : x = Reply \/ x \in Stage'[8]
  <2>1. 6 \in 6..8 /\ 7 \in 6..8 /\ 8 \in 6..8
    OBVIOUS
  <2> QED
    BY <2>1
<1>10. /\ \A k \in {1, 2, 5, 6, 7, 8} :
             Stage'[k] \subseteq Stage[k] /\ \A x \in Stage[k] : x = Reply \/ x \in Stage'[k]
       /\ \A k \in 1..8 : k \in {1, 2, 5, 6, 7, 8} \/ k = 3 \/ k = 4
  <2>1. \A k \in 1..8 : k \in {1, 2, 5, 6, 7, 8} \/ k = 3 \/ k = 4
    OBVIOUS
  <2>2. /\ Stage'[1] \subseteq Stage[1] /\ \A x \in Stage[1] : x = Reply \/ x \in Stage'[1]
        /\ Stage'[2] \subseteq Stage[2] /\ \A x \in Stage[2] : x = Reply \/ x \in Stage'[2]
        /\ Stage'[5] \subseteq Stage[5] /\ \A x \in Stage[5] : x = Reply \/ x \in Stage'[5]
    BY <1>4
  <2> QED
    BY <1>9, <2>1, <2>2
<1>11. CASE Admits(live, live', Reply)
  <2>1. /\ live'.deferred = live.deferred /\ Sorted(live'.order)
        /\ Stage'[4] \subseteq Stage[4] \cup {Reply} /\ Stage[4] \subseteq Stage'[4] \cup live'.lost
    BY <1>4, <1>11 DEF Admits
  <2>2. Stage'[3] = Stage[3] /\ \A k \in 1..8 : k # 4 => Stage'[k] \subseteq Stage[k]
    <3>1. EventsOf(live'.deferred) = EventsOf(live.deferred)
      BY <2>1
    <3>2. Stage'[3] = Stage[3]
      BY <1>4, <3>1
    <3> QED
      BY <1>10, <3>2
  <2>3. Moves(Stage, Stage', {Reply}, 4, 4, from)
    <3>1. \A x \in {Reply} : \E j \in 4..from : x \in Stage[j]
      BY <1>8
    <3>2. \A k \in 4..from : (k < 4 => Before(Stage'[k], {Reply})) /\ (k > 4 => Before({Reply}, Stage'[k]))
      <4>1. Before({Reply}, Stage'[5])
        BY <1>4, <1>5, <1>7 DEF Before
      <4>2. \A k \in 4..from : ~(k < 4) /\ (k = 4 \/ k = 5 \/ k \in 6..from)
        OBVIOUS
      <4> QED
        BY <4>1, <4>2
    <3> QED
      BY <2>1, <2>2, <3>1, <3>2 DEF Moves
  <2>4. Keeps({Reply}, 4)
    <3>1. Buffered => log'[Reply] = 1
      BY <1>7 DEF IInv, Durable
    <3>2. \A k \in 1..8 : \A x \in Stage[k] : x = Reply \/ x \in live'.lost \/ x \in Stage'[k]
      <4>1. \A x \in Stage[4] : x \in live'.lost \/ x \in Stage'[4]
        BY <2>1
      <4>2. Stage'[3] = Stage[3]
        BY <2>2
      <4>3. \A k \in {1, 2, 5, 6, 7, 8} : \A x \in Stage[k] : x = Reply \/ x \in Stage'[k]
        BY <1>10
      <4>4. \A k \in 1..8 : k \in {1, 2, 5, 6, 7, 8} \/ k = 3 \/ k = 4
        BY <1>10
      <4> SUFFICES ASSUME NEW k \in 1..8, NEW x \in Stage[k]
                   PROVE  x = Reply \/ x \in live'.lost \/ x \in Stage'[k]
        OBVIOUS
      <4>5. CASE k = 4
        BY <4>1, <4>5
      <4>6. CASE k = 3
        BY <4>2, <4>6
      <4>7. CASE k \in {1, 2, 5, 6, 7, 8}
        BY <4>3, <4>7
      <4> QED
        BY <4>4, <4>5, <4>6, <4>7
    <3> QED
      BY <1>3, <3>1, <3>2 DEF Keeps
  <2>5. (Chain(Stage) /\ Accounted /\ Durable)'
    BY <1>6, <1>8, <2>3, <2>4, StepKeepsStages
  <2> QED
    BY <1>1, <1>3, <2>1, <2>5
<1>12. CASE ~Admits(live, live', Reply)
  <2>1. PICK op \in Delivery :
           /\ live'.deferred = Append(live.deferred, op) /\ OpSorted(op)
           /\ OpEvents(op) \subseteq ToSet(live.order) \cup {Reply}
           /\ Sorted(live'.order) /\ ToSet(live'.order) \subseteq ToSet(live.order)
           /\ ToSet(live.order) \subseteq ToSet(live'.order) \cup OpEvents(op) \cup live'.lost
           /\ Before(OpEvents(op), ToSet(live'.order))
    BY <1>3, <1>12
  <2> DEFINE X == OpEvents(op)
  <2>2. X \subseteq Stage[4] \cup {Reply}
    BY <1>4, <2>1
  <2>3. Before(Stage[3], X)
    <3>1. Before(Stage[3], Stage[4])
      BY DEF IInv, Chain
    <3> QED
      BY <1>2, <2>2, <3>1 DEF Before
  <2>4. EventsOf(live'.deferred) = EventsOf(live.deferred) \cup X /\ InLine(live'.deferred)
    BY <1>1, <1>4, <2>1, <2>3, OperationsAppended
  <2> HIDE DEF X
  <2>5. /\ Stage'[3] = Stage[3] \cup X /\ Stage'[4] \subseteq Stage[4]
        /\ Stage[4] \subseteq Stage'[4] \cup X \cup live'.lost
    <3>1. ToSet(live.order) \subseteq ToSet(live'.order) \cup X \cup live'.lost
      BY <2>1 DEF X
    <3>2. Stage'[3] = Stage[3] \cup X
      BY <1>4, <2>4
    <3>3. Stage'[4] \subseteq Stage[4]
      <4>1. ToSet(live'.order) \subseteq ToSet(live.order)
        BY <2>1
      <4>2. Stage[4] = ToSet(live.order) /\ Stage'[4] = ToSet(live'.order)
        BY <1>4
      <4> QED
        BY <4>1, <4>2
    <3>4. Stage[4] \subseteq Stage'[4] \cup X \cup live'.lost
      BY <1>4, <3>1
    <3> QED
      BY <3>2, <3>3, <3>4
  <2>6. \A k \in 1..8 : k # 3 => Stage'[k] \subseteq Stage[k]
    <3>1. Stage'[4] \subseteq Stage[4]
      BY <2>5
    <3> QED
      BY <1>10, <3>1
  <2>7. Moves(Stage, Stage', X, 3, 3, from)
    <3>1. \A x \in X : \E j \in 3..from : x \in Stage[j]
      BY <1>8, <2>2
    <3>2. \A k \in 3..from : (k < 3 => Before(Stage'[k], X)) /\ (k > 3 => Before(X, Stage'[k]))
      <4>1. Before(X, Stage'[4])
        BY <1>4, <2>1 DEF X
      <4>2. Before(X, Stage'[5])
        <5>1. Before(Stage[4], Stage[5])
          BY DEF IInv, Chain
        <5> QED
          BY <1>4, <1>5, <1>7, <2>2, <5>1 DEF Before
      <4>3. \A k \in 6..from : Before(X, Stage'[k])
        <5>1. \A k \in 6..from : Before(Stage[4], Stage[k]) /\ Stage'[k] \subseteq Stage[k]
          BY DEF IInv, Chain
        <5> QED
          BY <2>2, <5>1 DEF Before
      <4>4. \A k \in 3..from : ~(k < 3)
        OBVIOUS
      <4> QED
        BY <1>8, <4>1, <4>2, <4>3, <4>4
    <3> QED
      BY <2>5, <2>6, <3>1, <3>2 DEF Moves
  <2>8. Keeps(X, 3)
    <3>1. \A k \in 1..8 : \A e \in Stage[k] :
             e = Reply \/ e \in live'.lost \/ e \in Stage'[k] \/ (e \in X /\ e \in Stage'[3])
      <4>1. \A e \in Stage[4] : e \in live'.lost \/ e \in Stage'[4] \/ (e \in X /\ e \in Stage'[3])
        BY <2>5
      <4>2. \A e \in Stage[3] : e \in Stage'[3]
        BY <2>5
      <4>3. \A k \in {1, 2, 5, 6, 7, 8} : \A e \in Stage[k] : e = Reply \/ e \in Stage'[k]
        BY <1>10
      <4>4. \A k \in 1..8 : k \in {1, 2, 5, 6, 7, 8} \/ k = 3 \/ k = 4
        BY <1>10
      <4> SUFFICES ASSUME NEW k \in 1..8, NEW e \in Stage[k]
                   PROVE  e = Reply \/ e \in live'.lost \/ e \in Stage'[k] \/ (e \in X /\ e \in Stage'[3])
        OBVIOUS
      <4>5. CASE k = 4
        BY <4>1, <4>5
      <4>6. CASE k = 3
        BY <4>2, <4>6
      <4>7. CASE k \in {1, 2, 5, 6, 7, 8}
        BY <4>3, <4>7
      <4> QED
        BY <4>4, <4>5, <4>6, <4>7
    <3>2. ASSUME Buffered, NEW e \in X PROVE log'[e] = 1
      <4>1. e \in Stage[4] \/ e \in Stage[6]
        BY <2>2, <3>2
      <4> QED
        BY <3>2, <4>1 DEF IInv, Durable
    <3> QED
      BY <1>3, <3>1, <3>2 DEF Keeps
  <2>9. (Chain(Stage) /\ Accounted /\ Durable)'
    <3>1. 3 \in 1..8 /\ 3 <= 3
      OBVIOUS
    <3> QED
      BY <1>6, <1>8, <2>7, <2>8, <3>1, StepKeepsStages
  <2> QED
    BY <1>3, <2>1, <2>4, <2>9
<1> QED
  BY <1>11, <1>12

LEMMA CallbackLiveKeeps ==
    ASSUME IInv, CallbackLive
    PROVE  IInv'
<1>1. /\ callback = Reply /\ ~Buffered /\ live' = Release(Reply, TRUE).live /\ callback' = NoEvent
      /\ UNCHANGED <<config, next, drain, calls, bound, seen, hist, flushes, writer, log>>
  BY DEF CallbackLive, histVars
<1>2. /\ TypeInv /\ bound = {} /\ calls["releaser"] = IdleCall /\ hist.pending = <<>> /\ hist.committed = <<>>
      /\ Reply # NoEvent /\ Reply.task = "reply"
  BY <1>1, EventFacts DEF IInv, CallsInv, Paths
<1>3. /\ Reply \in Stage[8] /\ Stage'[8] = Stage[8] \ {Reply}
      /\ \A x \in Stage'[8] : x.task # "reply"
  BY <1>1, <1>2, ReplyLeaves
<1> HIDE DEF Reply, NoEvent
<1>4. Stage'[6] = Stage[6] /\ Stage'[7] = Stage[7] /\ Stage[6] = {} /\ Stage[7] = {}
  BY <1>1, <1>2, StageFrame, StageIs, EmptyIsSorted
<1>5. /\ \A k \in 6..8 : Stage'[k] \subseteq Stage[k] /\ \A x \in Stage[k] : x = Reply \/ x \in Stage'[k]
      /\ \A k \in 6..8 : Before({Reply}, Stage'[k])
  <2>1. \A k \in 6..8 : k = 6 \/ k = 7 \/ k = 8
    OBVIOUS
  <2>2. Before({Reply}, Stage'[6]) /\ Before({Reply}, Stage'[7]) /\ Before({Reply}, Stage'[8])
    BY <1>2, <1>3, <1>4 DEF Before
  <2> QED
    BY <1>3, <1>4, <2>1, <2>2
<1>6. /\ (Chain(Stage) /\ Accounted /\ Durable)'
      /\ live' \in Buffer /\ InLine(live'.deferred) /\ Sorted(live'.order)
  BY <1>1, <1>2, <1>3, <1>5, ReentrantKeeps
<1>7. TypeInv' /\ Queues' /\ Batches'
  BY <1>1, <1>2, <1>6 DEF IInv, TypeInv, Queues, Batches
<1>8. CallsInv'
  BY <1>1, <1>2 DEF IInv, CallsInv, Paths, NothingSeen, Buffered
<1> QED
  BY <1>6, <1>7, <1>8 DEF IInv

LEMMA AddResumesKeeps ==
    ASSUME IInv, NEW t \in Thread, LiveStep(AddResumes(t))
    PROVE  IInv'
<1> DEFINE e == calls[t].event
<1>1. /\ calls[t].op = "add" /\ ReleaseBy(t, e, FALSE)
      /\ UNCHANGED <<config, next, drain, callback, bound, seen, hist, flushes, writer, log>>
  BY DEF LiveStep, AddResumes, histVars
<1>2. TypeInv /\ CallsInv /\ IdleCall.op = "idle" /\ calls[t] \in Call
  BY DEF IInv, TypeInv, IdleCall
<1>3. t \in Thread \ {"loop", "closer"} /\ e \in Event /\ drain.owner # t /\ e # NoEvent
      /\ (t \in Producer => e.task = t)
  BY <1>1, <1>2 DEF CallsInv, CallIsRight, Call
<1>4. (t \in Producer /\ ~Buffered /\ e.task = t) \/ (t = "releaser" /\ Buffered)
  BY <1>1, <1>2, <1>3 DEF CallsInv, Paths, Thread
<1>5. \A u \in Thread \ {t} : calls[u].event = NoEvent \/ calls[u].event.task # e.task
  BY <1>2, <1>3, <1>4, OthersWait
<1>6. e \in Stage[5]
  BY <1>3, StageIs DEF Waiting
<1> HIDE DEF e
<1>7. \A k \in 6..8 : Stage'[k] = Stage[k]
  <2>1. \A k \in 6..8 : k = 6 \/ k = 7 \/ k = 8
    OBVIOUS
  <2> QED
    BY <1>1, <2>1, StageFrame
<1>8. Buffered => log'[e] = 1
  BY <1>1, <1>6 DEF IInv, Durable
<1>9. /\ (Chain(Stage) /\ Accounted /\ Durable)'
      /\ live' \in Buffer /\ live'.deferred = live.deferred /\ Sorted(live'.order)
      /\ calls' \in [Thread -> Call] /\ calls' = [calls EXCEPT ![t] = calls'[t]]
      /\ \A u \in Thread : CallIsRight(u, calls'[u])
  <2>1. calls[t].op # "drain" /\ calls[t].event \in {NoEvent, e} /\ 5 \in {5, 6, 8}
    BY <1>1 DEF e
  <2>2. \A k \in 6..5 : Before({e}, Stage'[k])
    OBVIOUS
  <2>3. \A k \in 6..8 : Stage'[k] \subseteq Stage[k] /\ \A x \in Stage[k] : x = e \/ x \in Stage'[k]
    BY <1>7
  <2>4. \A x \in Event : log[x] = 1 => log'[x] = 1
    BY <1>1
  <2> QED
    BY <1>1, <1>3, <1>5, <1>6, <1>8, <2>1, <2>2, <2>3, <2>4, ReleaseKeeps
<1>10. TypeInv' /\ Queues' /\ Batches'
  BY <1>1, <1>2, <1>9 DEF IInv, TypeInv, Queues, Batches
<1>11. \A u \in Thread : u # t => calls'[u] = calls[u]
  BY <1>9
<1>12. CallsInv'
  <2>1. Paths'
    <3>1. "releaser" \in Thread /\ Producer \subseteq Thread /\ (calls[t] # IdleCall)
      BY <1>1, <1>2, NameFacts
    <3> QED
      BY <1>1, <1>2, <1>4, <1>11, <3>1, NameFacts DEF CallsInv, Paths, Buffered
  <2> QED
    BY <1>1, <1>2, <1>3, <1>9, <1>11, <2>1 DEF CallsInv, NothingSeen
<1> QED
  BY <1>9, <1>10, <1>12 DEF IInv

LEMMA ReleaseStartsKeeps ==
    ASSUME IInv, ReleaseStarts, UNCHANGED <<config, next>>
    PROVE  IInv'
<1> DEFINE e == Head(hist.committed)
           then == Release(e, e \in bound).then
<1>1. /\ hist.committed # <<>> /\ hist.active = NoEvent /\ ReleaseBy("releaser", e, e \in bound)
      /\ hist' = [hist EXCEPT !.committed = Tail(@),
                              !.active = IF then \in {"block", "drain"} THEN e ELSE NoEvent,
                              !.error = @ \/ then = "raise"]
      /\ UNCHANGED <<drain, callback, bound, seen, flushes, writer, log>>
  BY DEF ReleaseStarts
<1>2. /\ TypeInv /\ CallsInv /\ hist \in History /\ hist.committed \in Seq(Event) /\ bound \subseteq {Reply}
      /\ calls \in [Thread -> Call] /\ Sorted(hist.committed)
  BY DEF IInv, TypeInv, History, Queues
<1>3. /\ e \in Event /\ Tail(hist.committed) \in Seq(Event)
      /\ ToSet(hist.committed) = {e} \cup ToSet(Tail(hist.committed))
      /\ Sorted(Tail(hist.committed)) /\ Before({e}, ToSet(Tail(hist.committed)))
  BY <1>1, <1>2, HeadAndTail
<1>4. Buffered /\ calls["releaser"] = IdleCall /\ "releaser" \in Thread \ {"loop", "closer"}
      /\ "releaser" \notin Producer /\ "releaser" \in Thread
  BY <1>1, <1>2, NameFacts DEF CallsInv, Paths
<1>5. /\ hist' \in History /\ hist'.committed = Tail(hist.committed) /\ hist'.pending = hist.pending
      /\ hist'.active = IF then \in {"block", "drain"} THEN e ELSE NoEvent
  <2>1. (hist.error \/ then = "raise") \in BOOLEAN
    BY <1>2 DEF History
  <2>2. (IF then \in {"block", "drain"} THEN e ELSE NoEvent) \in Event \cup {NoEvent}
    BY <1>3
  <2> HIDE DEF then, e
  <2> QED
    BY <1>1, <1>2, <1>3, <2>1, <2>2 DEF History
<1>6. e \in Stage[6] /\ Stage'[6] = ToSet(Tail(hist.committed)) /\ Stage[6] = {e} \cup Stage'[6]
      /\ Stage'[7] = Stage[7] /\ Stage'[8] = Stage[8]
  BY <1>1, <1>3, <1>5, StageIs, StageFrame
<1>7. /\ \A k \in 6..8 : Stage'[k] \subseteq Stage[k] /\ \A x \in Stage[k] : x = e \/ x \in Stage'[k]
      /\ \A k \in 6..6 : Before({e}, Stage'[k])
  <2>1. (\A k \in 6..8 : k = 6 \/ k = 7 \/ k = 8) /\ \A k \in 6..6 : k = 6
    OBVIOUS
  <2> HIDE DEF e
  <2> QED
    BY <1>3, <1>6, <2>1
<1>8. e # NoEvent
  BY <1>3, EventFacts
<1>9. CASE e \notin bound
  <2>1. ReleaseBy("releaser", e, FALSE) /\ then = Release(e, FALSE).then
    <3>1. (e \in bound) = FALSE
      BY <1>9
    <3> HIDE DEF e
    <3> QED
      BY <1>1, <3>1
  <2>2. calls["releaser"].op # "drain" /\ calls["releaser"].event \in {NoEvent, e}
    BY <1>4 DEF IdleCall
  <2>3. \A u \in Thread \ {"releaser"} : calls[u].event = NoEvent \/ calls[u].event.task # e.task
    BY <1>2, <1>3, <1>4, OthersWait
  <2>4. log'[e] = 1
    BY <1>1, <1>4, <1>6 DEF IInv, Durable
  <2> HIDE DEF e, then
  <2>5. /\ (Chain(Stage) /\ Accounted /\ Durable)'
        /\ live' \in Buffer /\ live'.deferred = live.deferred /\ Sorted(live'.order)
        /\ calls' \in [Thread -> Call] /\ calls' = [calls EXCEPT !["releaser"] = calls'["releaser"]]
        /\ \A u \in Thread : CallIsRight(u, calls'[u])
        /\ Release(e, FALSE).then \in {"done", "raise", "block", "drain"}
        /\ Release(e, FALSE).then \in {"done", "raise"} => calls'["releaser"] = IdleCall
    <3>1. 6 \in {5, 6, 8} /\ \A x \in Event : log[x] = 1 => log'[x] = 1
      BY <1>1
    <3> QED
      BY <1>1, <1>3, <1>4, <1>6, <1>7, <2>1, <2>2, <2>3, <2>4, <3>1, ReleaseKeeps
  <2>6. TypeInv' /\ Queues' /\ Batches'
    BY <1>1, <1>2, <1>3, <1>5, <2>5 DEF IInv, TypeInv, Queues, Batches
  <2>7. \A u \in Thread : u # "releaser" => calls'[u] = calls[u]
    BY <2>5
  <2>8. drain.owner # "releaser"
    BY <1>4, <2>2 DEF IInv, CallsInv
  <2>9. Paths'
    <3>1. hist'.active = NoEvent => calls'["releaser"] = IdleCall
      BY <1>5, <1>8, <2>1, <2>5
    <3>2. Buffered' /\ \A p \in Producer : calls'[p] = calls[p]
      BY <1>4, <2>7, NameFacts DEF Buffered
    <3> QED
      BY <1>2, <1>4, <3>1, <3>2 DEF CallsInv, Paths
  <2>10. CallsInv'
    BY <1>1, <1>2, <2>5, <2>7, <2>8, <2>9 DEF CallsInv, NothingSeen
  <2> QED
    BY <2>5, <2>6, <2>10 DEF IInv
<1>10. CASE e \in bound
  <2>1. e = Reply
    BY <1>2, <1>10
  <2>2. ReleaseBy("releaser", Reply, TRUE) /\ then = Release(Reply, TRUE).then
    <3>1. (e \in bound) = TRUE
      BY <1>10
    <3> HIDE DEF e
    <3> QED
      BY <1>1, <2>1, <3>1
  <2> HIDE DEF e, then
  <2>3. live' = Release(Reply, TRUE).live
        /\ calls' = [calls EXCEPT !["releaser"] = WaitsFor(Release(Reply, TRUE), Reply)]
    BY <2>2 DEF ReleaseBy
  <2>4. Release(Reply, TRUE).then \in {"done", "raise"} => calls' = calls
    <3>1. Release(Reply, TRUE).then \in {"done", "raise"} => WaitsFor(Release(Reply, TRUE), Reply) = IdleCall
      BY DEF WaitsFor
    <3> QED
      BY <1>2, <1>4, <2>3, <3>1
  <2>5. Release(Reply, TRUE).then \in {"done", "raise"}
    <3>1. Sorted(live.order) /\ Before(ToSet(live.order), {Reply})
      <4>1. Before(Stage[4], Stage[6])
        BY DEF IInv, Chain
      <4> QED
        BY <1>6, <2>1, <4>1, StageIs DEF IInv, Queues, Before
    <3> QED
      BY <1>2, <3>1, ReentrantEffect
  <2>6. calls' = calls /\ hist'.active = NoEvent
    BY <1>5, <2>2, <2>4, <2>5
  <2>7. /\ (Chain(Stage) /\ Accounted /\ Durable)'
        /\ live' \in Buffer /\ InLine(live'.deferred) /\ Sorted(live'.order)
    <3>1. 6 \in {6, 8}
      OBVIOUS
    <3> HIDE DEF Reply
    <3> QED
      BY <1>1, <1>4, <1>6, <1>7, <2>1, <2>3, <2>6, <3>1, ReentrantKeeps
  <2>8. TypeInv' /\ Queues' /\ Batches'
    BY <1>1, <1>2, <1>3, <1>5, <2>6, <2>7 DEF IInv, TypeInv, Queues, Batches
  <2>9. CallsInv'
    BY <1>1, <1>2, <1>4, <2>6 DEF CallsInv, Paths, NothingSeen, Buffered
  <2> QED
    BY <2>7, <2>8, <2>9 DEF IInv
<1> QED
  BY <1>9, <1>10
LEMMA WaitCancelledKeeps ==
    ASSUME IInv, NEW p \in Producer, LiveStep(WaitCancelled(p))
    PROVE  IInv'
<1>1. /\ drain.owner # p /\ live' = [live EXCEPT !.lost = @ \cup ({calls[p].event} \ {NoEvent})]
      /\ calls' = [calls EXCEPT ![p] = IdleCall]
      /\ UNCHANGED <<config, next, drain, callback, bound, seen, hist, flushes, writer, log>>
  BY DEF LiveStep, WaitCancelled, histVars
<1>2. /\ TypeInv /\ CallsInv /\ live \in Buffer /\ calls \in [Thread -> Call] /\ p \in Thread
      /\ IdleCall \in Call /\ IdleCall.event = NoEvent /\ CallIsRight(p, IdleCall) /\ p # "releaser"
  BY NameFacts DEF IInv, TypeInv, IdleCall, Call, CallIsRight
<1>3. calls' \in [Thread -> Call] /\ calls'[p] = IdleCall /\ \A u \in Thread : u # p => calls'[u] = calls[u]
  BY <1>1, <1>2
<1>4. /\ live' \in Buffer /\ live'.order = live.order /\ live'.deferred = live.deferred
      /\ live'.lost = live.lost \cup ({calls[p].event} \ {NoEvent})
  <2>1. calls[p].event \in Event \cup {NoEvent}
    BY <1>2 DEF Call
  <2> QED
    BY <1>1, <1>2, <2>1 DEF Buffer
<1>5. Stage'[5] \subseteq Stage[5] /\ \A x \in Stage[5] : x \in Stage'[5] \/ x \in live'.lost
  <2>1. /\ Waiting' = {calls'[u].event : u \in {v \in Thread : drain.owner # v \/ drain.stage = "before"}} \ {NoEvent}
        /\ Stage[5] = Waiting /\ Stage'[5] = Waiting'
    BY <1>1, StageIs DEF Waiting
  <2>2. Waiting = {calls[u].event : u \in {v \in Thread : drain.owner # v \/ drain.stage = "before"}} \ {NoEvent}
    BY DEF Waiting
  <2> HIDE DEF NoEvent, IdleCall
  <2>3. \A u \in Thread : u = p \/ calls'[u].event = calls[u].event
    BY <1>3
  <2>4. calls'[p].event = NoEvent
    BY <1>2, <1>3
  <2>5. Stage'[5] \subseteq Stage[5]
    BY <2>1, <2>2, <2>3, <2>4
  <2>6. \A x \in Stage[5] : x \in Stage'[5] \/ x \in {calls[p].event} \ {NoEvent}
    BY <2>1, <2>2, <2>3
  <2> QED
    BY <1>4, <2>5, <2>6
<1>6. \A k \in {1, 2, 3, 4, 6, 7, 8} : Stage'[k] = Stage[k]
  BY <1>1, <1>4, StageFrame
<1>7. \A k \in 1..8 : k = 5 \/ k \in {1, 2, 3, 4, 6, 7, 8}
  OBVIOUS
<1>8. Moves(Stage, Stage', {}, 1, 1, 1)
  BY <1>5, <1>6, <1>7 DEF Moves, Before
<1>9. Keeps({}, 1)
  BY <1>1, <1>4, <1>5, <1>6, <1>7 DEF Keeps
<1>10. (Chain(Stage) /\ Accounted /\ Durable)'
  <2>1. \A i \in 1..8 : Stage[i] \subseteq Event
    BY <1>2, StagesAreEvents
  <2> QED
    BY <1>8, <1>9, <2>1, StepKeepsStages
<1>11. TypeInv' /\ Queues' /\ Batches'
  BY <1>1, <1>2, <1>3, <1>4 DEF IInv, TypeInv, Queues, Batches
<1>12. CallsInv'
  <2>1. Paths'
    BY <1>1, <1>2, <1>3, NameFacts DEF CallsInv, Paths, Buffered
  <2> QED
    BY <1>1, <1>2, <1>3, <2>1 DEF CallsInv, NothingSeen
<1> QED
  BY <1>10, <1>11, <1>12 DEF IInv

\* The loop and the closing service come to the drain lock.
LEMMA FlushOfAllKeeps ==
    ASSUME IInv, NEW t \in {"loop", "closer"},
           calls' = [calls EXCEPT ![t] = [op |-> "drain", key |-> All, event |-> NoEvent]],
           UNCHANGED <<config, next, live, drain, callback, bound, seen, hist, flushes, writer, log>>
    PROVE  IInv'
<1> DEFINE c == [op |-> "drain", key |-> All, event |-> NoEvent]
<1>1. /\ TypeInv /\ CallsInv /\ calls \in [Thread -> Call] /\ t \in Thread /\ t \notin Producer /\ t # "releaser"
      /\ c \in Call /\ c.event = NoEvent /\ CallIsRight(t, c) /\ calls[t].event = NoEvent
  BY NameFacts DEF IInv, CallsInv, TypeInv, Call, CallIsRight
<1>2. calls' \in [Thread -> Call] /\ calls'[t] = c /\ \A u \in Thread : u # t => calls'[u] = calls[u]
  BY <1>1
<1>3. Stage'[5] = Stage[5]
  <2>1. /\ Waiting' = {calls'[u].event : u \in {v \in Thread : drain.owner # v \/ drain.stage = "before"}} \ {NoEvent}
        /\ Stage[5] = Waiting /\ Stage'[5] = Waiting'
    BY StageIs DEF Waiting
  <2>2. \A u \in Thread : calls'[u].event = calls[u].event
    BY <1>1, <1>2
  <2> QED
    BY <2>1, <2>2 DEF Waiting
<1>4. \A k \in {1, 2, 3, 4, 6, 7, 8} : Stage'[k] = Stage[k]
  BY StageFrame
<1>5. \A k \in 1..8 : Stage'[k] = Stage[k]
  <2>1. \A k \in 1..8 : k = 5 \/ k \in {1, 2, 3, 4, 6, 7, 8}
    OBVIOUS
  <2> QED
    BY <1>3, <1>4, <2>1
<1>6. Moves(Stage, Stage', {}, 1, 1, 1) /\ Keeps({}, 1)
  BY <1>5 DEF Moves, Before, Keeps
<1>7. (Chain(Stage) /\ Accounted /\ Durable)'
  <2>1. \A i \in 1..8 : Stage[i] \subseteq Event
    BY <1>1, StagesAreEvents
  <2> QED
    BY <1>6, <2>1, StepKeepsStages
<1>8. TypeInv' /\ Queues' /\ Batches'
  BY <1>1, <1>2 DEF IInv, TypeInv, Queues, Batches
<1>9. CallsInv'
  <2>1. Paths'
    BY <1>1, <1>2, NameFacts DEF CallsInv, Paths, Buffered
  <2>2. drain.owner = t => drain.key = c.key /\ drain.release = c.event
    BY <1>1 DEF CallsInv, CallIsRight
  <2> QED
    BY <1>1, <1>2, <2>1, <2>2 DEF CallsInv, NothingSeen
<1> QED
  BY <1>7, <1>8, <1>9 DEF IInv
----------------------------------------------------------------------------
\* The drain.

\* The drain d goes on: the first deferred operation, the own one, or the end.
LEMMA AdvanceKeeps ==
    ASSUME IInv, NEW d \in Drain, d.owner \in Thread, calls[d.owner].op = "drain",
           d.key = calls[d.owner].key, d.release = calls[d.owner].event, d.stage \in {"before", "after"},
           OpEvents(drain.op) = {}, callback # Reply, Advance(d),
           Waiting = {calls[u].event : u \in {v \in Thread : d.owner # v \/ d.stage = "before"}} \ {NoEvent},
           UNCHANGED <<config, next, callback, seen, hist, flushes, writer, log>>
    PROVE  IInv'
<1> DEFINE first == Head(live.deferred)
           own == OwnOperation(d)
           t == d.owner
<1>1. /\ TypeInv /\ CallsInv /\ live \in Buffer /\ calls \in [Thread -> Call] /\ calls[t] \in Call
      /\ live.order \in Seq(Event) /\ live.deferred \in Seq(Delivery) /\ live.deferred_size \in Int
      /\ Sorted(live.order) /\ InLine(live.deferred)
      /\ d.key \in Task \cup {All} /\ d.release \in Event \cup {NoEvent} /\ CallIsRight(t, calls[t])
  BY DEF IInv, TypeInv, Buffer, Queues, Drain, CallsInv
<1>2. \A i \in 1..8 : Stage[i] \subseteq Event
  BY <1>1, StagesAreEvents
<1>3. Stage[2] = {} /\ Stage[3] = EventsOf(live.deferred) /\ Stage[4] = ToSet(live.order) /\ Stage[5] = Waiting
  BY StageIs DEF DeferredEvents
<1>4. Stage'[1] = Stage[1] /\ Stage'[6] = Stage[6] /\ Stage'[7] = Stage[7]
  BY StageFrame
<1>5. bound' = bound \/ bound' = {}
  BY DEF Advance
<1>6. Stage'[8] = Stage[8]
  <2>1. callback # Reply /\ callback' # Reply
    OBVIOUS
  <2>2. ReplyIsDue' <=> ReplyIsDue
    BY <2>1 DEF ReplyIsDue, NothingSeen
  <2> QED
    BY <2>2, StageIs DEF Unpublished
<1>7. \A k \in 1..8 : k = 1 \/ k = 2 \/ k = 3 \/ k = 4 \/ k = 5 \/ k = 6 \/ k = 7 \/ k = 8
  OBVIOUS
<1>8. \A op \in Delivery : SizeOf(op) \in Int /\ Reserved(op) \in Int
  <2>1. \A op \in Delivery : Len(op.items) \in Nat
    BY LenProperties DEF Delivery
  <2> QED
    BY <2>1 DEF SizeOf, Reserved
<1>9. CASE /\ live.deferred # <<>>
           /\ live' = [live EXCEPT !.deferred = Tail(@), !.deferred_size = @ - SizeOf(first) + Reserved(first)]
           /\ drain' = [d EXCEPT !.op = first]
           /\ UNCHANGED <<calls, bound>>
  <2>1. /\ first \in Delivery /\ Tail(live.deferred) \in Seq(Delivery)
        /\ EventsOf(live.deferred) = OpEvents(first) \cup EventsOf(Tail(live.deferred))
        /\ OpSorted(first) /\ InLine(Tail(live.deferred))
        /\ Before(OpEvents(first), EventsOf(Tail(live.deferred)))
    BY <1>1, <1>9, OperationTaken
  <2> HIDE DEF first, t
  <2>2. /\ live' \in Buffer /\ live'.order = live.order /\ live'.lost = live.lost
        /\ live'.deferred = Tail(live.deferred)
    <3>1. live.deferred_size - SizeOf(first) + Reserved(first) \in Int
      BY <1>1, <1>8, <2>1
    <3> QED
      BY <1>1, <1>9, <2>1, <3>1 DEF Buffer
  <2>3. /\ drain' \in Drain /\ drain'.op = first /\ drain'.owner = d.owner /\ drain'.stage = d.stage
        /\ drain'.key = d.key /\ drain'.release = d.release
    BY <1>9, <2>1 DEF Drain
  <2> DEFINE X == OpEvents(first)
  <2>4. Stage'[2] = X /\ Stage'[4] = Stage[4]
    BY <2>2, <2>3, StageIs
  <2>5. Stage[3] = X \cup Stage'[3] /\ Before(X, Stage'[3])
    <3>1. Stage'[3] = EventsOf(Tail(live.deferred))
      BY <2>2, StageIs DEF DeferredEvents
    <3> QED
      BY <1>3, <2>1, <3>1
  <2>6. Stage'[5] = Stage[5]
    <3>1. Waiting' = {calls[u].event : u \in {v \in Thread : d.owner # v \/ d.stage = "before"}} \ {NoEvent}
      BY <1>9, <2>3 DEF Waiting
    <3> QED
      BY <1>3, <3>1, StageIs
  <2> HIDE DEF X
  <2>7. Moves(Stage, Stage', X, 2, 2, 3)
    <3>1. \A k \in 1..8 : k # 2 => Stage'[k] \subseteq Stage[k]
      BY <1>4, <1>6, <1>7, <2>4, <2>5, <2>6
    <3>2. \A k \in 2..3 : ~(k < 2) /\ (k > 2 => k = 3)
      OBVIOUS
    <3>3. \A x \in X : \E j \in 2..3 : x \in Stage[j]
      <4>1. 3 \in 2..3
        OBVIOUS
      <4> QED
        BY <2>5, <4>1
    <3> QED
      BY <2>4, <2>5, <3>1, <3>2, <3>3 DEF Moves
  <2>8. Keeps(X, 2)
    <3>1. Buffered => \A x \in X : log'[x] = 1
      BY <2>5 DEF IInv, Durable
    <3>2. \A k \in 1..8 : \A x \in Stage[k] : x \in Stage'[k] \/ (x \in X /\ x \in Stage'[2])
      BY <1>3, <1>4, <1>6, <1>7, <2>4, <2>5, <2>6
    <3> QED
      BY <2>2, <3>1, <3>2 DEF Keeps
  <2>9. (Chain(Stage) /\ Accounted /\ Durable)'
    BY <1>2, <2>7, <2>8, StepKeepsStages
  <2>10. TypeInv' /\ Queues' /\ Batches'
    BY <1>1, <1>9, <2>1, <2>2, <2>3 DEF IInv, TypeInv, Queues, Batches
  <2>11. CallsInv'
    <3>1. drain'.owner # "none" /\ drain'.owner \in Thread
      BY <2>3, NameFacts
    <3>2. Paths'
      BY <1>1, <1>9 DEF CallsInv, Paths, Buffered
    <3> QED
      BY <1>1, <1>9, <2>3, <3>1, <3>2 DEF CallsInv, NothingSeen
  <2> QED
    BY <2>9, <2>10, <2>11 DEF IInv
<1>10. CASE /\ live.deferred = <<>> /\ d.stage = "before" /\ own # NoOperation
            /\ live' = [live EXCEPT !.order = Without(live, d.key), !.deferred_size = @ + Reserved(own)]
            /\ drain' = [d EXCEPT !.op = own, !.stage = "after"]
            /\ UNCHANGED <<calls, bound>>
  <2> DEFINE X == OpEvents(own)
             W == Without(live, d.key)
             M == ToSet(Matching(live, d.key))
             R == {d.release} \ {NoEvent}
  <2>1. /\ Matching(live, d.key) \in Seq(Event) /\ W \in Seq(Event)
        /\ ToSet(live.order) = M \cup ToSet(W) /\ Sorted(Matching(live, d.key)) /\ Sorted(W)
        /\ \A x \in M, y \in ToSet(W) : x.task # y.task
        /\ d.key # All => \A x \in ToSet(W) : x.task # d.key
        /\ d.key = All => ToSet(W) = {}
    BY <1>1, MatchingFacts
  <2>2. d.key = IF d.release = NoEvent THEN All ELSE d.release.task
    BY <1>1 DEF CallIsRight
  <2>3. R \subseteq Stage[5]
    BY <1>1, <1>3, <1>10
  <2>4. Before(M, R)
    <3>1. Before(Stage[4], Stage[5])
      BY DEF IInv, Chain
    <3> QED
      BY <1>3, <2>1, <2>3, <3>1 DEF Before
  <2>5. own \in Delivery /\ OpSorted(own) /\ X = M \cup R
    <3>1. own.items = Matching(live, d.key) /\ own.release = d.release /\ own \in Delivery
      BY <1>1, <2>1 DEF OwnOperation, Operation, Delivery
    <3> HIDE DEF own
    <3> QED
      BY <2>1, <2>4, <3>1 DEF OpSorted, OpEvents
  <2>6. Before(X, ToSet(W))
    <3>1. \A x \in R, y \in ToSet(W) : x.task # y.task
      BY <1>1, <2>1, <2>2, EventFacts, NameFacts
    <3>2. (\A x \in M, y \in ToSet(W) : x.task # y.task) /\ X = M \cup R
      BY <2>1, <2>5
    <3> HIDE DEF M, R, W, X
    <3> QED
      BY <3>1, <3>2 DEF Before
  <2> HIDE DEF own, W, t
  <2>7. /\ live' \in Buffer /\ live'.order = W /\ live'.lost = live.lost /\ live'.deferred = live.deferred
    <3>1. live.deferred_size + Reserved(own) \in Int
      BY <1>1, <1>8, <2>5
    <3>2. live' = [live EXCEPT !.order = W, !.deferred_size = @ + Reserved(own)]
      BY <1>10 DEF W
    <3> QED
      BY <1>1, <2>1, <3>1, <3>2 DEF Buffer
  <2>8. /\ drain' \in Drain /\ drain'.op = own /\ drain'.owner = d.owner /\ drain'.stage = "after"
        /\ drain'.key = d.key /\ drain'.release = d.release
    BY <1>10, <2>5 DEF Drain
  <2> HIDE DEF X, M, R
  <2>9. Stage'[2] = X /\ Stage'[4] = ToSet(W)
    BY <2>7, <2>8, StageIs DEF X
  <2>10. Stage[3] = {} /\ Stage'[3] = {}
    BY <1>3, <1>10, <2>7, StageFrame DEF EventsOf
  <2>11. Waiting' = {calls[u].event : u \in Thread \ {t}} \ {NoEvent}
    BY <1>10, <2>8 DEF Waiting, t
  <2>12. /\ Stage'[5] \subseteq Stage[5] /\ Stage[5] \subseteq Stage'[5] \cup R
    <3>1. Stage'[5] = {calls[u].event : u \in Thread \ {t}} \ {NoEvent}
      BY <2>11, StageIs
    <3>2. Stage[5] = {calls[u].event : u \in Thread} \ {NoEvent}
      BY <1>3, <1>10
    <3>3. d.release = calls[t].event
      BY DEF t
    <3> QED
      BY <3>1, <3>2, <3>3 DEF R
  <2>13. Before(X, Stage'[5])
    <3>1. Before(M, Stage'[5])
      <4>1. Before(Stage[4], Stage[5])
        BY DEF IInv, Chain
      <4> QED
        BY <1>3, <2>1, <2>12, <4>1 DEF Before
    <3>2. ASSUME NEW x \in R, NEW y \in Stage'[5] PROVE x.task # y.task
      <4>1. x \in Event /\ x = calls[t].event /\ x # NoEvent /\ t \in Thread
        BY <1>1, <3>2 DEF R, t
      <4>2. PICK u \in Thread \ {t} : y = calls[u].event /\ y # NoEvent
        BY <2>11, <3>2, StageIs
      <4>3. (t \in Producer /\ ~Buffered /\ x.task = t) \/ (t = "releaser" /\ Buffered)
        <5>1. calls[t] # IdleCall
          BY <4>1 DEF IdleCall
        <5>2. t \notin {"loop", "closer"} /\ (t \in Producer => x.task = t)
          BY <1>1, <4>1 DEF CallIsRight, t
        <5> QED
          BY <1>1, <4>1, <5>1, <5>2 DEF CallsInv, Paths, Thread
      <4>4. \A v \in Thread \ {t} : calls[v].event = NoEvent \/ calls[v].event.task # x.task
        BY <1>1, <4>1, <4>3, OthersWait
      <4> QED
        BY <4>2, <4>4
    <3> QED
      BY <2>5, <3>1, <3>2 DEF Before
  <2>14. Moves(Stage, Stage', X, 2, 2, 5)
    <3>1. \A k \in 1..8 : k # 2 => Stage'[k] \subseteq Stage[k]
      BY <1>3, <1>4, <1>6, <1>7, <2>1, <2>9, <2>10, <2>12
    <3>2. \A k \in 2..5 : ~(k < 2) /\ (k > 2 => k = 3 \/ k = 4 \/ k = 5)
      OBVIOUS
    <3>3. \A x \in X : \E j \in 2..5 : x \in Stage[j]
      <4>1. 4 \in 2..5 /\ 5 \in 2..5
        OBVIOUS
      <4>2. X \subseteq Stage[4] \cup Stage[5]
        BY <1>3, <2>1, <2>3, <2>5
      <4> QED
        BY <4>1, <4>2
    <3>4. Before(X, Stage'[3]) /\ Before(X, Stage'[4])
      BY <2>6, <2>9, <2>10 DEF Before
    <3> QED
      BY <2>9, <2>13, <3>1, <3>2, <3>3, <3>4 DEF Moves
  <2>15. Keeps(X, 2)
    <3>1. X \subseteq Stage[4] \cup Stage[5]
      BY <1>3, <2>1, <2>3, <2>5
    <3>2. Buffered => \A x \in X : log'[x] = 1
      BY <3>1 DEF IInv, Durable
    <3>3. \A k \in 1..8 : \A x \in Stage[k] : x \in Stage'[k] \/ (x \in X /\ x \in Stage'[2])
      BY <1>3, <1>4, <1>6, <1>7, <2>1, <2>5, <2>9, <2>10, <2>12
    <3> QED
      BY <2>7, <3>2, <3>3 DEF Keeps
  <2>16. (Chain(Stage) /\ Accounted /\ Durable)'
    BY <1>2, <2>14, <2>15, StepKeepsStages
  <2>17. TypeInv' /\ Queues' /\ Batches'
    BY <1>1, <1>10, <2>1, <2>5, <2>7, <2>8 DEF IInv, TypeInv, Queues, Batches
  <2>18. CallsInv'
    <3>1. drain'.owner # "none" /\ drain'.owner \in Thread
      BY <2>8, NameFacts
    <3>2. Paths'
      BY <1>1, <1>10 DEF CallsInv, Paths, Buffered
    <3> QED
      BY <1>1, <1>10, <2>8, <3>1, <3>2 DEF CallsInv, NothingSeen
  <2> QED
    BY <2>16, <2>17, <2>18 DEF IInv
<1>11. CASE /\ live.deferred = <<>> /\ (d.stage = "after" \/ own = NoOperation)
            /\ drain' = NoDrain /\ bound' = {}
            /\ calls' = [calls EXCEPT ![t] = IdleCall] /\ UNCHANGED live
  <2>1. own = NoOperation => d.release = NoEvent
    BY DEF OwnOperation, Operation, NoOperation
  <2> HIDE DEF own, t
  <2>2. IdleCall \in Call /\ IdleCall.event = NoEvent /\ CallIsRight(t, IdleCall) /\ t \in Thread
    BY DEF IdleCall, Call, CallIsRight, t
  <2>3. calls' \in [Thread -> Call] /\ calls'[t] = IdleCall /\ \A u \in Thread : u # t => calls'[u] = calls[u]
    BY <1>1, <1>11, <2>2
  <2>4. NoDrain \in Drain /\ NoDrain.owner = "none" /\ NoDrain.op = NoOperation /\ OpEvents(NoOperation) = {}
        /\ OpSorted(NoOperation)
    BY EmptyIsSorted, EmptySeq DEF NoDrain, Drain, NoOperation, Operation, Delivery, OpEvents, OpSorted, Before
  <2>5. Stage'[2] = Stage[2]
    BY <1>3, <1>11, <2>4, StageIs
  <2>6. Stage'[3] = Stage[3] /\ Stage'[4] = Stage[4]
    BY <1>11, StageFrame
  <2>7. Stage'[5] = Stage[5]
    <3>1. Waiting' = {calls'[u].event : u \in Thread} \ {NoEvent}
      BY <1>11, <2>4, NameFacts DEF Waiting
    <3> HIDE DEF NoEvent, IdleCall
    <3>2. Waiting' = {calls[u].event : u \in Thread \ {t}} \ {NoEvent}
      BY <2>2, <2>3, <3>1
    <3>3. d.stage = "before" => calls[t].event = NoEvent
      BY <1>11, <2>1 DEF t
    <3>4. Waiting = {calls[u].event : u \in {v \in Thread : t # v \/ d.stage = "before"}} \ {NoEvent}
      BY DEF t
    <3>5. Waiting = {calls[u].event : u \in Thread \ {t}} \ {NoEvent}
      <4>1. CASE d.stage = "before"
        BY <2>2, <3>3, <3>4, <4>1
      <4>2. CASE d.stage # "before"
        BY <3>4, <4>2
      <4> QED
        BY <4>1, <4>2
    <3> QED
      BY <3>2, <3>5, StageIs
  <2>8. \A k \in 1..8 : Stage'[k] = Stage[k]
    BY <1>4, <1>6, <1>7, <2>5, <2>6, <2>7
  <2>9. Moves(Stage, Stage', {}, 1, 1, 1) /\ Keeps({}, 1)
    BY <1>11, <2>8 DEF Moves, Before, Keeps
  <2>10. (Chain(Stage) /\ Accounted /\ Durable)'
    BY <1>2, <2>9, StepKeepsStages
  <2>11. TypeInv' /\ Queues' /\ Batches'
    BY <1>1, <1>11, <2>3, <2>4 DEF IInv, TypeInv, Queues, Batches
  <2>12. CallsInv'
    <3>1. Paths'
      <4>1. Producer \subseteq Thread /\ "releaser" \in Thread
        BY NameFacts
      <4> QED
        BY <1>1, <1>11, <2>3, <4>1 DEF CallsInv, Paths, Buffered
    <3> QED
      BY <1>1, <1>11, <2>2, <2>3, <2>4, <3>1, NameFacts DEF CallsInv, NothingSeen
  <2> QED
    BY <2>10, <2>11, <2>12 DEF IInv
<1> QED
  BY <1>9, <1>10, <1>11 DEF Advance, DeferredIsDue

LEMMA DrainStartsKeeps ==
    ASSUME IInv, NEW t \in Thread, LiveStep(DrainStarts(t))
    PROVE  IInv'
<1> DEFINE d == [owner |-> t, key |-> calls[t].key, release |-> calls[t].event,
                 stage |-> "before", op |-> NoOperation]
<1>1. /\ calls[t].op = "drain" /\ drain = NoDrain /\ Advance(d)
      /\ UNCHANGED <<config, next, callback, seen, hist, flushes, writer, log>>
  BY DEF LiveStep, DrainStarts, histVars
<1>2. calls[t] \in Call /\ NoOperation \in Delivery /\ OpEvents(drain.op) = {}
  BY <1>1, EmptyIsSorted, EmptySeq
     DEF IInv, TypeInv, NoDrain, NoOperation, Operation, Delivery, OpEvents
<1>3. d \in Drain /\ d.owner = t /\ d.key = calls[t].key /\ d.release = calls[t].event /\ d.stage = "before"
  BY <1>2 DEF Drain, Call
<1>4. callback # Reply
  BY <1>1 DEF IInv, CallsInv
<1>5. drain.owner = "none"
  BY <1>1 DEF NoDrain
<1> HIDE DEF d
<1>6. Waiting = {calls[u].event : u \in {v \in Thread : d.owner # v \/ d.stage = "before"}} \ {NoEvent}
  <2>1. \A v \in Thread : drain.owner # v \/ drain.stage = "before"
    BY <1>5, NameFacts
  <2>2. \A v \in Thread : d.owner # v \/ d.stage = "before"
    BY <1>3
  <2> QED
    BY <2>1, <2>2 DEF Waiting
<1> QED
  BY <1>1, <1>2, <1>3, <1>4, <1>6, AdvanceKeeps

LEMMA DrainAdvancesKeeps ==
    ASSUME IInv, LiveStep(DrainAdvances)
    PROVE  IInv'
<1>1. /\ drain # NoDrain /\ IsDone(drain.op) /\ callback = NoEvent /\ Advance(drain)
      /\ UNCHANGED <<config, next, callback, seen, hist, flushes, writer, log>>
  BY DEF LiveStep, DrainAdvances, histVars
<1>2. drain \in Drain /\ OpEvents(drain.op) = {}
  BY <1>1, EmptyIsSorted DEF IInv, TypeInv, IsDone, OpEvents
<1>3. /\ drain.owner \in Thread /\ calls[drain.owner].op = "drain" /\ drain.key = calls[drain.owner].key
      /\ drain.release = calls[drain.owner].event /\ drain.stage \in {"before", "after"}
  BY <1>1, <1>2 DEF IInv, CallsInv, Drain
<1>4. callback # Reply
  BY <1>1, EventFacts
<1>5. Waiting = {calls[u].event : u \in {v \in Thread : drain.owner # v \/ drain.stage = "before"}} \ {NoEvent}
  BY DEF Waiting
<1> QED
  BY <1>1, <1>2, <1>3, <1>4, <1>5, AdvanceKeeps
LEMMA DrainCancelledKeeps ==
    ASSUME IInv, NEW t \in Producer, LiveStep(DrainCancelled(t))
    PROVE  IInv'
<1> DEFINE op == drain.op
           sent == IF op.items # <<>> \/ op.sending THEN ToSet(op.items) ELSE {op.release}
           own == IF drain.stage = "before" THEN {drain.release} ELSE {}
           gone == (sent \cup own) \ {NoEvent}
           back == Redeferred(op)
           backs == op.release # NoEvent /\ (op.items # <<>> \/ op.sending)
           X == IF backs THEN {op.release} ELSE {}
           size == live.deferred_size - (Reserved(op) - Len(back))
<1>1. /\ drain.owner = t /\ callback = NoEvent
      /\ live' = [live EXCEPT !.lost = @ \cup gone, !.deferred = back \o @,
                              !.deferred_size = @ - (Reserved(op) - Len(back))]
      /\ drain' = NoDrain /\ bound' = {} /\ calls' = [calls EXCEPT ![t] = IdleCall]
      /\ UNCHANGED <<config, next, callback, seen, hist, flushes, writer, log>>
  BY DEF LiveStep, DrainCancelled, histVars
<1>2. /\ TypeInv /\ CallsInv /\ live \in Buffer /\ calls \in [Thread -> Call] /\ t \in Thread /\ t # "releaser"
      /\ live.deferred \in Seq(Delivery) /\ live.deferred_size \in Int /\ InLine(live.deferred)
      /\ op \in Delivery /\ op.items \in Seq(Event) /\ op.release \in Event \cup {NoEvent} /\ OpSorted(op)
      /\ drain.release = calls[t].event /\ calls[t].event \in Event \cup {NoEvent}
  BY <1>1, NameFacts DEF IInv, TypeInv, Buffer, Queues, Drain, Delivery, CallsInv, Call
<1>3. \A i \in 1..8 : Stage[i] \subseteq Event
  BY <1>2, StagesAreEvents
<1>4. OpEvents(op) = ToSet(op.items) \cup ({op.release} \ {NoEvent})
  BY DEF OpEvents
<1>5. OpEvents(op) \subseteq X \cup gone /\ X \subseteq OpEvents(op) /\ gone \subseteq Event
  <2>1. ToSet(op.items) \subseteq Event
    BY <1>2, ElementsAreEvents
  <2>2. op.items = <<>> => ToSet(op.items) = {}
    BY EmptyIsSorted
  <2>3. NoEvent \notin ToSet(op.items)
    BY <2>1, EventFacts
  <2> HIDE DEF op, NoEvent
  <2>4. gone \subseteq Event
    BY <1>2, <2>1
  <2>5. X \subseteq OpEvents(op)
    BY <1>4
  <2>6. OpEvents(op) \subseteq X \cup gone
    BY <1>4, <2>2, <2>3
  <2> QED
    BY <2>4, <2>5, <2>6
<1>6. /\ back \o live.deferred \in Seq(Delivery) /\ InLine(back \o live.deferred)
      /\ EventsOf(back \o live.deferred) = X \cup EventsOf(live.deferred) /\ Len(back) \in Nat
  <2>1. CASE backs
    <3> DEFINE r == Operation(<<>>, op.release)
    <3>1. back = <<r>>
      BY <2>1 DEF Redeferred
    <3>2. r \in Delivery /\ r.items = <<>> /\ r.release = op.release
      BY <1>2, EmptySeq DEF Delivery, Operation
    <3> HIDE DEF r
    <3>3. OpEvents(r) = X /\ OpSorted(r)
      BY <2>1, <3>2, EmptyIsSorted DEF OpEvents, OpSorted, Before
    <3>4. Before(X, EventsOf(live.deferred))
      <4>1. Before(Stage[2], Stage[3])
        BY DEF IInv, Chain
      <4>2. Stage[2] = OpEvents(op) /\ Stage[3] = EventsOf(live.deferred)
        BY StageIs DEF DeferredEvents
      <4> QED
        BY <1>5, <4>1, <4>2 DEF Before
    <3> HIDE DEF X, back
    <3>5. Len(back) \in Nat
      BY <3>1
    <3> QED
      BY <1>2, <3>1, <3>2, <3>3, <3>4, <3>5, OperationsPrepended
  <2>2. CASE ~backs
    <3>1. back = <<>> /\ X = {}
      BY <2>2 DEF Redeferred
    <3>2. back \o live.deferred = live.deferred
      BY <1>2, <3>1, ConcatEmptySeq
    <3> HIDE DEF X, back
    <3> QED
      BY <1>2, <3>1, <3>2, EmptySeq
  <2> QED
    BY <2>1, <2>2
<1>7. Reserved(op) \in Int
  BY DEF Reserved
<1> HIDE DEF op, sent, gone, back, X
<1>8. /\ live' \in Buffer /\ live'.order = live.order /\ live'.lost = live.lost \cup gone
      /\ live'.deferred = back \o live.deferred
  <2>1. size \in Int
    BY <1>2, <1>6, <1>7
  <2> QED
    BY <1>1, <1>2, <1>5, <1>6, <2>1 DEF Buffer
<1>9. IdleCall \in Call /\ IdleCall.event = NoEvent /\ CallIsRight(t, IdleCall)
  BY DEF IdleCall, Call, CallIsRight
<1>10. calls' \in [Thread -> Call] /\ calls'[t] = IdleCall /\ \A u \in Thread : u # t => calls'[u] = calls[u]
  BY <1>1, <1>2, <1>9
<1>11. NoDrain \in Drain /\ NoDrain.owner = "none" /\ OpEvents(NoDrain.op) = {} /\ OpSorted(NoDrain.op)
  BY EmptyIsSorted, EmptySeq DEF NoDrain, Drain, NoOperation, Operation, Delivery, OpEvents, OpSorted, Before
<1>12. /\ Stage[2] = OpEvents(op) /\ Stage'[2] = {} /\ Stage[3] = EventsOf(live.deferred)
       /\ Stage'[3] = EventsOf(back \o live.deferred)
  BY <1>1, <1>8, <1>11, StageIs DEF DeferredEvents, op
<1>13. Stage'[1] = Stage[1] /\ Stage'[4] = Stage[4] /\ Stage'[6] = Stage[6] /\ Stage'[7] = Stage[7]
  BY <1>1, <1>8, StageFrame
<1>14. Stage'[5] \subseteq Stage[5] /\ \A x \in Stage[5] : x \in Stage'[5] \/ x \in gone
  <2>1. Stage'[5] = {calls'[u].event : u \in Thread} \ {NoEvent}
    <3>1. \A v \in Thread : drain'.owner # v
      BY <1>1, <1>11, NameFacts
    <3>2. Waiting' = {calls'[u].event : u \in Thread} \ {NoEvent}
      BY <3>1 DEF Waiting
    <3> QED
      BY <3>2, StageIs
  <2>2. Stage[5] = {calls[u].event : u \in {v \in Thread : t # v \/ drain.stage = "before"}} \ {NoEvent}
    BY <1>1, StageIs DEF Waiting
  <2> HIDE DEF NoEvent, IdleCall
  <2>3. \A u \in Thread : u = t \/ calls'[u].event = calls[u].event
    BY <1>10
  <2>4. calls'[t].event = NoEvent
    BY <1>9, <1>10
  <2>5. Stage'[5] \subseteq Stage[5]
    BY <2>1, <2>2, <2>3, <2>4
  <2>6. \A x \in Stage[5] : x \in Stage'[5] \/ (drain.stage = "before" /\ x = calls[t].event /\ x # NoEvent)
    BY <2>1, <2>2, <2>3
  <2>7. drain.stage = "before" => {calls[t].event} \ {NoEvent} \subseteq gone
    BY <1>2 DEF gone
  <2> QED
    BY <2>5, <2>6, <2>7
<1>15. Stage'[8] = Stage[8]
  <2>1. callback # Reply /\ callback' # Reply
    BY <1>1, EventFacts
  <2>2. ReplyIsDue' <=> ReplyIsDue
    BY <1>1, <2>1 DEF ReplyIsDue, NothingSeen
  <2> QED
    BY <1>1, <2>2, StageIs DEF Unpublished
<1>16. \A k \in 1..8 : k = 1 \/ k = 2 \/ k = 3 \/ k = 4 \/ k = 5 \/ k = 6 \/ k = 7 \/ k = 8
  OBVIOUS
<1>17. Stage'[3] = Stage[3] \cup X
  BY <1>6, <1>12
<1>18. Moves(Stage, Stage', X, 2, 3, 3)
  <2>1. \A k \in 1..8 : k # 3 => Stage'[k] \subseteq Stage[k]
    <3>1. Stage'[2] \subseteq Stage[2]
      BY <1>12
    <3> QED
      BY <1>13, <1>14, <1>15, <1>16, <3>1
  <2>2. \A x \in X : \E j \in 2..3 : x \in Stage[j]
    <3>1. 2 \in 2..3
      OBVIOUS
    <3> QED
      BY <1>5, <1>12, <3>1
  <2>3. \A k \in 2..3 : (k < 3 => k = 2) /\ ~(k > 3)
    OBVIOUS
  <2>4. Before(Stage'[2], X)
    BY <1>12 DEF Before
  <2> QED
    BY <1>17, <2>1, <2>2, <2>3, <2>4 DEF Moves
<1>19. Keeps(X, 3)
  <2>1. \A x \in Stage[2] : x \in live'.lost \/ (x \in X /\ x \in Stage'[3])
    BY <1>5, <1>8, <1>12, <1>17
  <2>2. \A x \in Stage[5] : x \in live'.lost \/ x \in Stage'[5]
    BY <1>8, <1>14
  <2>3. \A k \in 1..8 : \A x \in Stage[k] : x \in live'.lost \/ x \in Stage'[k] \/ (x \in X /\ x \in Stage'[3])
    BY <1>13, <1>15, <1>16, <1>17, <2>1, <2>2
  <2>4. Buffered => \A x \in X : log'[x] = 1
    BY <1>1, <1>5, <1>12 DEF IInv, Durable
  <2>5. live.lost \subseteq live'.lost
    BY <1>8
  <2> QED
    BY <1>1, <2>3, <2>4, <2>5 DEF Keeps
<1>20. (Chain(Stage) /\ Accounted /\ Durable)'
  <2>1. 2 \in 1..8 /\ 3 \in 1..8 /\ 2 <= 3 /\ 3 <= 3
    OBVIOUS
  <2> QED
    BY <1>3, <1>18, <1>19, <2>1, StepKeepsStages
<1>21. TypeInv' /\ Queues' /\ Batches'
  BY <1>1, <1>2, <1>6, <1>8, <1>10, <1>11 DEF IInv, TypeInv, Queues, Batches
<1>22. CallsInv'
  <2>1. Paths'
    <3>1. "releaser" \in Thread /\ Producer \subseteq Thread
      BY NameFacts
    <3> QED
      BY <1>1, <1>2, <1>10, <3>1 DEF CallsInv, Paths, Buffered
  <2>2. callback' # Reply
    BY <1>1, EventFacts
  <2> QED
    BY <1>1, <1>2, <1>9, <1>10, <1>11, <2>1, <2>2, NameFacts DEF CallsInv, NothingSeen
<1> QED
  BY <1>20, <1>21, <1>22 DEF IInv

\* The sink gets the events sent, the first ones of what the drain has to
\* deliver; of the others, what the drain has no longer is lost.
LEMMA DeliveryKeeps ==
    ASSUME IInv, callback = NoEvent, drain.owner # "none", NEW sent \in Seq(Event), Sorted(sent),
           NEW op \in Delivery, drain' = [drain EXCEPT !.op = op], OpSorted(op),
           ToSet(sent) \subseteq OpEvents(drain.op), OpEvents(op) \subseteq OpEvents(drain.op),
           Before(ToSet(sent), OpEvents(op)), seen' = Delivered(sent),
           live' \in Buffer, live'.order = live.order, live'.deferred = live.deferred,
           live.lost \subseteq live'.lost,
           OpEvents(drain.op) \subseteq ToSet(sent) \cup OpEvents(op) \cup live'.lost,
           callback' = NoEvent \/ (callback' = Reply /\ NothingSeen /\ sent # <<>>),
           UNCHANGED <<config, next, calls, bound, hist, flushes, writer, log>>
    PROVE  IInv'
<1>1. /\ TypeInv /\ CallsInv /\ seen \in [Task -> Seq(Event)] /\ drain \in Drain
      /\ \A task \in Task : Sorted(seen[task]) /\ \A i \in DOMAIN seen[task] : seen[task][i].task = task
  BY DEF IInv, TypeInv, Queues
<1>2. \A i \in 1..8 : Stage[i] \subseteq Event
  BY <1>1, StagesAreEvents
<1>3. /\ drain' \in Drain /\ drain'.op = op /\ drain'.owner = drain.owner /\ drain'.stage = drain.stage
      /\ drain'.key = drain.key /\ drain'.release = drain.release
  BY <1>1 DEF Drain
<1>4. /\ Stage[1] = SeenEvents /\ Stage[2] = OpEvents(drain.op) /\ Stage'[2] = OpEvents(op)
      /\ Stage'[1] = SeenEvents'
  BY <1>3, StageIs
<1>5. Before(SeenEvents, ToSet(sent))
  <2>1. Before(Stage[1], Stage[2])
    BY DEF IInv, Chain
  <2> QED
    BY <1>4, <2>1 DEF Before
<1>6. ASSUME NEW task \in Task
      PROVE  LET o == Of(sent, {task})
             IN  /\ seen'[task] = seen[task] \o o
                 /\ seen'[task] \in Seq(Event) /\ Sorted(seen'[task])
                 /\ ToSet(seen'[task]) = ToSet(seen[task]) \cup {x \in ToSet(sent) : x.task = task}
                 /\ \A i \in DOMAIN seen'[task] : seen'[task][i].task = task
  <2> DEFINE o == Of(sent, {task})
  <2>1. o \in Seq(Event) /\ ToSet(o) = {x \in ToSet(sent) : x.task \in {task}} /\ Sorted(o)
    BY OfFacts
  <2>2. seen'[task] = seen[task] \o o /\ seen[task] \in Seq(Event) /\ Sorted(seen[task])
    BY <1>1 DEF Delivered
  <2> HIDE DEF o
  <2>3. Before(ToSet(seen[task]), ToSet(o))
    <3>1. ToSet(seen[task]) \subseteq SeenEvents
      BY DEF SeenEvents
    <3> QED
      BY <1>5, <2>1, <3>1 DEF Before
  <2>4. /\ seen[task] \o o \in Seq(Event) /\ Sorted(seen[task] \o o)
        /\ ToSet(seen[task] \o o) = ToSet(seen[task]) \cup ToSet(o)
    BY <2>1, <2>2, <2>3, Concatenation
  <2>5. \A x \in ToSet(seen[task]) : x.task = task
    BY <1>1 DEF ToSet
  <2>6. ToSet(seen'[task]) = ToSet(seen[task]) \cup {x \in ToSet(sent) : x.task = task}
    BY <2>1, <2>2, <2>4
  <2>7. \A i \in DOMAIN seen'[task] : seen'[task][i] \in ToSet(seen'[task])
    BY DEF ToSet
  <2> QED
    BY <2>2, <2>4, <2>5, <2>6, <2>7 DEF o
<1>7. seen' \in [Task -> Seq(Event)]
  <2>1. DOMAIN seen' = Task /\ seen' = [task \in Task |-> seen'[task]]
    BY DEF Delivered
  <2> QED
    BY <1>6, <2>1
<1>8. SeenEvents' = SeenEvents \cup ToSet(sent)
  <2>1. \A x \in ToSet(sent) : x.task \in Task
    BY ElementsAreEvents, EventFacts
  <2>2. SeenEvents' = UNION {ToSet(seen'[task]) : task \in Task}
    BY DEF SeenEvents
  <2>3. \A task \in Task : ToSet(seen'[task]) = ToSet(seen[task]) \cup {x \in ToSet(sent) : x.task = task}
    BY <1>6
  <2>4. SeenEvents' \subseteq SeenEvents \cup ToSet(sent)
    <3> SUFFICES ASSUME NEW task \in Task, NEW x \in ToSet(seen'[task])
                 PROVE  x \in SeenEvents \cup ToSet(sent)
      BY <2>2
    <3> QED
      BY <2>3 DEF SeenEvents
  <2>5. SeenEvents \subseteq SeenEvents'
    <3> SUFFICES ASSUME NEW task \in Task, NEW x \in ToSet(seen[task])
                 PROVE  x \in SeenEvents'
      BY DEF SeenEvents
    <3>1. x \in ToSet(seen'[task])
      BY <2>3
    <3> QED
      BY <2>2, <3>1
  <2>6. ToSet(sent) \subseteq SeenEvents'
    <3> SUFFICES ASSUME NEW x \in ToSet(sent)
                 PROVE  x \in SeenEvents'
      OBVIOUS
    <3>1. x \in ToSet(seen'[x.task])
      BY <2>1, <2>3
    <3> QED
      BY <2>1, <2>2, <3>1
  <2> QED
    BY <2>4, <2>5, <2>6
<1>9. NothingSeen' => NothingSeen /\ sent = <<>>
  <2>1. NothingSeen' => SeenEvents' = {}
    BY EmptyIsSorted DEF NothingSeen, SeenEvents
  <2>2. SeenEvents = {} => NothingSeen
    <3> SUFFICES ASSUME SeenEvents = {}, NEW task \in Task
                 PROVE  seen[task] = <<>>
      BY DEF NothingSeen
    <3>1. ToSet(seen[task]) = {}
      BY DEF SeenEvents
    <3> QED
      BY <1>1, <3>1, ElementsAreEvents
  <2>3. ToSet(sent) = {} => sent = <<>>
    BY ElementsAreEvents
  <2> QED
    BY <1>8, <2>1, <2>2, <2>3
<1>10. Stage'[8] \subseteq Stage[8] /\ \A x \in Stage[8] : x = Reply \/ x \in Stage'[8]
  <2>1. callback # Reply
    BY EventFacts
  <2>2. ReplyIsDue' => ReplyIsDue
    BY <1>9, <2>1, EventFacts DEF ReplyIsDue
  <2> HIDE DEF Reply
  <2> QED
    BY <2>2, StageIs DEF Unpublished
<1>11. \A k \in {3, 4, 5, 6, 7} : Stage'[k] = Stage[k]
  BY <1>3, StageFrame
<1>12. \A k \in 1..8 : k = 1 \/ k = 2 \/ k \in {3, 4, 5, 6, 7} \/ k = 8
  OBVIOUS
<1> DEFINE X == ToSet(sent)
<1> HIDE DEF X
<1>13. Stage'[1] = Stage[1] \cup X /\ X \subseteq Stage[2] /\ Stage'[2] \subseteq Stage[2] /\ Before(X, Stage'[2])
  BY <1>4, <1>8 DEF X
<1>14. Moves(Stage, Stage', X, 1, 1, 2)
  <2>1. \A k \in 1..8 : k # 1 => Stage'[k] \subseteq Stage[k]
    BY <1>10, <1>11, <1>12, <1>13
  <2>2. \A x \in X : \E j \in 1..2 : x \in Stage[j]
    <3>1. 2 \in 1..2
      OBVIOUS
    <3> QED
      BY <1>13, <3>1
  <2>3. \A k \in 1..2 : ~(k < 1) /\ (k > 1 => k = 2)
    OBVIOUS
  <2> QED
    BY <1>13, <2>1, <2>2, <2>3 DEF Moves
<1>15. Keeps(X, 1)
  <2>1. \A x \in Stage[2] : x \in live'.lost \/ x \in Stage'[2] \/ (x \in X /\ x \in Stage'[1])
    BY <1>4, <1>13 DEF X
  <2>2. \A k \in 1..8 : \A x \in Stage[k] :
           x = Reply \/ x \in live'.lost \/ x \in Stage'[k] \/ (x \in X /\ x \in Stage'[1])
    BY <1>10, <1>11, <1>12, <1>13, <2>1
  <2>3. Buffered => \A x \in X : log'[x] = 1
    BY <1>13 DEF IInv, Durable
  <2> QED
    BY <2>2, <2>3 DEF Keeps
<1>16. (Chain(Stage) /\ Accounted /\ Durable)'
  <2>1. 1 \in 1..8 /\ 2 \in 1..8 /\ 1 <= 1 /\ 1 <= 2
    OBVIOUS
  <2> QED
    BY <1>2, <1>14, <1>15, <2>1, StepKeepsStages
<1>17. TypeInv'
  BY <1>1, <1>3, <1>7 DEF TypeInv
<1>18. Queues' /\ Batches'
  BY <1>3, <1>6 DEF IInv, Queues, Batches
<1>19. CallsInv'
  <2>1. Paths'
    BY <1>1 DEF CallsInv, Paths, Buffered
  <2>2. callback' = Reply => ~NothingSeen'
    BY <1>9, EventFacts
  <2>3. drain' # NoDrain
    BY <1>3 DEF NoDrain
  <2> QED
    BY <1>1, <1>3, <2>1, <2>2, <2>3 DEF CallsInv
<1> QED
  BY <1>16, <1>17, <1>18, <1>19 DEF IInv
LEMMA PrefixElements ==
    ASSUME NEW s \in Seq(Event), NEW k \in 0..Len(s)
    PROVE  ToSet(s) \subseteq ToSet(SubSeq(s, 1, k)) \cup {s[i] : i \in (k + 1)..Len(s)}
<1> DEFINE a == SubSeq(s, 1, k)
           m == Len(s)
<1>1. m \in Nat /\ DOMAIN s = 1..m /\ \A i \in 1..m : s[i] \in Event
  BY LenProperties, ElementOfSeq
<1>2. k \in Nat /\ k <= m /\ \A i \in 1..k : s[i] \in Event
  <2>1. k \in 0..m
    OBVIOUS
  <2> HIDE DEF m
  <2> QED
    BY <1>1, <2>1
<1>3. a \in Seq(Event) /\ Len(a) = (IF 1 <= k THEN k - 1 + 1 ELSE 0) /\ \A i \in 1..(k - 1 + 1) : a[i] = s[1 + i - 1]
  BY <1>1, <1>2, SubSeqProperties
<1> HIDE DEF a, m
<1>4. Len(a) = k
  BY <1>2, <1>3
<1>5. DOMAIN a = 1..k /\ \A i \in 1..k : a[i] = s[i]
  <2>1. \A i \in 1..k : i \in 1..(k - 1 + 1) /\ 1 + i - 1 = i
    BY <1>2
  <2> QED
    BY <1>3, <1>4, <2>1, LenProperties
<1>6. \A i \in 1..m : i \in 1..k \/ i \in (k + 1)..m
  BY <1>1, <1>2
<1>7. ToSet(s) \subseteq ToSet(a) \cup {s[i] : i \in (k + 1)..m}
  <2> SUFFICES ASSUME NEW i \in 1..m PROVE s[i] \in ToSet(a) \cup {s[j] : j \in (k + 1)..m}
    BY <1>1 DEF ToSet
  <2>1. CASE i \in 1..k
    BY <1>5, <2>1 DEF ToSet
  <2>2. CASE i \in (k + 1)..m
    BY <2>2
  <2> QED
    BY <1>6, <2>1, <2>2
<1> QED
  BY <1>7 DEF a, m

LEMMA RepliesFacts ==
    ASSUME NEW s \in Seq(Event), Replies(s)
    PROVE  callback' = NoEvent \/ (callback' = Reply /\ NothingSeen /\ s # <<>>)
<1>1. s = <<>> => DOMAIN s = {}
  OBVIOUS
<1> HIDE DEF Reply, NoEvent
<1> QED
  BY <1>1 DEF Replies, NothingSeen

LEMMA SendItemsKeeps ==
    ASSUME IInv, LiveStep(SendItems)
    PROVE  IInv'
<1> DEFINE items == drain.op.items
           op == [drain.op EXCEPT !.items = <<>>, !.sending = TRUE]
<1>1. /\ items # <<>> /\ callback = NoEvent
      /\ drain' = [drain EXCEPT !.op.items = <<>>, !.op.sending = TRUE]
      /\ UNCHANGED <<config, next, calls, bound, hist, flushes, writer, log>>
      /\ \/ seen' = Delivered(items) /\ UNCHANGED live /\ Replies(items)
         \/ \E k \in 0..(Len(items) - 1) :
               /\ seen' = Delivered(SubSeq(items, 1, k))
               /\ live' = [live EXCEPT !.lost = @ \cup {items[i] : i \in (k + 1)..Len(items)}]
               /\ Replies(SubSeq(items, 1, k))
  BY DEF LiveStep, SendItems, histVars
<1>2. /\ live \in Buffer /\ drain \in Drain /\ drain.op \in Delivery /\ items \in Seq(Event)
      /\ Sorted(items) /\ Before(ToSet(items), {drain.op.release} \ {NoEvent})
  BY DEF IInv, TypeInv, Drain, Delivery, Queues, OpSorted
<1>3. drain.owner # "none"
  BY <1>1 DEF IInv, CallsInv, NoDrain, NoOperation, Operation
<1>4. /\ op \in Delivery /\ op.items = <<>> /\ op.release = drain.op.release
      /\ drain' = [drain EXCEPT !.op = op]
  BY <1>1, <1>2, EmptySeq DEF Drain, Delivery
<1> HIDE DEF op
<1>5. /\ OpEvents(op) = {drain.op.release} \ {NoEvent} /\ OpSorted(op)
      /\ OpEvents(drain.op) = ToSet(items) \cup OpEvents(op)
  BY <1>4, EmptyIsSorted DEF OpEvents, OpSorted, Before
<1>6. CASE seen' = Delivered(items) /\ UNCHANGED live /\ Replies(items)
  <2>1. callback' = NoEvent \/ (callback' = Reply /\ NothingSeen /\ items # <<>>)
    BY <1>2, <1>6, RepliesFacts
  <2>2. /\ ToSet(items) \subseteq OpEvents(drain.op) /\ OpEvents(op) \subseteq OpEvents(drain.op)
        /\ Before(ToSet(items), OpEvents(op))
        /\ OpEvents(drain.op) \subseteq ToSet(items) \cup OpEvents(op) \cup live'.lost
    BY <1>2, <1>5
  <2>3. live' \in Buffer /\ live'.order = live.order /\ live'.deferred = live.deferred /\ live.lost \subseteq live'.lost
    BY <1>2, <1>6
  <2> HIDE DEF items
  <2> QED
    BY <1>1, <1>2, <1>3, <1>4, <1>5, <1>6, <2>1, <2>2, <2>3, DeliveryKeeps
<1>7. CASE \E k \in 0..(Len(items) - 1) :
              /\ seen' = Delivered(SubSeq(items, 1, k))
              /\ live' = [live EXCEPT !.lost = @ \cup {items[i] : i \in (k + 1)..Len(items)}]
              /\ Replies(SubSeq(items, 1, k))
  <2>1. PICK k \in 0..(Len(items) - 1) :
           /\ seen' = Delivered(SubSeq(items, 1, k))
           /\ live' = [live EXCEPT !.lost = @ \cup {items[i] : i \in (k + 1)..Len(items)}]
           /\ Replies(SubSeq(items, 1, k))
    BY <1>7
  <2> DEFINE sent == SubSeq(items, 1, k)
             rest == SubSeq(items, k + 1, Len(items))
             gone == {items[i] : i \in (k + 1)..Len(items)}
  <2> HIDE DEF items
  <2>2. Len(items) \in Nat /\ DOMAIN items = 1..Len(items) /\ \A i \in 1..Len(items) : items[i] \in Event
    BY <1>2, LenProperties, ElementOfSeq
  <2>3. k \in 0..Len(items) /\ \A i \in (k + 1)..Len(items) : i \in 1..Len(items)
    BY <2>2
  <2>4. gone \subseteq Event
    BY <2>2, <2>3
  <2>5. sent \in Seq(Event) /\ Sorted(sent) /\ ToSet(sent) \subseteq ToSet(items)
    BY <1>2, <2>3, Splitting
  <2>6. ToSet(items) \subseteq ToSet(sent) \cup gone
    BY <1>2, <2>3, PrefixElements
  <2> HIDE DEF sent, gone
  <2>7. callback' = NoEvent \/ (callback' = Reply /\ NothingSeen /\ sent # <<>>)
    BY <2>1, <2>5, RepliesFacts DEF sent
  <2>8. /\ live' \in Buffer /\ live'.order = live.order /\ live'.deferred = live.deferred
        /\ live'.lost = live.lost \cup gone
    BY <1>2, <2>1, <2>4 DEF Buffer, gone
  <2>9. /\ ToSet(sent) \subseteq OpEvents(drain.op) /\ OpEvents(op) \subseteq OpEvents(drain.op)
        /\ OpEvents(drain.op) \subseteq ToSet(sent) \cup OpEvents(op) \cup live'.lost
    BY <1>5, <2>5, <2>6, <2>8
  <2>10. Before(ToSet(sent), OpEvents(op)) /\ live.lost \subseteq live'.lost /\ seen' = Delivered(sent)
    BY <1>2, <1>5, <2>1, <2>5, <2>8 DEF Before, sent
  <2> QED
    BY <1>1, <1>3, <1>4, <1>5, <2>5, <2>7, <2>8, <2>9, <2>10, DeliveryKeeps
<1> QED
  BY <1>1, <1>6, <1>7

LEMMA SendReleaseKeeps ==
    ASSUME IInv, LiveStep(SendRelease)
    PROVE  IInv'
<1> DEFINE e == drain.op.release
<1>1. /\ drain.op.items = <<>> /\ e # NoEvent /\ callback = NoEvent
      /\ drain' = [drain EXCEPT !.op = NoOperation]
      /\ UNCHANGED <<config, next, calls, bound, hist, flushes, writer, log>>
      /\ \/ /\ seen' = Delivered(<<e>>) /\ live' = [live EXCEPT !.deferred_size = @ - 1] /\ Replies(<<e>>)
         \/ /\ live' = [live EXCEPT !.deferred_size = @ - 1, !.lost = @ \cup {e}]
            /\ UNCHANGED <<seen, callback>>
  BY DEF LiveStep, SendRelease, histVars
<1>2. /\ live \in Buffer /\ drain \in Drain /\ e \in Event /\ seen \in [Task -> Seq(Event)]
  BY <1>1 DEF IInv, TypeInv, Drain, Delivery
<1>3. drain.owner # "none"
  BY <1>1 DEF IInv, CallsInv, NoDrain, NoOperation, Operation
<1>4. NoOperation \in Delivery /\ OpEvents(NoOperation) = {} /\ OpSorted(NoOperation)
  BY EmptyIsSorted, EmptySeq DEF NoOperation, Operation, Delivery, OpEvents, OpSorted, Before
<1>5. OpEvents(drain.op) = {e}
  BY <1>1, EmptyIsSorted DEF OpEvents
<1>6. <<e>> \in Seq(Event) /\ Sorted(<<e>>) /\ ToSet(<<e>>) = {e}
  BY <1>2, OneIsSorted
<1> HIDE DEF e
<1>7. live.deferred_size - 1 \in Int
  BY <1>2 DEF Buffer
<1>8. CASE seen' = Delivered(<<e>>) /\ live' = [live EXCEPT !.deferred_size = @ - 1] /\ Replies(<<e>>)
  <2>1. live' \in Buffer /\ live'.order = live.order /\ live'.deferred = live.deferred /\ live'.lost = live.lost
    BY <1>2, <1>7, <1>8 DEF Buffer
  <2>2. callback' = NoEvent \/ (callback' = Reply /\ NothingSeen /\ <<e>> # <<>>)
    BY <1>6, <1>8, RepliesFacts
  <2> DEFINE sent == <<e>>
  <2>3. /\ sent \in Seq(Event) /\ Sorted(sent) /\ ToSet(sent) = {e} /\ seen' = Delivered(sent)
        /\ callback' = NoEvent \/ (callback' = Reply /\ NothingSeen /\ sent # <<>>)
        /\ Before(ToSet(sent), OpEvents(NoOperation))
    BY <1>4, <1>6, <1>8, <2>2 DEF Before
  <2> HIDE DEF sent
  <2>4. /\ ToSet(sent) \subseteq OpEvents(drain.op) /\ OpEvents(NoOperation) \subseteq OpEvents(drain.op)
        /\ OpEvents(drain.op) \subseteq ToSet(sent) \cup OpEvents(NoOperation) \cup live'.lost
    BY <1>4, <1>5, <2>3
  <2> QED
    BY <1>1, <1>3, <1>4, <2>1, <2>3, <2>4, DeliveryKeeps
<1>9. CASE /\ live' = [live EXCEPT !.deferred_size = @ - 1, !.lost = @ \cup {e}]
           /\ UNCHANGED <<seen, callback>>
  <2>1. live' \in Buffer /\ live'.order = live.order /\ live'.deferred = live.deferred /\ live'.lost = live.lost \cup {e}
    BY <1>2, <1>7, <1>9 DEF Buffer
  <2> DEFINE sent == <<>>
  <2>2. sent \in Seq(Event) /\ Sorted(sent) /\ ToSet(sent) = {}
    BY EmptyIsSorted, EmptySeq
  <2>3. seen' = Delivered(sent)
    <3>1. ASSUME NEW task \in Task PROVE seen[task] = seen[task] \o Of(sent, {task})
      <4>1. Of(sent, {task}) \in Seq(Event) /\ ToSet(Of(sent, {task})) = {x \in ToSet(sent) : x.task \in {task}}
        BY <2>2, OfFacts
      <4>2. Of(sent, {task}) = <<>>
        <5>1. ToSet(Of(sent, {task})) = {}
          BY <2>2, <4>1
        <5> HIDE DEF sent
        <5> QED
          BY <4>1, <5>1, ElementsAreEvents
      <4>3. seen[task] \in Seq(Event)
        BY <1>2
      <4> QED
        BY <4>2, <4>3, ConcatEmptySeq
    <3> HIDE DEF sent
    <3> QED
      BY <1>2, <1>9, <3>1 DEF Delivered
  <2> HIDE DEF sent
  <2>4. /\ ToSet(sent) \subseteq OpEvents(drain.op) /\ OpEvents(NoOperation) \subseteq OpEvents(drain.op)
        /\ OpEvents(drain.op) \subseteq ToSet(sent) \cup OpEvents(NoOperation) \cup live'.lost
        /\ Before(ToSet(sent), OpEvents(NoOperation)) /\ live.lost \subseteq live'.lost
    BY <1>4, <1>5, <2>1, <2>2 DEF Before
  <2>5. callback' = NoEvent
    BY <1>1, <1>9
  <2> QED
    BY <1>1, <1>3, <1>4, <2>1, <2>2, <2>3, <2>4, <2>5, DeliveryKeeps
<1> QED
  BY <1>1, <1>8, <1>9

----------------------------------------------------------------------------
\* The whole.

LEMMA InitIsRight == EventInit => IInv
<1> SUFFICES ASSUME EventInit
             PROVE  IInv
  OBVIOUS
<1>1. /\ config \in Configs
      /\ live = [order |-> <<>>, deferred |-> <<>>, deferred_size |-> 0, lost |-> {}]
      /\ drain = NoDrain /\ calls = [t \in Thread |-> IdleCall] /\ callback = NoEvent /\ bound = {}
      /\ seen = [task \in Task |-> <<>>]
      /\ hist = [state |-> "accepting", pending |-> <<>>, committed |-> <<>>, active |-> NoEvent,
                 error |-> FALSE, fatal |-> FALSE, backoff |-> FALSE]
      /\ flushes = [t \in Flusher |-> IdleFlush] /\ writer = "none" /\ log = [e \in Event |-> 0]
      /\ next = [p \in Producer |-> 1]
  BY DEF EventInit, LiveInit, HistoryInit
<1>2. NoDrain \in Drain /\ NoDrain.owner = "none" /\ OpEvents(NoDrain.op) = {} /\ OpSorted(NoDrain.op)
  BY EmptyIsSorted, EmptySeq DEF NoDrain, Drain, NoOperation, Operation, Delivery, OpEvents, OpSorted, Before
<1>3. TypeInv
  <2>1. live \in Buffer /\ hist \in History
    BY <1>1, EmptySeq DEF Buffer, History
  <2>2. IdleCall \in Call
    BY DEF IdleCall, Call
  <2>3. seen \in [Task -> Seq(Event)]
    BY <1>1, EmptySeq
  <2>4. next \in [Producer -> 1..(MaxLength + 1)]
    BY <1>1, EventFacts
  <2> QED
    BY <1>1, <1>2, <2>1, <2>2, <2>3, <2>4, IdleFacts DEF TypeInv
<1>4. /\ SeenEvents = {} /\ OpEvents(drain.op) = {} /\ DeferredEvents = {} /\ ToSet(live.order) = {}
      /\ Waiting = {} /\ ToSet(hist.committed) = {} /\ ToSet(hist.pending) = {}
  <2>1. SeenEvents = {}
    BY <1>1, EmptyIsSorted DEF SeenEvents
  <2>2. DeferredEvents = {}
    BY <1>1 DEF DeferredEvents, EventsOf
  <2>3. Waiting = {}
    BY <1>1 DEF Waiting, IdleCall
  <2> QED
    BY <1>1, <1>2, <2>1, <2>2, <2>3, EmptyIsSorted
<1>5. \A k \in 1..8 : k # 8 => Stage[k] = {}
  <2>1. \A k \in 1..8 : k = 1 \/ k = 2 \/ k = 3 \/ k = 4 \/ k = 5 \/ k = 6 \/ k = 7 \/ k = 8
    OBVIOUS
  <2> QED
    BY <1>4, <2>1, StageIs
<1>6. Chain(Stage) /\ Durable
  <2>1. \A k, m \in 1..8 : k < m => k # 8
    OBVIOUS
  <2> QED
    BY <1>5, <2>1 DEF Chain, Before, Durable
<1>7. Accounted
  <2>1. \A e \in Event : e # Reply => e \in Unpublished
    BY <1>1, EventFacts DEF Unpublished
  <2> QED
    BY <2>1, StageIs DEF Accounted
<1>8. Queues
  <2>1. \A task \in Task : seen[task] = <<>>
    BY <1>1
  <2>2. \A task \in Task : Sorted(seen[task]) /\ \A i \in DOMAIN seen[task] : seen[task][i].task = task
    BY <2>1, EmptyIsSorted
  <2>3. InLine(live.deferred)
    BY <1>1 DEF InLine
  <2> QED
    BY <1>1, <1>2, <2>2, <2>3, EmptyIsSorted DEF Queues
<1>9. CallsInv
  <2>1. \A t \in Thread : calls[t] = IdleCall /\ CallIsRight(t, IdleCall)
    BY <1>1 DEF IdleCall, CallIsRight
  <2>2. Paths
    BY <1>1, <2>1, NameFacts DEF Paths
  <2> QED
    BY <1>1, <1>2, <2>1, <2>2, NameFacts, EventFacts DEF CallsInv
<1>10. Batches
  BY <1>1, IdleFacts DEF Batches
<1> QED
  BY <1>3, <1>6, <1>7, <1>8, <1>9, <1>10 DEF IInv
LEMMA StepKeepsInvariant == IInv /\ [EventNext]_vars => IInv'
<1> SUFFICES ASSUME IInv, [EventNext]_vars
             PROVE  IInv'
  OBVIOUS
<1>1. CASE UNCHANGED vars
  <2>1. UNCHANGED <<config, next, live, drain, calls, callback, bound, seen, hist, flushes, writer, log>>
    BY <1>1 DEF vars, liveVars, histVars
  <2>2. hist' \in History
    BY <2>1 DEF IInv, TypeInv
  <2> QED
    BY <2>1, <2>2, HistoryRests
<1>2. ASSUME NEW p \in Producer, PublisherStep(p)
      PROVE  IInv'
  BY <1>2, PublishLiveKeeps, PublishBufferedKeeps DEF PublisherStep
<1>3. ASSUME NEW p \in Producer, PublishCancelled(p)
      PROVE  IInv'
  BY <1>3, PublishCancelledKeeps
<1>4. ASSUME NEW p \in Producer, LiveStep(DrainCancelled(p))
      PROVE  IInv'
  BY <1>4, DrainCancelledKeeps
<1>5. ASSUME NEW p \in Producer, LiveStep(WaitCancelled(p))
      PROVE  IInv'
  BY <1>5, WaitCancelledKeeps
<1>6. ASSUME NEW t \in Thread, LiveStep(AddResumes(t)) \/ LiveStep(DrainStarts(t))
      PROVE  IInv'
  BY <1>6, AddResumesKeeps, DrainStartsKeeps
<1>7. CASE LiveStep(DrainStep)
  <2>1. LiveStep(DrainAdvances) \/ LiveStep(SendItems) \/ LiveStep(SendRelease)
    BY <1>7 DEF LiveStep, DrainStep
  <2> QED
    BY <2>1, DrainAdvancesKeeps, SendItemsKeeps, SendReleaseKeeps
<1>8. CASE LoopStep
  BY <1>8, FlushOfAllKeeps DEF LoopStep, LiveStep, IntervalFlush, histVars
<1>9. CASE CallbackStep
  BY <1>9, CallbackLiveKeeps, CallbackBufferedKeeps, CallbackReturnsKeeps DEF CallbackStep
<1>10. CASE TimerStep
  BY <1>10, TimerFiresKeeps
<1>11. CASE ReleaserStep
  BY <1>11, ReleaseStartsKeeps, ReleaseEndsKeeps DEF ReleaserStep
<1>12. CASE CloseStep
  <2>1. CASE DrainBuffer
    BY <2>1, FlushOfAllKeeps DEF DrainBuffer, histVars
  <2> QED
    BY <1>12, <2>1, CloseStepKeeps DEF CloseStep
<1>13. ASSUME NEW t \in Flusher, PersistStep(t)
       PROVE  IInv'
  <2>1. \/ HistoryStep(LockTaken(t) /\ UNCHANGED faults)
        \/ HistoryStep(WriteCommits(t) /\ UNCHANGED faults)
        \/ HistoryStep(ReleasesSeen(t) /\ UNCHANGED faults)
    BY <1>13 DEF PersistStep, HistoryStep, Persist
  <2> QED
    BY <2>1, LockTakenKeeps, WriteCommitsKeeps, ReleasesSeenKeeps
<1>14. ASSUME NEW t \in Flusher, HistoryStep(WriteFails(t))
       PROVE  IInv'
  BY <1>14, WriteFailsKeeps
<1>15. CASE CloseHistory
  BY <1>15, CloseStepKeeps
<1>16. CASE LoopRuns
  BY <1>6, <1>7, <1>8, <1>9, <1>10, <1>11, <1>12, <1>13, <1>16 DEF LoopRuns
<1> QED
  BY <1>1, <1>2, <1>3, <1>4, <1>5, <1>14, <1>15, <1>16 DEF EventNext

LEMMA InvariantHolds == EventSpec => []IInv
<1>1. EventInit => IInv
  BY InitIsRight
<1>2. IInv /\ [EventNext]_vars => IInv'
  BY StepKeepsInvariant
<1> QED
  BY <1>1, <1>2, PTL DEF EventSpec

\* With any number of producers, events, faults and cancellations, any batch
\* sizes and limits, and every overflow policy, a subscriber gets the events of
\* a task in the order they were published in, the terminal one last: whatever
\* LiveEventBuffer defers, blocks or flushes, none overtakes another.
THEOREM EventsStayInOrder == EventSpec => []LiveOrder
<1>1. IInv => LiveOrder
  <2> SUFFICES ASSUME IInv, NEW task \in Task, NEW i \in DOMAIN seen[task], NEW j \in DOMAIN seen[task], i < j
               PROVE  seen[task][i].n < seen[task][j].n
    BY DEF LiveOrder
  <2>1. Sorted(seen[task]) /\ seen[task][i].task = task /\ seen[task][j].task = task
    BY DEF IInv, Queues
  <2> QED
    BY <2>1 DEF Sorted
<1> QED
  BY <1>1, InvariantHolds, PTL

\* What a subscriber has been told of by a publisher with a history is in the
\* event log, once, and so are the task's earlier events: _HistoryBuffer hands
\* an event over after the commit of its batch only, through failed, repeated
\* and cancelled writes.
THEOREM NoNewsBeforeTheCommit == EventSpec => []CommittedBeforeLive
<1>1. IInv => CommittedBeforeLive
  <2> SUFFICES ASSUME IInv, Buffered, NEW task \in Task, NEW i \in DOMAIN seen[task]
               PROVE  /\ log[seen[task][i]] = 1
                      /\ \A x \in ToSet(hist.pending) : x.task = task => x.n > seen[task][i].n
    BY DEF CommittedBeforeLive, Buffered
  <2> DEFINE e == seen[task][i]
  <2>1. e.task = task
    BY DEF IInv, Queues
  <2>2. e \in SeenEvents
    <3>1. e \in ToSet(seen[task])
      BY DEF ToSet
    <3> QED
      BY <3>1 DEF SeenEvents
  <2> HIDE DEF e
  <2>3. log[e] = 1
    <3>1. e \in Stage[1]
      BY <2>2, StageIs
    <3> QED
      BY <3>1 DEF IInv, Durable
  <2>4. ASSUME NEW x \in ToSet(hist.pending), x.task = task
        PROVE  x.n > e.n
    <3>1. Before(Stage[1], Stage[7])
      BY DEF IInv, Chain
    <3>2. e.n < x.n
      BY <2>1, <2>2, <2>4, <3>1, StageIs DEF Before
    <3>3. e \in Event /\ x \in Event
      <4>1. Stage[1] \subseteq Event /\ Stage[7] \subseteq Event
        BY StagesAreEvents DEF IInv
      <4> QED
        BY <2>2, <2>4, <4>1, StageIs
    <3>4. e.n \in Nat /\ x.n \in Nat
      BY <3>3, EventFacts
    <3> QED
      BY <3>2, <3>4
  <2> QED
    BY <2>3, <2>4 DEF e
<1> QED
  BY <1>1, InvariantHolds, PTL

\* What a producer has published is in a buffer or waits at one, has reached
\* the sink, or was given up knowingly: refused, dropped by the overflow
\* policy, failed in the sink or cancelled.  No event is forgotten on its way
\* between history, buffer, deferred work and drain.
THEOREM EveryEventIsAccountedFor == EventSpec => []NothingVanishes
<1>1. IInv => NothingVanishes
  <2> SUFFICES ASSUME IInv, NEW p \in Producer, NEW n \in 1..(next[p] - 1)
               PROVE  Held([task |-> p, n |-> n]) \/ [task |-> p, n |-> n] \in ToSet(seen[p]) \cup live.lost
    BY DEF NothingVanishes
  <2> DEFINE e == [task |-> p, n |-> n]
  <2>1. next[p] \in 1..(MaxLength + 1) /\ MaxLength \in Nat
    BY EventFacts DEF IInv, TypeInv
  <2>2. n \in 1..MaxLength /\ n < next[p]
    BY <2>1
  <2>3. e \in Event /\ e # Reply /\ e.task = p /\ e.n = n /\ e # NoEvent
    BY <2>2, EventFacts
  <2> HIDE DEF e
  <2>4. e \notin Unpublished
    BY <2>1, <2>2, <2>3 DEF Unpublished
  <2>5. e \in live.lost \/ \E k \in 1..8 : e \in Stage[k]
    BY <2>3 DEF IInv, Accounted
  <2>6. \/ e \in live.lost \/ e \in SeenEvents \/ e \in OpEvents(drain.op) \/ e \in DeferredEvents
        \/ e \in ToSet(live.order) \/ e \in Waiting \/ e \in ToSet(hist.committed) \/ e \in ToSet(hist.pending)
    <3>1. \A k \in 1..8 : k = 1 \/ k = 2 \/ k = 3 \/ k = 4 \/ k = 5 \/ k = 6 \/ k = 7 \/ k = 8
      OBVIOUS
    <3> QED
      BY <2>4, <2>5, <3>1, StageIs
  <2>7. CASE e \in SeenEvents
    <3>1. PICK task \in Task : e \in ToSet(seen[task])
      BY <2>7 DEF SeenEvents
    <3>2. task = p
      BY <2>3, <3>1 DEF IInv, Queues, ToSet
    <3> QED
      BY <3>1, <3>2 DEF e
  <2>8. CASE e \in OpEvents(drain.op)
    BY <2>8 DEF OpEvents, Held, e
  <2>9. CASE e \in DeferredEvents
    BY <2>9 DEF DeferredEvents, EventsOf, OpEvents, Held, e
  <2>10. CASE e \in Waiting
    <3>1. PICK t \in Thread : (drain.owner # t \/ drain.stage = "before") /\ e = calls[t].event
      BY <2>10 DEF Waiting
    <3>2. drain.owner = t => drain.release = calls[t].event
      BY DEF IInv, CallsInv
    <3> QED
      BY <3>1, <3>2 DEF Held, e
  <2>11. CASE e \in ToSet(live.order) \/ e \in ToSet(hist.committed) \/ e \in ToSet(hist.pending)
    BY <2>11 DEF Held, Unreleased, e
  <2>12. CASE e \in live.lost
    BY <2>12 DEF e
  <2> QED
    BY <2>6, <2>7, <2>8, <2>9, <2>10, <2>11, <2>12
<1> QED
  BY <1>1, InvariantHolds, PTL
=============================================================================
