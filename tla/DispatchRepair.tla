--------------------------- MODULE DispatchRepair ---------------------------
(***************************************************************************)
(* list_dispatch_repair_candidates: the pages in which the repairs of an   *)
(* external backend examine the deliveries that wait.  A page holds the    *)
(* deliveries that were examined longest ago and marks them as examined    *)
(* now; several coordinators may take pages at the same time.              *)
(***************************************************************************)
EXTENDS Integers, FiniteSets, Deployments

CONSTANTS
    Delivery,     \* ids of the records of one execution backend, in their order
    Scanner,      \* concurrent repairs
    RepairLimit,  \* the limit of a page
    MaxPages,     \* bound: pages taken
    MaxReturns    \* bound: deliveries that come back

ASSUME DispatchRepairAssumption ==
    /\ RepairLimit \in Nat \ {0} /\ MaxPages \in Nat /\ MaxReturns \in Nat
    /\ Delivery \subseteq Nat /\ IsFiniteSet(Delivery) /\ IsFiniteSet(Scanner)

VARIABLES
    deliveries,   \* per id, [waits, created, checked]; 0 is no time
    scanners,     \* per repair, its call
    time,         \* _utc_now(), which no two calls share
    passed,       \* per id, the pages in succession that left it out
    returned      \* deliveries that came back

repairVars == <<deliveries, scanners, time, passed, returned>>

\* A batch of deliveries waits from the start, and the last one is to come.
FirstBatch(d) ==
    LET known == \E e \in Delivery : d < e
    IN  [waits |-> known, created |-> IF known THEN 1 ELSE 0, checked |-> 0]

IdleScanner == [pc |-> "idle", now |-> 0, page |-> {}]

RepairInit ==
    /\ deliveries = [d \in Delivery |-> FirstBatch(d)]
    /\ scanners = [s \in Scanner |-> IdleScanner]
    /\ time = 2
    /\ passed = [d \in Delivery |-> 0]
    /\ returned = 0

----------------------------------------------------------------------------
\* Pending or scheduled, for this backend and not overdue.
Eligible == {d \in Delivery : deliveries[d].waits}

\* Fault: the order of creation, whatever has been examined.
CheckedOrderByCreation(d) == deliveries[d].created

\* COALESCE(dispatch_checked_at, created_at)
CheckedOrder(d) == IF deliveries[d].checked # 0 THEN deliveries[d].checked ELSE deliveries[d].created

CheckedBefore(d, e) ==
    CheckedOrder(d) < CheckedOrder(e) \/ (CheckedOrder(d) = CheckedOrder(e) /\ d < e)

\* The first of the eligible ones.
Page == {d \in Eligible : Cardinality({e \in Eligible : CheckedBefore(e, d)}) < RepairLimit}

\* mark_dispatch_checked: no newer mark is overwritten, and what has gone
\* since the page was selected is left alone.
Marked(d, now) == IF deliveries[d].waits /\ deliveries[d].checked < now THEN now ELSE deliveries[d].checked

Mark(S, now) ==
    deliveries' = [d \in Delivery |-> IF d \in S THEN [deliveries[d] EXCEPT !.checked = Marked(d, now)]
                                      ELSE deliveries[d]]

\* A page leaves out the eligible deliveries that it does not hold.
PassesOver(S) ==
    passed' = [d \in Delivery |-> IF d \in Eligible \ S THEN passed[d] + 1 ELSE 0]

----------------------------------------------------------------------------
\* The call, store by store.

Begins(s) == scanners[s] = IdleScanner /\ time <= MaxPages /\ time' = time + 1

\* The memory store takes the time, the page and the marks under its lock.
MemoryScan(s) ==
    /\ config.store = "memory" /\ Begins(s) /\ PassesOver(Page) /\ Mark(Page, time)
    /\ UNCHANGED <<scanners, returned>>

\* So does one transaction of the ephemeral store.
EphemeralScan(s) ==
    /\ config.store = "ephemeral" /\ Begins(s) /\ PassesOver(Page) /\ Mark(Page, time)
    /\ UNCHANGED <<scanners, returned>>

\* The others take the time first.
ScanBegins(s) ==
    /\ config.store \in {"redis", "sqlspec", "alchemy"} /\ Begins(s)
    /\ scanners' = [scanners EXCEPT ![s] = [pc |-> "select", now |-> time, page |-> {}]]
    /\ UNCHANGED <<deliveries, passed, returned>>

\* Redis' script selects and marks.
RedisScan(s) ==
    /\ config.store = "redis" /\ scanners[s].pc = "select" /\ PassesOver(Page) /\ Mark(Page, scanners[s].now)
    /\ scanners' = [scanners EXCEPT ![s] = IdleScanner]
    /\ UNCHANGED <<time, returned>>

\* The SQL stores select...
SqlSelects(s) ==
    /\ config.store \in {"sqlspec", "alchemy"} /\ scanners[s].pc = "select" /\ PassesOver(Page)
    /\ scanners' = [scanners EXCEPT ![s].pc = "mark", ![s].page = Page]
    /\ UNCHANGED <<deliveries, time, returned>>

\* ... and mark row by row, reading each row again under its lock, ...
SqlSpecMarks(s) ==
    /\ config.store = "sqlspec" /\ scanners[s].pc = "mark" /\ Mark(scanners[s].page, scanners[s].now)
    /\ scanners' = [scanners EXCEPT ![s] = IdleScanner]
    /\ UNCHANGED <<time, passed, returned>>

\* ... or in one UPDATE whose CASE keeps the newer marks.
AlchemyMarks(s) ==
    /\ config.store = "alchemy" /\ scanners[s].pc = "mark"
    /\ Mark(scanners[s].page \cap Eligible, scanners[s].now)
    /\ scanners' = [scanners EXCEPT ![s] = IdleScanner]
    /\ UNCHANGED <<time, passed, returned>>

\* The records: a new one, ones that are claimed, end or expire, and ones
\* that a retry brings back with the mark they had.
Arrives(d) ==
    /\ deliveries[d].created = 0 /\ time <= MaxPages /\ time' = time + 1
    /\ deliveries' = [deliveries EXCEPT ![d].waits = TRUE, ![d].created = time]
    /\ UNCHANGED <<scanners, passed, returned>>

Leaves(d) ==
    /\ deliveries[d].waits
    /\ deliveries' = [deliveries EXCEPT ![d].waits = FALSE]
    /\ passed' = [passed EXCEPT ![d] = 0]
    /\ UNCHANGED <<scanners, time, returned>>

ComesBack(d) ==
    /\ ~deliveries[d].waits /\ deliveries[d].created # 0 /\ returned < MaxReturns
    /\ deliveries' = [deliveries EXCEPT ![d].waits = TRUE]
    /\ returned' = returned + 1
    /\ UNCHANGED <<scanners, time, passed>>

RepairNext ==
    \/ \E d \in Delivery : Arrives(d) \/ Leaves(d) \/ ComesBack(d)
    \/ \E s \in Scanner :
          \/ MemoryScan(s) \/ EphemeralScan(s) \/ ScanBegins(s) \/ RedisScan(s)
          \/ SqlSelects(s) \/ SqlSpecMarks(s) \/ AlchemyMarks(s)

\* Repairs on their own, with any store.
RepairSpec == config \in Configs /\ RepairInit /\ [][RepairNext /\ UNCHANGED config]_<<config, repairVars>>

----------------------------------------------------------------------------
\* However many deliveries fail again and again, and however the pages of
\* several repairs overlap, a delivery that waits is left out of a bounded
\* number of pages: the others come before it once per repair, once more for
\* a repair that took its time before the delivery's last page, and once more
\* for a delivery that comes back with an old mark.
RepairReachesAll ==
    LET others == Cardinality(Delivery) - 1
        rounds == (others + RepairLimit - 1) \div RepairLimit
    IN  \A d \in Delivery : passed[d] <= (rounds + 1 + returned) * Cardinality(Scanner)
=============================================================================
