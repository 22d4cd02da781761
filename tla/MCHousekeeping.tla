--------------------------- MODULE MCHousekeeping ---------------------------
EXTENDS Housekeeping, TLC

CONSTANTS n1, n2, n3, w1, p1, c1, c2, e1, e2

Wall(day, slot, fold) == [day |-> day, slot |-> slot, fold |-> fold]
AsYear(walls) == [i \in 0..(Len(walls) - 1) |-> walls[i + 1]]

\* Two days of two slots, the second without its first slot: a change of the
\* clock that leaves a local time out.
GapYear == AsYear(<<Wall(0, 0, 0), Wall(0, 1, 0), Wall(1, 1, 0)>>)

\* A change of the clock that repeats the slots of a local time.
FoldYear == AsYear(<<Wall(0, 0, 0), Wall(0, 1, 0), Wall(0, 0, 1), Wall(0, 1, 1), Wall(1, 0, 0), Wall(1, 1, 0)>>)

CronConfig(slots, days, weekdays) ==
    [cron |-> [slots |-> slots, days |-> days, weekdays |-> weekdays], interval |-> 0, initial_delay |-> 0, jitter |-> 0]
IntervalConfig(interval, initial_delay, jitter) ==
    [cron |-> <<>>, interval |-> interval, initial_delay |-> initial_delay, jitter |-> jitter]

\* n1 changes its expression when new code is deployed.  The execution
\* backend can hold n2 for its first run only, and n3 never.
Schedulings ==
    (n1 :> <<CronConfig({Value(1)}, {Value(2)}, {Value(2)}), CronConfig({Star}, {Star}, {Star})>>)
    @@ (n2 :> <<IntervalConfig(3, 1, 0)>>) @@ (n3 :> <<IntervalConfig(3, 0, 0)>>)

Occurrence(key, max_retries, expires_at) ==
    [key |-> key, max_retries |-> max_retries, backoff |-> TRUE, requeue_on_stale |-> TRUE, requeue_on_shutdown |-> FALSE,
     due |-> TRUE, expires_at |-> expires_at]
OccurrenceOptions == (n1 :> Occurrence(n1, 1, "later")) @@ (n2 :> Occurrence(n2, 0, "never")) @@ (n3 :> Occurrence(n3, 0, "never"))

OneBackoff == [initial_delay |-> 1, multiplier |-> 2, max_delay |-> 3]

Deployment(schedules, phases, stores, coords, cls, bound) ==
    [schedules : {schedules}, phases : {phases}, store : stores, coordinators : {coords}, callers : {cls}, faults : {bound}]

EveryStore == {"redis", "ephemeral", "sqlspec", "alchemy"}

\* Schedules under one coordinator; two coordinators and no schedule; two
\* calls for one identity.
EveryDeployment ==
    Deployment(<<n1>>, {"expire", "stale", "schedules"}, {"redis"}, {c1}, {}, 1)
    \cup Deployment(<<n2>>, {"stale", "schedules", "terminal"}, {"redis"}, {c1}, {}, 1)
    \cup Deployment(<<n3>>, {"schedules"}, {"redis"}, {c1}, {}, 1)
    \cup Deployment(<<>>, {"expire"}, EveryStore, {c1, c2}, {}, 3)
    \cup Deployment(<<>>, {}, EveryStore, {}, {e1, e2}, 2)

----------------------------------------------------------------------------
\* Four days of three slots in two weeks, with a gap over midnight.
LongYear == AsYear(<<Wall(0, 0, 0), Wall(0, 1, 0), Wall(0, 2, 0), Wall(1, 0, 0), Wall(1, 1, 0), Wall(2, 1, 0),
                     Wall(2, 2, 0), Wall(3, 0, 0), Wall(3, 1, 0), Wall(3, 2, 0)>>)
Long == INSTANCE Calendar WITH Year <- LongYear, Days <- 4, SlotsPerDay <- 3, SearchDays <- 8

Samples ==
    [slots : {{Star}, {Every(2)}, {Value(0)}, {Value(1), Value(2)}},
     days : {{Star}, {Every(2)}, {Value(3)}, {[Every(2) EXCEPT !.kind = "value", !.start = 2]}},
     weekdays : {{Star}, {Value(0)}, {Value(2)}, {[Star EXCEPT !.kind = "range", !.start = 1, !.end = 2]}}]

\* The instants of the long year, dealt out over those of the short one.
Agreement ==
    [at \in Instants |->
        \A cron \in {sample \in Samples : \E i \in Long!Instants : Long!Matches(sample, i)} :
            \A i \in {j \in Long!Instants : j % Cycle = at} : Long!NextCron(cron, i) = Long!FirstMatch(cron, i)]

\* What get_next_run computes is the first instant to come whose local time
\* matches the cron expression: the lists, ranges and steps of every field,
\* days of month and of week that alternate, and times that the clock leaves
\* out.  The samples that never run have no next run to compare.
NextIsFirstMatch == Agreement[clock]
=============================================================================
