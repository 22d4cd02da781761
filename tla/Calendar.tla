------------------------------ MODULE Calendar ------------------------------
(***************************************************************************)
(* When a recurring schedule runs next: ScheduleConfig of task.py.  Time   *)
(* is counted in instants; the local clock shows each of them as a day, a  *)
(* slot of the day (hour and minute together) and a fold, 1 on the second  *)
(* pass through a slot that a change of the clock repeats.  The calendar   *)
(* is a cycle, so that a schedule has no last run.                         *)
(***************************************************************************)
EXTENDS Integers, FiniteSets, FiniteSetsExt

CONSTANTS
    Year,         \* the instants of a cycle, in order, with their local time
    Days,         \* the days of a cycle
    SlotsPerDay,  \* the slots of a local day
    WeekLength,   \* 7; the day after the last weekday is weekday 0 again
    SearchDays    \* how far the search for a run goes (CRON_SEARCH_YEARS)

Instants == DOMAIN Year
Cycle == Cardinality(Instants)

ASSUME CalendarAssumption ==
    /\ Instants = 0..(Cycle - 1) /\ Cycle > 0
    /\ \A i \in Instants : Year[i] \in [day : 0..(Days - 1), slot : 0..(SlotsPerDay - 1), fold : {0, 1}]
    /\ Days \in Nat \ {0} /\ SlotsPerDay \in Nat \ {0} /\ SearchDays \in Nat
    /\ WeekLength \in Nat \ {0} /\ Days % WeekLength = 0

----------------------------------------------------------------------------
\* One comma-separated part of a cron field: "*", "a", "a-b", each with an
\* optional "/step" (step 0: none).
Part == [kind : {"star", "value", "range"}, start : Nat, end : Nat, step : Nat]
Star == [kind |-> "star", start |-> 0, end |-> 0, step |-> 0]
Value(a) == [kind |-> "value", start |-> a, end |-> a, step |-> 0]
Every(k) == [kind |-> "star", start |-> 0, end |-> 0, step |-> k]

ExpandPart(p, minimum, maximum) ==
    LET start == IF p.kind = "star" THEN minimum ELSE p.start
        end == IF p.kind = "star" \/ (p.kind = "value" /\ p.step > 0) THEN maximum ELSE p.end
        step == IF p.step = 0 THEN 1 ELSE p.step
    IN  {x \in start..end : (x - start) % step = 0}

\* _expand_cron_field: a field is a set of parts.
Expand(field, minimum, maximum) == UNION {ExpandPart(p, minimum, maximum) : p \in field}

\* The weekday after the last is another name of weekday 0.
ExpandWeekdays(field) == {x % WeekLength : x \in Expand(field, 0, WeekLength)}

Restricted(field) == field # {Star}

\* _cron_day_matches: with both fields restricted either will do.
DayMatches(cron, day) ==
    LET in_month == day + 1 \in Expand(cron.days, 1, Days)
        in_week == day % WeekLength \in ExpandWeekdays(cron.weekdays)
    IN  IF Restricted(cron.days) /\ Restricted(cron.weekdays) THEN in_month \/ in_week
        ELSE in_month /\ in_week

\* _is_valid_local_time: the clock shows this time, on its first pass.
InstantOf(day, slot) == {i \in Instants : Year[i] = [day |-> day, slot |-> slot, fold |-> 0]}

----------------------------------------------------------------------------
\* A local time, as the slots since the start of the day that the search
\* begins with.
WallTime(offset, slot) == offset * SlotsPerDay + slot

\* Fault: the search begins with the slot that has just run.
CandidateNow(at) == WallTime(0, Year[at].slot)

\* The slot after this one, on the local clock.  The sum has fold 0.
Candidate(at) == WallTime(0, Year[at].slot + 1)

\* The instants, counted from the start of the cycle, that the search accepts.
Proposed(cron, at) ==
    {o \in (0..SearchDays) \X Expand(cron.slots, 0, SlotsPerDay - 1) :
        LET day == (Year[at].day + o[1]) % Days
        IN  /\ DayMatches(cron, day)
            /\ WallTime(o[1], o[2]) >= Candidate(at)
            /\ InstantOf(day, o[2]) # {}}

\* _get_next_cron_run, as the number of instants from now on.  It is not
\* positive when the local clock has already shown the time once.
NextCron(cron, at) ==
    LET o == CHOOSE o \in Proposed(cron, at) :
                \A q \in Proposed(cron, at) : WallTime(o[1], o[2]) <= WallTime(q[1], q[2])
        day == Year[at].day + o[1]
    IN  (CHOOSE i \in InstantOf(day % Days, o[2]) : TRUE) + (day \div Days) * Cycle - at

\* get_next_run: the first run after instant at.
GetNextRun(schedule, at, use_initial_delay) ==
    IF use_initial_delay /\ schedule.initial_delay > 0 THEN schedule.initial_delay
    ELSE IF schedule.interval > 0 THEN schedule.interval
    ELSE NextCron(schedule.cron, at)

\* _apply_jitter.
Jittered(schedule, run) == {run + j : j \in 0..schedule.jitter}

\* RetryBackoff.delay_for.
DelayFor(backoff, retry_count) ==
    LET delay == backoff.initial_delay * backoff.multiplier ^ retry_count
    IN  IF backoff.max_delay = 0 \/ delay < backoff.max_delay THEN delay ELSE backoff.max_delay

----------------------------------------------------------------------------
\* The reference: the first instant after this one whose local time matches,
\* on whichever pass.
Matches(cron, i) ==
    DayMatches(cron, Year[i].day) /\ Year[i].slot \in Expand(cron.slots, 0, SlotsPerDay - 1)

FirstMatch(cron, at) == Min({k \in 1..(Cycle * (SearchDays + 1)) : Matches(cron, (at + k) % Cycle)})
=============================================================================
