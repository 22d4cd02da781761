---------------------------- MODULE EventRecords ----------------------------
(***************************************************************************)
(* The event log of each store: what is written, how it is asked for (a    *)
(* page, a summary by stage) and which of it a retention run deletes.      *)
(* EventHistory has the buffer in front of it.                             *)
(***************************************************************************)
EXTENDS Integers, Sequences, FiniteSets, SequencesExt, Deployments

CONSTANTS
    Events,       \* the records that may be written
    Queries,      \* the queries that are asked
    Capacity,     \* memory_capacity of the logs in the process
    LastDay,      \* the last instant
    Unset         \* a criterion that is not set; no sequence, stage or level

\* A deployment has a store, retention rules and an event_limit, and its
\* database takes a NULL for the smallest value of a column or for the largest.
VARIABLES
    today,     \* the time
    log,       \* the records, in the order they were written
    index,     \* Redis: the event ids under each index key
    writing,   \* Redis: the record whose hash is written and indexes are not
    known,     \* the events whose write was acknowledged
    sweep,     \* a retention run: when it started, its rule, its row budget
    crashes

recordVars == <<today, log, index, writing, known, sweep, crashes>>

Stored == Range(log)
Ids(records) == {r.id : r \in records}

\* Redis lists an event under everything, its task and its type.
IndexKeys(r) == {<<"all">>, <<"task", r.task>>, <<"type", r.type>>}
IndexKey == UNION {IndexKeys(r) : r \in Events}

RecordsInit ==
    /\ today = 0
    /\ log = <<>>
    /\ index = [key \in IndexKey |-> {}]
    /\ writing = Unset
    /\ known = {}
    /\ sweep = [pc |-> "idle", started |-> 0, rule |-> 0, remaining |-> 0]
    /\ crashes = 0

----------------------------------------------------------------------------
\* Queries.

\* filters and match_event_record.
Matches(r, query) == (query.task = Unset \/ r.task = query.task) /\ (query.type = Unset \/ r.type = query.type)

\* event_log_record_sort_key: no sequence counts as zero, and created_at is
\* not looked at.
Number(sequence) == IF sequence = Unset THEN 0 ELSE sequence
Precedes(r, s) ==
    \/ r.at < s.at
    \/ r.at = s.at /\ Number(r.sequence) < Number(s.sequence)
    \/ r.at = s.at /\ Number(r.sequence) = Number(s.sequence) /\ r.id < s.id

\* The rows of a statement: the column as it is, and a NULL where the database
\* puts it.
Below(m, n) ==
    \/ m # Unset /\ n # Unset /\ m < n
    \/ m # n /\ (IF config.nulls = "smallest" THEN m = Unset ELSE n = Unset)
RowPrecedes(r, s) ==
    \/ r.at < s.at
    \/ r.at = s.at /\ Below(r.sequence, s.sequence)
    \/ r.at = s.at /\ r.sequence = s.sequence /\ r.id < s.id

\* _select_index_key, the ids under it, and their hashes.
SelectIndexKey(query) ==
    IF query.task # Unset THEN <<"task", query.task>> ELSE IF query.type # Unset THEN <<"type", query.type>> ELSE <<"all">>
Listed(key) == {r \in Stored : key \in IndexKey /\ r.id \in index[key]}

\* Where each store looks: a scan, an index, or the criteria of a statement.
MemorySelects(query) == {r \in Stored : Matches(r, query)}
RedisSelects(query) == {r \in Listed(SelectIndexKey(query)) : Matches(r, query)}
SqlSpecSelects(query) == {r \in Stored : Matches(r, query)}
AlchemyCriteria(query) == {f \in {"task", "type"} : query[f] # Unset}
AlchemySelects(query) == {r \in Stored : \A f \in AlchemyCriteria(query) : r[f] = query[f]}
EphemeralSelects(query) == {r \in Stored : \A f \in {"task", "type"} : query[f] \in {Unset, r[f]}}

Selects(query) ==
    CASE config.store = "memory" -> MemorySelects(query)
      [] config.store = "redis" -> RedisSelects(query)
      [] config.store = "sqlspec" -> SqlSpecSelects(query)
      [] config.store = "alchemy" -> AlchemySelects(query)
      [] config.store = "ephemeral" -> EphemeralSelects(query)

\* sort_event_records, and paginate_event_records.
SortEventRecords(records, order) ==
    IF order = "desc" THEN Reverse(SetToSortSeq(records, Precedes)) ELSE SetToSortSeq(records, Precedes)
Paginate(records, query) ==
    LET window == SubSeq(records, query.offset + 1, Len(records))
    IN  [total |-> Len(records), items |-> IF query.limit = 0 THEN window ELSE SubSeq(window, 1, Min({query.limit, Len(window)}))]

\* ORDER BY, OFFSET and LIMIT, and a second statement that counts.
OrderBy(records, order) ==
    SetToSortSeq(records, LAMBDA r, s : IF order = "asc" THEN RowPrecedes(r, s) ELSE RowPrecedes(s, r))
SelectEvents(query, limit) ==
    LET rows == OrderBy(Selects(query), query.order)
        window == SubSeq(rows, query.offset + 1, Len(rows))
    IN  IF limit = 0 THEN window ELSE SubSeq(window, 1, Min({limit, Len(window)}))
SqlSpecPage(query) == [total |-> Cardinality(Selects(query)), items |-> SelectEvents(query, query.limit)]

\* Fault: the row that was read to know of a next page is left in.
AlchemyPageUncut(query) ==
    [total |-> Cardinality(Selects(query)), items |-> SelectEvents(query, IF query.limit = 0 THEN 0 ELSE query.limit + 1)]

\* One row more than asked for is read, and cut off.
AlchemyPage(query) ==
    LET rows == SelectEvents(query, IF query.limit = 0 THEN 0 ELSE query.limit + 1)
    IN  [total |-> Cardinality(Selects(query)),
         items |-> IF query.limit = 0 THEN rows ELSE SubSeq(rows, 1, Min({query.limit, Len(rows)}))]

QueryEvents(query) ==
    CASE config.store = "sqlspec" -> SqlSpecPage(query)
      [] config.store = "alchemy" -> AlchemyPage(query)
      [] OTHER -> Paginate(SortEventRecords(Selects(query), query.order), query)

\* event_level_rank: no level, an unknown one, and the known ones.
LevelRank(level) ==
    CASE level = Unset -> 0
      [] level = "info" -> 20
      [] level = "error" -> 40
      [] OTHER -> 1

Stages(records) == {r.stage : r \in records}

\* summarize_event_records: the accumulator of a stage.
Accumulate(entry, r) ==
    [count |-> entry.count + 1,
     duration |-> entry.duration + r.duration,
     first |-> IF entry.count = 0 \/ r.at < entry.first THEN r.at ELSE entry.first,
     last |-> IF entry.count = 0 \/ r.at >= entry.last THEN r.at ELSE entry.last,
     latest |-> r.sequence,
     rank |-> Max({entry.rank, LevelRank(r.level)}),
     worst |-> IF LevelRank(r.level) >= entry.rank THEN r.level ELSE entry.worst]

EmptyStage == [count |-> 0, duration |-> 0, first |-> 0, last |-> 0, latest |-> 0, rank |-> 0, worst |-> Unset]

SummarizeEventRecords(records) ==
    [stage \in Stages(records) |->
        FoldLeft(Accumulate, EmptyStage, SelectSeq(SortEventRecords(records, "asc"), LAMBDA r : r.stage = stage))]

\* The statements of the Alchemy service: a group, its newest row, its levels;
\* its own ranks put an unknown level with none.
AlchemyLevelRank(level) == IF level \in {"info", "error"} THEN LevelRank(level) ELSE 0
AlchemySummary(records) ==
    [stage \in Stages(records) |->
        LET group == {r \in records : r.stage = stage}
            levels == {r.level : r \in group} \ {Unset}
            worst == IF levels = {} THEN Unset
                     ELSE CHOOSE level \in levels : \A other \in levels : AlchemyLevelRank(other) <= AlchemyLevelRank(level)
        IN  [count |-> Cardinality(group),
             duration |-> FoldLeft(LAMBDA sum, r : sum + r.duration, 0, SetToSeq(group)),
             first |-> Min({r.at : r \in group}),
             last |-> Max({r.at : r \in group}),
             latest |-> Head(OrderBy(group, "desc")).sequence,
             rank |-> AlchemyLevelRank(worst),
             worst |-> worst]]

\* require_unpaginated_query; the Alchemy service lets an order pass.
RejectsSummary(query) == query.limit # 0 \/ query.offset > 0 \/ (query.order = "desc" /\ config.store # "alchemy")

SummarizeStages(query) ==
    IF config.store = "alchemy" THEN AlchemySummary(Selects(query)) ELSE SummarizeEventRecords(Selects(query))

----------------------------------------------------------------------------
\* Writes.

\* An event is written until that is acknowledged, soon or late.
Writable(r) == r.id \notin known /\ r.at <= today

\* The list in memory drops what was written first.
MemoryPublishes(r) ==
    /\ config.store = "memory"
    /\ log' = IF Len(log) = Capacity THEN Append(Tail(log), r) ELSE Append(log, r)
    /\ UNCHANGED <<index, writing>>

\* The table in the process drops what happened first.
EphemeralPublishes(r) ==
    /\ config.store = "ephemeral"
    /\ log' = LET all == Append(log, r)
              IN  SelectSeq(all, LAMBDA s : Cardinality({o \in Range(all) : Precedes(s, o)}) < Capacity)
    /\ UNCHANGED <<index, writing>>

SqlPublishes(r) ==
    /\ config.store \in {"sqlspec", "alchemy"}
    /\ log' = Append(log, r)
    /\ UNCHANGED <<index, writing>>

PublishEvent ==
    /\ \E r \in Events :
         /\ Writable(r) /\ known' = known \cup {r.id}
         /\ MemoryPublishes(r) \/ EphemeralPublishes(r) \/ SqlPublishes(r)
    /\ UNCHANGED <<today, sweep, crashes>>

\* _write_history_batch: a pipeline of hashes, then one of index entries.  A
\* hash that is there already keeps its content, and its entries are made again.
RedisWritesHash ==
    /\ config.store = "redis" /\ writing = Unset
    /\ \E r \in Events :
         /\ Writable(r) /\ writing' = r
         /\ log' = IF r \in Stored THEN log ELSE Append(log, r)
    /\ UNCHANGED <<today, index, known, sweep, crashes>>

RedisWritesIndexes ==
    /\ writing # Unset
    /\ index' = [key \in IndexKey |-> IF key \in IndexKeys(writing) THEN index[key] \cup {writing.id} ELSE index[key]]
    /\ writing' = Unset /\ known' = known \cup {writing.id}
    /\ UNCHANGED <<today, log, sweep, crashes>>

Crash == crashes < config.faults /\ crashes' = crashes + 1

\* The pipeline is no transaction: it may stop after some of the entries.
RedisWriterDies ==
    /\ writing # Unset /\ Crash
    /\ \E some \in SUBSET IndexKeys(writing) :
         index' = [key \in IndexKey |-> IF key \in some THEN index[key] \cup {writing.id} ELSE index[key]]
    /\ writing' = Unset
    /\ UNCHANGED <<today, log, known, sweep>>

----------------------------------------------------------------------------
\* Retention.

Rule == config.rules[sweep.rule]
Before == sweep.started - Rule.max_age

\* Fault: earlier rules do not keep their records.
ExcludesNothing(r) == FALSE

\* A record that an earlier rule matches.
Excluded(r) == \E i \in 1..(sweep.rule - 1) : Matches(r, config.rules[i].match)

\* The statement of the Alchemy service has no condition for an earlier rule
\* that sets no criterion.
AlchemyExcluded(r) ==
    \E i \in 1..(sweep.rule - 1) : AlchemyCriteria(config.rules[i].match) # {} /\ Matches(r, config.rules[i].match)

\* The first so many in an order.
Oldest(records, order(_, _)) == {r \in records : Cardinality({s \in records : order(s, r)}) < sweep.remaining}

MemoryDoomed == Oldest({r \in MemorySelects(Rule.match) : r.at < Before /\ ~Excluded(r)}, Precedes)
RedisDoomed == Oldest({r \in RedisSelects(Rule.match) : r.at < Before /\ ~Excluded(r)}, Precedes)
SqlSpecDoomed == Oldest({r \in SqlSpecSelects(Rule.match) : r.at < Before /\ ~Excluded(r)}, Precedes)
AlchemyDoomed == Oldest({r \in AlchemySelects(Rule.match) : r.at < Before /\ ~AlchemyExcluded(r)}, RowPrecedes)
EphemeralDoomed ==
    Oldest({r \in EphemeralSelects(Rule.match) : r.at < Before /\ ~Excluded(r)},
           LAMBDA r, s : r.at < s.at \/ (r.at = s.at /\ r.id < s.id))

Doomed ==
    CASE config.store = "memory" -> MemoryDoomed
      [] config.store = "redis" -> RedisDoomed
      [] config.store = "sqlspec" -> SqlSpecDoomed
      [] config.store = "alchemy" -> AlchemyDoomed
      [] config.store = "ephemeral" -> EphemeralDoomed

\* Index entries without a hash leave the list of everything.
Orphans == IF config.store # "redis" THEN {} ELSE {id \in index[SelectIndexKey(Rule.match)] : id \notin Ids(Stored)}

SweepStarts ==
    /\ sweep.pc = "idle" /\ config.rules # <<>>
    /\ sweep' = [pc |-> "rules", started |-> today, rule |-> 1, remaining |-> config.limit]
    /\ UNCHANGED <<today, log, index, writing, known, crashes>>

Without(records) == log' = SelectSeq(log, LAMBDA r : r \notin records)

\* _run_event_retention_rules: one rule, under the budget that is left.
CleanupEvents ==
    /\ sweep.pc = "rules"
    /\ Without(Doomed)
    /\ index' = [key \in IndexKey |-> (index[key] \ Ids(Doomed)) \ (IF key = <<"all">> THEN Orphans ELSE {})]
    /\ LET left == sweep.remaining - Cardinality(Doomed)
       IN  sweep' = IF left = 0 \/ sweep.rule = Len(config.rules) THEN [sweep EXCEPT !.pc = "idle", !.remaining = left]
                    ELSE [sweep EXCEPT !.rule = @ + 1, !.remaining = left]
    /\ UNCHANGED <<today, writing, known, crashes>>

\* The client's pipeline stops between a hash and its index entries.
RedisCleanupBreaks ==
    /\ sweep.pc = "rules" /\ config.store = "redis" /\ Doomed # {} /\ Crash
    /\ \E some \in SUBSET Doomed : Without(some)
    /\ sweep' = [sweep EXCEPT !.pc = "idle"]
    /\ UNCHANGED <<today, index, writing, known>>

SweepDies ==
    /\ sweep.pc = "rules" /\ Crash
    /\ sweep' = [sweep EXCEPT !.pc = "idle"]
    /\ UNCHANGED <<today, log, index, writing, known>>

TimePasses == today < LastDay /\ today' = today + 1 /\ UNCHANGED <<log, index, writing, known, sweep, crashes>>

RecordsNext ==
    \/ PublishEvent \/ RedisWritesHash \/ RedisWritesIndexes \/ RedisWriterDies
    \/ SweepStarts \/ CleanupEvents \/ RedisCleanupBreaks \/ SweepDies \/ TimePasses

----------------------------------------------------------------------------
\* What a query should see: every record whose write was acknowledged, and of
\* one that was not, what Redis happens to list.
Visible(query) ==
    {r \in Stored : Matches(r, query) /\ (r.id \in known \/ (config.store = "redis" /\ r.id \in index[SelectIndexKey(query)]))}

\* The order of events: when they happened, their sequence, their id.  An
\* event without a sequence, which a program may publish, comes before the
\* numbered ones of its instant, or after them.
Standing(r, last) ==
    IF r.sequence # Unset THEN r.sequence
    ELSE IF last THEN 1 + Max({0} \cup ({e.sequence : e \in Events} \ {Unset})) ELSE 0
Earlier(r, s, last) ==
    \/ r.at < s.at
    \/ r.at = s.at /\ Standing(r, last) < Standing(s, last)
    \/ r.at = s.at /\ Standing(r, last) = Standing(s, last) /\ r.id < s.id

\* The stores disagree on that: it comes after them where the database sorts,
\* and sorts a NULL as the largest value.
PagesPutItLast == config.store \in {"sqlspec", "alchemy"} /\ config.nulls = "largest"
SummariesPutItLast == config.store = "alchemy" /\ config.nulls = "largest"

\* The record of a query that has so many before it.
IsAt(r, query, position) ==
    LET matching == Visible(query)
        before == {s \in matching :
                     IF query.order = "asc" THEN Earlier(s, r, PagesPutItLast) ELSE Earlier(r, s, PagesPutItLast)}
    IN  r \in matching /\ Cardinality(before) = position

\* Every store answers a query with the page that the order of events defines,
\* whatever index or statement it goes through, whatever has been dropped,
\* deleted or half written before, and adds up its stages to the counts, the
\* first, the last and the worst of what it should see.  Stores differ in where
\* an event without a sequence stands, and in nothing else.
HistoryAnswersAlike ==
    \A query \in Queries :
        /\ LET page == QueryEvents(query)
               total == Cardinality(Visible(query))
               behind == Max({0, total - query.offset})
           IN  /\ page.total = total
               /\ Len(page.items) = IF query.limit = 0 THEN behind ELSE Min({query.limit, behind})
               /\ \A i \in DOMAIN page.items : IsAt(page.items[i], query, query.offset + i - 1)
        /\ ~RejectsSummary(query) =>
             LET summary == SummarizeStages(query) IN
             /\ DOMAIN summary = Stages(Visible(query))
             /\ \A stage \in DOMAIN summary :
                  LET group == {r \in Visible(query) : r.stage = stage}
                      entry == summary[stage]
                  IN  /\ entry.count = Cardinality(group)
                      /\ \E r \in group : /\ r.at = entry.last /\ r.sequence = entry.latest
                                         /\ \A s \in group : ~Earlier(r, s, SummariesPutItLast)
                      /\ \E r \in group : r.at = entry.first /\ \A s \in group : r.at <= s.at
                      /\ \E r \in group : r.level = entry.worst /\ \A s \in group : LevelRank(s.level) <= LevelRank(r.level)

Governs(i, r) == Matches(r, config.rules[i].match) /\ \A j \in 1..(i - 1) : ~Matches(r, config.rules[j].match)

\* Retention deletes a record only under the first rule that matches it and
\* only past the age of that rule, the oldest first, and within its budget: no
\* matter what is written while it runs, how old it is, or where it stops.  (An
\* Alchemy log whose earlier rule matches everything is left out: there a later
\* rule does not respect it.)
FirstRuleGoverns ==
    [][sweep.pc = "rules" /\ sweep' # sweep =>
         LET deleted == Stored \ Range(log')
         IN  /\ Cardinality(deleted) <= sweep.remaining
             /\ \A r \in deleted :
                  /\ Governs(sweep.rule, r) /\ r.at < sweep.started - config.rules[sweep.rule].max_age
                  /\ crashes' = crashes =>
                       \A s \in {o \in Range(log') : o.id \in known} : Governs(sweep.rule, s) => s.at >= r.at]_recordVars
=============================================================================
