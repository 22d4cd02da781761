---------------------------- MODULE MCObservers ----------------------------
(***************************************************************************)
(* Those who look at a queue from outside its transitions: who waits for   *)
(* work or for a result, who watches live events, who reads the event log  *)
(* and sweeps it, who pages through the deliveries to repair.  A           *)
(* deployment has one of them.                                             *)
(***************************************************************************)
EXTENDS Waits, EventStreams, EventRecords, DispatchRepair, TLC

ASSUME ConfigsAssumption ==
    \A cfg \in Configs :
        /\ cfg.observer \in {"waits", "streams", "records", "repairs"}
        /\ cfg.tasks \subseteq Task /\ cfg.transport \in Transport /\ {cfg.faults, cfg.events, cfg.replay_limit, cfg.limit} \subseteq Nat
        /\ cfg.transports \subseteq {"websocket", "sse"}
        /\ cfg.store \in {"memory", "redis", "sqlspec", "alchemy", "ephemeral"}
        /\ cfg.nulls \in {"smallest", "largest"}

vars == <<config, failures, waitVars, streamVars, recordVars, repairVars>>

WaitsRest == UNCHANGED <<failures, waitVars>>

Init == config \in Configs /\ failures = 0 /\ WaitInit /\ StreamInit /\ RecordsInit /\ RepairInit

Next ==
    /\ \/ config.observer = "waits" /\ WaitNext /\ UNCHANGED <<streamVars, recordVars, repairVars>>
       \/ config.observer = "streams" /\ StreamNext /\ WaitsRest /\ UNCHANGED <<recordVars, repairVars>>
       \/ config.observer = "records" /\ RecordsNext /\ WaitsRest /\ UNCHANGED <<streamVars, repairVars>>
       \/ config.observer = "repairs" /\ RepairNext /\ WaitsRest /\ UNCHANGED <<streamVars, recordVars>>
    /\ UNCHANGED config

Spec == Init /\ [][Next]_vars

----------------------------------------------------------------------------
\* The deployments that are checked.
CONSTANTS t1, t2, a, b, c, topic, other, s1, s2

\* A deployment in which nobody observes, for the others to start from.
Quiet ==
    [observer |-> "waits", tasks |-> {}, transport |-> "polling", backoff |-> FALSE, faults |-> 0, cancels |-> FALSE, caller |-> FALSE,
     batches |-> {}, events |-> 0, replay_limit |-> 0, heartbeats |-> FALSE, foreign |-> FALSE, transports |-> {},
     store |-> "memory", nulls |-> "smallest", rules |-> <<>>, limit |-> 0]

\* One task and a fault, on every transport; two tasks that come due at
\* different times; a job that is cancelled; a caller that waits for a result.
Waiting(tasksets, transports, backoffs, bound, cancels, callers) ==
    {[Quiet EXCEPT !.tasks = ts, !.transport = tr, !.backoff = bo, !.faults = bound, !.cancels = cancels, !.caller = callers] :
        ts \in tasksets, tr \in transports, bo \in backoffs}
WaitingDeployments ==
    Waiting({{t1}}, Transport, BOOLEAN, 1, FALSE, FALSE)
    \cup Waiting({{t1, t2}}, {"pubsub", "psycopg"}, {TRUE}, 0, FALSE, FALSE)
    \cup Waiting({{t1}}, Transport, {TRUE}, 0, TRUE, FALSE)
    \cup Waiting({{t1}}, {"pubsub", "polling"}, {FALSE}, 1, TRUE, TRUE)

Event(id, key, items) == [id |-> id, event_key |-> key, batch |-> TRUE, items |-> items]
Entry(event, channels) == [event |-> event, channels |-> channels]
Alone(events) == {<<Entry(event, <<topic>>)>> : event \in events}
A == Event(a, Nothing, <<1>>)
B == Event(b, Nothing, <<1>>)
C == Event(c, Nothing, <<1>>)

\* Events that repeat; an event with the key of another, and a history; a batch
\* on several channels with an event to cut, one that cannot be cut, and one
\* as large that is no batch.
Streaming(batches, events, replay_limit, heartbeats, foreign, transports) ==
    [Quiet EXCEPT !.observer = "streams", !.batches = batches, !.events = events, !.replay_limit = replay_limit,
                  !.heartbeats = heartbeats, !.foreign = foreign, !.transports = transports]
StreamingDeployments ==
    {Streaming(Alone({A, B, C}), 5, 0, FALSE, FALSE, {"websocket"}),
     Streaming(Alone({A, B, Event(c, a, <<1>>)}), 3, 2, FALSE, TRUE, {"websocket", "sse"}),
     Streaming({<<Entry(A, <<topic>>), Entry(B, <<topic, other>>), Entry(Event(c, Nothing, <<2, 2, 1>>), <<topic>>)>>,
                <<Entry(Event(b, Nothing, <<4>>), <<topic>>)>>, <<Entry(B, <<other>>)>>,
                <<Entry([Event(b, Nothing, <<4>>) EXCEPT !.batch = FALSE], <<topic>>)>>},
               4, 1, TRUE, FALSE, {"websocket", "sse"})}

Record(id, at, sequence, task, type, stage, level, duration) ==
    [id |-> id, at |-> at, sequence |-> sequence, task |-> task, type |-> type, stage |-> stage, level |-> level, duration |-> duration]
\* Sequences start at one; one event has none, beside two of its instant.
Written ==
    {Record(1, 0, 2, t1, "log", "load", "info", 1), Record(2, 0, 1, t1, "done", "load", "odd", 0),
     Record(3, 1, 1, t2, "log", Unset, Unset, 2), Record(4, 0, Unset, t2, "done", "load", "error", 1)}

Query(task, type, order, limit, offset) == [task |-> task, type |-> type, order |-> order, limit |-> limit, offset |-> offset]
\* Pages and, where neither limit nor offset is set, summaries.
Asked ==
    {Query(Unset, Unset, "desc", 2, 1), Query(t1, Unset, "desc", 1, 1), Query(t1, "log", "asc", 1, 0),
     Query(Unset, Unset, "asc", 0, 0), Query(Unset, "done", "desc", 0, 0)}

Keep(max_age, task, type) == [max_age |-> max_age, match |-> [task |-> task, type |-> type]]
RecordDeployments ==
    {[Quiet EXCEPT !.observer = "records", !.store = db[1], !.nulls = db[2], !.faults = IF db[1] = "redis" THEN 1 ELSE 0, !.limit = 2,
                   !.rules = <<Keep(2, t1, Unset), Keep(1, Unset, "log"), Keep(2, Unset, Unset)>>] :
        db \in ({"sqlspec", "alchemy"} \X {"smallest", "largest"}) \cup ({"memory", "redis", "ephemeral"} \X {"smallest"})}

RepairDeployments ==
    {[Quiet EXCEPT !.observer = "repairs", !.store = store] : store \in {"memory", "redis", "sqlspec", "alchemy", "ephemeral"}}

EveryDeployment == WaitingDeployments \cup StreamingDeployments \cup RecordDeployments \cup RepairDeployments
=============================================================================
