----------------------------- MODULE Lifespans -----------------------------
(***************************************************************************)
(* What a process opens, and what it has closed when it is done with the   *)
(* queue: the lifespan of an application, the consumer, maintenance,       *)
(* status and health commands, a one-shot process, and a producer of       *)
(* events outside of the application.  Any open() and any close() may      *)
(* fail or be cancelled.                                                   *)
(*                                                                         *)
(* A handle is a connection, a stream, a thread pool or a task that one of *)
(* the service's resources owns, with the scope that closes it.  The       *)
(* backend that the consumer command makes for itself, and never closes,   *)
(* is not among them.                                                      *)
(***************************************************************************)
EXTENDS WorkerRun

VARIABLES
    span,    \* the lifespan: its place, what it has still to close, its errors
    held,    \* the handles that are open
    failed   \* the handles whose close() failed

lifespanVars == <<span, held, failed>>

Lifespan == {"asgi", "consumer", "maintenance", "status", "health", "oneshot", "producer"}
IsLifespan == config.placement \in Lifespan

----------------------------------------------------------------------------
\* Who owns what, in the order in which it is closed.
Handles(scope, names) == [i \in DOMAIN names |-> <<scope, names[i]>>]

CompletionHandles == <<"completion_reader", "completion_pubsub">>
RedisHandles == Handles("store",
    <<"event_log", "pending_read", "control_read">> \o CompletionHandles \o <<"pubsub", "control_pubsub", "client">>)
SqlSpecHandles == Handles("store",
    <<"event_log", "notification_stream", "control_stream", "heartbeat_pool", "event_channel", "pools", "sync_executor",
      "heartbeat_executor">>)
AlchemyHandles == Handles("store", <<"event_log", "listener">>)

StoreHandles ==
    CASE config.store = "redis" -> RedisHandles
      [] config.store = "sqlspec" -> SqlSpecHandles
      [] config.store = "alchemy" -> AlchemyHandles

\* What open() makes; the rest is made when it is first used.
MadeByRedisOpen == <<"client">>
MadeBySqlSpecOpen == <<"event_channel", "heartbeat_pool", "pools", "sync_executor", "heartbeat_executor">>
MadeByOpen ==
    Handles("store", CASE config.store = "redis" -> MadeByRedisOpen
                       [] config.store = "sqlspec" -> MadeBySqlSpecOpen
                       [] config.store = "alchemy" -> <<>>)

PubSubHandles == <<"subscriber", "publisher">>
RabbitMQHandles == <<"consumer_channel", "publisher_channel", "connection">>
KafkaHandles == <<"consumer", "producer">>
SqsHandles == <<"sqs_client">>
CloudTasksHandles == <<"tasks_client">>

\* _close_execution_backends: one after the other.
ExecutionHandles ==
    Handles("execution", FlattenSeq([i \in DOMAIN config.backends |->
        CASE config.backends[i] = "pubsub" -> PubSubHandles
          [] config.backends[i] = "rabbitmq" -> RabbitMQHandles
          [] config.backends[i] = "kafka" -> KafkaHandles
          [] config.backends[i] = "sqs" -> SqsHandles
          [] config.backends[i] = "cloudtasks" -> CloudTasksHandles]))

\* Channels, a sink of the application, and one on SQLSpec, which makes its
\* handles when it first publishes.
Sinks == Handles("sink", <<"channels", "custom">>)
SqlSpecSinkHandles == Handles("sqlspec_sink", <<"channel", "pools">>)

Own(resource) == <<"service", resource>>
EventLog == <<"store", "event_log">>

\* The handles of a resource of the service, as its teardown closes them.
Expand(resource) ==
    CASE resource = "queue" -> StoreHandles
      [] resource = "execution" -> ExecutionHandles
      [] resource = "sink" -> SqlSpecSinkHandles \o Reverse(Sinks)
      [] resource = "event_log" -> <<EventLog>>
      [] OTHER -> <<Own(resource)>>

\* What is opened at the start.
Acquire(resource) ==
    CASE resource = "queue" -> MadeByOpen
      [] resource = "execution" -> <<>>
      [] resource = "sink" -> Sinks
      [] resource = "event_log" -> <<EventLog>>
      [] OTHER -> <<Own(resource)>>

Along(order, Op(_)) == FlattenSeq([i \in DOMAIN order |-> Op(order[i])])

\* A producer has no service: it opens what it delivers to, and a buffer.
ProducerOpens == Sinks \o <<Own("buffer")>>
ProducerCloses == <<Own("buffer")>> \o Reverse(Sinks)

OpenPlan == IF config.placement = "producer" THEN ProducerOpens ELSE Along(OpenOrder, Acquire)
ClosePlan == IF config.placement = "producer" THEN ProducerCloses ELSE Along(CloseOrder, Expand)

Lazy == Range(ClosePlan) \ Range(OpenPlan)

\* What is left of a plan without the handles that are done with, in its order.
Without(plan, done) == FlattenSeq([i \in DOMAIN plan |-> IF plan[i] \in done THEN <<>> ELSE <<plan[i]>>])

----------------------------------------------------------------------------
LifespanInit ==
    /\ span = [pc |-> "none", opening |-> 1, closing |-> <<>>, rollback |-> FALSE, abandoned |-> FALSE,
               errors |-> {}, primary |-> "clean", outcome |-> Unfinished]
    /\ held = {} /\ failed = {}

SpanGoes(pc) == span' = [span EXCEPT !.pc = pc]

\* What ends the process, or is thrown at it, ends here.
Abandon(kind) == span' = [span EXCEPT !.pc = "over", !.abandoned = TRUE, !.outcome = kind]

Close(plan, rollback, primary) ==
    span' = [span EXCEPT !.pc = "closing", !.closing = plan, !.rollback = rollback, !.primary = primary]

SpanBegins ==
    /\ span.pc = "none" /\ SpanGoes("opening")
    /\ UNCHANGED <<held, failed, faults>>

AcquireNext ==
    /\ span.pc = "opening" /\ span.opening <= Len(OpenPlan)
    /\ held' = held \cup {OpenPlan[span.opening]}
    /\ span' = [span EXCEPT !.opening = @ + 1]
    /\ UNCHANGED <<failed, faults>>

\* Whose open() undoes its own part before it raises: a composite of sinks,
\* in reverse, and SQLSpec when its probe fails.
UndoneFirst(handle) ==
    CASE handle[1] = "sink" -> Reverse(Sinks)
      [] handle[1] = "store" /\ config.store = "sqlspec" -> SqlSpecHandles
      [] OTHER -> <<>>

\* What is undone first is not closed again.
RollbackPlan(handle) ==
    LET first == UndoneFirst(handle)
    IN  first \o Without(ClosePlan, Range(first))

\* A sink or a provider whose open() raised is not closed.
AcquireFails ==
    /\ span.pc = "opening" /\ span.opening <= Len(OpenPlan) /\ Fault
    /\ LET handle == OpenPlan[span.opening]
       IN  /\ held' = IF handle[1] = "sink" \/ handle = Own("provider") THEN held ELSE held \cup {handle}
           /\ Close(RollbackPlan(handle), TRUE, "failed")
    /\ UNCHANGED failed

SpanOpened ==
    /\ span.pc = "opening" /\ span.opening > Len(OpenPlan)
    /\ SpanGoes(IF config.placement = "asgi" THEN "schedules" ELSE "serving")
    /\ UNCHANGED <<held, failed, faults>>

----------------------------------------------------------------------------
\* The application: schedules are initialized before the lifespan is guarded.
AsgiSchedules ==
    /\ span.pc = "schedules"
    /\ \/ SpanGoes("serving") /\ UNCHANGED faults
       \/ Fault /\ Abandon("failed")
    /\ UNCHANGED <<held, failed>>

Serves ==
    /\ span.pc = "serving" /\ span.primary = "clean"
    /\ \E scopes \in SUBSET {"store", "execution", "sqlspec_sink"} :
          held' = held \cup {h \in Lazy : h[1] \in scopes}
    /\ span' = [span EXCEPT !.primary = "served"]
    /\ UNCHANGED <<failed, faults>>

\* status closes after an error of its own, and no cancellation.
GuardsClose(kind) == config.placement = "status" => kind # "cancelled"

\* The consumer command takes its cancellation for its end.
Caught(kind) == IF config.placement = "consumer" /\ kind = "cancelled" THEN "clean" ELSE kind

\* The body returns, raises or is cancelled.
ServingEnds ==
    /\ span.pc = "serving" /\ span.primary = "served"
    /\ \E kind \in {"clean", "failed", "cancelled"} :
          /\ IF kind = "clean" THEN UNCHANGED faults ELSE Fault
          /\ IF config.placement = "asgi" THEN span' = [span EXCEPT !.pc = "stopping", !.primary = kind]
             ELSE IF GuardsClose(kind) THEN Close(ClosePlan, FALSE, Caught(kind))
             ELSE Abandon(kind)
    /\ UNCHANGED <<held, failed>>

\* _close_lifespan_resources: the worker is stopped, its task awaited with
\* everything that it raises suppressed, and then the service is closed.
AsgiStopsWorker ==
    /\ span.pc = "stopping"
    /\ \/ SpanGoes("awaiting") /\ UNCHANGED faults
       \/ Fault /\ Abandon("cancelled")
    /\ UNCHANGED <<held, failed>>

AsgiAwaitsWorker ==
    /\ span.pc = "awaiting"
    /\ Fault \/ UNCHANGED faults
    /\ Close(ClosePlan, FALSE, span.primary)
    /\ UNCHANGED <<held, failed>>

\* A third signal ends the consumer command on the spot.
ConsumerExitsNow ==
    /\ config.placement = "consumer" /\ span.pc \in {"serving", "closing"} /\ Fault
    /\ Abandon("cancelled")
    /\ UNCHANGED <<held, failed>>

----------------------------------------------------------------------------
\* Errors that a close() reports to nobody: those of the heartbeat pool, and of
\* a composite of sinks that is not strict.
IsHeartbeatPool(handle) == handle = <<"store", "heartbeat_pool">>
Swallowed(handle) ==
    \/ handle[1] \in {"sink", "sqlspec_sink"} /\ ~config.strict /\ config.placement # "producer"
    \/ IsHeartbeatPool(handle)

\* Fault: an error ends the teardown.
NothingMore(handle, rest) == <<>>

\* Whoever collects errors goes on; execution backends, and the sink on
\* SQLSpec, leave the rest of their own.
AfterCloseFails(handle, rest) ==
    IF handle[1] \in {"execution", "sqlspec_sink"} THEN Without(rest, {x \in Range(rest) : x[1] = handle[1]}) ELSE rest

HandleCloses ==
    /\ span.pc = "closing" /\ span.closing # <<>>
    /\ LET handle == Head(span.closing)
           rest == Tail(span.closing)
       IN  \/ /\ held' = held \ {handle} /\ span' = [span EXCEPT !.closing = rest]
              /\ UNCHANGED <<failed, faults>>
           \/ /\ handle \in held /\ Fault
              /\ \E kind \in {"failed", "cancelled"} :
                    span' = [span EXCEPT !.closing = AfterCloseFails(handle, rest),
                                         !.errors = IF Swallowed(handle) /\ kind = "failed" THEN @ ELSE @ \cup {kind}]
              /\ failed' = failed \cup {handle} /\ UNCHANGED held

\* Control flow before ordinary errors.
SelectLifecycleError(errors, otherwise) ==
    IF "cancelled" \in errors THEN "cancelled" ELSE IF errors # {} THEN "failed" ELSE otherwise

\* A rollback raises what it rolls back for, and so does a producer; close()
\* raises its own error in the place of another.
SpanOutcome ==
    IF span.rollback \/ (config.placement = "producer" /\ span.primary # "clean") THEN span.primary
    ELSE SelectLifecycleError(span.errors, span.primary)

SpanEnds ==
    /\ span.pc = "closing" /\ span.closing = <<>>
    /\ span' = [span EXCEPT !.pc = "over", !.outcome = SpanOutcome]
    /\ UNCHANGED <<held, failed, faults>>

LifespanNext ==
    /\ IsLifespan
    /\ \/ SpanBegins \/ AcquireNext \/ AcquireFails \/ SpanOpened
       \/ AsgiSchedules \/ Serves \/ ServingEnds \/ AsgiStopsWorker \/ AsgiAwaitsWorker \/ ConsumerExitsNow
       \/ HandleCloses \/ SpanEnds

----------------------------------------------------------------------------
\* Left behind by a close() of the same owner that failed before.
LeftBehind == {h \in held : h[1] \in {"execution", "sqlspec_sink"} /\ \E f \in failed : f[1] = h[1]}

\* One close() that fails keeps nothing else open: when a lifespan has closed,
\* after a start that failed half way too, what is open is what did not close,
\* and what its own execution backends or sink skipped after it.  A
\* cancellation that came while it closed is not lost among the errors.
TeardownIsComplete ==
    (span.pc = "over" /\ ~span.abandoned) =>
        /\ held \subseteq failed \cup LeftBehind
        /\ ("cancelled" \in span.errors /\ ~span.rollback /\ (config.placement = "producer" => span.primary = "clean"))
              => span.outcome = "cancelled"
=============================================================================
