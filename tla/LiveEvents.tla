----------------------------- MODULE LiveEvents -----------------------------
(***************************************************************************)
(* Live event delivery: LiveEventBuffer between the publisher and the      *)
(* sink.  Buffered events are sent in batches under one drain lock; a      *)
(* barrier event (a terminal one, or publish(immediate=True)) is sent on   *)
(* its own, after what its task had buffered.  A sink may publish from     *)
(* inside a delivery: such a call carries the token of the active drain    *)
(* and is deferred to it, never made to wait for it.                       *)
(***************************************************************************)
EXTENDS Naturals, Sequences, FiniteSets, SequencesExt

CONSTANTS
    Producer,        \* tasks that publish their own events
    MaxLength,       \* bound: events that a producer publishes
    LiveBatch,       \* batch_size of the live buffer
    LivePending,     \* its max_pending
    Configs          \* the configurations that are explored

ASSUME LiveEventsAssumption ==
    /\ Producer \cap {"reply", "none", "all", "releaser", "loop", "closer", "timer", "callback"} = {}
    /\ MaxLength \in Nat /\ LiveBatch \in Nat \ {0} /\ LivePending \in Nat \ {0}
    /\ Configs \subseteq [log : {"none", "memory", "buffered"}, strict : BOOLEAN, immediate : BOOLEAN,
                          overflow : {"drop_oldest", "drop_newest", "error", "block"},
                          length : [Producer -> 0..MaxLength], faults : Nat]

VARIABLES
    config,    \* the configuration: event log, strictness, the kind of
               \* the sink's reply, overflow policy, per producer how many events it
               \* publishes, the last one a barrier, and how many sink and
               \* write failures, cancellations and closes there are (a bound)
    live,      \* the buffer: [order, deferred, deferred_size, lost]
    drain,     \* the holder of the drain lock and what it has left to do
    calls,     \* per thread, what it waits for inside the live buffer
    callback,  \* the event that the sink publishes from inside a delivery
    bound,     \* events whose release carries the token of the active drain
    seen,      \* per task, the events that the sink got, in order
    faults     \* faults so far

liveVars == <<live, drain, calls, callback, bound, seen>>

----------------------------------------------------------------------------
\* Events of the producers, and the sink's reply to the first of them.
Task == Producer \cup {"reply"}
Event == [task : Producer, n : 1..MaxLength] \cup [task : {"reply"}, n : {1}]
NoEvent == [task |-> "none", n |-> 0]
Reply == [task |-> "reply", n |-> 1]
All == "all"

Thread == Producer \cup {"releaser", "loop", "closer"}

\* publish: immediate, or of one of the _TERMINAL_EVENT_TYPES.
IsBarrier(e) == IF e = Reply THEN config.immediate ELSE e.n = config.length[e.task]

\* A _Delivery; sending is TRUE from the batch's arrival to the end of the call.
Operation(items, release) == [items |-> items, release |-> release, sending |-> FALSE]
NoOperation == Operation(<<>>, NoEvent)
IsDone(op) == op.items = <<>> /\ op.release = NoEvent
NoDrain == [owner |-> "none", key |-> All, release |-> NoEvent, stage |-> "none", op |-> NoOperation]
IdleCall == [op |-> "idle", key |-> All, event |-> NoEvent]

LiveInit ==
    /\ live = [order |-> <<>>, deferred |-> <<>>, deferred_size |-> 0, lost |-> {}]
    /\ drain = NoDrain
    /\ calls = [t \in Thread |-> IdleCall]
    /\ callback = NoEvent
    /\ bound = {}
    /\ seen = [task \in Task |-> <<>>]
    /\ faults = 0

Fault == faults < config.faults /\ faults' = faults + 1

----------------------------------------------------------------------------
\* What a call does to the buffer l, and how it goes on: "done", "raise",
\* "block" (wait for room) or "drain" (wait for the drain lock).
Outcome(l, then) == [live |-> l, then |-> then]

\* The events of the tasks T among items, in their order.
Of(items, T) ==
    LET at == {i \in DOMAIN items : items[i].task \in T}
    IN  [k \in 1..Cardinality(at) |->
            items[CHOOSE i \in at : Cardinality({j \in at : j <= i}) = k]]

\* _drain: the buffered events of one key, or all.
KeyTasks(key) == IF key = All THEN Task ELSE {key}
Matching(l, key) == Of(l.order, KeyTasks(key))
Without(l, key) == Of(l.order, Task \ KeyTasks(key))

SizeOf(op) == IF op.items = <<>> THEN 1 ELSE Len(op.items)

\* _dispatch under the token of the active drain: hand the work to that drain.
Defer(l, key, release) ==
    LET op == Operation(Matching(l, key), release)
    IN  IF op = NoOperation THEN Outcome(l, "done")
        ELSE IF l.deferred_size + SizeOf(op) > LivePending
        THEN Outcome([l EXCEPT !.lost = @ \cup ({release} \ {NoEvent})], "raise")
        ELSE Outcome([l EXCEPT !.order = Without(l, key),
                               !.deferred = Append(@, op),
                               !.deferred_size = @ + SizeOf(op)], "done")

Dispatch(l, key, release, reentrant) ==
    IF reentrant THEN Defer(l, key, release) ELSE Outcome(l, "drain")

\* add, with the four overflow policies.
Add(l, e, reentrant) ==
    LET full == Len(l.order) >= LivePending
        room == IF full /\ config.overflow = "drop_oldest"
                THEN [l EXCEPT !.order = Tail(@), !.lost = @ \cup {Head(l.order)}] ELSE l
        refused == [room EXCEPT !.lost = @ \cup {e}]
        flushes == Len(room.order) + 1 >= LiveBatch
        added == [room EXCEPT !.order = Append(@, e)]
    IN  CASE full /\ config.overflow = "drop_newest" -> Outcome(refused, "done")
          [] full /\ config.overflow = "error" -> Outcome(refused, "raise")
          [] full /\ config.overflow = "block" /\ reentrant -> Outcome(refused, "raise")
          [] full /\ config.overflow = "block" /\ ~reentrant -> Outcome(l, "block")
          [] OTHER ->
               IF reentrant /\ flushes /\ room.deferred_size + Len(room.order) + 1 > LivePending
               THEN Outcome(refused, "raise")
               ELSE IF flushes THEN Dispatch(added, All, NoEvent, reentrant)
               ELSE Outcome(added, "done")

\* The release of publish(): the event's turn on the live side.
Release(e, reentrant) ==
    IF IsBarrier(e) THEN Dispatch(live, e.task, e, reentrant) ELSE Add(live, e, reentrant)

\* What thread t waits for after a call with outcome o for event e.
WaitsFor(o, e) ==
    CASE o.then = "block" -> [op |-> "add", key |-> All, event |-> e]
      [] o.then = "drain" -> IF IsBarrier(e) THEN [op |-> "drain", key |-> e.task, event |-> e]
                             ELSE [op |-> "drain", key |-> All, event |-> NoEvent]
      [] OTHER -> IdleCall

ReleaseBy(t, e, reentrant) ==
    LET o == Release(e, reentrant)
    IN  live' = o.live /\ calls' = [calls EXCEPT ![t] = WaitsFor(o, e)]

\* A blocked add tries again once a drain has made room.
AddResumes(t) ==
    /\ calls[t].op = "add" /\ Len(live.order) < LivePending
    /\ ReleaseBy(t, calls[t].event, FALSE)
    /\ UNCHANGED <<drain, callback, bound, seen, faults>>

----------------------------------------------------------------------------
\* _dispatch with the drain lock: what was deferred, the own work, and what
\* was deferred meanwhile.

Reserved(op) == IF op.release = NoEvent THEN 0 ELSE 1

\* Fault: the drain begins with its own work.
DeferredIsDueLast(d) == d.stage = "after" /\ live.deferred # <<>>

\* _drain_deferred has something to deliver.
DeferredIsDue(d) == live.deferred # <<>>

OwnOperation(d) == Operation(Matching(live, d.key), d.release)

\* The drain d goes on to its next operation, or it is over.
Advance(d) ==
    LET op == IF DeferredIsDue(d) THEN Head(live.deferred) ELSE OwnOperation(d)
    IN  \/ /\ DeferredIsDue(d)
           /\ live' = [live EXCEPT !.deferred = Tail(@),
                                   !.deferred_size = @ - SizeOf(op) + Reserved(op)]
           /\ drain' = [d EXCEPT !.op = op]
           /\ UNCHANGED <<calls, bound>>
        \/ /\ ~DeferredIsDue(d) /\ d.stage = "before" /\ op # NoOperation
           /\ live' = [live EXCEPT !.order = Without(live, d.key),
                                   !.deferred_size = @ + Reserved(op)]
           /\ drain' = [d EXCEPT !.op = op, !.stage = "after"]
           /\ UNCHANGED <<calls, bound>>
        \/ /\ ~DeferredIsDue(d) /\ (d.stage = "after" \/ op = NoOperation)
           /\ drain' = NoDrain /\ bound' = {}
           /\ calls' = [calls EXCEPT ![d.owner] = IdleCall]
           /\ UNCHANGED live

DrainStarts(t) ==
    /\ calls[t].op = "drain" /\ drain = NoDrain
    /\ Advance([owner |-> t, key |-> calls[t].key, release |-> calls[t].event,
                stage |-> "before", op |-> NoOperation])
    /\ UNCHANGED <<callback, seen, faults>>

\* Between two deliveries, once the sink's callback has returned.
DrainAdvances ==
    /\ drain # NoDrain /\ IsDone(drain.op) /\ callback = NoEvent
    /\ Advance(drain)
    /\ UNCHANGED <<callback, seen, faults>>

\* The sink has got these events.
Delivered(items) ==
    [task \in Task |-> seen[task] \o Of(items, {task})]

\* The sink publishes its reply from inside the delivery of a first event.
Replies(items) ==
    callback' = IF /\ \E i \in DOMAIN items : items[i].n = 1 /\ items[i] # Reply
                   /\ \A task \in Task : seen[task] = <<>>
                THEN Reply ELSE NoEvent

\* _deliver_live_many: the batch reaches the sink, or from some event on not.
SendItems ==
    LET items == drain.op.items
    IN  /\ items # <<>> /\ callback = NoEvent
        /\ drain' = [drain EXCEPT !.op.items = <<>>, !.op.sending = TRUE]
        /\ \/ seen' = Delivered(items) /\ UNCHANGED <<live, faults>> /\ Replies(items)
           \/ \E k \in 0..(Len(items) - 1) :
                 /\ Fault
                 /\ seen' = Delivered(SubSeq(items, 1, k))
                 /\ live' = [live EXCEPT !.lost = @ \cup {items[i] : i \in (k + 1)..Len(items)}]
                 /\ Replies(SubSeq(items, 1, k))
        /\ UNCHANGED <<calls, bound>>

\* The operation's own event, after its items.
SendRelease ==
    LET e == drain.op.release
    IN  /\ drain.op.items = <<>> /\ e # NoEvent /\ callback = NoEvent
        /\ drain' = [drain EXCEPT !.op = NoOperation]
        /\ \/ /\ seen' = Delivered(<<e>>) /\ UNCHANGED faults
              /\ live' = [live EXCEPT !.deferred_size = @ - 1]
              /\ Replies(<<e>>)
           \/ /\ Fault
              /\ live' = [live EXCEPT !.deferred_size = @ - 1, !.lost = @ \cup {e}]
              /\ UNCHANGED <<seen, callback>>
        /\ UNCHANGED <<calls, bound>>

\* Fault: the event that was to follow the cancelled batch is forgotten.
RedeferredNot(op) == <<>>

\* The event that follows a cancelled batch goes back to the front; cancelled
\* itself, it does not.
Redeferred(op) ==
    IF op.release # NoEvent /\ (op.items # <<>> \/ op.sending) THEN <<Operation(<<>>, op.release)>> ELSE <<>>

\* The thread that drains is cancelled inside a call of the sink.  An event of
\* its own that was to follow what had been deferred goes with it.
DrainCancelled(t) ==
    LET op == drain.op
        sent == IF op.items # <<>> \/ op.sending THEN ToSet(op.items) ELSE {op.release}
        own == IF drain.stage = "before" THEN {drain.release} ELSE {}
    IN  /\ drain.owner = t /\ callback = NoEvent /\ Fault
        /\ live' = [live EXCEPT !.lost = @ \cup ((sent \cup own) \ {NoEvent}),
                                !.deferred = Redeferred(op) \o @,
                                !.deferred_size = @ - (Reserved(op) - Len(Redeferred(op)))]
        /\ drain' = NoDrain /\ bound' = {}
        /\ calls' = [calls EXCEPT ![t] = IdleCall]
        /\ UNCHANGED <<callback, seen>>

\* A thread is cancelled while it waits for room or for the drain lock.
WaitCancelled(t) ==
    /\ calls[t] # IdleCall /\ drain.owner # t /\ Fault
    /\ live' = [live EXCEPT !.lost = @ \cup ({calls[t].event} \ {NoEvent})]
    /\ calls' = [calls EXCEPT ![t] = IdleCall]
    /\ UNCHANGED <<drain, callback, bound, seen>>

\* _run: an interval has passed, and there is something to send.
IntervalFlush ==
    /\ calls["loop"] = IdleCall /\ (live.order # <<>> \/ live.deferred # <<>>)
    /\ calls' = [calls EXCEPT !["loop"] = [op |-> "drain", key |-> All, event |-> NoEvent]]
    /\ UNCHANGED <<live, drain, callback, bound, seen, faults>>

DrainStep == DrainAdvances \/ SendItems \/ SendRelease

----------------------------------------------------------------------------
\* A subscriber sees the events of a task in the order they were published,
\* the terminal one last, whichever thread delivered them.
LiveOrder ==
    \A task \in Task :
        \A i, j \in DOMAIN seen[task] : i < j => seen[task][i].n < seen[task][j].n
=============================================================================
