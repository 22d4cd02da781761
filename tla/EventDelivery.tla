---------------------------- MODULE EventDelivery ----------------------------
(***************************************************************************)
(* The event publisher of a service: producers, a sink that publishes from *)
(* inside its callback, the history in front of live delivery, the timers  *)
(* and the close of the service, which drains the history and then the     *)
(* live buffer while producers may still publish.                          *)
(***************************************************************************)
EXTENDS EventHistory

VARIABLES
    next,     \* per producer, the index of the event it publishes next
    closing   \* the close: "open", "history", "buffer", "drain" or "closed"

vars == <<config, faults, next, closing, liveVars, histVars>>

EventInit ==
    /\ config \in Configs
    /\ LiveInit /\ HistoryInit
    /\ next = [p \in Producer |-> 1]
    /\ closing = "open"

Buffered == config.log = "buffered"

InPublish(p) == calls[p] # IdleCall \/ flushes[p] # IdleFlush

----------------------------------------------------------------------------
\* publish.  The in-memory and ephemeral logs store the event and release it
\* in the caller's own time, as does a publisher without a log.
PublishLive(p) ==
    LET e == [task |-> p, n |-> next[p]]
    IN  /\ ~InPublish(p) /\ next[p] <= config.length[p] /\ ~Buffered
        /\ ReleaseBy(p, e, FALSE)
        /\ log' = IF config.log = "memory" THEN [log EXCEPT ![e] = 1] ELSE log
        /\ next' = [next EXCEPT ![p] = @ + 1]
        /\ UNCHANGED <<config, faults, closing, drain, callback, bound, seen, hist, timer, flushes, writer>>

PublishBuffered(p) ==
    LET e == [task |-> p, n |-> next[p]]
    IN  /\ ~InPublish(p) /\ next[p] <= config.length[p] /\ Buffered
        /\ \/ Enqueue(p, e) /\ UNCHANGED live
           \/ EnqueueRaises /\ live' = [live EXCEPT !.lost = @ \cup {e}]
        /\ next' = [next EXCEPT ![p] = @ + 1]
        /\ UNCHANGED <<config, faults, closing, drain, calls, callback, bound, seen>>

\* The producer is cancelled while it writes or waits in the history.
PublishCancelled(p) ==
    /\ Fault /\ FlushCancelled(p)
    /\ UNCHANGED <<config, next, closing, liveVars, hist, timer>>

\* The sink's callback publishes, under the token of the active drain.
CallbackLive ==
    LET o == Release(Reply, TRUE)
    IN  /\ callback = Reply /\ ~Buffered
        /\ live' = o.live /\ callback' = NoEvent
        /\ UNCHANGED <<config, faults, next, closing, drain, calls, bound, seen, histVars>>

CallbackBuffered ==
    /\ callback = Reply /\ Buffered /\ bound = {}
    /\ \/ Enqueue("callback", Reply) /\ bound' = {Reply} /\ UNCHANGED callback
       \/ EnqueueRaises /\ callback' = NoEvent /\ UNCHANGED bound
    /\ UNCHANGED <<config, faults, next, closing, live, drain, calls, seen>>

CallbackReturns ==
    /\ callback = Reply /\ bound = {Reply} /\ flushes["callback"] = IdleFlush
    /\ callback' = NoEvent
    /\ UNCHANGED <<config, faults, next, closing, live, drain, calls, bound, seen, histVars>>

----------------------------------------------------------------------------
\* close(): the event log's aclose(), then the buffer's stop().

\* stop: no more admissions; the timer is cancelled wherever it is.
CloseHistory ==
    /\ closing = "open" /\ Fault
    /\ closing' = "history"
    /\ hist' = [hist EXCEPT !.state = "closing", !.error = FALSE]
    /\ IF flushes["timer"] # IdleFlush THEN FlushCancelled("timer")
       ELSE UNCHANGED <<flushes, writer, log>>
    /\ UNCHANGED <<config, next, liveVars, timer>>

\* The final flush.
DrainHistory ==
    /\ closing = "history" /\ hist.state = "closing"
    /\ hist' = [hist EXCEPT !.state = "draining"]
    /\ flushes' = [flushes EXCEPT !["closer"] = FlushTo(hist)]
    /\ UNCHANGED <<config, faults, next, closing, liveVars, timer, writer, log>>

HistoryClosed ==
    /\ closing = "history" /\ hist.state = "draining" /\ flushes["closer"] = IdleFlush
    /\ hist.active = NoEvent
    /\ closing' = "buffer"
    /\ hist' = [hist EXCEPT !.state = "closed"]
    /\ UNCHANGED <<config, faults, next, liveVars, timer, flushes, writer, log>>

\* stop_buffer: the loop ends after the flush it is in, then a last one.
DrainBuffer ==
    /\ closing = "buffer" /\ calls["loop"] = IdleCall
    /\ closing' = "drain"
    /\ calls' = [calls EXCEPT !["closer"] = [op |-> "drain", key |-> All, event |-> NoEvent]]
    /\ UNCHANGED <<config, faults, next, live, drain, callback, bound, seen, histVars>>

BufferClosed ==
    /\ closing = "drain" /\ calls["closer"] = IdleCall
    /\ closing' = "closed"
    /\ UNCHANGED <<config, faults, next, liveVars, histVars>>

----------------------------------------------------------------------------
LiveStep(A) == A /\ UNCHANGED <<config, next, closing, histVars>>

HistoryStep(A) == A /\ UNCHANGED <<config, next, closing, liveVars>>

Persist(t) == LockTaken(t) \/ WriteCommits(t) \/ ReleasesSeen(t)

PersistStep(t) == HistoryStep(Persist(t) /\ UNCHANGED faults)

PublisherStep(p) == PublishLive(p) \/ PublishBuffered(p)

CallbackStep == CallbackLive \/ CallbackBuffered \/ CallbackReturns

TimerStep == HistoryStep(TimerFires /\ UNCHANGED faults)

ReleaserStep ==
    /\ ReleaseStarts \/ (ReleaseEnds /\ UNCHANGED <<liveVars, faults>>)
    /\ UNCHANGED <<config, next, closing>>

LoopStep == closing \in {"open", "history"} /\ LiveStep(IntervalFlush)

CloseStep == DrainHistory \/ HistoryClosed \/ DrainBuffer \/ BufferClosed

\* What the event loop runs without anybody's doing.
LoopRuns ==
    \/ \E t \in Thread : LiveStep(AddResumes(t)) \/ LiveStep(DrainStarts(t))
    \/ LiveStep(DrainStep) \/ LoopStep
    \/ CallbackStep \/ TimerStep \/ ReleaserStep \/ CloseStep
    \/ \E t \in Flusher : PersistStep(t)

EventNext ==
    \/ \E p \in Producer :
          \/ PublisherStep(p) \/ PublishCancelled(p)
          \/ LiveStep(DrainCancelled(p)) \/ LiveStep(WaitCancelled(p))
    \/ LoopRuns
    \/ \E t \in Flusher : HistoryStep(WriteFails(t))
    \/ CloseHistory

\* The event loop does not stop while one of its tasks is ready.  Which of
\* them runs is left open: there are finitely many events to work off.
EventFairness == WF_vars(LoopRuns)

EventSpec == EventInit /\ [][EventNext]_vars /\ EventFairness

----------------------------------------------------------------------------
\* Every variable has the shape the code gives it.
TypeOK ==
    /\ config \in Configs /\ faults \in 0..config.faults
    /\ ToSet(live.order) \subseteq Event /\ Len(live.order) <= LivePending
    /\ live.lost \subseteq Event /\ callback \in {NoEvent, Reply} /\ bound \subseteq {Reply}
    /\ \A task \in Task : ToSet(seen[task]) \subseteq Event
    /\ log \in [Event -> Nat]
    /\ Cardinality(Unreleased(hist)) <= HistoryPending

Held(e) ==
    \/ e \in Unreleased(hist) \/ e \in ToSet(live.order)
    \/ \E i \in DOMAIN live.deferred : e \in ToSet(live.deferred[i].items) \cup {live.deferred[i].release}
    \/ e \in ToSet(drain.op.items) \cup {drain.op.release}
    \/ drain.stage = "before" /\ e = drain.release
    \/ \E t \in Thread : drain.owner # t /\ e = calls[t].event

\* An accepted event leaves the buffers in the end.  It stays only where the
\* code gives up: a fatal write error, a timer that went to sleep over an error
\* (who collects that does not wake it, the next event or flush does), and what a
\* closed service left.
EveryEventIsResolved ==
    (\E e \in Event : Held(e)) ~>
        \/ \A e \in Event : ~Held(e)
        \/ hist.fatal \/ closing = "closed" \/ (timer = "asleep" /\ hist.pending # <<>>)

\* Whatever a producer has published is on its way, was sent, or was given up
\* knowingly (refused, dropped by the overflow policy, failed in the sink or
\* cancelled): no event vanishes between the buffers.
NothingVanishes ==
    \A p \in Producer : \A n \in 1..(next[p] - 1) :
        LET e == [task |-> p, n |-> n]
        IN  Held(e) \/ e \in ToSet(seen[p]) \cup live.lost
=============================================================================
