---------------------------- MODULE EventHistory ----------------------------
(***************************************************************************)
(* Durable event history in front of live delivery: _HistoryBuffer, which  *)
(* batches accepted events into the event log and releases them to the     *)
(* live side one by one, in order, after their commit.  Several threads    *)
(* write through one lock: producers at a barrier or a full batch, the     *)
(* timer, the closing service, a sink's callback.  One releaser follows    *)
(* them.                                                                   *)
(***************************************************************************)
EXTENDS LiveEvents

CONSTANTS
    HistoryBatch,    \* batch_size of the history
    HistoryPending   \* its max_pending

ASSUME EventHistoryAssumption == HistoryBatch \in Nat \ {0} /\ HistoryPending \in Nat \ {0}

VARIABLES
    hist,      \* the buffer: [state, pending, committed, active, error, fatal, backoff]
    timer,     \* the timer's wait: "armed" (until the next flush is due) or "asleep"
    flushes,   \* per flushing thread, its _flush_to call
    writer,    \* the holder of the write lock
    log        \* the event log: how many rows each event has

histVars == <<hist, timer, flushes, writer, log>>

Flusher == Producer \cup {"timer", "closer", "callback"}

IdleFlush == [pc |-> "idle", targets |-> {}, batch |-> <<>>]

HistoryInit ==
    /\ hist = [state |-> "accepting", pending |-> <<>>, committed |-> <<>>, active |-> NoEvent,
               error |-> FALSE, fatal |-> FALSE, backoff |-> FALSE]
    /\ timer = "asleep"
    /\ flushes = [t \in Flusher |-> IdleFlush]
    /\ writer = "none"
    /\ log = [e \in Event |-> 0]

\* Accepted and not yet released: what _size counts.
Unreleased(h) == ToSet(h.pending) \cup ToSet(h.committed) \cup ({h.active} \ {NoEvent})

FlushTo(h) == [pc |-> "lock", targets |-> Unreleased(h), batch |-> <<>>]

\* enqueue takes the event: no error to report, accepting, and room.
Accepts ==
    /\ ~hist.error /\ ~hist.fatal /\ hist.state = "accepting"
    /\ Cardinality(Unreleased(hist)) < HistoryPending

\* enqueue by thread t.  A full batch is flushed at once, unless a failed
\* write asked for patience and the time has not come.
Enqueue(t, e) ==
    LET h == [hist EXCEPT !.pending = Append(@, e)]
        full == Len(h.pending) >= HistoryBatch
    IN  /\ Accepts
        /\ hist' = h /\ timer' = "armed"
        /\ \/ (IsBarrier(e) \/ full) /\ flushes' = [flushes EXCEPT ![t] = FlushTo(h)]
           \/ ~IsBarrier(e) /\ (full => hist.backoff) /\ UNCHANGED flushes
        /\ UNCHANGED <<writer, log>>

\* enqueue raises; a background error is reported once, to whoever comes.
EnqueueRaises ==
    /\ ~Accepts
    /\ hist' = [hist EXCEPT !.error = FALSE]
    /\ UNCHANGED <<timer, flushes, writer, log>>

----------------------------------------------------------------------------
\* _flush_to and _persist_to.

\* The next batch that t writes: from the front of pending, up to its boundary.
NextBatch(h, targets) ==
    LET k == Cardinality(ToSet(h.pending) \cap targets)
    IN  SubSeq(h.pending, 1, IF k < HistoryBatch THEN k ELSE HistoryBatch)

\* Fault: a callback waits for releases like any other flush.
WaitsEverywhere(t) == t # "timer"

\* Whether the call waits until its committed events are released.  The timer
\* does not, nor does a call from inside a release or a live callback.
WaitsForReleases(t) == t \notin {"timer", "callback"}

AfterPersist(t) ==
    flushes' = [flushes EXCEPT ![t] = IF WaitsForReleases(t) THEN [@ EXCEPT !.pc = "wait", !.batch = <<>>]
                                      ELSE IdleFlush]

\* A failed write: kept for the timer in the background, raised to the caller
\* of a strict history, logged otherwise.
Noticed(h, t, raised) == [h EXCEPT !.error = @ \/ (t = "timer" /\ raised)]

\* The timer at the top of its loop: it sleeps on an error that nobody has
\* collected, and while there is nothing to write.
TimerWaits(t, h) ==
    timer' = IF t # "timer" THEN timer
             ELSE IF h.error \/ h.pending = <<>> THEN "asleep" ELSE "armed"

\* t holds the write lock: the next batch, or the end of _persist_to.
NextWrite(t, h) ==
    LET batch == NextBatch(h, flushes[t].targets)
    IN  IF batch # <<>> /\ ~h.fatal
        THEN /\ writer' = t /\ hist' = h /\ UNCHANGED timer
             /\ flushes' = [flushes EXCEPT ![t].pc = "writing", ![t].batch = batch]
        ELSE /\ writer' = "none" /\ AfterPersist(t)
             /\ hist' = Noticed(h, t, batch # <<>>) /\ TimerWaits(t, Noticed(h, t, batch # <<>>))

LockTaken(t) ==
    /\ flushes[t].pc = "lock" /\ writer = "none"
    /\ NextWrite(t, hist)
    /\ UNCHANGED log

\* Fault: rows are inserted without looking for their event id.
InsertAll(batch) == [e \in Event |-> IF e \in ToSet(batch) THEN log[e] + 1 ELSE log[e]]

\* _insert_missing_records, add_records, and Redis' script and indexes: rows
\* that an earlier attempt left are not written again.
InsertMissing(batch) == [e \in Event |-> IF e \in ToSet(batch) THEN 1 ELSE log[e]]

\* The batch is committed and handed to the releaser.
WriteCommits(t) ==
    LET batch == flushes[t].batch
    IN  /\ flushes[t].pc = "writing"
        /\ log' = InsertMissing(batch)
        /\ NextWrite(t, [hist EXCEPT !.pending = SubSeq(@, Len(batch) + 1, Len(@)),
                                     !.committed = @ \o batch, !.backoff = FALSE])

\* The write raises, whether or not the rows are there; a conflicting record
\* makes it fatal.  Everything stays pending.
WriteFails(t) ==
    /\ flushes[t].pc = "writing" /\ Fault
    /\ log' \in {log, InsertMissing(flushes[t].batch)}
    /\ \E fatal \in BOOLEAN :
          LET h == Noticed([hist EXCEPT !.backoff = TRUE, !.fatal = fatal], t, fatal \/ config.strict)
          IN  hist' = h /\ TimerWaits(t, h)
    /\ writer' = "none" /\ AfterPersist(t)

\* _wait_for_releases.  The failed release of a target is raised to the caller
\* and, when it is the error that is stored, no longer stored.
ReleasesSeen(t) ==
    /\ flushes[t].pc = "wait"
    /\ flushes[t].targets \cap (ToSet(hist.committed) \cup {hist.active}) = {}
    /\ flushes' = [flushes EXCEPT ![t] = IdleFlush]
    /\ \E raised \in BOOLEAN : hist' = [hist EXCEPT !.error = @ /\ ~raised]
    /\ UNCHANGED <<timer, writer, log>>

\* The flushing thread is cancelled: the batch stays pending, written or not.
FlushCancelled(t) ==
    /\ flushes[t].pc # "idle"
    /\ log' \in IF flushes[t].pc = "writing" THEN {log, InsertMissing(flushes[t].batch)} ELSE {log}
    /\ writer' = IF writer = t THEN "none" ELSE writer
    /\ flushes' = [flushes EXCEPT ![t] = IdleFlush]

----------------------------------------------------------------------------
\* _run_timer: an interval after the oldest event, or after a failed write.
TimerFires ==
    /\ hist.state = "accepting" /\ timer = "armed" /\ flushes["timer"] = IdleFlush
    /\ hist.pending # <<>>
    /\ flushes' = [flushes EXCEPT !["timer"] = FlushTo(hist)]
    /\ UNCHANGED <<hist, timer, writer, log>>

----------------------------------------------------------------------------
\* _run_releases: one committed event at a time, in order.
ReleaseStarts ==
    LET e == Head(hist.committed)
        then == Release(e, e \in bound).then
    IN  /\ hist.committed # <<>> /\ hist.active = NoEvent
        /\ ReleaseBy("releaser", e, e \in bound)
        /\ hist' = [hist EXCEPT !.committed = Tail(@),
                                !.active = IF then \in {"block", "drain"} THEN e ELSE NoEvent,
                                !.error = @ \/ then = "raise"]
        /\ UNCHANGED <<drain, callback, bound, seen, faults, timer, flushes, writer, log>>

ReleaseEnds ==
    /\ hist.active # NoEvent /\ calls["releaser"] = IdleCall
    /\ hist' = [hist EXCEPT !.active = NoEvent]
    /\ UNCHANGED <<timer, flushes, writer, log>>

----------------------------------------------------------------------------
\* Whoever is notified of an event finds it in the history, and with it every
\* earlier event of its task that was accepted, each exactly once: through
\* failed writes, retried writes and cancelled ones.
CommittedBeforeLive ==
    config.log = "buffered" =>
        \A task \in Task : \A i \in DOMAIN seen[task] :
            LET e == seen[task][i]
            IN  log[e] = 1 /\ \A x \in ToSet(hist.pending) : x.task = task => x.n > e.n
=============================================================================
