----------------------------- MODULE WorkerRun -----------------------------
(***************************************************************************)
(* One run of a worker in a process of its own: run_worker() opens the     *)
(* service, starts the worker loop, waits for whichever comes first of the *)
(* loop's end and the two stop requests, and closes the service whatever   *)
(* happened.  Graceful and forced stops overlap with the start of the      *)
(* loop, with a claim that is in flight and with each other.               *)
(***************************************************************************)
EXTENDS Integers, Sequences, FiniteSets, SequencesExt, Deployments

CONSTANT Unfinished   \* the result and the outcome of what has not ended

\* A deployment says where the worker is placed, which kind of job it runs and
\* how many faults there are.
VARIABLES
    run,        \* run_worker(): its place, whether the loop is up, its result
    worker,     \* the Worker: its loop, its stop event, and a call of stop()
    job,        \* the task in flight
    stops,      \* the graceful and the forced stop request
    resources,  \* what the service has open
    faults      \* faults so far

runVars == <<run, worker, job, stops, resources, faults>>

\* An async job that ends, and one that ignores its cancellation; a job in a
\* thread, which cannot be cancelled, that ends, and one that does not.
JobKind == {"async", "stubborn", "thread", "hung"}
NeverEnds(kind) == kind \in {"stubborn", "hung"}
InThread(kind) == kind \in {"thread", "hung"}

OpenOrder == <<"provider", "queue", "event_log", "execution", "sink", "buffer", "executor">>
CloseOrder == <<"execution", "event_log", "buffer", "queue", "sink", "executor", "provider">>

NoRun == [pc |-> "none", up |-> FALSE, result |-> Unfinished, opening |-> 1, closing |-> 1]
NoWorker == [pc |-> "none", stop |-> FALSE, cancelled |-> FALSE, failed |-> "no", stopper |-> "none", escalated |-> FALSE]

RunInit ==
    /\ run = NoRun
    /\ worker = NoWorker
    /\ job = "none"
    /\ stops = [graceful |-> FALSE, force |-> FALSE]
    /\ resources = {}
    /\ faults = 0

Fault == faults < config.faults /\ faults' = faults + 1

RunGoes(pc) == run' = [run EXCEPT !.pc = pc]
Ends(result) == run' = [run EXCEPT !.pc = "close", !.result = result, !.closing = 1]

----------------------------------------------------------------------------
\* QueueService.open and close.

\* A resource counts as opened before its open() is called, the dependency
\* provider after.
Opened(resource) == resources' = resources \cup {resource}

OpenNext ==
    /\ run.pc = "open" /\ run.opening <= Len(OpenOrder)
    /\ Opened(OpenOrder[run.opening])
    /\ run' = [run EXCEPT !.opening = @ + 1]
    /\ UNCHANGED <<worker, job, stops, faults>>

OpenFails ==
    /\ run.pc = "open" /\ run.opening <= Len(OpenOrder) /\ Fault
    /\ IF OpenOrder[run.opening] = "provider" THEN UNCHANGED resources ELSE Opened(OpenOrder[run.opening])
    /\ Ends("raised")
    /\ UNCHANGED <<worker, job, stops>>

\* Shutting the executor down waits for the threads.
Blocks(resource) == resource = "executor" /\ job \in {"running", "detached"} /\ InThread(config.job)

\* _teardown_resource collects what a close() raises.
TeardownNext(failed) == run.closing + 1

CloseNext ==
    /\ run.pc = "close" /\ run.closing <= Len(CloseOrder) /\ ~Blocks(CloseOrder[run.closing])
    /\ \E failed \in BOOLEAN :
         /\ IF failed THEN CloseOrder[run.closing] \in resources /\ Fault ELSE UNCHANGED faults
         /\ run' = [run EXCEPT !.closing = TeardownNext(failed),
                               !.result = IF failed /\ @ = "clean" THEN "raised" ELSE @]
         /\ resources' = resources \ {CloseOrder[run.closing]}
    /\ UNCHANGED <<worker, job, stops>>

Closed == run.pc = "close" /\ run.closing > Len(CloseOrder)

----------------------------------------------------------------------------
\* run_worker()

RunStarts == run.pc = "none" /\ RunGoes("load") /\ UNCHANGED <<worker, job, stops, resources, faults>>

\* load_task_modules; initialize_schedules; what raises there ends the run.
TasksLoaded == run.pc = "load" /\ RunGoes("open") /\ UNCHANGED worker
SchedulesInitialized ==
    /\ run.pc = "open" /\ run.opening > Len(OpenOrder)
    /\ RunGoes("startup") /\ worker' = [NoWorker EXCEPT !.pc = "created"]

Prepare ==
    /\ \/ (TasksLoaded \/ SchedulesInitialized) /\ UNCHANGED faults
       \/ (run.pc = "load" \/ (run.pc = "open" /\ run.opening > Len(OpenOrder)))
          /\ Fault /\ Ends("raised") /\ UNCHANGED worker
    /\ UNCHANGED <<job, stops, resources>>

Stopping(call) == worker' = [worker EXCEPT !.stop = TRUE, !.stopper = call]

LoopIsDone == worker.pc \in {"ended", "crashed"}

\* _start_and_run_worker: a stop that comes first still lets the loop begin.
StartupEnds ==
    /\ run.pc = "startup" /\ worker.pc # "created" /\ (worker.failed = "startup" => worker.pc = "crashed")
    /\ \/ worker.pc = "crashed" /\ Ends("raised") /\ UNCHANGED worker
       \/ worker.pc # "crashed" /\ stops.force /\ RunGoes("force") /\ Stopping("cancel")
       \/ worker.pc # "crashed" /\ ~stops.force /\ stops.graceful
          /\ run' = [run EXCEPT !.pc = "graceful", !.up = worker.pc # "heartbeat"] /\ Stopping("drain")
       \/ worker.pc \notin {"crashed", "heartbeat"} /\ ~stops.force /\ ~stops.graceful
          /\ run' = [run EXCEPT !.pc = "running", !.up = TRUE] /\ UNCHANGED worker
    /\ UNCHANGED <<job, stops, resources, faults>>

\* _run_until_stopped.
RunStops ==
    /\ run.pc = "running"
    /\ \/ stops.force /\ RunGoes("force") /\ Stopping("cancel")
       \/ ~stops.force /\ stops.graceful /\ RunGoes("graceful") /\ Stopping("drain")
       \/ ~stops.force /\ ~stops.graceful /\ LoopIsDone /\ Ends("crashed") /\ UNCHANGED worker
    /\ UNCHANGED <<job, stops, resources, faults>>

\* _gracefully_stop_worker and _wait_after_graceful_stop.
GracefulStops ==
    /\ run.pc = "graceful"
    /\ \/ stops.force /\ RunGoes("force") /\ Stopping("cancel")
       \/ ~stops.force /\ worker.stopper = "done" /\ ~run.up /\ RunGoes("cancelling")
          /\ worker' = [worker EXCEPT !.cancelled = TRUE]
       \/ ~stops.force /\ worker.stopper = "done" /\ run.up /\ LoopIsDone
          /\ Ends(IF worker.escalated THEN "escalated" ELSE IF worker.pc = "crashed" THEN "crashed" ELSE "clean")
          /\ UNCHANGED worker
    /\ UNCHANGED <<job, stops, resources, faults>>

\* _force_worker: stop(force=True), then the loop is cancelled.
ForceStops ==
    /\ run.pc = "force" /\ worker.stopper = "done"
    /\ RunGoes("cancelling")
    /\ worker' = [worker EXCEPT !.cancelled = TRUE]
    /\ UNCHANGED <<job, stops, resources, faults>>

LoopGathered ==
    /\ run.pc = "cancelling" /\ LoopIsDone
    /\ Ends(IF stops.force \/ worker.escalated THEN "escalated" ELSE "clean")
    /\ UNCHANGED <<worker, job, stops, resources, faults>>

----------------------------------------------------------------------------
\* The Worker.

\* start() clears the stop event before it waits for the first time.
LoopBegins ==
    /\ worker.pc = "created"
    /\ worker' = [worker EXCEPT !.pc = "heartbeat", !.stop = FALSE]
    /\ UNCHANGED <<run, job, stops, resources, faults>>

HeartbeatStarts ==
    /\ worker.pc = "heartbeat"
    /\ \/ ~worker.cancelled /\ worker' = [worker EXCEPT !.pc = "loop"] /\ UNCHANGED faults
       \/ worker.cancelled /\ worker' = [worker EXCEPT !.pc = "drain"] /\ UNCHANGED faults
       \/ Fault /\ worker' = [worker EXCEPT !.pc = "drain", !.failed = "startup"]
    /\ UNCHANGED <<run, job, stops, resources>>

\* run_once: the claim may return after a stop request.
LoopClaims ==
    /\ worker.pc = "loop" /\ ~worker.cancelled /\ job = "none"
    /\ job' = "running"
    /\ UNCHANGED <<run, worker, stops, resources, faults>>

\* An error of one iteration is logged; one outside its handler ends the loop.
LoopLeaves ==
    /\ worker.pc = "loop"
    /\ \/ (worker.stop \/ worker.cancelled) /\ worker' = [worker EXCEPT !.pc = "drain", !.stop = TRUE] /\ UNCHANGED faults
       \/ Fault /\ worker' = [worker EXCEPT !.pc = "drain", !.stop = TRUE, !.failed = "loop"]
    /\ UNCHANGED <<run, job, stops, resources>>

\* A job ends, by itself or because it was cancelled.
JobEnds ==
    /\ job = "running" /\ ~NeverEnds(config.job)
    /\ job' = "none"
    /\ UNCHANGED <<run, worker, stops, resources, faults>>

ThreadEnds ==
    /\ job = "detached" /\ ~NeverEnds(config.job)
    /\ job' = "none"
    /\ UNCHANGED <<run, worker, stops, resources, faults>>

\* task.cancel(), and the wait for final_cancel_timeout: the job is gone, its
\* thread is on its own, or it is handed off to stale recovery.
CancelledJob ==
    CASE job # "running" -> job
      [] config.job = "async" -> "none"
      [] config.job = "stubborn" -> "undead"
      [] OTHER -> "detached"

\* The drain of the loop's finally clause, and that of a call of stop().
LoopDrains ==
    /\ worker.pc = "drain"
    /\ IF job = "running" THEN job' = CancelledJob ELSE UNCHANGED job
    /\ worker' = [worker EXCEPT !.pc = IF worker.failed = "no" THEN "ended" ELSE "crashed"]
    /\ UNCHANGED <<run, stops, resources, faults>>

StopperDrains ==
    /\ worker.stopper \in {"drain", "cancel"}
    /\ worker' = [worker EXCEPT !.stopper = "done", !.escalated = @ \/ (job = "running" /\ worker.stopper = "drain")]
    /\ job' = CancelledJob
    /\ UNCHANGED <<run, stops, resources, faults>>

RunLoopStep == LoopBegins \/ HeartbeatStarts \/ LoopLeaves \/ LoopDrains \/ StopperDrains
RunStep == OpenNext \/ CloseNext \/ Prepare \/ StartupEnds \/ RunStops \/ GracefulStops \/ ForceStops \/ LoopGathered

\* What the process does by itself, once it runs.
ProcessStep == RunStep \/ RunLoopStep \/ JobEnds \/ ThreadEnds \/ LoopClaims \/ OpenFails

\* The event loop of a run that has returned waits for every task that is
\* left.
LoopIsEmpty == job # "undead"
=============================================================================
