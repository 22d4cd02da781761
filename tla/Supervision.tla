---------------------------- MODULE Supervision ----------------------------
(***************************************************************************)
(* Who owns a worker process, and how it is stopped.  A server invocation  *)
(* (placement "server") keeps a private database, starts one worker child, *)
(* watches it and stops it; the child watches its parent.  A standalone    *)
(* worker (placement "cli") counts the signals it gets.                    *)
(***************************************************************************)
EXTENDS WorkerRun

VARIABLES
    process,   \* the worker process: its stage, its process group, its watch
               \* on the parent
    server,    \* the server command: its place, and a request to shut down
    pipe,      \* the startup message of the child
    watch,     \* the supervisor's thread that waits for the child's end
    shared,    \* the child's stop event, and the supervisor's two flags
    lock,      \* who holds the supervisor's lock
    storage,   \* the private database exists
    signals,   \* signals that a standalone worker got
    watchdog   \* its hard exit: [armed, finished]

supervisionVars == <<process, server, pipe, watch, shared, lock, storage, signals, watchdog>>
processVars == <<config, runVars, supervisionVars>>

NoProcess == [pc |-> "none", group |-> FALSE, bridge |-> FALSE]

SupervisionInit ==
    /\ config \in Configs /\ RunInit
    /\ process = NoProcess
    /\ server = [pc |-> "none", shutdown |-> FALSE]
    /\ pipe = "empty" /\ watch = "none" /\ lock = "free" /\ storage = FALSE /\ signals = 0
    /\ shared = [stop_event |-> FALSE, expected |-> FALSE, requested |-> FALSE]
    /\ watchdog = [armed |-> FALSE, finished |-> FALSE]

IsAlive == process.pc \notin {"none", "gone"}
IsUp == server.pc \notin {"none", "closed", "dead"}

Gone == process' = [process EXCEPT !.pc = "gone"]
ServerGoes(pc) == server' = [server EXCEPT !.pc = pc]

----------------------------------------------------------------------------
\* ServerWorkerSupervisor, under server_lifespan.

\* EphemeralServerContext: the database file and its directory.
EnterStorage == storage' = TRUE
LeaveStorage == storage' = FALSE

\* server_context and the storage are entered first.
ServerEnters ==
    /\ config.placement = "server" /\ server.pc = "none"
    /\ EnterStorage /\ ServerGoes("starting")
    /\ UNCHANGED <<runVars, process, pipe, watch, shared, lock, signals, watchdog>>

SupervisorStarts ==
    /\ server.pc = "starting" /\ lock' = "server"
    /\ \/ process' = [NoProcess EXCEPT !.pc = "boot"] /\ ServerGoes("waiting") /\ UNCHANGED faults
       \/ Fault /\ ServerGoes("unwind") /\ UNCHANGED process
    /\ UNCHANGED <<run, worker, job, stops, resources, pipe, watch, shared, storage, signals, watchdog>>

\* _receive_startup: the child is ready.
ReceiveReady ==
    /\ server.pc = "waiting" /\ pipe = "ready"
    /\ watch' = "joining" /\ lock' = "free" /\ ServerGoes("serving")
    /\ UNCHANGED <<runVars, process, pipe, shared, storage, signals, watchdog>>

\* It says an error, has ended, or takes too long: _cleanup_failed_start.
StartupFails ==
    /\ server.pc = "waiting"
    /\ \/ (pipe = "error" \/ (pipe = "empty" /\ ~IsAlive)) /\ UNCHANGED faults
       \/ pipe = "empty" /\ IsAlive /\ Fault
    /\ shared' = [shared EXCEPT !.expected = TRUE, !.stop_event = TRUE]
    /\ ServerGoes(IF IsAlive THEN "terminate" ELSE "unwind")
    /\ UNCHANGED <<run, worker, job, stops, resources, process, pipe, watch, lock, storage, signals, watchdog>>

OperatorStops ==
    /\ server.pc = "serving" /\ ~server.shutdown
    /\ server' = [server EXCEPT !.shutdown = TRUE]
    /\ UNCHANGED <<runVars, process, pipe, watch, shared, lock, storage, signals, watchdog>>

\* close(): the child is asked to stop and waited for.
SupervisorCloses ==
    /\ server.pc = "serving" /\ server.shutdown /\ lock = "free"
    /\ lock' = "server" /\ ServerGoes("joining")
    /\ shared' = [shared EXCEPT !.expected = TRUE, !.stop_event = TRUE]
    /\ UNCHANGED <<runVars, process, pipe, watch, storage, signals, watchdog>>

\* Fault: the wait has no limit.
JoinedOnly == ~IsAlive

\* join(timeout) is over when the child has ended or the time has passed.
JoinReturns == TRUE

SupervisorJoins ==
    /\ server.pc = "joining" /\ JoinReturns
    /\ ServerGoes(IF IsAlive THEN "terminate" ELSE "unwind")
    /\ UNCHANGED <<runVars, process, pipe, watch, shared, lock, storage, signals, watchdog>>

\* Fault: only the child's own process group is signalled.
ReachesGroup == process.group

\* _force_stop_process: a verified process group, or else the process.
Reaches == IF process.group THEN TRUE ELSE IsAlive

\* SIGTERM ends a process that has no handler of its own; SIGKILL any.
ForceStop ==
    /\ \/ server.pc = "terminate" /\ ServerGoes("kill") /\ ((Reaches /\ IsAlive /\ Gone) \/ UNCHANGED process)
       \/ server.pc = "kill" /\ ServerGoes("unwind") /\ (IF Reaches /\ IsAlive THEN Gone ELSE UNCHANGED process)
    /\ UNCHANGED <<runVars, pipe, watch, shared, lock, storage, signals, watchdog>>

\* _close_handles, and the contexts are left.
ServerUnwinds ==
    /\ server.pc = "unwind"
    /\ LeaveStorage /\ lock' = "free" /\ ServerGoes("closed")
    /\ UNCHANGED <<runVars, process, pipe, watch, shared, signals, watchdog>>

ServerDies ==
    /\ IsUp /\ Fault
    /\ ServerGoes("dead") /\ watch' = "none"
    /\ UNCHANGED <<run, worker, job, stops, resources, process, pipe, shared, lock, storage, signals, watchdog>>

\* _watch_child.
Unexpected == ~shared.expected /\ ~shared.requested

WatchJoins ==
    /\ watch = "joining" /\ ~IsAlive
    /\ watch' = "finish"
    /\ IF Unexpected THEN server' = [server EXCEPT !.shutdown = TRUE] /\ shared' = [shared EXCEPT !.requested = TRUE]
       ELSE UNCHANGED <<server, shared>>
    /\ UNCHANGED <<runVars, process, pipe, lock, storage, signals, watchdog>>

WatchFinishes ==
    /\ watch = "finish" /\ lock = "free" /\ watch' = "done"
    /\ UNCHANGED <<runVars, process, server, pipe, shared, lock, storage, signals, watchdog>>

----------------------------------------------------------------------------
\* The child: _worker_process_main and _run_child.

ChildBoots ==
    /\ process.pc = "boot"
    /\ process' = [process EXCEPT !.pc = "app", !.group = TRUE]
    /\ UNCHANGED <<runVars, server, pipe, watch, shared, lock, storage, signals, watchdog>>

\* The application is loaded and validated: the database has to be there.
ChildLoads ==
    /\ process.pc = "app"
    /\ \/ storage /\ process' = [process EXCEPT !.pc = "run"] /\ RunGoes("load") /\ UNCHANGED <<pipe, faults>>
       \/ Fault /\ Gone /\ pipe' = "error" /\ UNCHANGED run
    /\ UNCHANGED <<worker, job, stops, resources, server, watch, shared, lock, storage, signals, watchdog>>

\* Fault: the parent is not watched.
ReadyUnwatched == pipe' = "ready" /\ UNCHANGED process

\* signal_ready: the message goes out, then the parent is watched.
SignalReady == pipe' = "ready" /\ process' = [process EXCEPT !.bridge = TRUE]

ProcessRuns ==
    /\ process.pc = "run" /\ ProcessStep
    /\ IF config.placement = "server" /\ run.pc = "startup" /\ run'.pc = "running" THEN SignalReady
       ELSE UNCHANGED <<pipe, process>>
    /\ UNCHANGED <<server, watch, shared, lock, storage, signals, watchdog>>

\* _bridge_stop_event, and _parent_loss_bridge.
StopEventSet == shared.stop_event
ParentIsLost == process.bridge /\ ~IsUp

BridgeStops ==
    /\ process.pc = "run" /\ ~stops.graceful
    /\ StopEventSet \/ ParentIsLost
    /\ stops' = [stops EXCEPT !.graceful = TRUE]
    /\ UNCHANGED <<run, worker, job, resources, faults, supervisionVars>>

ProcessReturns ==
    /\ process.pc = "run" /\ Closed
    /\ process' = [process EXCEPT !.pc = "exiting"]
    /\ shared' = [shared EXCEPT !.stop_event = config.placement = "server"]
    /\ watchdog' = [watchdog EXCEPT !.finished = TRUE]
    /\ UNCHANGED <<runVars, server, pipe, watch, lock, storage, signals>>

ProcessExits ==
    /\ process.pc = "exiting" /\ LoopIsEmpty /\ Gone
    /\ pipe' = IF run.result = "raised" /\ pipe = "empty" /\ config.placement = "server" THEN "error" ELSE pipe
    /\ UNCHANGED <<runVars, server, watch, shared, lock, storage, signals, watchdog>>

ProcessDies ==
    /\ IsAlive /\ Fault /\ Gone
    /\ UNCHANGED <<run, worker, job, stops, resources, server, pipe, watch, shared, lock, storage, signals, watchdog>>

----------------------------------------------------------------------------
\* "litestar queues run": _run_worker and _CLIStopCoordinator.

WorkerCommand ==
    /\ config.placement = "cli" /\ process.pc = "none" /\ RunStarts
    /\ process' = [process EXCEPT !.pc = "run"]
    /\ UNCHANGED <<server, pipe, watch, shared, lock, storage, signals, watchdog>>

RequestStop ==
    /\ config.placement = "cli" /\ IsAlive /\ signals < 3
    /\ signals' = signals + 1
    /\ IF signals' > 2 THEN Gone /\ UNCHANGED <<stops, watchdog>>
       ELSE /\ stops' = [graceful |-> TRUE, force |-> stops.force \/ signals' >= 2]
            /\ watchdog' = [watchdog EXCEPT !.armed = @ \/ signals' >= 2]
            /\ UNCHANGED process
    /\ UNCHANGED <<run, worker, job, resources, faults, server, pipe, watch, shared, lock, storage>>

\* ShutdownWatchdog: arm() starts the clock, disarm() stops it for good.
WatchdogFires == watchdog.armed /\ ~watchdog.finished

HardExit ==
    /\ IsAlive /\ WatchdogFires /\ Gone
    /\ UNCHANGED <<runVars, server, pipe, watch, shared, lock, storage, signals, watchdog>>

----------------------------------------------------------------------------
ServerStep ==
    \/ ServerEnters \/ SupervisorStarts \/ ReceiveReady \/ StartupFails \/ SupervisorCloses \/ SupervisorJoins
    \/ ForceStop \/ ServerUnwinds
ChildStep == ChildBoots \/ ChildLoads \/ ProcessReturns \/ ProcessExits \/ WorkerCommand
WatchStep == WatchJoins \/ WatchFinishes

SupervisionNext ==
    /\ UNCHANGED config
    /\ \/ ServerStep \/ ChildStep \/ WatchStep \/ ProcessRuns \/ BridgeStops \/ HardExit
       \/ OperatorStops \/ ServerDies \/ ProcessDies \/ RequestStop

Steady(A) == A /\ UNCHANGED <<config, faults>>
Runs(A) == process.pc = "run" /\ Steady(A /\ ProcessRuns)

\* Threads and event loops go on, timeouts pass, and a job that can end does;
\* nothing is bound to fail.
SupervisionFairness ==
    /\ WF_processVars(Steady(ServerStep)) /\ WF_processVars(Steady(ChildStep)) /\ WF_processVars(Steady(WatchStep))
    /\ WF_processVars(Steady(BridgeStops)) /\ WF_processVars(Steady(HardExit))
    /\ WF_processVars(Runs(RunStep)) /\ WF_processVars(Runs(RunLoopStep)) /\ WF_processVars(Runs(JobEnds \/ ThreadEnds))

SupervisionSpec == SupervisionInit /\ [][SupervisionNext]_processVars /\ SupervisionFairness

----------------------------------------------------------------------------
\* Every variable has the shape the code gives it.
ProcessTypeOK ==
    /\ config \in Configs /\ resources \subseteq Range(OpenOrder) /\ faults \in 0..config.faults
    /\ process.pc \in {"none", "boot", "app", "run", "exiting", "gone"}
    /\ run.pc \in {"none", "load", "open", "startup", "running", "graceful", "force", "cancelling", "close"}
    /\ worker.pc \in {"none", "created", "heartbeat", "loop", "drain", "ended", "crashed"}
    /\ job \in {"none", "running", "detached", "undead"} /\ signals \in 0..3

\* The private database is removed after the last process that uses it has
\* gone: whichever way the start of the child failed or its end was forced.
StorageOutlivesWorker == server.pc = "closed" => ~IsAlive

\* A server that has lost its worker shuts down, and a worker that has lost
\* its server stops, whenever it was lost.
NeitherOutlivesTheOther ==
    /\ (server.pc = "serving" /\ process.pc = "gone") ~> ~IsUp
    /\ (server.pc = "dead" /\ ~NeverEnds(config.job)) ~> ~IsAlive

\* A server that is told to shut down does, also with a job that never ends;
\* so does a worker that gets a signal, and it leaves nothing open then.
StopIsObeyed ==
    /\ server.shutdown ~> ~IsUp
    /\ (signals > 0 /\ ~NeverEnds(config.job)) ~> ~IsAlive
    /\ (process.pc = "exiting") ~> (resources = {})

=============================================================================
