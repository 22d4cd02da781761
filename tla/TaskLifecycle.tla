--------------------------- MODULE TaskLifecycle ---------------------------
(***************************************************************************)
(* What the queue promises of one task record, whatever workers, clients,  *)
(* sweeps and crashes do: its life is a sequence of generations, at most   *)
(* limit + 1 of them, each started at most once, and it ends once.         *)
(***************************************************************************)
EXTENDS Naturals

CONSTANT Task

VARIABLE life

\* started holds the generations whose body was handed to a worker.
LifeState ==
    [state : {"new", "queued", "running", "done", "purged"},
     gen : Nat, limit : Nat, started : SUBSET Nat]

Unborn == [state |-> "new", gen |-> 0, limit |-> 0, started |-> {}]

Init == life = [t \in Task |-> Unborn]

\* The moves of one record.
Enqueued(x, y) ==
    /\ x = Unborn
    /\ y.state = "queued" /\ y.gen = 0 /\ y.started = {}

Started(x, y) ==
    /\ x.state = "queued" /\ x.gen \notin x.started
    /\ y = [x EXCEPT !.state = "running", !.started = @ \cup {x.gen}]

Requeued(x, y) ==
    /\ x.state = "running" /\ x.gen < x.limit
    /\ y = [x EXCEPT !.state = "queued", !.gen = @ + 1]

Ended(x, y) ==
    /\ x.state \in {"queued", "running"}
    /\ y = [x EXCEPT !.state = "done"]

Purged(x, y) ==
    /\ x.state = "done"
    /\ y = [x EXCEPT !.state = "purged"]

Move(x, y) ==
    Enqueued(x, y) \/ Started(x, y) \/ Requeued(x, y) \/ Ended(x, y) \/ Purged(x, y)

\* A batch claim or a sweep moves several records in one step.
Next == \A t \in Task : life'[t] = life[t] \/ Move(life[t], life'[t])

Spec == Init /\ [][Next]_life
=============================================================================
