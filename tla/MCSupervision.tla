--------------------------- MODULE MCSupervision ---------------------------
(***************************************************************************)
(* The processes of a deployment: a worker under a server or on its own    *)
(* (Supervision), and those that only open the queue and close it again    *)
(* (Lifespans).                                                            *)
(***************************************************************************)
EXTENDS Supervision, Lifespans

ASSUME PlacementsAssumption ==
    \A cfg \in Configs :
        /\ cfg.faults \in Nat
        /\ \/ cfg.placement \in {"server", "cli"} /\ cfg.job \in JobKind
           \/ /\ cfg.placement \in Lifespan /\ cfg.store \in {"redis", "sqlspec", "alchemy"}
              /\ cfg.strict \in BOOLEAN /\ cfg.backends \in Seq({"pubsub", "rabbitmq", "kafka", "sqs", "cloudtasks"})

PlacementVars == <<processVars, lifespanVars>>

PlacementNext ==
    \/ SupervisionNext /\ UNCHANGED lifespanVars
    \/ LifespanNext /\ UNCHANGED <<config, run, worker, job, stops, resources, supervisionVars>>

PlacementInit == SupervisionInit /\ LifespanInit

PlacementSpec == PlacementInit /\ [][PlacementNext]_PlacementVars /\ SupervisionFairness

----------------------------------------------------------------------------
\* The deployments that are checked.
Opening(placements, store, backends, strict) ==
    [placement : placements, store : {store}, backends : {backends}, strict : {strict}, faults : {2}]

EveryDeployment ==
    [placement : {"server"}, job : {"async", "hung"}, faults : {2}]
    \cup [placement : {"cli"}, job : JobKind, faults : {1}]
    \cup Opening(Lifespan, "redis", <<"pubsub", "kafka">>, FALSE)
    \cup Opening({"asgi", "consumer"}, "sqlspec", <<"rabbitmq">>, TRUE)
    \cup Opening({"oneshot", "status"}, "alchemy", <<"sqs", "cloudtasks">>, FALSE)
    \cup Opening({"producer"}, "alchemy", <<>>, TRUE)
=============================================================================
