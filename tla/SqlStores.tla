----------------------------- MODULE SqlStores -----------------------------
(***************************************************************************)
(* The three stores that keep the queue in a SQL table, against the same   *)
(* callers and the same promises.  One store writes the table for a whole  *)
(* behaviour: create_queue_backend makes one, from the configuration.      *)
(***************************************************************************)
EXTENDS SqlTable

CONSTANT Stores  \* the stores to look at

ASSUME StoresAssumption == Stores \subseteq {"sqlspec", "alchemy", "ephemeral"}

VARIABLE store

SqlSpec == INSTANCE SqlSpecStore
Alchemy == INSTANCE AlchemyStore
Ephemeral == INSTANCE EphemeralStore

StoreInit == Init /\ store \in Stores

StoreNext ==
    /\ UNCHANGED store
    /\ \/ store = "sqlspec" /\ SqlSpec!Next
       \/ store = "alchemy" /\ Alchemy!Next
       \/ store = "ephemeral" /\ Ephemeral!Next

Spec == StoreInit /\ [][StoreNext]_<<vars, store>>

\* A claim that is lost between the SELECT and the UPDATE of touch_heartbeats
\* of the Advanced Alchemy store is reported as missed, also when the same
\* statement touched other rows: the heartbeat manager stops the attempt's code
\* on that report and on nothing else.
LostIsMissed == [][store = "alchemy" => Alchemy!ReportsEveryLost]_vars
=============================================================================
