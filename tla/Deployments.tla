---------------------------- MODULE Deployments ----------------------------
(***************************************************************************)
(* What observes a queue depends on how it is deployed: the configuration  *)
(* is chosen at the start and does not change.                             *)
(***************************************************************************)
CONSTANT Configs   \* the deployments that are explored
VARIABLE config
=============================================================================
