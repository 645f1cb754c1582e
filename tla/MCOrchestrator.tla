--------------------------- MODULE MCOrchestrator ---------------------------
(* Instances of Orchestrator for TLC: a scheduled execution and a file arrival. *)
EXTENDS Orchestrator, TLC

CONSTANTS ibkr, xtb, schedule, arrival

ScheduleAndArrival == (schedule :> {ibkr}) @@ (arrival :> {ibkr, xtb})
OneEach == (schedule :> {ibkr}) @@ (arrival :> {xtb})
=============================================================================
