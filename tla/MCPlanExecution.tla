--------------------------- MODULE MCPlanExecution ---------------------------
(* Small instances of PlanExecution for TLC; the cfg files give the sizes. *)
EXTENDS PlanExecution
=============================================================================
