-------------------------- MODULE MCPlanningRequests --------------------------
(* Values for the parameters of PlanningRequests. *)
EXTENDS PlanningRequests

=============================================================================
