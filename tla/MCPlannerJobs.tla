----------------------------- MODULE MCPlannerJobs -----------------------------
(* Small instances of PlannerJobs for TLC. *)
EXTENDS PlannerJobsProperties
=============================================================================
