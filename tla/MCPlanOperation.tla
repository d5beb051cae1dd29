--------------------------- MODULE MCPlanOperation ---------------------------
(* Rival revisions, Decisions that keep the Plan, and a document. *)
EXTENDS PlanOperation
=============================================================================
