-------------------------- MODULE MCWorkflowVersions --------------------------
(* Two clients beside the page: one changes the workflow, one starts runs.  *)
EXTENDS WorkflowPage, TLC

CONSTANTS q1, q2

MCKindsOf == (q1 :> {"update", "rollback", "delete"} @@ q2 :> {"trigger", "webhook"})
=============================================================================
