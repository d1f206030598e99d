--------------------------- MODULE MCWorkflowRun ---------------------------
(* Small instances of WorkflowRun. *)
EXTENDS WorkflowRun
=============================================================================
