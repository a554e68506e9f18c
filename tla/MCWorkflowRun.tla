-------------------------- MODULE MCWorkflowRun --------------------------
(* A step that can be undone and retried, a gate that can be undone, and a *)
(* last step, with two operators.                                          *)
EXTENDS WorkflowRun

MCmaxAttempts == <<2, 1, 2>>
==========================================================================
