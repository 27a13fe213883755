------------------------------ MODULE MCWorkflow ------------------------------
(* Three tasks; the default model, a specialist, one that reads and one   *)
(* that draws.                                                             *)
EXTENDS Workflow
=============================================================================
