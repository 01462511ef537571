---------------------------- MODULE MCWorkflowTui ----------------------------
(* Instances of WorkflowTui for TLC. *)
EXTENDS WorkflowTui, TLC

NoFaults == {}
=============================================================================
