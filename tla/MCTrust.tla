------------------------------- MODULE MCTrust -------------------------------
(* The trust of what the engine concludes on the theories of MCTheories. *)
EXTENDS Trust, MCTheories
=============================================================================
