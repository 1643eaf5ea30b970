----------------------------- MODULE MCReasoner -----------------------------
(* The engine on the small theories of MCTheories. *)
EXTENDS Reasoner, MCTheories
=============================================================================
