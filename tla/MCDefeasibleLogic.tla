-------------------------- MODULE MCDefeasibleLogic --------------------------
(* The proof theory on the small theories of MCTheories. *)
EXTENDS DefeasibleLogic, MCTheories
=============================================================================
