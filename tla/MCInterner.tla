----------------------------- MODULE MCInterner -----------------------------
(* The interner with names that are model values. *)
EXTENDS Interner, TLC

CONSTANTS a, b, c, d

MCName == {Empty, a, b, c, d}
Same == Permutations(Thread) \cup Permutations({a, b, c, d})
=============================================================================
