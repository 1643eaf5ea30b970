-------------------------- MODULE DefeasibleLogic ---------------------------
(***************************************************************************)
(* The proof theory the reasoner promises to compute: the four inference   *)
(* conditions, applied in any order.  It is the transition system of the   *)
(* executable reference in lean/Spindle/Modal/Reason.lean (`infer` and     *)
(* `step`), which knows nothing of the engine's worklists, counters and    *)
(* discard flags.  A literal with neither tag of a level is undecided,     *)
(* which is different from disproved.                                      *)
(***************************************************************************)
EXTENDS ProofTheory

VARIABLES
  theory,               \* the name of the theory under reasoning
  definiteProven,       \* +D
  definiteDisproven,    \* -D
  defeasibleProven,     \* +d
  defeasibleDisproven   \* -d

vars == <<theory, definiteProven, definiteDisproven,
          defeasibleProven, defeasibleDisproven>>

-----------------------------------------------------------------------------
Init ==
  /\ theory \in TheoryNames
  /\ definiteProven = {}
  /\ definiteDisproven = {}
  /\ defeasibleProven = {}
  /\ defeasibleDisproven = {}

(* Inferences of one tag, each by the tags so far and each of a literal    *)
(* without that tag, whatever its other tags.  The reference draws all of  *)
(* them in a step; any part of them is a step here, one of them the least. *)
Part(enabled) == (SUBSET enabled) \ {{}}

InferDefinite ==
  /\ \E S \in Part({q \in ClosedSet(theory) \ definiteProven :
                      CanInferDefinite(theory, definiteProven, q)}) :
        definiteProven' = definiteProven \cup S
  /\ UNCHANGED <<theory, definiteDisproven, defeasibleProven, defeasibleDisproven>>

RefuteDefinite ==
  /\ \E S \in Part({q \in ClosedSet(theory) \ definiteDisproven :
                      CanRefuteDefinite(theory, definiteDisproven, q)}) :
        definiteDisproven' = definiteDisproven \cup S
  /\ UNCHANGED <<theory, definiteProven, defeasibleProven, defeasibleDisproven>>

InferDefeasible ==
  /\ \E S \in Part({q \in ClosedSet(theory) \ defeasibleProven :
                      CanInferDefeasible(theory, definiteProven, definiteDisproven,
                                         defeasibleProven, defeasibleDisproven, q)}) :
        defeasibleProven' = defeasibleProven \cup S
  /\ UNCHANGED <<theory, definiteProven, definiteDisproven, defeasibleDisproven>>

RefuteDefeasible ==
  /\ \E S \in Part({q \in ClosedSet(theory) \ defeasibleDisproven :
                      CanRefuteDefeasible(theory, definiteProven, definiteDisproven,
                                          defeasibleProven, defeasibleDisproven, q)}) :
        defeasibleDisproven' = defeasibleDisproven \cup S
  /\ UNCHANGED <<theory, definiteProven, definiteDisproven, defeasibleProven>>

Next == InferDefinite \/ RefuteDefinite \/ InferDefeasible \/ RefuteDefeasible

Spec == Init /\ [][Next]_vars

-----------------------------------------------------------------------------
(* No inference is guarded against the opposite tag, and yet no literal is *)
(* proved and refuted at the definite level, in any theory; nor is one at  *)
(* the defeasible level as long as no rule is torn, and never when no      *)
(* premise is a denial.                                                    *)
CoherentTags ==
  /\ definiteProven \cap definiteDisproven = {}
  /\ (NoDenials(theory) \/ Untorn(theory, defeasibleProven, defeasibleDisproven)) =>
        defeasibleProven \cap defeasibleDisproven = {}

(* A condition that holds goes on holding whatever is inferred meanwhile:  *)
(* an engine may draw the inferences in any order and at any time.         *)
ConditionsKept ==
  \A q \in ClosedSet(theory) :
     /\ CanInferDefinite(theory, definiteProven, q) =>
          CanInferDefinite(theory, definiteProven, q)'
     /\ CanRefuteDefinite(theory, definiteDisproven, q) =>
          CanRefuteDefinite(theory, definiteDisproven, q)'
     /\ CanInferDefeasible(theory, definiteProven, definiteDisproven,
                           defeasibleProven, defeasibleDisproven, q) =>
          CanInferDefeasible(theory, definiteProven, definiteDisproven,
                             defeasibleProven, defeasibleDisproven, q)'
     /\ CanRefuteDefeasible(theory, definiteProven, definiteDisproven,
                            defeasibleProven, defeasibleDisproven, q) =>
          CanRefuteDefeasible(theory, definiteProven, definiteDisproven,
                              defeasibleProven, defeasibleDisproven, q)'

Persistent == [][ConditionsKept]_vars

(* In a theory without negative modal premises no literal is ever open to  *)
(* both a proof and a refutation of one level; with Persistent, the tags   *)
(* reached do not depend on the order of the inferences.                   *)
OneWay ==
  NoDenials(theory) =>
    \A q \in ClosedSet(theory) :
       /\ ~ /\ CanInferDefinite(theory, definiteProven, q)
            /\ CanRefuteDefinite(theory, definiteDisproven, q)
       /\ ~ /\ CanInferDefeasible(theory, definiteProven, definiteDisproven,
                                  defeasibleProven, defeasibleDisproven, q)
            /\ CanRefuteDefeasible(theory, definiteProven, definiteDisproven,
                                   defeasibleProven, defeasibleDisproven, q)

(* Without a cycle in the superiority relation and a torn rule, two        *)
(* opposed literals of one mode are both +d only when both are +D, that is *)
(* when the facts contradict each other (docs/src/concepts/negation.md).   *)
(* A permission and the opposite obligation are not covered: their rules   *)
(* are defended by different classes, and both may win.                    *)
ConsistentTags ==
  Acyclic(theory) /\ Untorn(theory, defeasibleProven, defeasibleDisproven) =>
    \A q \in defeasibleProven : \A o \in Opponents(q) \cap defeasibleProven :
       o.mode = q.mode => {q, o} \subseteq definiteProven
=============================================================================
