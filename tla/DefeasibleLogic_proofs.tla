----------------------- MODULE DefeasibleLogic_proofs -----------------------
(***************************************************************************)
(* The proof theory for every theory: its conditions persist, what they    *)
(* have given they still give, and so no literal is proved and refuted as  *)
(* long as no rule is torn.                                                *)
(***************************************************************************)
EXTENDS DefeasibleLogic, ProofTheory_proofs

TypeInv ==
  /\ theory \in TheoryNames
  /\ definiteProven \subseteq ClosedSet(theory)
  /\ definiteDisproven \subseteq ClosedSet(theory)
  /\ defeasibleProven \subseteq ClosedSet(theory)
  /\ defeasibleDisproven \subseteq ClosedSet(theory)

(* The four tag sets stay sets of literals: every inference the reference  *)
(* makes is about a literal of the closed set.                             *)
LEMMA TypeInvariant == Spec => []TypeInv
<1>1. Init => TypeInv
  BY DEF Init, TypeInv
<1>2. TypeInv /\ [Next]_vars => TypeInv'
  BY DEF TypeInv, Next, vars, InferDefinite, RefuteDefinite, InferDefeasible,
         RefuteDefeasible, Part, ClosedSet, LiteralSet
<1> QED
  BY <1>1, <1>2, PTL DEF Spec

(* Every step keeps the theory and adds tags, never removing one.          *)
LEMMA TagsGrow ==
  ASSUME [Next]_vars
  PROVE  /\ theory' = theory
         /\ definiteProven \subseteq definiteProven'
         /\ definiteDisproven \subseteq definiteDisproven'
         /\ defeasibleProven \subseteq defeasibleProven'
         /\ defeasibleDisproven \subseteq defeasibleDisproven'
BY DEF Next, vars, InferDefinite, RefuteDefinite, InferDefeasible, RefuteDefeasible

(* A condition that holds goes on holding: the inferences may be drawn in  *)
(* any order and at any time, as the engine's worklists do.                *)
THEOREM ConditionsPersist == Spec => Persistent
<1>1. ASSUME [Next]_vars
      PROVE  ConditionsKept
  <2>1. /\ theory' = theory
        /\ definiteProven \subseteq definiteProven'
        /\ definiteDisproven \subseteq definiteDisproven'
        /\ defeasibleProven \subseteq defeasibleProven'
        /\ defeasibleDisproven \subseteq defeasibleDisproven'
    BY <1>1, TagsGrow
  <2> QED
    BY <2>1, DefiniteMonotone, DefeasibleMonotone DEF ConditionsKept
<1> QED
  BY <1>1, PTL DEF Spec, Persistent

(* What has been inferred by a condition can still be inferred by it.      *)
Justified ==
  /\ \A q \in definiteProven : CanInferDefinite(theory, definiteProven, q)
  /\ \A q \in definiteDisproven : CanRefuteDefinite(theory, definiteDisproven, q)
  /\ \A q \in defeasibleProven :
        CanInferDefeasible(theory, definiteProven, definiteDisproven,
                           defeasibleProven, defeasibleDisproven, q)
  /\ \A q \in defeasibleDisproven :
        CanRefuteDefeasible(theory, definiteProven, definiteDisproven,
                            defeasibleProven, defeasibleDisproven, q)

(* A step tags only what the conditions give, by the tags before it.       *)
LEMMA NewTags ==
  ASSUME [Next]_vars
  PROVE  /\ \A q \in definiteProven' \ definiteProven : CanInferDefinite(theory, definiteProven, q)
         /\ \A q \in definiteDisproven' \ definiteDisproven :
               CanRefuteDefinite(theory, definiteDisproven, q)
         /\ \A q \in defeasibleProven' \ defeasibleProven :
               CanInferDefeasible(theory, definiteProven, definiteDisproven,
                                  defeasibleProven, defeasibleDisproven, q)
         /\ \A q \in defeasibleDisproven' \ defeasibleDisproven :
               CanRefuteDefeasible(theory, definiteProven, definiteDisproven,
                                   defeasibleProven, defeasibleDisproven, q)
<1>1. CASE InferDefinite
  BY <1>1 DEF InferDefinite, Part
<1>2. CASE RefuteDefinite
  BY <1>2 DEF RefuteDefinite, Part
<1>3. CASE InferDefeasible
  BY <1>3 DEF InferDefeasible, Part
<1>4. CASE RefuteDefeasible
  BY <1>4 DEF RefuteDefeasible, Part
<1>5. CASE UNCHANGED vars
  BY <1>5 DEF vars
<1> QED
  BY <1>1, <1>2, <1>3, <1>4, <1>5 DEF Next

(* So every tag rests on its condition for good.                           *)
LEMMA JustifiedAlways == Spec => []Justified
<1>1. Init => Justified
  BY DEF Init, Justified
<1>2. ASSUME Justified, [Next]_vars
      PROVE  Justified'
  <2>1. /\ theory' = theory
        /\ definiteProven \subseteq definiteProven'
        /\ definiteDisproven \subseteq definiteDisproven'
        /\ defeasibleProven \subseteq defeasibleProven'
        /\ defeasibleDisproven \subseteq defeasibleDisproven'
    BY <1>2, TagsGrow
  <2>2. \A q \in definiteProven' : CanInferDefinite(theory', definiteProven', q)
    BY <1>2, <2>1, NewTags, DefiniteMonotone DEF Justified
  <2>3. \A q \in definiteDisproven' : CanRefuteDefinite(theory', definiteDisproven', q)
    BY <1>2, <2>1, NewTags, DefiniteMonotone DEF Justified
  <2>4. \A q \in defeasibleProven' :
           CanInferDefeasible(theory', definiteProven', definiteDisproven',
                              defeasibleProven', defeasibleDisproven', q)
    BY <1>2, <2>1, NewTags, DefeasibleMonotone DEF Justified
  <2>5. \A q \in defeasibleDisproven' :
           CanRefuteDefeasible(theory', definiteProven', definiteDisproven',
                               defeasibleProven', defeasibleDisproven', q)
    BY <1>2, <2>1, NewTags, DefeasibleMonotone DEF Justified
  <2> QED
    BY <2>2, <2>3, <2>4, <2>5 DEF Justified
<1> QED
  BY <1>1, <1>2, PTL DEF Spec

(* Without denials no literal gets both defeasible tags.                   *)
Separate ==
  /\ definiteProven \cap definiteDisproven = {}
  /\ NoDenials(theory) => defeasibleProven \cap defeasibleDisproven = {}

(* A literal that gets a tag carries the other only if it is open both     *)
(* ways, the one condition having been kept since its tag was inferred.    *)
LEMMA SeparateAlways == Spec => []Separate
<1>1. Init => Separate
  BY DEF Init, Separate
<1>2. ASSUME Justified, Separate, [Next]_vars
      PROVE  Separate'
  <2>1. theory' = theory
    BY <1>2, TagsGrow
  <2>2. \A q : ~ (/\ CanInferDefinite(theory, definiteProven, q)
                  /\ CanRefuteDefinite(theory, definiteDisproven, q))
    <3>1. definiteProven \cap definiteDisproven = {}
      BY <1>2 DEF Separate
    <3> QED
      BY <3>1, NotBothDefinite
  <2>3. NoDenials(theory) =>
          \A q : ~ (/\ CanInferDefeasible(theory, definiteProven, definiteDisproven,
                                           defeasibleProven, defeasibleDisproven, q)
                    /\ CanRefuteDefeasible(theory, definiteProven, definiteDisproven,
                                            defeasibleProven, defeasibleDisproven, q))
    <3>1. definiteProven \cap definiteDisproven = {}
      BY <1>2 DEF Separate
    <3>2. NoDenials(theory) => Untorn(theory, defeasibleProven, defeasibleDisproven)
      BY <1>2, NoDenialsUntorn DEF Separate
    <3> QED
      BY <3>1, <3>2, UntornOneWay
  <2>4. (definiteProven \cap definiteDisproven)' = {}
    BY <1>2, <2>2, NewTags DEF Justified
  <2>5. NoDenials(theory) => (defeasibleProven \cap defeasibleDisproven)' = {}
    BY <1>2, <2>3, NewTags DEF Justified
  <2> QED
    BY <2>1, <2>4, <2>5 DEF Separate
<1> QED
  BY <1>1, <1>2, JustifiedAlways, PTL DEF Spec

(* Though no inference looks at the opposite tag of its literal, none is   *)
(* proved and refuted at the definite level, and none at the defeasible    *)
(* level while no rule is torn: both tags would rest on conditions that    *)
(* still hold, and an attacker that overrules the literal would have to be *)
(* discarded, or beaten by a defender that is discarded itself.            *)
THEOREM CoherentTagsAlways == Spec => []CoherentTags
<1>1. Justified /\ Separate => CoherentTags
  <2> SUFFICES ASSUME Justified, Separate,
                      Untorn(theory, defeasibleProven, defeasibleDisproven)
               PROVE  defeasibleProven \cap defeasibleDisproven = {}
    BY DEF CoherentTags, Separate
  <2> QED
    BY UntornOneWay DEF Justified, Separate
<1> QED
  BY <1>1, JustifiedAlways, SeparateAlways, PTL

(* Without negative modal premises no literal is ever open to both a proof *)
(* and a refutation; together with the persistence of the conditions this  *)
(* makes the result independent of the order of inferences.                *)
THEOREM OneWayAlways == Spec => []OneWay
<1>1. Separate => OneWay
  BY NotBothDefinite, NoDenialsUntorn, UntornOneWay DEF OneWay, Separate
<1> QED
  BY <1>1, SeparateAlways, PTL

(* Two opposed literals of one mode are both +d only when both are +D, in  *)
(* every theory whose superiority has no cycle and while no rule is torn.  *)
THEOREM ConsistentTagsAlways == Spec => []ConsistentTags
<1>1. TypeInv /\ Separate /\ Justified => ConsistentTags
  <2> SUFFICES ASSUME TypeInv, Separate, Justified, Acyclic(theory),
                      Untorn(theory, defeasibleProven, defeasibleDisproven),
                      NEW q \in defeasibleProven,
                      NEW o \in Opponents(q) \cap defeasibleProven, o.mode = q.mode
               PROVE  {q, o} \subseteq definiteProven
    BY DEF ConsistentTags
  <2>1. theory \in TheoryNames /\ q \in Literal /\ Canonical(q) = q
    BY ClosedSetType, CanonicalSet DEF TypeInv
  <2> QED
    BY <2>1, BothInferred DEF Separate, Justified
<1> QED
  BY <1>1, TypeInvariant, JustifiedAlways, SeparateAlways, PTL

=============================================================================
