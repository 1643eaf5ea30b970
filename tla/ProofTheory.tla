---------------------------- MODULE ProofTheory ----------------------------
(***************************************************************************)
(* The inference conditions of DL(d) on an indexed theory t, as the        *)
(* executable reference lean/Spindle/Modal/Reason.lean states them.  They  *)
(* speak of the four sets of tagged literals only: pD and nD are the +D    *)
(* and -D literals, pd and nd the +d and -d ones.                          *)
(***************************************************************************)
EXTENDS Theories

(* Premises.  An outer-negated deontic premise also holds by a refutation  *)
(* of every literal that satisfies the positive premise, and is refuted by *)
(* any proof of one; every other premise is refuted when all of them are.  *)
(* The literals are those of the theory and their complements.             *)

Matching(t, b)            == {m \in ClosedSet(t) : Satisfies(m, b)}
Holds(t, proven, b)       == \E m \in Matching(t, b) : m \in proven
Refuted(t, disproven, b)  == Matching(t, b) \subseteq disproven

Satisfied(t, proven, disproven, b) ==
  \/ Holds(t, proven, b)
  \/ NegativeModal(b) /\ Refuted(t, disproven, OuterNegation(b))

(* Mutant: failure to prove is taken for a refutation.                     *)
UnsatisfiableByFailure(t, proven, disproven, b) == ~ Holds(t, proven, b)

Unsatisfiable(t, proven, disproven, b) ==
  IF NegativeModal(b) THEN Holds(t, proven, OuterNegation(b))
                      ELSE Refuted(t, disproven, b)

DefinitelyApplicable(t, proven, r) ==
  \A s \in Slots(t, r) : Holds(t, proven, BodyOf(t, r)[s])

DefinitelyDiscarded(t, disproven, r) ==
  \E s \in Slots(t, r) : Refuted(t, disproven, BodyOf(t, r)[s])

Applicable(t, proven, disproven, r) ==
  \A s \in Slots(t, r) : Satisfied(t, proven, disproven, BodyOf(t, r)[s])

Discarded(t, proven, disproven, r) ==
  \E s \in Slots(t, r) : Unsatisfiable(t, proven, disproven, BodyOf(t, r)[s])

(* A denial of an obligation may hold by an explicit proof and be refuted  *)
(* by an obligation at another window: its rule is then applicable and     *)
(* discarded at once.                                                      *)
Untorn(t, proven, disproven) ==
  \A r \in Labels(t) :
     ~ (Applicable(t, proven, disproven, r) /\ Discarded(t, proven, disproven, r))

-----------------------------------------------------------------------------
(* The four conditions. *)

CanInferDefinite(t, pD, q) ==
  \E r \in RulesWithHead(t, q) :
     \/ KindOf(t, r) = "fact"
     \/ KindOf(t, r) = "strict" /\ DefinitelyApplicable(t, pD, r)

CanRefuteDefinite(t, nD, q) ==
  \A r \in RulesWithHead(t, q) :
     /\ KindOf(t, r) # "fact"
     /\ KindOf(t, r) = "strict" => DefinitelyDiscarded(t, nD, r)

Beaten(t, pd, nd, q, a) ==
  \E d \in DefendingRules(t, q, a) :
     /\ Applicable(t, pd, nd, d)
     /\ Superior(t, d, a)

(* Mutant: the definite truth of an opposed literal is not looked at.      *)
CanInferDespiteFacts(t, pD, nD, pd, nd, q) ==
  \/ q \in pD
  \/ /\ \E r \in SupportingRules(t, q) : Applicable(t, pd, nd, r)
     /\ \A a \in AttackingRules(t, q) :
           Discarded(t, pd, nd, a) \/ Beaten(t, pd, nd, q, a)

CanInferDefeasible(t, pD, nD, pd, nd, q) ==
  \/ q \in pD
  \/ /\ Opponents(q) \subseteq nD
     /\ \E r \in SupportingRules(t, q) :
           Applicable(t, pd, nd, r)
     /\ \A a \in AttackingRules(t, q) :
           \/ Discarded(t, pd, nd, a)
           \/ Beaten(t, pd, nd, q, a)

(* Mutant: an attacker that may still be discarded overrules already.      *)
OverruledByOpen(t, pd, nd, q, a) ==
  \A d \in DefendingRules(t, q, a) : Discarded(t, pd, nd, d) \/ ~ Superior(t, d, a)

Overruled(t, pd, nd, q, a) ==
  /\ Applicable(t, pd, nd, a)
  /\ \A d \in DefendingRules(t, q, a) :
        \/ Discarded(t, pd, nd, d)
        \/ ~ Superior(t, d, a)

CanRefuteDefeasible(t, pD, nD, pd, nd, q) ==
  /\ q \in nD
  /\ \/ \E o \in Opponents(q) : o \in pD
     \/ \A r \in SupportingRules(t, q) :
           Discarded(t, pd, nd, r)
     \/ \E a \in AttackingRules(t, q) : Overruled(t, pd, nd, q, a)
=============================================================================
