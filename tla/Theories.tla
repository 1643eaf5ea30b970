------------------------------ MODULE Theories ------------------------------
(***************************************************************************)
(* Ground theories and the rule index the reasoner consults: theory.rs,    *)
(* rule.rs, superiority.rs and index.rs of crates/spindle-core/src.  A     *)
(* theory is the map from labels to rules (adding a rule under a label     *)
(* that exists replaces the rule, so labels are unique) together with the  *)
(* declared superiority pairs.  Theories holds, by name, the theories the  *)
(* engine may be given; everything below is a function of the name t: the  *)
(* index is built once and never changes while reasoning.                  *)
(***************************************************************************)
EXTENDS Literals, Naturals, Sequences, FiniteSets

CONSTANTS
  Label,      \* rule labels; a template label is a label too
  Theories    \* the theories, a function on their names

Kind == {"fact", "strict", "defeasible", "defeater"}

Premises(rule) == {rule.body[s] : s \in DOMAIN rule.body}

Rule == [kind : Kind, template : Label, body : Seq(Literal), head : Literal]

TheoryNames == DOMAIN Theories

(* What is computed of a theory beforehand: the literals it mentions, with *)
(* the opposition closure of the deontic ones, and the set closed under    *)
(* complement in which definite failure is derived.                        *)
Index(rules, sup) ==
  LET mentioned == UNION {{rules[r].head} \cup Premises(rules[r]) : r \in DOMAIN rules}
      literals  == UNION {OppositionClosure(l) : l \in mentioned}
  IN  [rules |-> rules, sup |-> sup, literals |-> literals,
       closed |-> literals \cup {Complement(l) : l \in literals}]

(* A theory is finite, and the bodies of facts are empty. *)
ASSUME TheoriesAssumption ==
  \A t \in TheoryNames :
     LET rules == Theories[t].rules
     IN  /\ Theories[t] = Index(rules, Theories[t].sup)
         /\ Theories[t].sup \subseteq Label \X Label
         /\ IsFiniteSet(DOMAIN rules) /\ IsFiniteSet(Theories[t].literals)
         /\ \A r \in DOMAIN rules :
               /\ r \in Label
               /\ rules[r] \in Rule
               /\ rules[r].kind = "fact" => rules[r].body = << >>

Labels(t)     == DOMAIN Theories[t].rules
RuleOf(t, r)  == Theories[t].rules[r]
KindOf(t, r)  == RuleOf(t, r).kind
HeadOf(t, r)  == Canonical(RuleOf(t, r).head)
BodyOf(t, r)  == RuleOf(t, r).body
Slots(t, r)   == 1 .. Len(BodyOf(t, r))
Productive(t, r) == KindOf(t, r) # "defeater"

(* Only declared pairs count, and they relate template labels, so every    *)
(* ground instance of a rule inherits its rank.                            *)
Superior(t, r, s) ==
  <<RuleOf(t, r).template, RuleOf(t, s).template>> \in Theories[t].sup

(* No rule is ranked above itself through the declared pairs. *)
Acyclic(t) ==
  \A S \in SUBSET {pair[1] : pair \in Theories[t].sup} :
     S # {} => \E x \in S : \A y \in S : <<y, x>> \notin Theories[t].sup

(* No premise is an outer-negated modal literal. *)
NoDenials(t) ==
  \A r \in Labels(t) : \A s \in Slots(t, r) : ~ NegativeModal(BodyOf(t, r)[s])

(* A defeater does not attack a permission unless one of the two is an     *)
(* explicit outer negation.                                                *)
CanAttack(t, r, goal) ==
  LET g == Canonical(goal)
      h == RuleOf(t, r).head
  IN  /\ Opposes(h, g)
      /\ \/ Productive(t, r)
         \/ g.mode # "P"
         \/ g.mneg
         \/ h.mneg

(* Team defense: same-head productive rules, and for a deontic goal the    *)
(* asymmetric classes.  An obligation attacker is countered by any rule    *)
(* for the same content, even a defeater; a permission or a defeater only  *)
(* by a productive obligation rule.                                        *)
CanDefend(t, r, goal, a) ==
  LET g == Canonical(goal)
      att == HeadOf(t, a)
  IN  /\ HeadDefends(RuleOf(t, r).head, g, att)
      /\ \/ /\ ~ Deontic(g) \/ g.mneg
            /\ Productive(t, r)
         \/ /\ Deontic(g) /\ ~ g.mneg
            /\ \/ att.mode = "O" /\ ~ att.mneg /\ Productive(t, a)
               \/ Productive(t, r) /\ (att.mneg \/ HeadOf(t, r).mode = "O")

(* The indexed literals, and those closed under complement.                *)
LiteralSet(t) == Theories[t].literals
ClosedSet(t)  == Theories[t].closed
Unindexed(t)  == ClosedSet(t) \ LiteralSet(t)

RulesWithHead(t, q) == {r \in Labels(t) : HeadOf(t, r) = q}

SupportingRules(t, q) == {r \in RulesWithHead(t, q) : Productive(t, r)}

AttackingRules(t, q) ==
  {r \in Labels(t) : HeadOf(t, r) \in Opponents(q) /\ CanAttack(t, r, q)}

DefendingRules(t, q, a) ==
  {r \in Labels(t) :
     IF Deontic(q) /\ ~ q.mneg THEN CanDefend(t, r, q, a)
                               ELSE HeadOf(t, r) = q /\ Productive(t, r)}

MatchedSlots(t, r, event) ==
  {s \in Slots(t, r) : Satisfies(event, BodyOf(t, r)[s])}

RulesWithBody(t, event) == {r \in Labels(t) : MatchedSlots(t, r, event) # {}}

(* The literals that can satisfy a premise, among those of the theory. *)
Members(t, premise) == {m \in LiteralSet(t) : Satisfies(m, premise)}
=============================================================================
