-------------------------------- MODULE Trust --------------------------------
(***************************************************************************)
(* Trust weighting: compute_weighted_conclusions of                        *)
(* crates/spindle-core/src/pipeline/mod.rs and the weakest link of         *)
(* trust.rs, as functions of what the engine has reported.                 *)
(*                                                                         *)
(* A degree is a minimum, so it is known when it is known, for every       *)
(* threshold, whether it reaches it.  A theory's sources, its policy and   *)
(* one threshold are the set `trusted` of the labels whose trust reaches   *)
(* it, by their own source, their template's or the default.  The product  *)
(* that diminishes a degree is arithmetic and left out; which defeaters    *)
(* take part in it is not.                                                 *)
(***************************************************************************)
EXTENDS Reasoner

CONSTANT DefaultTrusted    \* whether the default trust reaches the threshold

Positive   == {c \in conclusions : c.tag \in {"+D", "+d"}}
Concluded  == {c.lit : c \in Positive}
Entries(l) == {c \in Positive : c.lit = l}

(* best_conclusion: the definite entry of a literal, if it has one. *)
Best(l) ==
  LET definite == {c \in Entries(l) : c.tag = "+D"}
  IN  CHOOSE c \in IF definite # {} THEN definite ELSE Entries(l) : TRUE

(* Mutant: only the first premise is followed.                             *)
FirstLink(r) ==
  {b \in {BodyOf(theory, r)[s] : s \in Slots(theory, r) \cap {1}} : Entries(b) # {}}

(* The premises that a derivation by rule r is traced through: those whose *)
(* own text is a positive conclusion.                                      *)
Links(r) == {b \in {BodyOf(theory, r)[s] : s \in Slots(theory, r)} : Entries(b) # {}}

(* A set of literals that build_trust_tree does not leave when it follows  *)
(* premises, each through the rule of its best conclusion, and stops at l. *)
Followed(l, S) == \A m \in S \ {l} : Links(Best(m).label) \subseteq S

(* The literals below the root of the tree for l by rule r: the least such *)
(* set with the premises of r.                                             *)
Below(l, r) ==
  {m \in Concluded : \A S \in SUBSET Concluded :
                        Links(r) \subseteq S /\ Followed(l, S) => m \in S}

Circular(S) == S # {} /\ \A m \in S : Links(Best(m).label) \cap S # {}

(* Cycle detection: a path of the tree meets a literal that it has visited *)
(* already, the root or another one.                                       *)
ComesBack(l, r) ==
  l \in Below(l, r) \/ \E S \in SUBSET (Below(l, r) \ {l}) : Circular(S)

(* weakest_link_trust: every node of the tree reaches the threshold, where *)
(* a path that comes back ends in a node with the default trust.           *)
Reaches(trusted, l, r) ==
  /\ {r} \cup {Best(m).label : m \in Below(l, r) \ {l}} \subseteq trusted
  /\ ComesBack(l, r) => DefaultTrusted

(* Mutant: a defeater need not have fired.                                 *)
DiminishersUnfired(l) ==
  {r \in Labels(theory) : KindOf(theory, r) = "defeater" /\ CanAttack(theory, r, l)}

(* defeater_diminishers: the defeaters that attack and have fired, by the  *)
(* text of their premises. *)
Diminishers(l) ==
  {r \in Labels(theory) :
     /\ KindOf(theory, r) = "defeater" /\ CanAttack(theory, r, l)
     /\ \A s \in Slots(theory, r) : Entries(BodyOf(theory, r)[s]) # {}}

-----------------------------------------------------------------------------
(* The rules that the engine records make a derivation: where premises are *)
(* met by their own text, tracing one never comes back to where it was, so *)
(* the default trust that stands in for a cycle decides no degree.         *)
NeverCut == phase = "done" => \A c \in Positive : ~ ComesBack(c.lit, c.label)

(* The rules of the set trusted lead from literals of S to literals of S,  *)
(* whatever is assumed of premises that hold by refutation.                *)
Upheld(trusted, S) ==
  \A r \in trusted :
     /\ Productive(theory, r)
     /\ \A s \in Slots(theory, r) :
           LET b == BodyOf(theory, r)[s] IN Holds(theory, S, b) \/ NegativeModal(b)
     => HeadOf(theory, r) \in S

(* "A conclusion's trust degree equals the minimum trust in its derivation *)
(* chain": a conclusion whose degree reaches the threshold has a           *)
(* derivation in which every rule does, so it is in every set of literals  *)
(* that those rules do not lead out of.                                    *)
WeakestLink ==
  phase = "done" =>
    \A trusted \in SUBSET Labels(theory) :
       \A c \in Positive :
          Reaches(trusted, c.lit, c.label) =>
            \A S \in SUBSET LiteralSet(theory) : Upheld(trusted, S) => Canonical(c.lit) \in S

(* A defeater diminishes a conclusion that is not definite just when it is *)
(* applicable to the engine and was overcome by a superior rule: the trust *)
(* pass and the engine agree on which challenges were made.                *)
ChallengesMet ==
  phase = "done" =>
    \A c \in Positive :
       LET q == Canonical(c.lit)
       IN  q \notin definiteProven =>
             \A r \in AttackingRules(theory, q) :
                KindOf(theory, r) = "defeater" =>
                  /\ r \in Diminishers(c.lit) <=> remaining[r] = 0
                  /\ remaining[r] = 0 =>
                       \E d \in DefendingRules(theory, q, r) :
                          remaining[d] = 0 /\ Superior(theory, d, r)

-----------------------------------------------------------------------------
(* The theories of which these hold: a rule that can meet a premise spells *)
(* its head as the premise is spelled.  A premise under a window, one      *)
(* about a family that is concluded under no window, and "F p" where rules *)
(* conclude "F p" are plain; "O not p" is not where a rule concludes       *)
(* "F p", and a denial of a modal literal never is.                        *)
PlainPremises(t) ==
  \A r \in Labels(t) : \A s \in Slots(t, r) :
     LET b == BodyOf(t, r)[s]
     IN  /\ ~ NegativeModal(b)
         /\ \A a \in Labels(t) :
               Productive(t, a) /\ Satisfies(HeadOf(t, a), b) => RuleOf(t, a).head = b
=============================================================================
