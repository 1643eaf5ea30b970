------------------------- MODULE ProofTheory_proofs -------------------------
(***************************************************************************)
(* Facts about literals, the opposition relation and the rule index; the   *)
(* inference conditions are monotone in the tags, and those of a theory    *)
(* without negative modal premises exclude each other.                     *)
(***************************************************************************)
EXTENDS ProofTheory, FiniteSetTheorems, TLAPS

-----------------------------------------------------------------------------
(* Literals. *)

(* Flipping the inner negation of a literal gives a literal. *)
LEMMA ComplementType ==
  ASSUME NEW l \in Literal
  PROVE  Complement(l) \in Literal
BY DEF Complement, Literal

(* The canonical form of a literal is a literal. *)
LEMMA CanonicalType ==
  ASSUME NEW l \in Literal
  PROVE  Canonical(l) \in Literal
BY DEF Canonical, Literal, Mode

(* So is its outer negation. *)
LEMMA OuterNegationType ==
  ASSUME NEW l \in Literal
  PROVE  OuterNegation(l) \in Literal
BY DEF OuterNegation, Literal

(* What opposes a literal are literals. *)
LEMMA OpponentsType ==
  ASSUME NEW l \in Literal
  PROVE  Opponents(l) \subseteq Literal
<1> DEFINE c == Canonical(l)
<1>1. c \in Literal /\ Complement(c) \in Literal /\ OuterNegation(c) \in Literal
  BY CanonicalType, ComplementType, OuterNegationType
<1>2. \A m \in {"O", "P"} : [Complement(c) EXCEPT !.mode = m] \in Literal
  BY <1>1 DEF Literal, Mode
<1>3. \A m \in IF c.mneg THEN {} ELSE RivalModes(c.mode) : m \in {"O", "P"}
  BY DEF RivalModes
<1> QED
  BY <1>1, <1>2, <1>3 DEF Opponents

(* Opposition is symmetric: what an assertion conflicts with conflicts     *)
(* with it.  The index looks attackers up by the opponents of the goal     *)
(* only, so an asymmetric pair would attack in one direction.              *)
THEOREM OppositionSymmetric ==
  ASSUME NEW l \in Literal, NEW m \in Opponents(l)
  PROVE  Opposes(m, l)
<1> DEFINE c == Canonical(l)
<1>1. c \in Literal /\ m \in Literal
  BY CanonicalType, OpponentsType
<1>2. c.mode # "F"
  BY DEF Canonical, Literal
<1>3. Canonical(c) = c /\ (Deontic(l) <=> c.mode \in {"O", "P"})
  BY <1>2 DEF Canonical, Deontic
<1>4. CASE ~ Deontic(l)
  <2>1. m = Complement(c)
    BY <1>4 DEF Opponents
  <2>2. m.mode = c.mode /\ Complement(m) = c
    BY <1>1, <2>1 DEF Complement, Literal
  <2>3. Canonical(m) = m /\ ~ Deontic(m)
    BY <1>2, <1>3, <1>4, <2>2 DEF Canonical, Deontic
  <2> QED
    BY <2>2, <2>3 DEF Opposes, Opponents
<1>5. CASE Deontic(l) /\ m = OuterNegation(c)
  <2>1. m.mode = c.mode /\ OuterNegation(m) = c
    BY <1>1, <1>3, <1>5 DEF OuterNegation, Literal
  <2>2. Canonical(m) = m /\ Deontic(m)
    BY <1>2, <1>3, <1>5, <2>1 DEF Canonical, Deontic
  <2> QED
    BY <2>1, <2>2 DEF Opposes, Opponents
<1>6. CASE /\ Deontic(l) /\ ~ c.mneg
           /\ \E k \in RivalModes(c.mode) : m = [Complement(c) EXCEPT !.mode = k]
  <2>1. PICK k \in RivalModes(c.mode) : m = [Complement(c) EXCEPT !.mode = k]
    BY <1>6
  <2>2. k \in {"O", "P"} /\ c.mode \in RivalModes(k)
    BY <1>3, <1>6 DEF RivalModes
  <2>3. m.mode = k /\ ~ m.mneg /\ c = [Complement(m) EXCEPT !.mode = c.mode]
    <3>1. PICK d \in Literal : d = c
      BY <1>1
    <3>2. d.mneg = FALSE /\ m = [[d EXCEPT !.neg = ~ d.neg] EXCEPT !.mode = k]
      BY <1>6, <2>1, <3>1 DEF Complement, Literal
    <3>3. m.mode = k /\ m.mneg = FALSE /\ m.neg = ~ d.neg
      BY <3>2 DEF Literal
    <3>4. d = [[m EXCEPT !.neg = ~ m.neg] EXCEPT !.mode = d.mode]
      BY <3>2, <3>3 DEF Literal
    <3> QED
      BY <3>1, <3>3, <3>4 DEF Complement
  <2>4. Canonical(m) = m /\ Deontic(m)
    BY <2>2, <2>3 DEF Canonical, Deontic
  <2> QED
    BY <2>2, <2>3, <2>4 DEF Opposes, Opponents
<1> QED
  BY <1>4, <1>5, <1>6 DEF Opponents

(* The index interns literals, the canonical form of what is mentioned     *)
(* among them.                                                             *)
LEMMA ClosureType ==
  ASSUME NEW l \in Literal
  PROVE  OppositionClosure(l) \subseteq Literal /\ Canonical(l) \in OppositionClosure(l)
<1> DEFINE c == Canonical(l)
<1>1. c \in Literal
  BY CanonicalType
<1>2. CASE ~ Deontic(l)
  BY <1>1, <1>2 DEF OppositionClosure
<1>3. CASE Deontic(l)
  <2>1. c.mode \in {"O", "P"}
    BY <1>3 DEF Deontic
  <2> QED
    BY <1>1, <1>3, <2>1 DEF OppositionClosure, Literal, Mode
<1> QED
  BY <1>2, <1>3

-----------------------------------------------------------------------------
(* The rule index. *)

(* What the index returns for a rule of the theory is well typed. *)
LEMMA RuleType ==
  ASSUME NEW t \in TheoryNames, NEW r \in Labels(t)
  PROVE  /\ r \in Label
         /\ RuleOf(t, r) \in Rule
         /\ HeadOf(t, r) \in Literal
         /\ KindOf(t, r) \in Kind
         /\ BodyOf(t, r) \in Seq(Literal)
         /\ Len(BodyOf(t, r)) \in Nat
<1>1. r \in Label /\ RuleOf(t, r) \in Rule
  BY TheoriesAssumption DEF Labels, RuleOf
<1>2. RuleOf(t, r).head \in Literal /\ RuleOf(t, r).body \in Seq(Literal)
  BY <1>1 DEF Rule
<1> QED
  BY <1>1, <1>2, CanonicalType DEF Rule, HeadOf, KindOf, BodyOf

(* A rule has as many body slots as premises. *)
LEMMA SlotsType ==
  ASSUME NEW t \in TheoryNames, NEW r \in Labels(t)
  PROVE  /\ Slots(t, r) \subseteq Nat
         /\ IsFiniteSet(Slots(t, r))
         /\ Cardinality(Slots(t, r)) = Len(BodyOf(t, r))
         /\ \A s \in Slots(t, r) : BodyOf(t, r)[s] \in Literal
<1>1. Len(BodyOf(t, r)) \in Nat /\ BodyOf(t, r) \in Seq(Literal)
  BY RuleType
<1>2. /\ IsFiniteSet(1 .. Len(BodyOf(t, r)))
      /\ Cardinality(1 .. Len(BodyOf(t, r))) = Len(BodyOf(t, r))
  BY <1>1, FS_Interval
<1> QED
  BY <1>1, <1>2 DEF Slots

(* An event matches slots of the rule it is matched against. *)
LEMMA MatchedSlotsType ==
  ASSUME NEW t \in TheoryNames, NEW r \in Labels(t), NEW q
  PROVE  MatchedSlots(t, r, q) \subseteq Slots(t, r)
BY DEF MatchedSlots

(* The index holds finitely many literals, the head of every rule, in      *)
(* canonical form, among them.                                             *)
LEMMA LiteralSetType ==
  ASSUME NEW t \in TheoryNames
  PROVE  /\ LiteralSet(t) \subseteq Literal
         /\ IsFiniteSet(LiteralSet(t))
         /\ \A r \in Labels(t) : HeadOf(t, r) \in LiteralSet(t)
<1> DEFINE rules == Theories[t].rules
           mentioned == UNION {{rules[r].head} \cup Premises(rules[r]) : r \in DOMAIN rules}
<1>1. Theories[t] = Index(rules, Theories[t].sup) /\ IsFiniteSet(Theories[t].literals)
  BY TheoriesAssumption
<1>2. Theories[t].literals = UNION {OppositionClosure(l) : l \in mentioned}
  BY <1>1 DEF Index
<1>3. \A r \in DOMAIN rules : rules[r] \in Rule
  BY TheoriesAssumption
<1>4. \A r \in DOMAIN rules : rules[r].head \in Literal /\ Premises(rules[r]) \subseteq Literal
  BY <1>3 DEF Rule, Premises
<1>5. mentioned \subseteq Literal
  BY <1>4
<1>6. Theories[t].literals \subseteq Literal
  BY <1>2, <1>5, ClosureType
<1>7. \A r \in DOMAIN rules : Canonical(rules[r].head) \in Theories[t].literals
  BY <1>2, <1>4, ClosureType
<1> QED
  BY <1>1, <1>6, <1>7 DEF LiteralSet, Labels, HeadOf, RuleOf

(* The closure under complement is computed beforehand, and adds literals  *)
(* to the indexed ones.                                                    *)
LEMMA ClosedSetMeans ==
  ASSUME NEW t \in TheoryNames
  PROVE  ClosedSet(t) = LiteralSet(t) \cup {Complement(l) : l \in LiteralSet(t)}
<1>1. Theories[t] = Index(Theories[t].rules, Theories[t].sup)
  BY TheoriesAssumption
<1> QED
  BY <1>1 DEF Index, ClosedSet, LiteralSet

LEMMA ClosedSetType ==
  ASSUME NEW t \in TheoryNames
  PROVE  LiteralSet(t) \subseteq ClosedSet(t) /\ ClosedSet(t) \subseteq Literal
BY LiteralSetType, ComplementType, ClosedSetMeans

(* The index holds canonical forms only, so a literal is the only one with *)
(* its exact identity.                                                     *)
LEMMA CanonicalSet ==
  ASSUME NEW t \in TheoryNames, NEW m \in ClosedSet(t)
  PROVE  Canonical(m) = m
<1> DEFINE rules == Theories[t].rules
           mentioned == UNION {{rules[r].head} \cup Premises(rules[r]) : r \in DOMAIN rules}
<1>1. Theories[t] = Index(rules, Theories[t].sup)
  BY TheoriesAssumption
<1>2. LiteralSet(t) = UNION {OppositionClosure(l) : l \in mentioned}
  BY <1>1 DEF Index, LiteralSet
<1>3. \A l \in Literal : \A k \in OppositionClosure(l) : k.mode # "F"
  <2> SUFFICES ASSUME NEW l \in Literal, NEW k \in OppositionClosure(l)
               PROVE  k.mode # "F"
    OBVIOUS
  <2>1. CASE Deontic(l)
    <3>1. k \in [atom : {Canonical(l).atom}, neg : BOOLEAN, mode : {"O", "P"}, mneg : BOOLEAN,
                 win : {Canonical(l).win}]
      BY <2>1 DEF OppositionClosure
    <3> QED
      BY <3>1
  <2>2. CASE ~ Deontic(l) /\ l.mode # "F"
    BY <2>2 DEF OppositionClosure, Canonical
  <2>3. CASE ~ Deontic(l) /\ l.mode = "F"
    <3>1. k = Canonical(l)
      BY <2>3 DEF OppositionClosure
    <3>2. Canonical(l) = [l EXCEPT !.mode = "O", !.neg = ~ l.neg]
      BY <2>3 DEF Canonical
    <3> QED
      BY <2>3, <3>1, <3>2 DEF Deontic, Literal
  <2> QED
    BY <2>1, <2>2, <2>3
<1>4. \A k \in LiteralSet(t) : k.mode # "F"
  <2>1. \A r \in DOMAIN rules : rules[r] \in Rule
    BY TheoriesAssumption
  <2>2. \A r \in DOMAIN rules : rules[r].head \in Literal /\ Premises(rules[r]) \subseteq Literal
    BY <2>1 DEF Rule, Premises
  <2>3. mentioned \subseteq Literal
    BY <2>2
  <2> QED
    BY <1>2, <1>3, <2>3
<1>5. \A k \in LiteralSet(t) : Complement(k).mode = k.mode
  <2>1. \A k \in Literal : Complement(k).mode = k.mode
    BY DEF Complement, Literal
  <2> QED
    BY <2>1, LiteralSetType
<1>6. m.mode # "F"
  BY <1>4, <1>5, ClosedSetMeans
<1> QED
  BY <1>6 DEF Canonical

-----------------------------------------------------------------------------
(* More tags never undo a condition: neither does a proof or a refutation  *)
(* of a premise, nor what is built from them.                              *)

(* A premise that holds goes on holding, and one that is refuted stays     *)
(* refuted, when literals are added to the tags.                           *)
LEMMA HoldsMonotone ==
  ASSUME NEW t, NEW p1, NEW p2, p1 \subseteq p2, NEW b
  PROVE  /\ Holds(t, p1, b) => Holds(t, p2, b)
         /\ Refuted(t, p1, b) => Refuted(t, p2, b)
BY DEF Holds, Refuted

(* Neither applicability nor discarding of a rule is ever taken back by a  *)
(* further tag.                                                            *)
LEMMA ApplicableMonotone ==
  ASSUME NEW t, NEW p1, NEW p2, NEW n1, NEW n2, p1 \subseteq p2, n1 \subseteq n2, NEW r
  PROVE  /\ Applicable(t, p1, n1, r) => Applicable(t, p2, n2, r)
         /\ Discarded(t, p1, n1, r) => Discarded(t, p2, n2, r)
<1>1. \A b : /\ Satisfied(t, p1, n1, b) => Satisfied(t, p2, n2, b)
             /\ Unsatisfiable(t, p1, n1, b) => Unsatisfiable(t, p2, n2, b)
  BY HoldsMonotone DEF Satisfied, Unsatisfiable
<1> QED
  BY <1>1 DEF Applicable, Discarded

(* The definite conditions survive every further definite tag. *)
LEMMA DefiniteMonotone ==
  ASSUME NEW t, NEW p1, NEW p2, p1 \subseteq p2, NEW q
  PROVE  /\ CanInferDefinite(t, p1, q) => CanInferDefinite(t, p2, q)
         /\ CanRefuteDefinite(t, p1, q) => CanRefuteDefinite(t, p2, q)
<1>1. \A r : /\ DefinitelyApplicable(t, p1, r) => DefinitelyApplicable(t, p2, r)
             /\ DefinitelyDiscarded(t, p1, r) => DefinitelyDiscarded(t, p2, r)
  BY HoldsMonotone DEF DefinitelyApplicable, DefinitelyDiscarded
<1> QED
  BY <1>1 DEF CanInferDefinite, CanRefuteDefinite

(* The defeasible conditions survive every further tag of either level. *)
LEMMA DefeasibleMonotone ==
  ASSUME NEW t, NEW D1, NEW D2, NEW ND1, NEW ND2, NEW p1, NEW p2, NEW n1, NEW n2,
         D1 \subseteq D2, ND1 \subseteq ND2, p1 \subseteq p2, n1 \subseteq n2, NEW q
  PROVE  /\ CanInferDefeasible(t, D1, ND1, p1, n1, q) => CanInferDefeasible(t, D2, ND2, p2, n2, q)
         /\ CanRefuteDefeasible(t, D1, ND1, p1, n1, q) => CanRefuteDefeasible(t, D2, ND2, p2, n2, q)
<1>1. \A r : /\ Applicable(t, p1, n1, r) => Applicable(t, p2, n2, r)
             /\ Discarded(t, p1, n1, r) => Discarded(t, p2, n2, r)
  BY ApplicableMonotone
<1>2. \A a : /\ Beaten(t, p1, n1, q, a) => Beaten(t, p2, n2, q, a)
             /\ Overruled(t, p1, n1, q, a) => Overruled(t, p2, n2, q, a)
  BY <1>1 DEF Beaten, Overruled
<1>3. CanInferDefeasible(t, D1, ND1, p1, n1, q) => CanInferDefeasible(t, D2, ND2, p2, n2, q)
  BY <1>1, <1>2 DEF CanInferDefeasible
<1>4. CanRefuteDefeasible(t, D1, ND1, p1, n1, q) => CanRefuteDefeasible(t, D2, ND2, p2, n2, q)
  BY <1>1, <1>2 DEF CanRefuteDefeasible
<1> QED
  BY <1>3, <1>4

(* The index holds every literal a rule asserts, so what is proved is      *)
(* indexed and what is not is refuted.  Then a premise holds or is refuted *)
(* by its members in the index, the only ones the engine looks at.         *)
LEMMA MembersSuffice ==
  ASSUME NEW t \in TheoryNames, NEW p, p \subseteq LiteralSet(t), NEW n, NEW b
  PROVE  /\ Holds(t, p, b) <=> Members(t, b) \cap p # {}
         /\ Refuted(t, n \cup Unindexed(t), b) <=> Members(t, b) \subseteq n
<1>1. Members(t, b) = Matching(t, b) \cap LiteralSet(t)
  BY ClosedSetType DEF Members, Matching
<1>2. Matching(t, b) \subseteq LiteralSet(t) \cup Unindexed(t)
  BY DEF Matching, Unindexed
<1>3. LiteralSet(t) \cap Unindexed(t) = {}
  BY DEF Unindexed
<1> QED
  BY <1>1, <1>2, <1>3 DEF Holds, Refuted

-----------------------------------------------------------------------------
(* With no literal tagged both ways, a rule whose premises are no negative *)
(* modal literals is not at once applicable and discarded, and no literal  *)
(* can be both inferred and refuted.                                       *)

(* A rule without negative modal premises is not applicable and discarded  *)
(* at once, as long as no literal carries both tags.                       *)
LEMMA NotBoth ==
  ASSUME NEW t, NEW p1, NEW n1, p1 \cap n1 = {}, NEW r,
         \A s \in Slots(t, r) : ~ NegativeModal(BodyOf(t, r)[s])
  PROVE  /\ ~ (Applicable(t, p1, n1, r) /\ Discarded(t, p1, n1, r))
         /\ ~ (DefinitelyApplicable(t, p1, r) /\ DefinitelyDiscarded(t, n1, r))
<1>1. \A b : ~ (Holds(t, p1, b) /\ Refuted(t, n1, b))
  BY DEF Holds, Refuted
<1> QED
  BY <1>1 DEF Applicable, Discarded, Satisfied, Unsatisfiable, DefinitelyApplicable,
              DefinitelyDiscarded

(* The definite level has no use for refutations of a modal premise, so    *)
(* there the restriction on premises is not needed.                        *)
LEMMA NotBothDefinite ==
  ASSUME NEW t, NEW D, NEW ND, D \cap ND = {}, NEW q
  PROVE  ~ (CanInferDefinite(t, D, q) /\ CanRefuteDefinite(t, ND, q))
<1>1. \A b : ~ (Holds(t, D, b) /\ Refuted(t, ND, b))
  BY DEF Holds, Refuted
<1> QED
  BY <1>1 DEF CanInferDefinite, CanRefuteDefinite, DefinitelyApplicable, DefinitelyDiscarded

(* Without torn rules no literal satisfies both the +d and the -d          *)
(* condition: an attacker that overrules it is neither discarded nor       *)
(* beaten.                                                                 *)
LEMMA UntornOneWay ==
  ASSUME NEW t, NEW D, NEW ND, NEW p1, NEW n1, NEW q, D \cap ND = {}, Untorn(t, p1, n1)
  PROVE  ~ (CanInferDefeasible(t, D, ND, p1, n1, q) /\ CanRefuteDefeasible(t, D, ND, p1, n1, q))
<1> SUFFICES ASSUME CanInferDefeasible(t, D, ND, p1, n1, q),
                    CanRefuteDefeasible(t, D, ND, p1, n1, q)
             PROVE  FALSE
  OBVIOUS
<1>1. /\ q \in ND /\ q \notin D
      /\ Opponents(q) \subseteq ND
      /\ \A o \in Opponents(q) : o \notin D
  BY DEF CanInferDefeasible, CanRefuteDefeasible
<1>2. PICK r \in SupportingRules(t, q) : Applicable(t, p1, n1, r)
  BY <1>1 DEF CanInferDefeasible
<1>3. ~ Discarded(t, p1, n1, r)
  BY <1>2 DEF Untorn, SupportingRules, RulesWithHead
<1>4. PICK a \in AttackingRules(t, q) : Overruled(t, p1, n1, q, a)
  BY <1>1, <1>2, <1>3 DEF CanRefuteDefeasible
<1>5. ~ Discarded(t, p1, n1, a)
  BY <1>4 DEF Untorn, AttackingRules, Overruled
<1>6. Beaten(t, p1, n1, q, a)
  BY <1>1, <1>4, <1>5 DEF CanInferDefeasible
<1>7. PICK d \in DefendingRules(t, q, a) : Applicable(t, p1, n1, d) /\ Superior(t, d, a)
  BY <1>6 DEF Beaten
<1>8. Discarded(t, p1, n1, d)
  BY <1>4, <1>7 DEF Overruled
<1> QED
  BY <1>7, <1>8 DEF Untorn, DefendingRules

(* A theory without denials has no torn rule while no literal carries both *)
(* tags.                                                                   *)
LEMMA NoDenialsUntorn ==
  ASSUME NEW t, NoDenials(t), NEW p1, NEW n1, p1 \cap n1 = {}
  PROVE  Untorn(t, p1, n1)
BY NotBoth DEF NoDenials, Untorn

-----------------------------------------------------------------------------
(* Consistency.  Two opposed literals of one mode can both be inferred     *)
(* only by an endless ascent of the superiority relation: the rules of one *)
(* camp attack the literal of the other, and who defends it against them   *)
(* belongs to its own camp.                                                *)

(* A set of rules in which each has a superior one is empty.               *)
LEMMA NoAscent ==
  ASSUME NEW t, Acyclic(t), NEW R,
         \A r \in R : \E s \in R : Superior(t, s, r)
  PROVE  R = {}
<1> SUFFICES ASSUME R # {}
             PROVE  FALSE
  OBVIOUS
<1> DEFINE Template(r) == RuleOf(t, r).template
           Ranked == {pair[1] : pair \in Theories[t].sup}
           S == {x \in Ranked : \E r \in R : x = Template(r)}
<1>1. \A r \in R : \E s \in R : <<Template(s), Template(r)>> \in Theories[t].sup
  BY DEF Superior
<1>2. \A x, y : <<x, y>> \in Theories[t].sup => x \in Ranked
  <2> SUFFICES ASSUME NEW x, NEW y, <<x, y>> \in Theories[t].sup
               PROVE  x \in Ranked
    OBVIOUS
  <2>1. x = <<x, y>>[1]
    OBVIOUS
  <2> QED
    BY <2>1
<1>3. S # {} /\ S \in SUBSET Ranked
  BY <1>1, <1>2
<1>4. PICK x \in S : \A y \in S : <<y, x>> \notin Theories[t].sup
  BY <1>3 DEF Acyclic
<1>5. PICK r \in R : x = Template(r)
  BY <1>4
<1> QED
  BY <1>1, <1>2, <1>4, <1>5

(* The rules on the side of o against q. *)
Camp(t, q, o) ==
  {r \in Labels(t) :
     IF o.mode = "O" /\ ~ o.mneg /\ ~ q.mneg
     THEN HeadOf(t, r) \in {o, [o EXCEPT !.mode = "P"]}
     ELSE HeadOf(t, r) = o /\ Productive(t, r)}

(* An opponent of the same mode is the complement, or the outer negation   *)
(* of a deontic literal.                                                   *)
LEMMA SameModeOpponents ==
  ASSUME NEW q \in Literal, Canonical(q) = q, NEW o \in Opponents(q), o.mode = q.mode
  PROVE  /\ o \in Literal /\ Canonical(o) = o /\ q \in Opponents(o)
         /\ Deontic(q) <=> q.mode \in {"O", "P"}
         /\ \/ ~ Deontic(q) /\ o = Complement(q)
            \/ Deontic(q) /\ o = OuterNegation(q)
            \/ q.mode = "O" /\ ~ q.mneg /\ o = [Complement(q) EXCEPT !.mode = "O"]
<1>1. o \in Literal
  BY OpponentsType
<1>2. Canonical(o) = o
  <2>1. q.mode # "F"
    BY DEF Canonical, Literal
  <2> QED
    BY <2>1 DEF Canonical
<1>3. q \in Opponents(o)
  BY OppositionSymmetric DEF Opposes
<1>4. Deontic(q) <=> q.mode \in {"O", "P"}
  BY DEF Deontic
<1>5. CASE ~ Deontic(q)
  BY <1>1, <1>2, <1>3, <1>4, <1>5 DEF Opponents
<1>6. CASE Deontic(q) /\ o # OuterNegation(q)
  <2>1. ~ q.mneg
    BY <1>6 DEF Opponents
  <2>2. PICK m \in RivalModes(q.mode) : o = [Complement(q) EXCEPT !.mode = m]
    BY <1>6, <2>1 DEF Opponents
  <2>3. m = o.mode
    BY <2>2 DEF Complement, Literal
  <2>4. q.mode = "O"
    BY <1>4, <1>6, <2>2, <2>3 DEF RivalModes
  <2> QED
    BY <1>1, <1>2, <1>3, <1>4, <2>1, <2>2, <2>3, <2>4
<1> QED
  BY <1>1, <1>2, <1>3, <1>4, <1>5, <1>6


(* Canonical forms oppose what their literals oppose.                      *)
LEMMA CanonicalOpponents ==
  ASSUME NEW h \in Literal
  PROVE  /\ Canonical(Canonical(h)) = Canonical(h)
         /\ Opponents(Canonical(h)) = Opponents(h)
         /\ Deontic(Canonical(h)) = Deontic(h)
<1>1. Canonical(Canonical(h)) = Canonical(h)
  <2>1. Canonical(h).mode # "F"
    BY DEF Canonical, Literal
  <2> QED
    BY <2>1 DEF Canonical
<1> QED
  BY <1>1 DEF Opponents, Deontic

(* A productive rule for an opponent of q attacks q; so does a defeater,   *)
(* unless q is a permission.                                               *)
LEMMA OpponentAttacks ==
  ASSUME NEW t \in TheoryNames, NEW r \in Labels(t), NEW q \in Literal, Canonical(q) = q,
         HeadOf(t, r) \in Opponents(q), Productive(t, r) \/ q.mode # "P"
  PROVE  r \in AttackingRules(t, q)
<1>1. RuleOf(t, r).head \in Literal
  BY RuleType DEF Rule
<1>2. Opposes(HeadOf(t, r), q)
  BY OppositionSymmetric
<1>3. Opposes(RuleOf(t, r).head, q)
  BY <1>1, <1>2, CanonicalOpponents DEF Opposes, HeadOf
<1> QED
  BY <1>3 DEF AttackingRules, CanAttack

(* Who asserts o stands in its camp, and the camp attacks q.               *)
LEMMA CampAttacks ==
  ASSUME NEW t \in TheoryNames, NEW q \in Literal, Canonical(q) = q,
         NEW o \in Opponents(q), o.mode = q.mode
  PROVE  /\ SupportingRules(t, o) \subseteq Camp(t, q, o)
         /\ Camp(t, q, o) \subseteq AttackingRules(t, q)
<1>1. SupportingRules(t, o) \subseteq Camp(t, q, o)
  BY DEF SupportingRules, RulesWithHead, Camp
<1>2. ASSUME NEW r \in Camp(t, q, o)
      PROVE  r \in AttackingRules(t, q)
  <2>1. r \in Labels(t)
    BY DEF Camp
  <2>2. CASE HeadOf(t, r) = o /\ Productive(t, r)
    BY <2>1, <2>2, OpponentAttacks
  <2>3. CASE /\ o.mode = "O" /\ ~ o.mneg /\ ~ q.mneg
             /\ HeadOf(t, r) \in {o, [o EXCEPT !.mode = "P"]}
    <3>1. Deontic(q) /\ o = [Complement(q) EXCEPT !.mode = "O"]
      <4>1. q.mode = "O" /\ ~ q.mneg /\ Deontic(q)
        BY <2>3, SameModeOpponents
      <4>2. OuterNegation(q).mneg
        BY <4>1 DEF OuterNegation, Literal
      <4> QED
        BY <2>3, <4>1, <4>2, SameModeOpponents
    <3>2. \A m \in {"O", "P"} : [Complement(q) EXCEPT !.mode = m] \in Opponents(q)
      BY <2>3, <3>1 DEF Opponents, RivalModes
    <3>3. [o EXCEPT !.mode = "P"] = [Complement(q) EXCEPT !.mode = "P"]
      <4>1. \A c \in Literal : [[c EXCEPT !.mode = "O"] EXCEPT !.mode = "P"] = [c EXCEPT !.mode = "P"]
        BY DEF Literal
      <4> QED
        BY <3>1, <4>1, ComplementType
    <3>4. HeadOf(t, r) \in Opponents(q)
      BY <2>3, <3>2, <3>3
    <3> QED
      BY <2>1, <2>3, <3>4, OpponentAttacks
  <2> QED
    BY <2>2, <2>3 DEF Camp
<1> QED
  BY <1>1, <1>2

(* The defenders of q against the camp of o stand in the camp of q.        *)
LEMMA DefendersCamp ==
  ASSUME NEW t \in TheoryNames, NEW q \in Literal, Canonical(q) = q,
         NEW o \in Opponents(q), o.mode = q.mode,
         NEW a \in Camp(t, q, o), NEW d \in DefendingRules(t, q, a)
  PROVE  d \in Camp(t, o, q)
<1> DEFINE h == HeadOf(t, d)
<1>1. d \in Labels(t) /\ a \in Labels(t) /\ h \in Literal
  BY RuleType DEF DefendingRules, Camp
<1>2. CASE h = q /\ Productive(t, d)
  BY <1>1, <1>2 DEF Camp
<1>3. CASE Deontic(q) /\ ~ q.mneg /\ CanDefend(t, d, q, a)
  <2>1. HeadDefends(RuleOf(t, d).head, q, HeadOf(t, a))
    BY <1>3 DEF CanDefend
  <2>2. \/ h = q
        \/ /\ Deontic(h) /\ ~ h.mneg /\ [h EXCEPT !.mode = q.mode] = q
           /\ Opposes(RuleOf(t, d).head, HeadOf(t, a))
    <3>1. RuleOf(t, d).head \in Literal
      BY <1>1, RuleType DEF Rule
    <3> QED
      BY <2>1, <3>1, CanonicalOpponents DEF HeadDefends, HeadOf, Opposes
  <2>3. CASE q.mode = "O" /\ ~ o.mneg
    <3>1. h = q \/ [h EXCEPT !.mode = "O"] = q
      BY <2>2, <2>3
    <3>2. h = q \/ h.mode \in {"O", "P"}
      BY <2>2, <1>1 DEF Deontic, Canonical, HeadOf
    <3>3. h \in {q, [q EXCEPT !.mode = "P"]}
      BY <1>1, <3>1, <3>2 DEF Literal
    <3> QED
      BY <1>1, <1>3, <2>3, <3>3 DEF Camp
  <2>4. CASE ~ (q.mode = "O" /\ ~ o.mneg)
    <3>1. o = OuterNegation(q) /\ o.mneg
      BY <1>3, <2>4, SameModeOpponents DEF OuterNegation, Literal, Deontic
    <3>2. HeadOf(t, a) = o
      BY <3>1 DEF Camp
    <3>3. h = q
      <4>1. CASE Deontic(h) /\ ~ h.mneg /\ Opposes(RuleOf(t, d).head, HeadOf(t, a))
        <5>1. RuleOf(t, d).head \in Literal
          BY <1>1, RuleType DEF Rule
        <5>2. /\ Canonical(h) = h /\ Opponents(RuleOf(t, d).head) = Opponents(h)
          BY <5>1, CanonicalOpponents DEF HeadOf
        <5>3. o \in Opponents(h)
          BY <3>2, <4>1, <5>2, SameModeOpponents DEF Opposes
        <5>4. \A m \in RivalModes(h.mode) : ~ [Complement(h) EXCEPT !.mode = m].mneg
          BY <1>1, <4>1 DEF Complement, Literal
        <5>5. o = OuterNegation(h)
          BY <3>1, <4>1, <5>2, <5>3, <5>4 DEF Opponents
        <5>6. \A l \in Literal : Deontic(l) /\ Canonical(l) = l => OuterNegation(OuterNegation(l)) = l
          BY DEF OuterNegation, Literal, Deontic
        <5> QED
          BY <1>1, <1>3, <3>1, <4>1, <5>2, <5>5, <5>6
      <4> QED
        BY <2>2, <4>1
    <3>4. Productive(t, d)
      BY <1>3, <3>1, <3>2 DEF CanDefend
    <3> QED
      BY <1>2, <3>3, <3>4
  <2> QED
    BY <2>3, <2>4
<1> QED
  BY <1>2, <1>3 DEF DefendingRules


(* Two opposed literals of one mode that can both be inferred are both     *)
(* definite, if superiority has no cycle and no rule is torn.              *)
LEMMA BothInferred ==
  ASSUME NEW t \in TheoryNames, Acyclic(t),
         NEW D, NEW ND, NEW p1, NEW n1, D \cap ND = {}, Untorn(t, p1, n1),
         NEW q \in Literal, Canonical(q) = q, NEW o \in Opponents(q), o.mode = q.mode,
         CanInferDefeasible(t, D, ND, p1, n1, q), CanInferDefeasible(t, D, ND, p1, n1, o)
  PROVE  q \in D /\ o \in D
<1>1. /\ o \in Literal /\ Canonical(o) = o /\ q \in Opponents(o)
  BY SameModeOpponents
<1>2. q \in D <=> o \in D
  BY <1>1 DEF CanInferDefeasible
<1> SUFFICES ASSUME q \notin D, o \notin D
             PROVE  FALSE
  BY <1>2
<1> DEFINE Appl(r) == Applicable(t, p1, n1, r)
           R == {r \in Camp(t, q, o) \cup Camp(t, o, q) : Appl(r)}
<1>3. \A r \in Labels(t) : ~ (Appl(r) /\ Discarded(t, p1, n1, r))
  BY DEF Untorn
<1>4. \A r \in R : \E s \in R : Superior(t, s, r)
  <2>1. ASSUME NEW x \in Literal, Canonical(x) = x, NEW y \in Opponents(x), y.mode = x.mode,
               x \notin D, CanInferDefeasible(t, D, ND, p1, n1, x),
               NEW r \in Camp(t, x, y), Appl(r)
        PROVE  \E s \in Camp(t, y, x) : Appl(s) /\ Superior(t, s, r)
    <3>1. r \in AttackingRules(t, x) /\ r \in Labels(t)
      BY <2>1, CampAttacks DEF Camp
    <3>2. Beaten(t, p1, n1, x, r)
      BY <1>3, <2>1, <3>1 DEF CanInferDefeasible
    <3>3. PICK d \in DefendingRules(t, x, r) : Appl(d) /\ Superior(t, d, r)
      BY <3>2 DEF Beaten
    <3>4. d \in Camp(t, y, x)
      BY <2>1, DefendersCamp
    <3> QED
      BY <3>3, <3>4
  <2>2. \A r \in Camp(t, q, o) : Appl(r) =>
           \E s \in Camp(t, o, q) : Appl(s) /\ Superior(t, s, r)
    BY <2>1
  <2>3. \A r \in Camp(t, o, q) : Appl(r) =>
           \E s \in Camp(t, q, o) : Appl(s) /\ Superior(t, s, r)
    BY <1>1, <2>1
  <2> QED
    BY <2>2, <2>3
<1>5. R = {}
  BY <1>4, NoAscent
<1>6. \E r \in SupportingRules(t, o) : Appl(r)
  BY DEF CanInferDefeasible
<1>7. SupportingRules(t, o) \subseteq Camp(t, q, o)
  BY CampAttacks
<1> QED
  BY <1>5, <1>6, <1>7

=============================================================================
