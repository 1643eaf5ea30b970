---------------------------- MODULE Trust_proofs ----------------------------
(***************************************************************************)
(* The trust of a conclusion follows its derivation, for every theory      *)
(* whose premises are plain: tracing a conclusion never comes back, its    *)
(* degree is that of a derivation, and its challenges are those that the   *)
(* engine has met.  All three rest on a fact about every theory: no        *)
(* conclusions support each other in a circle.                             *)
(***************************************************************************)
EXTENDS Trust, ReasonerComplete_proofs

(* The literals concluded, whatever their spelling, and the conclusions    *)
(* about one of them.                                                      *)
Asserted   == {Canonical(c.lit) : c \in Positive}
Backing(q) == {c \in Positive : Canonical(c.lit) = q}

(* Among any literals concluded one was concluded without the others: the  *)
(* rule that its conclusions name is applicable by literals outside.       *)
Founded ==
  \A S \in SUBSET Asserted :
     S # {} =>
       \E l \in S : \A c \in Backing(l) :
          Applicable(theory, Asserted \ S, Failed, c.label)

(* Nothing is concluded defeasibly before all definite proofs are made.    *)
DefiniteFirst == phase \in {"facts", "strict", "negative"} => defeasibleProven = {}

-----------------------------------------------------------------------------
(* No circles. *)

(* What is concluded are the literals tagged +D and +d. *)
LEMMA AssertedTags ==
  ASSUME Pushed
  PROVE  Asserted = definiteProven \cup defeasibleProven
<1>1. Asserted = Lits("+D") \cup Lits("+d")
  BY DEF Asserted, Positive, Lits
<1> QED
  BY <1>1 DEF Pushed, LitsReported

(* A conclusion about a new literal, by a rule that is applicable by what  *)
(* is concluded already, closes no circle.                                 *)
LEMMA FoundedAdds ==
  ASSUME Founded, theory' = theory, Failed \subseteq Failed',
         NEW c, c \notin Positive, Positive' = Positive \cup {c}, Canonical(c.lit) \notin Asserted,
         Applicable(theory, Asserted, Failed', c.label)
  PROVE  Founded'
<1>1. Asserted' = Asserted \cup {Canonical(c.lit)}
  BY DEF Asserted
<1>2. \A l \in Asserted : Backing(l)' = Backing(l)
  BY DEF Backing
<1>3. Backing(Canonical(c.lit))' = {c}
  BY DEF Backing, Asserted
<1> SUFFICES ASSUME NEW S \in SUBSET Asserted', S # {}
             PROVE  \E l \in S : \A e \in Backing(l)' :
                       Applicable(theory, Asserted' \ S, Failed', e.label)
  BY DEF Founded
<1>4. CASE S = {Canonical(c.lit)}
  <2>1. Asserted' \ S = Asserted
    BY <1>1, <1>4
  <2> QED
    BY <1>3, <1>4, <2>1
<1>5. CASE S # {Canonical(c.lit)}
  <2> DEFINE T == S \ {Canonical(c.lit)}
  <2>1. T \in SUBSET Asserted /\ T # {}
    BY <1>1, <1>5
  <2>2. PICK l \in T : \A e \in Backing(l) :
               Applicable(theory, Asserted \ T, Failed, e.label)
    BY <2>1 DEF Founded
  <2>3. Asserted \ T \subseteq Asserted' \ S
    BY <1>1
  <2>4. \A e \in Backing(l)' : Applicable(theory, Asserted' \ S, Failed', e.label)
    BY <1>2, <2>1, <2>2, <2>3, ApplicableMonotone
  <2> QED
    BY <2>4
<1> QED
  BY <1>4, <1>5

(* Neither does a second conclusion about a literal by the same rule, nor  *)
(* a step that concludes nothing.                                          *)
LEMMA FoundedKept ==
  ASSUME Founded, theory' = theory, Failed \subseteq Failed',
         Asserted' = Asserted,
         \A c \in Positive' : \E d \in Positive : d.lit = c.lit /\ d.label = c.label
  PROVE  Founded'
<1> SUFFICES ASSUME NEW S \in SUBSET Asserted', S # {}
             PROVE  \E l \in S : \A e \in Backing(l)' :
                       Applicable(theory, Asserted' \ S, Failed', e.label)
  BY DEF Founded
<1>1. PICK l \in S : \A e \in Backing(l) :
             Applicable(theory, Asserted \ S, Failed, e.label)
  BY DEF Founded
<1>2. ASSUME NEW e \in Backing(l)'
      PROVE  Applicable(theory, Asserted' \ S, Failed', e.label)
  <2>1. PICK d \in Positive : d.lit = e.lit /\ d.label = e.label
    BY <1>2 DEF Backing
  <2>2. d \in Backing(l)
    BY <1>2, <2>1 DEF Backing
  <2> QED
    BY <1>1, <2>1, <2>2, ApplicableMonotone
<1> QED
  BY <1>2

(* One conclusion is pushed at a time. *)
LEMMA PositiveAdds ==
  ASSUME NEW tag \in {"+D", "+d"}, NEW l, NEW label,
         conclusions' = conclusions \cup {Conclude(tag, l, label)}
  PROVE  Positive' = Positive \cup {Conclude(tag, l, label)}
<1>1. Conclude(tag, l, label).tag = tag
  BY DEF Conclude
<1> QED
  BY <1>1 DEF Positive

(* In every theory no conclusions stand on each other in a circle, with    *)
(* families, denials and loops of rules: each stands on premises that were *)
(* concluded, or refuted, before it.                                       *)
THEOREM FoundedAlways == Spec => [](Founded /\ DefiniteFirst)
<1>1. Init => Founded /\ DefiniteFirst
  BY DEF Init, Founded, DefiniteFirst, Asserted, Positive
<1>2. ASSUME TypeOK, TypeOK', CountsSlots, CountsSlots', Origins, Exclusive, Sound, Sound', FlagsSound,
             PhasesDone, Pushed, Pushed', Founded, DefiniteFirst, [Next]_vars
      PROVE  Founded' /\ DefiniteFirst'
  <2>1. /\ theory \in TheoryNames /\ theory' = theory
        /\ definiteProven \subseteq definiteProven' /\ Failed \subseteq Failed'
    BY <1>2, StepKinds, FailedGrows DEF TagsGrow, TypeOK
  <2>2. Asserted = definiteProven \cup defeasibleProven
    BY <1>2, AssertedTags
  <2>3. ASSUME NEW tag \in {"+D", "+d"}, NEW r, NEW l, Canonical(l) \notin Asserted,
               conclusions' = conclusions \cup {Conclude(tag, l, r)},
               Applicable(theory, Asserted, Failed', r)
        PROVE  Founded'
    <3> DEFINE c == Conclude(tag, l, r)
    <3>1. Positive' = Positive \cup {c}
      BY <2>3, PositiveAdds
    <3>2. c.lit = l /\ c.label = r
      BY DEF Conclude
    <3> HIDE DEF c
    <3>3. Canonical(c.lit) \notin Asserted /\ c \notin Positive
      BY <2>3, <3>2 DEF Asserted
    <3> QED
      BY <1>2, <2>1, <2>3, <3>1, <3>2, <3>3, FoundedAdds
  <2>4. ASSUME Positive' = Positive
        PROVE  Founded'
    BY <1>2, <2>1, <2>4, FoundedKept DEF Asserted
  <2>5. ASSUME NEW r \in Labels(theory), DefinitelyApplicable(theory, definiteProven, r)
        PROVE  Applicable(theory, Asserted, Failed', r)
    BY <2>2, <2>5, HoldsMonotone DEF DefinitelyApplicable, Applicable, Satisfied
  <2>6. ASSUME NEW r \in unseeded, SeedFact(r)
        PROVE  Founded' /\ DefiniteFirst'
    <3>1. r \in Labels(theory) /\ BodyOf(theory, r) = << >>
      BY <1>2 DEF Origins, BodylessDefinite
    <3>2. DefinitelyApplicable(theory, definiteProven, r)
      <4>1. Slots(theory, r) = {}
        BY <3>1 DEF Slots
      <4> QED
        BY <4>1 DEF DefinitelyApplicable
    <3>3. DefiniteFirst' /\ defeasibleProven = {}
      BY <1>2, <2>6 DEF DefiniteFirst, SeedFact, defeasibleVars
    <3>4. CASE HeadOf(theory, r) \in definiteProven
      BY <2>4, <2>6, <3>3, <3>4 DEF SeedFact, Positive
    <3>5. CASE HeadOf(theory, r) \notin definiteProven
      <4>1. conclusions' = conclusions \cup {Conclude("+D", RuleOf(theory, r).head, r)}
        BY <2>6, <3>5 DEF SeedFact
      <4> QED
        BY <2>2, <2>3, <2>5, <3>1, <3>2, <3>3, <3>5, <4>1 DEF HeadOf
    <3> QED
      BY <3>4, <3>5
  <2>7. ASSUME NEW v \in visits, Visit(v[1], v[2])
        PROVE  Founded' /\ DefiniteFirst'
    <3> DEFINE r == v[2]
    <3>1. r \in Labels(theory) /\ KindOf(theory, r) = "strict" /\ v[1] \in definiteProven
      BY <1>2 DEF Origins
    <3>2. DefiniteFirst' /\ defeasibleProven = {}
      BY <1>2, <2>7 DEF DefiniteFirst, Visit, defeasibleVars
    <3>3. CASE conclusions' = conclusions
      BY <2>4, <3>2, <3>3 DEF Positive
    <3>4. CASE conclusions' # conclusions
      <4>1. /\ definiteRemaining'[r] = 0 /\ HeadOf(theory, r) \notin definiteProven
            /\ conclusions' = conclusions \cup {Conclude("+D", RuleOf(theory, r).head, r)}
            /\ definiteSatisfied' = Cover(definiteSatisfied, {r}, v[1])
        BY <2>7, <3>4 DEF Visit
      <4>2. Counted(theory, definiteSatisfied', definiteRemaining')
        BY <1>2, <2>1 DEF TypeOK, CountsSlots, Counted
      <4>3. definiteSatisfied'[r] = Slots(theory, r)
        BY <2>1, <3>1, <4>1, <4>2, ZeroMeansCovered
      <4>4. DefiniteCoversMean(definiteProven, definiteSatisfied')
        BY <1>2, <2>1, <3>1, <4>1, CoverMeans DEF Sound, Origins, TypeOK
      <4>5. DefinitelyApplicable(theory, definiteProven, r)
        BY <3>1, <4>3, <4>4 DEF DefiniteCoversMean, DefinitelyApplicable
      <4> QED
        BY <2>2, <2>3, <2>5, <3>1, <3>2, <4>1, <4>5 DEF HeadOf
    <3> QED
      BY <3>3, <3>4
  <2>8. ASSUME NEW q \in ToSeed, Seed(q)
        PROVE  Founded' /\ DefiniteFirst'
    <3>1. PICK c \in conclusions :
             /\ c.tag = "+D" /\ Canonical(c.lit) = q
             /\ conclusions' = conclusions \cup {Conclude("+d", c.lit, c.label)}
      BY <2>8 DEF Seed
    <3> DEFINE d == Conclude("+d", c.lit, c.label)
    <3>2. Positive' = Positive \cup {d}
      BY <3>1, PositiveAdds
    <3>3. d.lit = c.lit /\ d.label = c.label
      BY <3>1 DEF Conclude
    <3>4. c \in Positive
      BY <3>1 DEF Positive
    <3> HIDE DEF d
    <3>5. Asserted' = Asserted
      BY <3>2, <3>3, <3>4 DEF Asserted
    <3>6. \A e \in Positive' : \E f \in Positive : f.lit = e.lit /\ f.label = e.label
      BY <3>2, <3>3, <3>4
    <3>7. DefiniteFirst'
      BY <2>8 DEF Seed, DefiniteFirst
    <3> QED
      BY <1>2, <2>1, <3>5, <3>6, <3>7, FoundedKept
  <2>9. ASSUME NEW e \in todo, DecideProved(e[1])
        PROVE  Founded' /\ DefiniteFirst'
    <3> DEFINE q == e[1]
    <3>1. q \notin defeasibleProven \cup defeasibleDisproven
      BY <1>2 DEF Exclusive
    <3>2. phase \notin {"facts", "strict", "negative", "seed"}
      BY <1>2 DEF Origins
    <3>3. q \notin Asserted
      BY <1>2, <2>2, <3>1, <3>2 DEF PhasesDone, ToSeed, Origins
    <3> HIDE DEF q
    <3>4. DecideProved(q)
      BY <2>9 DEF q
    <3>5. PICK r \in Supporters(remaining, discarded, q) :
             conclusions' = conclusions \cup {Conclude("+d", RuleOf(theory, r).head, r)}
      BY <3>1, <3>4 DEF DecideProved
    <3>6. r \in Labels(theory) /\ remaining[r] = 0 /\ Canonical(RuleOf(theory, r).head) = q
      BY DEF Supporters, SupportingRules, RulesWithHead, HeadOf, Fires
    <3>7. Applicable(theory, defeasibleProven, Failed, r)
      BY <1>2, <3>6 DEF FlagsSound
    <3>8. Applicable(theory, Asserted, Failed', r)
      BY <2>1, <2>2, <3>7, ApplicableMonotone
    <3>9. DefiniteFirst'
      BY <3>2, <3>4 DEF DecideProved, DefiniteFirst
    <3> QED
      BY <2>3, <3>3, <3>5, <3>6, <3>8, <3>9
  <2>10. CASE Finish
    <3> DEFINE neg == {Conclude("-D", l, NoLabel) : l \in definiteDisproven \cap LiteralSet(theory)}
               negd == {Conclude("-d", l, NoLabel) : l \in defeasibleDisproven \cap LiteralSet(theory)}
    <3>1. conclusions' = conclusions \cup neg \cup negd
      BY <2>10 DEF Finish
    <3>2. \A c \in neg \cup negd : c.tag \notin {"+D", "+d"}
      BY DEF Conclude
    <3> HIDE DEF neg, negd
    <3>3. Positive' = Positive
      BY <3>1, <3>2 DEF Positive
    <3>4. DefiniteFirst'
      BY <2>10 DEF Finish, DefiniteFirst
    <3> QED
      BY <2>4, <3>3, <3>4
  <2>11. ASSUME UNCHANGED <<defeasibleProven, conclusions>>, phase' # phase => phase \in {"facts", "strict"}
                  \/ phase' \notin {"facts", "strict", "negative"}
         PROVE  Founded' /\ DefiniteFirst'
    BY <1>2, <2>4, <2>11 DEF DefiniteFirst, Positive
  <2>12. ASSUME NEW e \in todo, DecideDisproved(e[1])
         PROVE  Founded' /\ DefiniteFirst'
    BY <2>11, <2>12 DEF DecideDisproved, definiteVars
  <2>13. CASE \/ SeededFacts \/ \E q \in definiteWorklist : PopDefinite(q)
              \/ ForwardDone \/ NegativeDone \/ DeriveNegative
    <3>1. CASE SeededFacts \/ ForwardDone \/ NegativeDone
      BY <2>11, <3>1 DEF SeededFacts, ForwardDone, NegativeDone, defeasibleVars
    <3>2. CASE \E q \in definiteWorklist : PopDefinite(q)
      BY <2>11, <3>2 DEF PopDefinite, defeasibleVars
    <3>3. CASE DeriveNegative
      BY <2>11, <3>3 DEF DeriveNegative, defeasibleVars
    <3> QED
      BY <2>13, <3>1, <3>2, <3>3
  <2>14. CASE \/ StartRules \/ \E q \in ClosedSet(theory) : PopProved(q) \/ PopDisproved(q)
              \/ Sweep
    BY <2>11, <2>14 DEF StartRules, PopProved, PopDisproved, Sweep, defeasibleVars
  <2>15. CASE UNCHANGED vars
    BY <2>11, <2>15 DEF vars, defeasibleVars
  <2> QED
    BY <1>2, <2>6, <2>7, <2>8, <2>9, <2>10, <2>12, <2>13, <2>14, <2>15 DEF Next, Definite, Defeasible
<1> QED
  BY <1>1, <1>2, TypeCorrect, TagsOriginate, ExclusiveAlways, SoundAlways, FlagsSoundAlways,
     PhasesDoneAlways, PushedAlways, PTL DEF Spec

-----------------------------------------------------------------------------
(* Tracing. *)

(* The best conclusion about a literal is one about it.                    *)
LEMMA BestEntry ==
  ASSUME NEW l \in Concluded
  PROVE  Best(l) \in Entries(l)
<1>1. PICK c \in Positive : c.lit = l
  BY DEF Concluded
<1>2. c \in Entries(l)
  BY <1>1 DEF Entries
<1> DEFINE definite == {e \in Entries(l) : e.tag = "+D"}
           best == IF definite # {} THEN definite ELSE Entries(l)
<1>3. best # {} /\ best \subseteq Entries(l)
  BY <1>2
<1>4. Best(l) = CHOOSE e \in best : TRUE
  BY DEF Best
<1> HIDE DEF best
<1> QED
  BY <1>3, <1>4

(* A derivation is followed through premises that are concluded. *)
LEMMA LinksConcluded ==
  ASSUME NEW r
  PROVE  Links(r) \subseteq Concluded
BY DEF Links, Entries, Concluded

(* A conclusion names a rule that asserts it in its spelling.              *)
LEMMA EntryRule ==
  ASSUME Pushed, NEW c \in Positive
  PROVE  /\ c.label \in Labels(theory) /\ RuleOf(theory, c.label).head = c.lit
         /\ HeadOf(theory, c.label) = Canonical(c.lit) /\ Productive(theory, c.label)
BY DEF Pushed, Reason, Positive, DefinitelyBy, Productive, HeadOf

(* Where premises are plain, a rule that is applicable by literals of P,   *)
(* all of them concluded, has its premises concluded as it spells them,    *)
(* and they are in P.                                                      *)
LEMMA PlainMet ==
  ASSUME Pushed, PlainPremises(theory), NEW P \in SUBSET Asserted, NEW nd,
         NEW r \in Labels(theory), Applicable(theory, P, nd, r), NEW s \in Slots(theory, r)
  PROVE  LET b == BodyOf(theory, r)[s]
         IN  b \in Concluded /\ Canonical(b) \in P /\ Satisfies(Canonical(b), b)
<1> DEFINE b == BodyOf(theory, r)[s]
<1>1. ~ NegativeModal(b)
  BY DEF PlainPremises
<1>2. PICK m \in P : Satisfies(m, b)
  BY <1>1 DEF Applicable, Satisfied, Holds, Matching
<1>3. PICK c \in Positive : Canonical(c.lit) = m
  BY DEF Asserted
<1>4. c.lit = b
  BY <1>2, <1>3, EntryRule DEF PlainPremises
<1> QED
  BY <1>2, <1>3, <1>4 DEF Concluded

(* In such a theory any concluded literals have one among them whose       *)
(* conclusions stand on none of them.                                      *)
LEMMA LeadsOut ==
  ASSUME Founded, Pushed, PlainPremises(theory), NEW S \in SUBSET Concluded, S # {}
  PROVE  \E l \in S : \A c \in Entries(l) : Links(c.label) \cap S = {}
<1> DEFINE T == {Canonical(l) : l \in S}
<1>1. T \in SUBSET Asserted /\ T # {}
  BY DEF Concluded, Asserted
<1>2. PICK q \in T : \A c \in Backing(q) : Applicable(theory, Asserted \ T, Failed, c.label)
  BY <1>1 DEF Founded
<1>3. PICK l \in S : Canonical(l) = q
  OBVIOUS
<1>4. ASSUME NEW c \in Entries(l), NEW b \in Links(c.label)
      PROVE  b \notin S
  <2>1. PICK s \in Slots(theory, c.label) : b = BodyOf(theory, c.label)[s]
    BY <1>4 DEF Links
  <2>2. c \in Positive /\ c \in Backing(q) /\ c.label \in Labels(theory)
    BY <1>3, <1>4, EntryRule DEF Entries, Backing
  <2>3. Applicable(theory, Asserted \ T, Failed, c.label)
    BY <1>2, <2>2
  <2>4. Canonical(BodyOf(theory, c.label)[s]) \in Asserted \ T
    BY <2>2, <2>3, PlainMet
  <2> QED
    BY <2>1, <2>4
<1> QED
  BY <1>3, <1>4

(* What is below the root of a tree contains the premises of the root and  *)
(* of whatever it contains but the root's own literal.                     *)
LEMMA BelowClosed ==
  ASSUME NEW l, NEW r
  PROVE  /\ Below(l, r) \subseteq Concluded
         /\ Links(r) \subseteq Below(l, r)
         /\ Followed(l, Below(l, r))
<1>1. Below(l, r) \subseteq Concluded
  BY DEF Below
<1>2. Links(r) \subseteq Below(l, r)
  BY LinksConcluded DEF Below
<1>3. ASSUME NEW m \in Below(l, r) \ {l}, NEW b \in Links(Best(m).label)
      PROVE  b \in Below(l, r)
  <2>1. \A S \in SUBSET Concluded : Links(r) \subseteq S /\ Followed(l, S) => b \in S
    BY <1>3 DEF Below, Followed
  <2>2. b \in Concluded
    BY LinksConcluded
  <2> QED
    BY <2>1, <2>2 DEF Below
<1> QED
  BY <1>1, <1>2, <1>3 DEF Followed

(* A trace that is followed from a conclusion never comes back to it.      *)
LEMMA RootNotBelow ==
  ASSUME Founded, Pushed, PlainPremises(theory), NEW c \in Positive
  PROVE  c.lit \notin Below(c.lit, c.label)
<1> DEFINE l == c.lit
           Away == {S \in SUBSET Concluded : Followed(l, S) /\ l \notin S}
           W == UNION Away
           U == Concluded \ W
<1>1. W \subseteq Concluded /\ l \notin W
  OBVIOUS
<1>2. Followed(l, W)
  BY DEF Followed
<1>3. l \in Concluded /\ c \in Entries(l)
  BY DEF Concluded, Entries
<1>4. l \in U /\ U \in SUBSET Concluded
  BY <1>1, <1>3
<1>5. ASSUME NEW k \in U, k # l, Links(Best(k).label) \cap U = {}
      PROVE  FALSE
  <2>1. Links(Best(k).label) \subseteq W
    BY <1>5, LinksConcluded
  <2> DEFINE V == W \cup {k}
  <2>2. V \subseteq Concluded /\ l \notin V
    BY <1>1, <1>5
  <2>3. Followed(l, V)
    BY <1>2, <2>1 DEF Followed
  <2>4. V \in Away
    BY <2>2, <2>3
  <2> QED
    BY <1>5, <2>4
<1> HIDE DEF W
<1>6. PICK k \in U : \A e \in Entries(k) : Links(e.label) \cap U = {}
  BY <1>4, LeadsOut
<1>7. k = l
  BY <1>5, <1>6, BestEntry
<1>8. Links(c.label) \subseteq W
  BY <1>3, <1>6, <1>7, LinksConcluded
<1> QED
  BY <1>1, <1>2, <1>8 DEF Below

(* Where premises are plain, the rules that conclusions name make a        *)
(* derivation: tracing one never comes back to a literal it has visited,   *)
(* and the default trust of a cycle decides no degree.                     *)
THEOREM PlainNeverCut == Spec => [](PlainPremises(theory) => NeverCut)
<1>1. ASSUME Founded, Pushed
      PROVE  PlainPremises(theory) => NeverCut
  <2> SUFFICES ASSUME PlainPremises(theory), NEW c \in Positive, ComesBack(c.lit, c.label)
               PROVE  FALSE
    BY DEF NeverCut
  <2> DEFINE l == c.lit
             r == c.label
  <2>1. l \notin Below(l, r)
    BY <1>1, RootNotBelow
  <2>2. PICK S \in SUBSET (Below(l, r) \ {l}) : Circular(S)
    BY <2>1 DEF ComesBack
  <2>3. S \in SUBSET Concluded /\ S # {}
    BY <2>2, BelowClosed DEF Circular
  <2>4. PICK k \in S : \A e \in Entries(k) : Links(e.label) \cap S = {}
    BY <1>1, <2>3, LeadsOut
  <2>5. Best(k) \in Entries(k)
    BY <2>3, BestEntry
  <2> QED
    BY <2>2, <2>4, <2>5 DEF Circular
<1> QED
  BY <1>1, FoundedAlways, PushedAlways, PTL

(* Where premises are plain, a conclusion whose degree reaches a threshold *)
(* follows from rules that all reach it, whatever sources and policy give  *)
(* to the other rules.                                                     *)
THEOREM PlainWeakestLink == Spec => [](PlainPremises(theory) => WeakestLink)
<1>1. ASSUME theory \in TheoryNames, Founded, Pushed
      PROVE  PlainPremises(theory) => WeakestLink
  <2> SUFFICES ASSUME PlainPremises(theory), NEW trusted \in SUBSET Labels(theory), NEW c \in Positive,
                      Reaches(trusted, c.lit, c.label),
                      NEW S \in SUBSET LiteralSet(theory), Upheld(trusted, S), Canonical(c.lit) \notin S
               PROVE  FALSE
    BY DEF WeakestLink
  <2> DEFINE l == c.lit
             r == c.label
             U == {m \in {l} \cup Below(l, r) : Canonical(m) \notin S}
             T == {Canonical(m) : m \in U}
  <2>1. c \in Entries(l) /\ l \in Concluded
    BY DEF Entries, Concluded
  <2>2. U \in SUBSET Concluded /\ l \in U
    BY <2>1, BelowClosed
  <2>3. T \in SUBSET Asserted /\ T # {}
    BY <2>2 DEF Concluded, Asserted
  <2>8. PICK q \in T : \A e \in Backing(q) : Applicable(theory, Asserted \ T, Failed, e.label)
    BY <1>1, <2>3 DEF Founded
  <2>9. PICK k \in U : Canonical(k) = q
    OBVIOUS
  <2>4. PICK e \in Entries(k) : e.label \in trusted /\ Links(e.label) \subseteq Below(l, r)
    <3>1. CASE k = l
      <4>1. r \in trusted /\ Links(r) \subseteq Below(l, r)
        BY BelowClosed DEF Reaches
      <4> QED
        BY <2>1, <3>1, <4>1
    <3>2. CASE k # l
      <4>1. k \in Below(l, r) \ {l}
        BY <3>2
      <4>2. Best(k).label \in trusted
        BY <4>1 DEF Reaches
      <4>3. Links(Best(k).label) \subseteq Below(l, r)
        BY <4>1, BelowClosed DEF Followed
      <4>4. Best(k) \in Entries(k)
        BY <2>2, BestEntry
      <4> QED
        BY <4>2, <4>3, <4>4
    <3> QED
      BY <3>1, <3>2
  <2>5. /\ e \in Positive /\ e \in Backing(q) /\ e.label \in Labels(theory)
        /\ HeadOf(theory, e.label) = Canonical(k) /\ Productive(theory, e.label)
    BY <1>1, <2>9, EntryRule DEF Entries, Backing
  <2>6. ASSUME NEW s \in Slots(theory, e.label)
        PROVE  Holds(theory, S, BodyOf(theory, e.label)[s])
    <3> DEFINE b == BodyOf(theory, e.label)[s]
    <3>1. Applicable(theory, Asserted \ T, Failed, e.label)
      BY <2>5, <2>8
    <3>2. b \in Concluded /\ Canonical(b) \in Asserted \ T /\ Satisfies(Canonical(b), b)
      BY <1>1, <2>5, <3>1, PlainMet
    <3>3. b \in Below(l, r)
      BY <2>4, <2>6, <3>2 DEF Links, Entries, Concluded
    <3>4. Canonical(b) \in S
      BY <3>2, <3>3
    <3> QED
      BY <1>1, <3>2, <3>4, ClosedSetType DEF Holds, Matching
  <2>7. HeadOf(theory, e.label) \in S
    BY <2>4, <2>5, <2>6 DEF Upheld
  <2> QED
    BY <2>5, <2>7
<1>2. TypeOK => theory \in TheoryNames
  BY DEF TypeOK
<1> QED
  BY <1>1, <1>2, TypeCorrect, FoundedAlways, PushedAlways, PTL

-----------------------------------------------------------------------------
(* Challenges. *)

(* Where premises are plain, the trust pass, which looks at the texts of   *)
(* premises, finds those defeaters to have fired that the engine, which    *)
(* counts slots, has found applicable, and each of them was overcome by a  *)
(* superior rule.                                                          *)
THEOREM PlainChallengesMet == Spec => [](PlainPremises(theory) => ChallengesMet)
<1>1. ASSUME TypeOK, Coherent, FlagsSound, FlagsComplete, Justified, Pushed, DefiniteFirst,
             PhasesDone, Origins
      PROVE  PlainPremises(theory) => ChallengesMet
  <2> SUFFICES ASSUME PlainPremises(theory), phase = "done", NEW c \in Positive,
                      Canonical(c.lit) \notin definiteProven,
                      NEW r \in AttackingRules(theory, Canonical(c.lit)),
                      KindOf(theory, r) = "defeater"
               PROVE  /\ r \in Diminishers(c.lit) <=> remaining[r] = 0
                      /\ remaining[r] = 0 =>
                           \E d \in DefendingRules(theory, Canonical(c.lit), r) :
                              remaining[d] = 0 /\ Superior(theory, d, r)
    BY DEF ChallengesMet
  <2> DEFINE q == Canonical(c.lit)
             Now(k) == Applicable(theory, defeasibleProven, Failed, k)
  <2>1. /\ theory \in TheoryNames /\ FailedInReference = Failed
        /\ defeasibleProven \cap Failed = {}
    BY <1>1 DEF TypeOK, FailedInReference, Failed, Origins, Coherent, Unindexed
  <2>2. \A k \in Labels(theory) : Now(k) <=> remaining[k] = 0
    BY <1>1 DEF FlagsSound, FlagsComplete
  <2>3. Asserted = defeasibleProven
    BY <1>1, AssertedTags DEF PhasesDone, ToSeed, Origins
  <2>4. r \in Labels(theory) /\ CanAttack(theory, r, c.lit)
    <3>1. c.lit \in Literal
      BY <1>1 DEF TypeOK, Positive
    <3>2. Canonical(q) = q
      BY <3>1, CanonicalOpponents
    <3>3. r \in Labels(theory) /\ CanAttack(theory, r, q)
      BY DEF AttackingRules
    <3> QED
      BY <3>2, <3>3 DEF CanAttack
  <2>5. r \in Diminishers(c.lit) <=> remaining[r] = 0
    <3>1. ASSUME remaining[r] = 0, NEW s \in Slots(theory, r)
          PROVE  Entries(BodyOf(theory, r)[s]) # {}
      <4>1. BodyOf(theory, r)[s] \in Concluded
        BY <1>1, <2>2, <2>3, <2>4, <3>1, PlainMet
      <4> QED
        BY <4>1 DEF Concluded, Entries
    <3>2. ASSUME NEW s \in Slots(theory, r), Entries(BodyOf(theory, r)[s]) # {}
          PROVE  Satisfied(theory, defeasibleProven, Failed, BodyOf(theory, r)[s])
      <4> DEFINE b == BodyOf(theory, r)[s]
      <4>1. Canonical(b) \in defeasibleProven
        BY <2>3, <3>2 DEF Asserted, Entries
      <4>2. b \in Literal
        BY <2>1, <2>4, SlotsType
      <4>3. Canonical(b) \in Matching(theory, b)
        BY <1>1, <2>1, <4>1, <4>2, CanonicalSatisfies, ClosedSetType DEF Matching, Origins
      <4> QED
        BY <4>1, <4>3 DEF Satisfied, Holds
    <3> QED
      BY <2>2, <2>4, <3>1, <3>2 DEF Diminishers, Applicable
  <2>6. ASSUME remaining[r] = 0
        PROVE  \E d \in DefendingRules(theory, q, r) : remaining[d] = 0 /\ Superior(theory, d, r)
    <3>1. q \in defeasibleProven
      BY <2>3 DEF Asserted
    <3>2. CanInferDefeasible(theory, definiteProven, definiteDisproven, defeasibleProven, Failed, q)
      BY <1>1, <2>1, <3>1 DEF Justified
    <3>3. \/ Discarded(theory, defeasibleProven, Failed, r)
          \/ Beaten(theory, defeasibleProven, Failed, q, r)
      BY <3>2 DEF CanInferDefeasible
    <3>4. Now(r) /\ ~ Discarded(theory, defeasibleProven, Failed, r)
      BY <2>1, <2>2, <2>4, <2>6, NotBoth DEF PlainPremises
    <3>5. PICK d \in DefendingRules(theory, q, r) : Now(d) /\ Superior(theory, d, r)
      BY <3>3, <3>4 DEF Beaten
    <3>6. d \in Labels(theory)
      BY DEF DefendingRules
    <3> QED
      BY <2>2, <3>5, <3>6
  <2> QED
    BY <2>5, <2>6
<1> QED
  BY <1>1, TypeCorrect, TagsOriginate, FlagsSoundAlways, FlagsCompleteAlways, JustifiedAlways,
     PushedAlways, FoundedAlways, PhasesDoneAlways, PTL
=============================================================================
