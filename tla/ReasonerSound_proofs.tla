------------------------ MODULE ReasonerSound_proofs ------------------------
(***************************************************************************)
(* The engine never says more than it may, for every theory: what its      *)
(* counters and flags call applicable or discarded is so in the proof      *)
(* theory, every decision on an agenda is one of its inferences, and so    *)
(* every step draws one inference of DefeasibleLogic or leaves the tags    *)
(* alone.                                                                  *)
(***************************************************************************)
EXTENDS Reasoner_proofs

-----------------------------------------------------------------------------
(* The parts of the invariant, as operators of what they speak of.         *)

(* familyLive counts the members of a family that no -d event has removed. *)
CountsFamily ==
  \A f \in DOMAIN familyLive :
     familyLive[f] = Cardinality(FamilyMembers(f) \ countedDead)

DefiniteCoversMean(pD, sat) ==
  \A r \in Labels(theory) : \A s \in sat[r] : Holds(theory, pD, BodyOf(theory, r)[s])

CoversMean(pd, nd, sat) ==
  \A r \in Labels(theory) : \A s \in sat[r] :
     Satisfied(theory, pd, nd, BodyOf(theory, r)[s])

DiscardsMean(pd, nd, disc) ==
  \A r \in Labels(theory) : disc[r] => Discarded(theory, pd, nd, r)

FlagsMean(pd, nd, rem, disc) ==
  \A r \in Labels(theory) : /\ rem[r] = 0 => Applicable(theory, pd, nd, r)
                            /\ disc[r] => Discarded(theory, pd, nd, r)

Decision(e) ==
  IF e[2] THEN CanInferDefeasible(theory, definiteProven, definiteDisproven,
                                  defeasibleProven, Failed, e[1])
          ELSE CanRefuteDefeasible(theory, definiteProven, definiteDisproven,
                                   defeasibleProven, Failed, e[1])

Sound ==
  /\ DefiniteCoversMean(definiteProven, definiteSatisfied)
  /\ CoversMean(defeasibleProven, Failed, satisfied)
  /\ DiscardsMean(defeasibleProven, Failed, discarded)
  /\ CountsFamily
  /\ \A e \in todo : Decision(e)

-----------------------------------------------------------------------------
(* All of them are kept by further tags. *)

(* What the covered slots and the discard flags mean is kept by every      *)
(* further tag.                                                            *)
LEMMA MeaningMonotone ==
  ASSUME NEW p1, NEW p2, NEW n1, NEW n2, p1 \subseteq p2, n1 \subseteq n2
  PROVE  /\ \A sat : DefiniteCoversMean(p1, sat) => DefiniteCoversMean(p2, sat)
         /\ \A sat : CoversMean(p1, n1, sat) => CoversMean(p2, n2, sat)
         /\ \A disc : DiscardsMean(p1, n1, disc) => DiscardsMean(p2, n2, disc)
<1>1. \A b : /\ Holds(theory, p1, b) => Holds(theory, p2, b)
             /\ Satisfied(theory, p1, n1, b) => Satisfied(theory, p2, n2, b)
  BY HoldsMonotone DEF Satisfied
<1>2. \A r : Discarded(theory, p1, n1, r) => Discarded(theory, p2, n2, r)
  BY ApplicableMonotone
<1> QED
  BY <1>1, <1>2 DEF DefiniteCoversMean, CoversMean, DiscardsMean

(* A counter at zero means that every slot is covered.                     *)
LEMMA ZeroMeansCovered ==
  ASSUME theory \in TheoryNames, NEW sat, NEW rem, Counted(theory, sat, rem),
         NEW r \in Labels(theory), rem[r] = 0
  PROVE  sat[r] = Slots(theory, r)
<1>1. /\ sat[r] \in SUBSET Slots(theory, r) /\ IsFiniteSet(Slots(theory, r))
      /\ rem[r] = Cardinality(Slots(theory, r)) - Cardinality(sat[r])
  BY SlotsType DEF Counted
<1>2. IsFiniteSet(sat[r])
  BY <1>1, FS_Subset
<1>3. Cardinality(sat[r]) \in Nat /\ Cardinality(Slots(theory, r)) \in Nat
  BY <1>1, <1>2, FS_CardinalityType
<1>4. Cardinality(Slots(theory, r)) = Cardinality(sat[r])
  BY <1>1, <1>3
<1> QED
  BY <1>1, <1>4, FS_Subset

(* Counters that count the covered slots, and marks that mean what they    *)
(* say, make flags that mean what they say.                                *)
LEMMA MarksMean ==
  ASSUME theory \in TheoryNames, NEW pd, NEW nd, NEW sat, NEW rem, NEW disc,
         Counted(theory, sat, rem), CoversMean(pd, nd, sat), DiscardsMean(pd, nd, disc)
  PROVE  FlagsMean(pd, nd, rem, disc)
<1>1. ASSUME NEW r \in Labels(theory), rem[r] = 0
      PROVE  Applicable(theory, pd, nd, r)
  <2>1. sat[r] = Slots(theory, r)
    BY <1>1, ZeroMeansCovered
  <2> QED
    BY <2>1 DEF CoversMean, Applicable
<1> QED
  BY <1>1 DEF FlagsMean, DiscardsMean

(* The engine's two conditions, read off sound flags, are those of the     *)
(* proof theory.                                                           *)
LEMMA AgendaMeans ==
  ASSUME theory \in TheoryNames, NEW rem, NEW disc, NEW prove, NEW disprove,
         FlagsMean(defeasibleProven, Failed, rem, disc),
         NEW e \in Agenda(rem, disc, prove, disprove)
  PROVE  Decision(e)
<1> DEFINE q == e[1]
           Appl(r) == Applicable(theory, defeasibleProven, Failed, r)
           Disc(r) == Discarded(theory, defeasibleProven, Failed, r)
<1>1. /\ e[2] \in BOOLEAN
      /\ e[2] => CanProve(rem, disc, q)
      /\ ~ e[2] => CanDisprove(rem, disc, q)
  BY AgendaOrigins
<1>2. /\ \A r \in Labels(theory) : Fires(rem, disc, r) => Appl(r)
      /\ \A r \in Labels(theory) : disc[r] => Disc(r)
  BY DEF FlagsMean, Fires
<1>3. /\ SupportingRules(theory, q) \subseteq Labels(theory)
      /\ AttackingRules(theory, q) \subseteq Labels(theory)
      /\ \A a : DefendingRules(theory, q, a) \subseteq Labels(theory)
  BY DEF SupportingRules, RulesWithHead, AttackingRules, DefendingRules
<1>4. CASE e[2]
  <2> SUFFICES ASSUME q \notin definiteProven
               PROVE  CanInferDefeasible(theory, definiteProven, definiteDisproven,
                                         defeasibleProven, Failed, q)
    BY <1>4 DEF Decision, CanInferDefeasible
  <2>1. CanProve(rem, disc, q)
    BY <1>1, <1>4
  <2>2. Opponents(q) \subseteq definiteDisproven
    BY <2>1 DEF CanProve
  <2>3. \E r \in SupportingRules(theory, q) : Appl(r)
    BY <1>2, <1>3, <2>1 DEF CanProve, Supporters
  <2>4. \A a \in AttackingRules(theory, q) :
           Disc(a) \/ Beaten(theory, defeasibleProven, Failed, q, a)
    BY <1>2, <1>3, <2>1 DEF CanProve, Beaten
  <2> QED
    BY <2>2, <2>3, <2>4 DEF CanInferDefeasible
<1>5. CASE ~ e[2]
  <2>1. CanDisprove(rem, disc, q)
    BY <1>1, <1>5
  <2>2. CASE Opponents(q) \cap definiteProven # {}
    BY <1>5, <2>1, <2>2 DEF CanDisprove, Decision, CanRefuteDefeasible
  <2>3. CASE \A r \in SupportingRules(theory, q) : disc[r]
    BY <1>2, <1>3, <1>5, <2>1, <2>3 DEF CanDisprove, Decision, CanRefuteDefeasible
  <2>4. ASSUME NEW a \in AttackingRules(theory, q), Unbeatable(rem, disc, q, a)
        PROVE  Decision(e)
    <3>1. Overruled(theory, defeasibleProven, Failed, q, a)
      BY <1>2, <1>3, <2>4 DEF Unbeatable, Overruled
    <3> QED
      BY <1>5, <2>1, <3>1 DEF CanDisprove, Decision, CanRefuteDefeasible
  <2> QED
    BY <2>1, <2>2, <2>3, <2>4 DEF CanDisprove
<1> QED
  BY <1>1, <1>4, <1>5

-----------------------------------------------------------------------------
(* What the handlers add is sound. *)

(* A slot that a proven literal of the theory matches is satisfied.        *)
LEMMA MatchedMeans ==
  ASSUME theory \in TheoryNames, NEW q \in LiteralSet(theory), NEW pd, q \in pd, NEW r \in Labels(theory),
         NEW s \in MatchedSlots(theory, r, q)
  PROVE  Holds(theory, pd, BodyOf(theory, r)[s])
BY ClosedSetType DEF MatchedSlots, Matching, Holds

(* The slots cover_body_slots adds for a +d literal hold by that literal. *)
LEMMA CoverMeans ==
  ASSUME theory \in TheoryNames, NEW q \in LiteralSet(theory), NEW pd, NEW nd, q \in pd, NEW sat, NEW hit
  PROVE  /\ DefiniteCoversMean(pd, sat) => DefiniteCoversMean(pd, Cover(sat, hit, q))
         /\ CoversMean(pd, nd, sat) => CoversMean(pd, nd, Cover(sat, hit, q))
<1>1. \A r \in Labels(theory) : \A s \in Cover(sat, hit, q)[r] :
         s \in sat[r] \/ Holds(theory, pd, BodyOf(theory, r)[s])
  BY MatchedMeans DEF Cover
<1> QED
  BY <1>1 DEF DefiniteCoversMean, CoversMean, Satisfied

(* The sweep's two answers about a negative modal premise are those of the *)
(* proof theory.                                                           *)
LEMMA RefutationsMean ==
  ASSUME theory \in TheoryNames, Origins, NEW r \in Labels(theory)
  PROVE  /\ \A s \in Refutations(r) :
              Satisfied(theory, defeasibleProven, Failed, BodyOf(theory, r)[s])
         /\ SweepDiscards(r) => Discarded(theory, defeasibleProven, Failed, r)
<1>1. \A s : /\ AllRefuted(r, s) => Refuted(theory, Failed, OuterNegation(BodyOf(theory, r)[s]))
             /\ Denied(r, s) \cap defeasibleProven # {} =>
                  Holds(theory, defeasibleProven, OuterNegation(BodyOf(theory, r)[s]))
  BY MembersSuffice DEF Origins, AllRefuted, Denied, Failed
<1> QED
  BY <1>1 DEF Refutations, NegativeSlots, SweepDiscards, Satisfied, Discarded, Unsatisfiable

(* A refuted literal leaves its family one member poorer.                  *)
LEMMA FamilyCounted ==
  ASSUME TypeOK, CountsFamily, NEW q, PopDisproved(q)
  PROVE  CountsFamily'
<1>1. theory' = theory
  BY DEF PopDisproved
<1>2. \A f : FamilyMembers(f)' = FamilyMembers(f)
  BY <1>1 DEF FamilyMembers
<1>3. CASE q \notin LiteralSet(theory) \ countedDead
  BY <1>2, <1>3 DEF PopDisproved, CountsFamily
<1>4. CASE q \in LiteralSet(theory) \ countedDead
  <2>1. /\ countedDead' = countedDead \cup {q}
        /\ familyLive' = [familyLive EXCEPT ![Family(q)] = Saturate(@, 1)]
    BY <1>4 DEF PopDisproved
  <2>2. DOMAIN familyLive' = DOMAIN familyLive
    BY <2>1
  <2> SUFFICES ASSUME NEW f \in DOMAIN familyLive
               PROVE  familyLive'[f] = Cardinality(FamilyMembers(f) \ countedDead')
    BY <1>2, <2>2 DEF CountsFamily
  <2> DEFINE S == FamilyMembers(f) \ countedDead
  <2>3. /\ IsFiniteSet(S) /\ Cardinality(S) \in Nat /\ familyLive[f] = Cardinality(S)
    <3>1. S \in SUBSET LiteralSet(theory) /\ theory \in TheoryNames
      BY DEF FamilyMembers, TypeOK
    <3>2. IsFiniteSet(S)
      BY <3>1, LiteralSetType, FS_Subset
    <3> QED
      BY <3>2, FS_CardinalityType DEF CountsFamily
  <2>4. CASE f = Family(q)
    <3>1. q \in S /\ FamilyMembers(f) \ countedDead' = S \ {q}
      BY <1>4, <2>1, <2>4 DEF FamilyMembers
    <3>2. IsFiniteSet(S \ {q}) /\ Cardinality(S \ {q}) = Cardinality(S) - 1
      BY <2>3, <3>1, FS_RemoveElement
    <3>3. Cardinality(S \ {q}) \in Nat
      BY <3>2, FS_CardinalityType
    <3>4. familyLive'[f] = Saturate(familyLive[f], 1)
      BY <2>1, <2>4
    <3> HIDE DEF S
    <3>5. Saturate(Cardinality(S), 1) = Cardinality(S) - 1
      BY <2>3, <3>2, <3>3 DEF Saturate
    <3> QED
      BY <2>3, <3>1, <3>2, <3>4, <3>5
  <2>5. CASE f # Family(q)
    <3>1. FamilyMembers(f) \ countedDead' = S
      BY <2>1, <2>5 DEF FamilyMembers
    <3>2. familyLive'[f] = familyLive[f]
      BY <2>1, <2>5
    <3> QED
      BY <2>3, <3>1, <3>2
  <2> QED
    BY <2>4, <2>5
<1> QED
  BY <1>3, <1>4

(* A rule the refutation of q discards has a slot all of whose members are *)
(* refuted: the exact literal of a temporal premise, the whole family of   *)
(* an atemporal one.                                                       *)
LEMMA DiscardMeans ==
  ASSUME TypeOK, CountsFamily, CountsFamily', NEW q \in ClosedSet(theory), PopDisproved(q),
         q \in defeasibleDisproven, countedDead' \subseteq defeasibleDisproven,
         DOMAIN familyLive' = DOMAIN familyLive,
         NEW r \in Labels(theory), NEW s \in MatchedSlots(theory, r, q),
         ~ NegativeModal(BodyOf(theory, r)[s]),
         Temporal(BodyOf(theory, r)[s]) \/ familyLive'[Family(q)] = 0
  PROVE  Unsatisfiable(theory, defeasibleProven, Failed, BodyOf(theory, r)[s])
<1> DEFINE b == BodyOf(theory, r)[s]
<1>1. theory \in TheoryNames /\ theory' = theory
  BY DEF TypeOK, PopDisproved
<1>2. Satisfies(q, b)
  BY DEF MatchedSlots
<1>3. SUFFICES ASSUME NEW m \in Members(theory, b)
               PROVE  m \in defeasibleDisproven
  <2>1. Members(theory, b) \subseteq defeasibleDisproven => Refuted(theory, Failed, b)
    BY <1>1, MembersSuffice DEF Failed
  <2> QED
    BY <2>1 DEF Unsatisfiable
<1>4. m \in LiteralSet(theory) /\ Satisfies(m, b) /\ Canonical(q) = q /\ Canonical(m) = m
  BY <1>1, CanonicalSet, ClosedSetType DEF Members
<1>5. CASE Temporal(b)
  BY <1>2, <1>4, <1>5 DEF Satisfies
<1>6. CASE ~ Temporal(b)
  <2> DEFINE f == Family(q)
  <2>1. Family(m) = f
    BY <1>2, <1>4, <1>6 DEF Satisfies
  <2>2. f \in DOMAIN familyLive'
    BY <1>4, <2>1 DEF TypeOK
  <2>3. Cardinality(FamilyMembers(f) \ countedDead') = 0
    BY <1>1, <1>6, <2>2 DEF CountsFamily, FamilyMembers
  <2>4. IsFiniteSet(FamilyMembers(f) \ countedDead')
    <3>1. FamilyMembers(f) \ countedDead' \in SUBSET LiteralSet(theory)
      BY DEF FamilyMembers
    <3> QED
      BY <1>1, <3>1, LiteralSetType, FS_Subset
  <2>5. FamilyMembers(f) \ countedDead' = {}
    BY <2>3, <2>4, FS_EmptySet
  <2>6. m \in FamilyMembers(f)
    BY <1>4, <2>1 DEF FamilyMembers
  <2> QED
    BY <2>5, <2>6
<1> QED
  BY <1>5, <1>6

-----------------------------------------------------------------------------
(* The invariant. *)

TagsGrow ==
  /\ theory' = theory
  /\ definiteProven \subseteq definiteProven'
  /\ definiteDisproven \subseteq definiteDisproven'
  /\ defeasibleProven \subseteq defeasibleProven'
  /\ defeasibleDisproven \subseteq defeasibleDisproven'

Handler ==
  \/ \E q \in ClosedSet(theory) : PopProved(q) \/ PopDisproved(q)
  \/ Sweep

(* Which steps touch what: tags are only added, the definite covers change *)
(* in Visit, the other counters in the handlers of events and the sweep,   *)
(* and only these and StartRules put decisions on the agenda.              *)
LEMMA StepKinds ==
  ASSUME [Next]_vars
  PROVE  /\ TagsGrow
         /\ definiteSatisfied' = definiteSatisfied \/ \E v \in visits : Visit(v[1], v[2])
         /\ UNCHANGED counterVars \/ Handler
         /\ todo' \subseteq todo \/ StartRules \/ Handler
<1> DEFINE Goal == /\ TagsGrow
                   /\ definiteSatisfied' = definiteSatisfied \/ \E v \in visits : Visit(v[1], v[2])
                   /\ UNCHANGED counterVars \/ Handler
                   /\ todo' \subseteq todo \/ StartRules \/ Handler
<1>1. CASE UNCHANGED vars
  BY <1>1 DEF TagsGrow, vars, definiteVars, counterVars, defeasibleVars
<1>2. ASSUME NEW r \in unseeded, SeedFact(r)
      PROVE  Goal
  BY <1>2 DEF SeedFact, TagsGrow, counterVars, defeasibleVars
<1>3. CASE SeededFacts
  BY <1>3 DEF SeededFacts, TagsGrow, definiteVars, counterVars, defeasibleVars
<1>4. ASSUME NEW q \in definiteWorklist, PopDefinite(q)
      PROVE  Goal
  BY <1>4 DEF PopDefinite, TagsGrow, counterVars, defeasibleVars
<1>5. ASSUME NEW v \in visits, Visit(v[1], v[2])
      PROVE  Goal
  BY <1>5 DEF Visit, TagsGrow, counterVars, defeasibleVars
<1>6. CASE ForwardDone \/ NegativeDone
  BY <1>6 DEF ForwardDone, NegativeDone, TagsGrow, definiteVars, counterVars, defeasibleVars
<1>7. CASE DeriveNegative
  BY <1>7 DEF DeriveNegative, TagsGrow, definiteVars, counterVars, defeasibleVars
<1>8. ASSUME NEW q \in ToSeed, Seed(q)
      PROVE  Goal
  BY <1>8 DEF Seed, TagsGrow, definiteVars, counterVars
<1>9. CASE StartRules
  BY <1>9 DEF StartRules, TagsGrow, definiteVars, counterVars, defeasibleVars
<1>10. ASSUME NEW e \in todo, DecideProved(e[1])
       PROVE  Goal
  BY <1>10 DEF DecideProved, TagsGrow, definiteVars, counterVars
<1>11. ASSUME NEW e \in todo, DecideDisproved(e[1])
       PROVE  Goal
  BY <1>11 DEF DecideDisproved, TagsGrow, definiteVars, counterVars
<1>12. ASSUME NEW q \in ClosedSet(theory), PopProved(q) \/ PopDisproved(q)
       PROVE  Goal
  BY <1>12 DEF PopProved, PopDisproved, Handler, TagsGrow, definiteVars
<1>13. CASE Sweep
  BY <1>13 DEF Sweep, Handler, TagsGrow, definiteVars, defeasibleVars
<1>14. CASE Finish
  BY <1>14 DEF Finish, TagsGrow, definiteVars, counterVars, defeasibleVars
<1> QED
  BY <1>1, <1>2, <1>3, <1>4, <1>5, <1>6, <1>7, <1>8, <1>9, <1>10, <1>11, <1>12, <1>13, <1>14
     DEF Next, Definite, Defeasible

(* So what fails goes on failing.                                          *)
LEMMA FailedGrows ==
  ASSUME TagsGrow
  PROVE  Failed \subseteq Failed'
BY DEF TagsGrow, Failed

(* The event a handler pops is tagged, and a proven one is of the theory.  *)
LEMMA PoppedTagged ==
  ASSUME TypeOK, Origins, NEW q
  PROVE  /\ PopProved(q) => q \in defeasibleProven /\ q \in LiteralSet(theory)
         /\ PopDisproved(q) => q \in defeasibleDisproven
<1>1. worklist # << >> => Head(worklist) \in TagEvents
  BY HeadTailProperties DEF Origins
<1> QED
  BY <1>1, EventTagged DEF Origins, PopProved, PopDisproved

(* A handler leaves the tags alone, marks soundly, and decides by what it  *)
(* has marked.                                                             *)
LEMMA HandlerSound ==
  ASSUME TypeOK, TypeOK', CountsSlots, CountsSlots', Origins, Origins', Sound, Handler
  PROVE  Sound'
<1>1. theory \in TheoryNames
  BY DEF TypeOK
<1>2. UNCHANGED <<theory, definiteSatisfied, definiteProven, definiteDisproven, defeasibleProven,
                  defeasibleDisproven, Failed>>
  BY DEF Handler, PopProved, PopDisproved, Sweep, definiteVars, defeasibleVars, Failed
<1>3. ASSUME CoversMean(defeasibleProven, Failed, satisfied'),
             DiscardsMean(defeasibleProven, Failed, discarded'),
             CountsFamily',
             NEW prove, NEW disprove, todo' = Agenda(remaining', discarded', prove, disprove)
      PROVE  Sound'
  <2>1. Counted(theory, satisfied', remaining')
    BY <1>2 DEF TypeOK, CountsSlots, Counted
  <2>2. FlagsMean(defeasibleProven, Failed, remaining', discarded')
    BY <1>1, <1>3, <2>1, MarksMean
  <2>3. \A e \in todo' : Decision(e)
    BY <1>1, <1>3, <2>2, AgendaMeans
  <2>4. \A e : Decision(e) => Decision(e)'
    BY <1>2 DEF Decision
  <2>5. DefiniteCoversMean(definiteProven, definiteSatisfied)'
    BY <1>2 DEF Sound, DefiniteCoversMean
  <2>6. /\ CoversMean(defeasibleProven, Failed, satisfied)'
        /\ DiscardsMean(defeasibleProven, Failed, discarded)'
    BY <1>2, <1>3 DEF CoversMean, DiscardsMean
  <2> QED
    BY <1>3, <2>3, <2>4, <2>5, <2>6 DEF Sound
<1>4. ASSUME NEW q \in ClosedSet(theory), PopProved(q)
      PROVE  Sound'
  <2>1. q \in defeasibleProven /\ q \in LiteralSet(theory)
    BY <1>4, PoppedTagged
  <2>2. satisfied' = Cover(satisfied, RulesWithBody(theory, q), q)
    BY <1>4 DEF PopProved
  <2>3. CoversMean(defeasibleProven, Failed, satisfied')
    BY <1>1, <2>1, <2>2, CoverMeans DEF Sound
  <2>4. UNCHANGED <<discarded, familyLive, countedDead>>
    BY <1>4 DEF PopProved
  <2>5. DiscardsMean(defeasibleProven, Failed, discarded')
    BY <2>4 DEF Sound
  <2>6. CountsFamily'
    BY <1>2, <2>4 DEF Sound, CountsFamily, FamilyMembers
  <2>7. \E prove, disprove : todo' = Agenda(remaining', discarded', prove, disprove)
    BY <1>4, <2>4 DEF PopProved
  <2> QED
    BY <1>3, <2>3, <2>5, <2>6, <2>7
<1>5. ASSUME NEW q \in ClosedSet(theory), PopDisproved(q)
      PROVE  Sound'
  <2>1. CountsFamily /\ CountsFamily'
    BY <1>5, FamilyCounted DEF Sound
  <2>2. q \in defeasibleDisproven /\ countedDead' \subseteq defeasibleDisproven
    BY <1>2, <1>5, PoppedTagged DEF Origins
  <2>3. DOMAIN familyLive' = DOMAIN familyLive
    BY <1>2 DEF TypeOK
  <2>4. CoversMean(defeasibleProven, Failed, satisfied')
    BY <1>5 DEF PopDisproved, Sound
  <2>5. ASSUME NEW r \in Labels(theory), discarded'[r]
        PROVE  Discarded(theory, defeasibleProven, Failed, r)
    <3>1. \/ discarded[r]
          \/ \E s \in MatchedSlots(theory, r, q) :
                /\ ~ NegativeModal(BodyOf(theory, r)[s])
                /\ Temporal(BodyOf(theory, r)[s]) \/ familyLive'[Family(q)] = 0
      BY <1>2, <1>5, <2>5 DEF PopDisproved, Dead
    <3>2. CASE discarded[r]
      BY <3>2 DEF Sound, DiscardsMean
    <3>3. ASSUME NEW s \in MatchedSlots(theory, r, q),
                 ~ NegativeModal(BodyOf(theory, r)[s]),
                 Temporal(BodyOf(theory, r)[s]) \/ familyLive'[Family(q)] = 0
          PROVE  Discarded(theory, defeasibleProven, Failed, r)
      <4>1. Unsatisfiable(theory, defeasibleProven, Failed, BodyOf(theory, r)[s])
        BY <1>5, <2>1, <2>2, <2>3, <3>3, DiscardMeans
      <4>2. s \in Slots(theory, r)
        BY DEF MatchedSlots
      <4> QED
        BY <4>1, <4>2 DEF Discarded
    <3> QED
      BY <3>1, <3>2, <3>3
  <2>6. DiscardsMean(defeasibleProven, Failed, discarded')
    BY <2>5 DEF DiscardsMean
  <2>7. \E prove, disprove : todo' = Agenda(remaining', discarded', prove, disprove)
    BY <1>5 DEF PopDisproved
  <2> QED
    BY <1>3, <2>1, <2>4, <2>6, <2>7
<1>6. CASE Sweep
  <2>1. CoversMean(defeasibleProven, Failed, satisfied')
    <3>1. \A r \in Labels(theory) : satisfied'[r] = satisfied[r] \cup Refutations(r)
      BY <1>6 DEF Sweep
    <3> QED
      BY <1>1, <3>1, RefutationsMean DEF Sound, CoversMean
  <2>2. DiscardsMean(defeasibleProven, Failed, discarded')
    <3>1. \A r \in Labels(theory) : discarded'[r] => discarded[r] \/ SweepDiscards(r)
      BY <1>6 DEF Sweep
    <3> QED
      BY <1>1, <3>1, RefutationsMean DEF Sound, DiscardsMean
  <2>3. CountsFamily'
    BY <1>2, <1>6 DEF Sweep, Sound, CountsFamily, FamilyMembers
  <2>4. \E prove, disprove : todo' = Agenda(remaining', discarded', prove, disprove)
    BY <1>6 DEF Sweep
  <2> QED
    BY <1>3, <2>1, <2>2, <2>3, <2>4
<1> QED
  BY <1>4, <1>5, <1>6 DEF Handler

(* Everything the engine has marked or is about to decide is justified by  *)
(* the tags.                                                               *)
THEOREM SoundAlways == Spec => []Sound
<1>1. Init => Sound
  <2> SUFFICES ASSUME Init
               PROVE  Sound
    OBVIOUS
  <2>1. \A r \in Labels(theory) : satisfied[r] = {} /\ definiteSatisfied[r] = {} /\ ~ discarded[r]
    BY DEF Init, InitialSatisfied
  <2>2. CountsFamily
    <3>1. \A f : FamilyMembers(f) \ countedDead = FamilyMembers(f)
      BY DEF Init
    <3> QED
      BY <3>1 DEF Init, CountsFamily
  <2> QED
    BY <2>1, <2>2 DEF Init, Sound, DefiniteCoversMean, CoversMean, DiscardsMean
<1>2. ASSUME TypeOK, TypeOK', CountsSlots, CountsSlots', Origins, Origins', Sound, [Next]_vars
      PROVE  Sound'
  <2>1. theory \in TheoryNames /\ TagsGrow /\ Failed \subseteq Failed'
    BY <1>2, StepKinds, FailedGrows DEF TypeOK
  <2>2. CASE Handler
    BY <1>2, <2>2, HandlerSound
  <2>3. CASE ~ Handler
    <3>1. UNCHANGED counterVars /\ (todo' \subseteq todo \/ StartRules)
      BY <1>2, <2>3, StepKinds
    <3>2. DefiniteCoversMean(definiteProven, definiteSatisfied)'
      <4>1. CASE definiteSatisfied' = definiteSatisfied
        <5>1. DefiniteCoversMean(definiteProven', definiteSatisfied')
          BY <1>2, <2>1, <4>1, MeaningMonotone DEF TagsGrow, Sound
        <5> QED
          BY <2>1, <5>1 DEF DefiniteCoversMean, TagsGrow
      <4>2. ASSUME NEW v \in visits, Visit(v[1], v[2])
            PROVE  DefiniteCoversMean(definiteProven, definiteSatisfied)'
        <5>1. v[1] \in definiteProven /\ v[1] \in LiteralSet(theory)
          BY <1>2 DEF Origins
        <5>2. definiteSatisfied' = Cover(definiteSatisfied, {v[2]}, v[1])
          BY <4>2 DEF Visit
        <5>3. DefiniteCoversMean(definiteProven, definiteSatisfied')
          BY <1>2, <2>1, <5>1, <5>2, CoverMeans DEF Sound
        <5>4. DefiniteCoversMean(definiteProven', definiteSatisfied')
          BY <2>1, <5>3, MeaningMonotone DEF TagsGrow
        <5> QED
          BY <2>1, <5>4 DEF DefiniteCoversMean, TagsGrow
      <4> QED
        BY <1>2, <4>1, <4>2, StepKinds
    <3>3. /\ CoversMean(defeasibleProven', Failed', satisfied')
          /\ DiscardsMean(defeasibleProven', Failed', discarded')
      BY <1>2, <2>1, <3>1, MeaningMonotone DEF TagsGrow, Sound, counterVars
    <3>4. /\ CoversMean(defeasibleProven, Failed, satisfied)'
          /\ DiscardsMean(defeasibleProven, Failed, discarded)'
      BY <2>1, <3>3 DEF CoversMean, DiscardsMean, TagsGrow
    <3>5. CountsFamily'
      BY <1>2, <2>1, <3>1 DEF TagsGrow, Sound, CountsFamily, FamilyMembers, counterVars
    <3>6. \A e : Decision(e) => Decision(e)'
      BY <2>1, DefeasibleMonotone DEF TagsGrow, Decision
    <3>7. \A e \in todo' : Decision(e)
      <4>1. CASE todo' \subseteq todo
        BY <1>2, <4>1 DEF Sound
      <4>2. CASE StartRules
        <5>1. Counted(theory, satisfied, remaining)
          BY <1>2 DEF TypeOK, CountsSlots, Counted
        <5>2. FlagsMean(defeasibleProven, Failed, remaining, discarded)
          BY <1>2, <2>1, <5>1, MarksMean DEF Sound
        <5>3. PICK prove : todo' = Agenda(remaining, discarded, prove, {})
          BY <4>2 DEF StartRules
        <5> QED
          BY <2>1, <5>2, <5>3, AgendaMeans
      <4> QED
        BY <3>1, <4>1, <4>2
    <3> QED
      BY <3>2, <3>4, <3>5, <3>6, <3>7 DEF Sound
  <2> QED
    BY <2>2, <2>3
<1> QED
  BY <1>1, <1>2, TypeCorrect, TagsOriginate, PTL DEF Spec

(* A rule whose counter is zero is applicable and a rule marked discarded  *)
(* is discarded, in every reachable state of every theory.                 *)
THEOREM FlagsSoundAlways == Spec => []FlagsSound
<1>1. TypeOK /\ CountsSlots /\ Sound => FlagsSound
  <2> SUFFICES ASSUME TypeOK, CountsSlots, Sound
               PROVE  FlagsSound
    OBVIOUS
  <2>1. Counted(theory, satisfied, remaining) /\ theory \in TheoryNames
    BY DEF TypeOK, CountsSlots, Counted
  <2> QED
    BY <2>1, MarksMean DEF Sound, FlagsMean, FlagsSound
<1> QED
  BY <1>1, TypeCorrect, SoundAlways, PTL

-----------------------------------------------------------------------------
(* Being applicable is for good. *)

(* Slots once covered stay covered.                                        *)
LEMMA CoversGrow ==
  ASSUME [Next]_vars, NEW r \in Labels(theory)
  PROVE  satisfied[r] \subseteq satisfied'[r]
<1>1. CASE UNCHANGED counterVars
  BY <1>1 DEF counterVars
<1>2. ASSUME NEW q \in ClosedSet(theory), PopProved(q) \/ PopDisproved(q)
      PROVE  satisfied[r] \subseteq satisfied'[r]
  BY <1>2 DEF PopProved, PopDisproved, Cover
<1>3. CASE Sweep
  BY <1>3 DEF Sweep
<1> QED
  BY <1>1, <1>2, <1>3, StepKinds DEF Handler

(* A rule all of whose premises hold, the negative modal ones by           *)
(* refutation, is not discarded by further coherent tags: what satisfies a *)
(* premise is a tagged literal, and it keeps its tag.                      *)
LEMMA SettledNotDiscarded ==
  ASSUME theory \in TheoryNames, NEW r \in Labels(theory), NEW pd, NEW nd,
         Applicable(theory, defeasibleProven, Failed, r), Settled(r),
         defeasibleProven \subseteq pd, Failed \subseteq nd, pd \cap nd = {},
         pd \subseteq LiteralSet(theory)
  PROVE  ~ Discarded(theory, pd, nd, r)
<1> SUFFICES ASSUME NEW s \in Slots(theory, r)
             PROVE  ~ Unsatisfiable(theory, pd, nd, BodyOf(theory, r)[s])
  BY DEF Discarded
<1> DEFINE b == BodyOf(theory, r)[s]
<1>1. CASE NegativeModal(b)
  <2>1. Members(theory, OuterNegation(b)) \cap pd = {}
    BY <1>1 DEF Settled, NegativeSlots, AllRefuted, Denied, Failed
  <2> QED
    BY <1>1, <2>1, MembersSuffice DEF Unsatisfiable
<1>2. CASE ~ NegativeModal(b)
  <2>1. Holds(theory, defeasibleProven, b)
    BY <1>2 DEF Applicable, Satisfied
  <2> QED
    BY <1>2, <2>1 DEF Unsatisfiable, Holds, Refuted
<1> QED
  BY <1>1, <1>2

(* No step takes back the applicability of a rule, in any theory: nothing  *)
(* concluded through it would have to be withdrawn.                        *)
THEOREM ApplicableAlways == Spec => ApplicableForever
<1>1. ASSUME TypeOK, TypeOK', CountsSlots, CountsSlots', Origins', Coherent', Sound, Sound',
             [Next]_vars
      PROVE  StaysApplicable
  <2>1. TagsGrow /\ theory \in TheoryNames /\ theory' = theory
    BY <1>1, StepKinds DEF TagsGrow, TypeOK
  <2>2. /\ Counted(theory, satisfied, remaining)
        /\ Counted(theory, satisfied', remaining')
    BY <1>1, <2>1 DEF TypeOK, CountsSlots, Counted
  <2> SUFFICES ASSUME NEW r \in Labels(theory), Settled(r), Fires(remaining, discarded, r)
               PROVE  Fires(remaining', discarded', r)
    BY DEF StaysApplicable
  <2>3. satisfied[r] = Slots(theory, r)
    BY <2>1, <2>2, ZeroMeansCovered DEF Fires
  <2>4. satisfied'[r] = Slots(theory, r)
    BY <1>1, <2>2, <2>3, CoversGrow DEF Counted
  <2>5. remaining'[r] = 0
    BY <2>1, <2>2, <2>3, <2>4 DEF Counted, Fires
  <2>6. Applicable(theory, defeasibleProven, Failed, r)
    BY <1>1, <2>1, <2>2, MarksMean DEF Sound, FlagsMean, Fires
  <2>7. ~ Discarded(theory, defeasibleProven', Failed', r)
    <3>1. /\ defeasibleProven' \subseteq LiteralSet(theory)
          /\ defeasibleProven' \cap Failed' = {}
      BY <1>1, <2>1 DEF Origins, Coherent, Failed, Unindexed
    <3> QED
      BY <2>1, <2>6, <3>1, FailedGrows, SettledNotDiscarded DEF TagsGrow
  <2>8. ~ discarded'[r]
    BY <1>1, <2>1, <2>7 DEF Sound, DiscardsMean
  <2> QED
    BY <2>5, <2>8 DEF Fires
<1>2. TypeOK /\ TypeOK' /\ CountsSlots /\ CountsSlots' /\ Origins' /\ Coherent' /\ Sound /\ Sound'
        /\ [Next]_vars => [StaysApplicable]_vars
  BY <1>1
<1> QED
  BY <1>2, TypeCorrect, TagsOriginate, SoundAlways, PTL DEF Spec, ApplicableForever

-----------------------------------------------------------------------------
(* The operators of the instance are those of the engine's own modules.    *)

(* The instance of the reference reads the same constants, so its          *)
(* operators are the engine's: first those on single literals,             *)
LEMMA SameLiterals ==
  /\ \A l : Reference!Canonical(l) = Canonical(l)
  /\ \A l : Reference!Complement(l) = Complement(l)
  /\ \A l : Reference!OuterNegation(l) = OuterNegation(l)
  /\ \A l : Reference!Temporal(l) = Temporal(l)
  /\ \A l : Reference!NegativeModal(l) = NegativeModal(l)
BY DEF Reference!Canonical, Canonical, Reference!Complement, Complement,
       Reference!OuterNegation, OuterNegation, Reference!Temporal, Temporal,
       Reference!NegativeModal, NegativeModal

(* then the conflict relation, *)
LEMMA SameOpposition ==
  /\ \A l : Reference!Deontic(l) = Deontic(l)
  /\ \A m : Reference!RivalModes(m) = RivalModes(m)
  /\ \A l : Reference!Opponents(l) = Opponents(l)
<1>1. /\ \A l : Reference!Deontic(l) = Deontic(l)
      /\ \A m : Reference!RivalModes(m) = RivalModes(m)
  BY SameLiterals DEF Reference!Deontic, Deontic, Reference!RivalModes, RivalModes
<1> QED
  BY <1>1, SameLiterals DEF Reference!Opponents, Opponents

(* families, satisfaction of premises and defense, *)
LEMMA SameFamilies ==
  /\ \A l, m : Reference!Opposes(l, m) = Opposes(l, m)
  /\ \A l : Reference!Family(l) = Family(l)
  /\ \A l, m : Reference!Satisfies(l, m) = Satisfies(l, m)
  /\ \A l, m, n : Reference!HeadDefends(l, m, n) = HeadDefends(l, m, n)
<1>1. \A l, m : Reference!Opposes(l, m) = Opposes(l, m)
  BY SameLiterals, SameOpposition DEF Reference!Opposes, Opposes
<1>2. \A l : Reference!Family(l) = Family(l)
  BY SameLiterals DEF Reference!Family, Family
<1>3. \A l, m : Reference!Satisfies(l, m) = Satisfies(l, m)
  BY <1>2, SameLiterals DEF Reference!Satisfies, Satisfies
<1>4. \A l, m, n : Reference!HeadDefends(l, m, n) = HeadDefends(l, m, n)
  BY <1>1, SameLiterals, SameOpposition DEF Reference!HeadDefends, HeadDefends
<1> QED
  BY <1>1, <1>2, <1>3, <1>4

(* the accessors of theories and rules, *)
LEMMA SameRules ==
  /\ Reference!TheoryNames = TheoryNames
  /\ \A t : Reference!Labels(t) = Labels(t)
  /\ \A t, r : Reference!RuleOf(t, r) = RuleOf(t, r)
  /\ \A t, r : Reference!KindOf(t, r) = KindOf(t, r)
  /\ \A t, r : Reference!HeadOf(t, r) = HeadOf(t, r)
  /\ \A t, r : Reference!BodyOf(t, r) = BodyOf(t, r)
  /\ \A t, r : Reference!Slots(t, r) = Slots(t, r)
  /\ \A t, r : Reference!Productive(t, r) = Productive(t, r)
  /\ \A t, r, s : Reference!Superior(t, r, s) = Superior(t, r, s)
  /\ \A t : Reference!LiteralSet(t) = LiteralSet(t)
  /\ \A t : Reference!ClosedSet(t) = ClosedSet(t)
<1>1. /\ Reference!TheoryNames = TheoryNames
      /\ \A t : Reference!Labels(t) = Labels(t)
      /\ \A t, r : Reference!RuleOf(t, r) = RuleOf(t, r)
      /\ \A t : Reference!LiteralSet(t) = LiteralSet(t)
  BY DEF Reference!TheoryNames, TheoryNames, Reference!Labels, Labels, Reference!RuleOf, RuleOf,
         Reference!LiteralSet, LiteralSet
<1>2. /\ \A t, r : Reference!KindOf(t, r) = KindOf(t, r)
      /\ \A t, r : Reference!BodyOf(t, r) = BodyOf(t, r)
      /\ \A t, r : Reference!HeadOf(t, r) = HeadOf(t, r)
  BY <1>1, SameLiterals DEF Reference!KindOf, KindOf, Reference!BodyOf, BodyOf, Reference!HeadOf, HeadOf
<1>3. /\ \A t, r : Reference!Slots(t, r) = Slots(t, r)
      /\ \A t, r : Reference!Productive(t, r) = Productive(t, r)
      /\ \A t, r, s : Reference!Superior(t, r, s) = Superior(t, r, s)
  BY <1>1, <1>2 DEF Reference!Slots, Slots, Reference!Productive, Productive,
         Reference!Superior, Superior
<1>4. \A t : Reference!ClosedSet(t) = ClosedSet(t)
  BY DEF Reference!ClosedSet, ClosedSet
<1> QED
  BY <1>1, <1>2, <1>3, <1>4

(* the look-ups of the rule index, *)
LEMMA SameIndex ==
  /\ \A t, q : Reference!RulesWithHead(t, q) = RulesWithHead(t, q)
  /\ \A t, q : Reference!SupportingRules(t, q) = SupportingRules(t, q)
  /\ \A t, q : Reference!AttackingRules(t, q) = AttackingRules(t, q)
  /\ \A t, q, a : Reference!DefendingRules(t, q, a) = DefendingRules(t, q, a)
  /\ \A t, b : Reference!Members(t, b) = Members(t, b)
<1>1. \A t, q : Reference!RulesWithHead(t, q) = RulesWithHead(t, q)
  BY SameRules DEF Reference!RulesWithHead, RulesWithHead
<1>2. \A t, q : Reference!SupportingRules(t, q) = SupportingRules(t, q)
  BY <1>1, SameRules DEF Reference!SupportingRules, SupportingRules
<1>3. \A t, r, q : Reference!CanAttack(t, r, q) = CanAttack(t, r, q)
  BY SameRules, SameLiterals, SameFamilies DEF Reference!CanAttack, CanAttack
<1>4. \A t, q : Reference!AttackingRules(t, q) = AttackingRules(t, q)
  BY <1>3, SameRules, SameOpposition DEF Reference!AttackingRules, AttackingRules
<1>5. \A t, r, q, a : Reference!CanDefend(t, r, q, a) = CanDefend(t, r, q, a)
  BY SameRules, SameLiterals, SameOpposition, SameFamilies DEF Reference!CanDefend, CanDefend
<1>6. \A t, q, a : Reference!DefendingRules(t, q, a) = DefendingRules(t, q, a)
  BY <1>5, SameRules, SameOpposition DEF Reference!DefendingRules, DefendingRules
<1>7. \A t, b : Reference!Members(t, b) = Members(t, b)
  BY SameRules, SameFamilies DEF Reference!Members, Members
<1> QED
  BY <1>1, <1>2, <1>4, <1>6, <1>7

(* the applicability of rules, *)
LEMMA SamePremises ==
  /\ \A t, p, r : Reference!DefinitelyApplicable(t, p, r) = DefinitelyApplicable(t, p, r)
  /\ \A t, n, r : Reference!DefinitelyDiscarded(t, n, r) = DefinitelyDiscarded(t, n, r)
  /\ \A t, p, n, r : Reference!Applicable(t, p, n, r) = Applicable(t, p, n, r)
  /\ \A t, p, n, r : Reference!Discarded(t, p, n, r) = Discarded(t, p, n, r)
<1>1. /\ \A t, p, b : Reference!Holds(t, p, b) = Holds(t, p, b)
      /\ \A t, p, b : Reference!Refuted(t, p, b) = Refuted(t, p, b)
  BY SameRules, SameFamilies DEF Reference!Holds, Holds, Reference!Refuted, Refuted,
         Reference!Matching, Matching
<1>2. /\ \A t, p, n, b : Reference!Satisfied(t, p, n, b) = Satisfied(t, p, n, b)
      /\ \A t, p, n, b : Reference!Unsatisfiable(t, p, n, b) = Unsatisfiable(t, p, n, b)
  BY <1>1, SameLiterals DEF Reference!Satisfied, Satisfied, Reference!Unsatisfiable, Unsatisfiable
<1>3. /\ \A t, p, r : Reference!DefinitelyApplicable(t, p, r) = DefinitelyApplicable(t, p, r)
      /\ \A t, n, r : Reference!DefinitelyDiscarded(t, n, r) = DefinitelyDiscarded(t, n, r)
  BY <1>1, SameRules DEF Reference!DefinitelyApplicable, DefinitelyApplicable,
         Reference!DefinitelyDiscarded, DefinitelyDiscarded
<1>4. /\ \A t, p, n, r : Reference!Applicable(t, p, n, r) = Applicable(t, p, n, r)
      /\ \A t, p, n, r : Reference!Discarded(t, p, n, r) = Discarded(t, p, n, r)
  BY <1>2, SameRules DEF Reference!Applicable, Applicable, Reference!Discarded, Discarded
<1> QED
  BY <1>3, <1>4

(* and the four inference conditions.                                      *)
LEMMA SameConditions ==
  ASSUME NEW t, NEW pD, NEW nD, NEW pd, NEW nd, NEW q
  PROVE  /\ CanInferDefinite(t, pD, q) <=> Reference!CanInferDefinite(t, pD, q)
         /\ CanRefuteDefinite(t, nD, q) <=> Reference!CanRefuteDefinite(t, nD, q)
         /\ CanInferDefeasible(t, pD, nD, pd, nd, q) <=>
              Reference!CanInferDefeasible(t, pD, nD, pd, nd, q)
         /\ CanRefuteDefeasible(t, pD, nD, pd, nd, q) <=>
              Reference!CanRefuteDefeasible(t, pD, nD, pd, nd, q)
<1>1. CanInferDefinite(t, pD, q) <=> Reference!CanInferDefinite(t, pD, q)
  BY SameRules, SameIndex, SamePremises DEF Reference!CanInferDefinite, CanInferDefinite
<1>2. CanRefuteDefinite(t, nD, q) <=> Reference!CanRefuteDefinite(t, nD, q)
  BY SameRules, SameIndex, SamePremises DEF Reference!CanRefuteDefinite, CanRefuteDefinite
<1>3. \A a : Reference!Beaten(t, pd, nd, q, a) = Beaten(t, pd, nd, q, a)
  BY SameRules, SameIndex, SamePremises DEF Reference!Beaten, Beaten
<1>4. \A a : Reference!Overruled(t, pd, nd, q, a) = Overruled(t, pd, nd, q, a)
  BY SameRules, SameIndex, SamePremises DEF Reference!Overruled, Overruled
<1>5. CanInferDefeasible(t, pD, nD, pd, nd, q) <=>
        Reference!CanInferDefeasible(t, pD, nD, pd, nd, q)
  BY <1>3, SameOpposition, SameIndex, SamePremises DEF Reference!CanInferDefeasible, CanInferDefeasible
<1>6. CanRefuteDefeasible(t, pD, nD, pd, nd, q) <=>
        Reference!CanRefuteDefeasible(t, pD, nD, pd, nd, q)
  BY <1>4, SameOpposition, SameIndex, SamePremises DEF Reference!CanRefuteDefeasible, CanRefuteDefeasible
<1> QED
  BY <1>1, <1>2, <1>5, <1>6

-----------------------------------------------------------------------------
(* The steps. *)

(* A strict rule whose last slot has just been covered is applicable at    *)
(* the definite level, so the head it asserts can be inferred.             *)
LEMMA VisitInfers ==
  ASSUME TypeOK, TypeOK', CountsSlots', Origins, Sound, Sound', NEW v \in visits, Visit(v[1], v[2]),
         definiteProven' # definiteProven
  PROVE  /\ HeadOf(theory, v[2]) \in LiteralSet(theory)
         /\ HeadOf(theory, v[2]) \notin definiteProven
         /\ definiteProven' = definiteProven \cup {HeadOf(theory, v[2])}
         /\ CanInferDefinite(theory, definiteProven, HeadOf(theory, v[2]))
<1> DEFINE r == v[2]
           h == HeadOf(theory, r)
<1>1. theory \in TheoryNames /\ theory' = theory
  BY DEF TypeOK, Visit
<1>2. /\ r \in Labels(theory) /\ KindOf(theory, r) = "strict"
      /\ v[1] \in definiteProven /\ v[1] \in LiteralSet(theory)
  BY DEF Origins
<1>3. /\ definiteRemaining'[r] = 0
      /\ h \notin definiteProven
      /\ definiteProven' = definiteProven \cup {h}
      /\ definiteSatisfied' = Cover(definiteSatisfied, {r}, v[1])
  BY DEF Visit
<1>4. Counted(theory, definiteSatisfied', definiteRemaining')
  BY <1>1 DEF TypeOK, CountsSlots, Counted
<1>5. definiteSatisfied'[r] = Slots(theory, r)
  BY <1>1, <1>2, <1>3, <1>4, ZeroMeansCovered
<1>6. DefiniteCoversMean(definiteProven, definiteSatisfied')
  BY <1>1, <1>2, <1>3, CoverMeans DEF Sound
<1>7. DefinitelyApplicable(theory, definiteProven, r)
  BY <1>2, <1>5, <1>6 DEF DefiniteCoversMean, DefinitelyApplicable
<1>8. CanInferDefinite(theory, definiteProven, h)
  BY <1>2, <1>7 DEF CanInferDefinite, RulesWithHead
<1>9. h \in LiteralSet(theory)
  BY <1>1, <1>2, LiteralSetType
<1> QED
  BY <1>3, <1>8, <1>9

(* A definite failure found by the engine's fixpoint is one of the proof   *)
(* theory, and the other way round.                                        *)
LEMMA FailureRefutes ==
  ASSUME NEW q
  PROVE  DefiniteFailure(q) <=> CanRefuteDefinite(theory, definiteDisproven, q)
BY DEF DefiniteFailure, CanRefuteDefinite, DefinitelyDiscarded, Refuted, Matching

(* A body-less fact or strict rule that phase 1 meets is a definite        *)
(* inference of the reference.                                             *)
LEMMA FactInfers ==
  ASSUME TypeOK, Origins, NEW r \in unseeded
  PROVE  /\ HeadOf(theory, r) \in LiteralSet(theory)
         /\ CanInferDefinite(theory, definiteProven, HeadOf(theory, r))
<1>1. theory \in TheoryNames
  BY DEF TypeOK
<1>2. /\ r \in Labels(theory) /\ KindOf(theory, r) \in {"fact", "strict"}
      /\ BodyOf(theory, r) = << >>
  BY DEF Origins, BodylessDefinite
<1>3. Slots(theory, r) = {}
  BY <1>2 DEF Slots
<1>4. DefinitelyApplicable(theory, definiteProven, r)
  BY <1>3 DEF DefinitelyApplicable
<1> QED
  BY <1>1, <1>2, <1>4, LiteralSetType DEF CanInferDefinite, RulesWithHead

(* An inference of one literal of the closed set is a step of the          *)
(* reference, and so are any refutations at the defeasible level.          *)
LEMMA InferDefiniteStep ==
  ASSUME NEW q \in ClosedSet(theory), q \notin definiteProven,
         CanInferDefinite(theory, definiteProven, q),
         definiteProven' = definiteProven \cup {q},
         UNCHANGED <<theory, definiteDisproven, defeasibleProven, FailedInReference>>
  PROVE  Reference!Next
<1>1. {q} \in Reference!Part({l \in Reference!ClosedSet(theory) \ definiteProven :
                                Reference!CanInferDefinite(theory, definiteProven, l)})
  BY SameRules, SameConditions DEF Reference!Part
<1> QED
  BY <1>1 DEF Reference!Next, Reference!InferDefinite

(* The same of a definite refutation,                                      *)
LEMMA RefuteDefiniteStep ==
  ASSUME NEW q \in ClosedSet(theory), q \notin definiteDisproven,
         CanRefuteDefinite(theory, definiteDisproven, q),
         definiteDisproven' = definiteDisproven \cup {q},
         UNCHANGED <<theory, definiteProven, defeasibleProven, FailedInReference>>
  PROVE  Reference!Next
<1>1. {q} \in Reference!Part({l \in Reference!ClosedSet(theory) \ definiteDisproven :
                                Reference!CanRefuteDefinite(theory, definiteDisproven, l)})
  BY SameRules, SameConditions DEF Reference!Part
<1> QED
  BY <1>1 DEF Reference!Next, Reference!RefuteDefinite

(* of a defeasible inference,                                              *)
LEMMA InferDefeasibleStep ==
  ASSUME NEW q \in ClosedSet(theory), q \notin defeasibleProven,
         CanInferDefeasible(theory, definiteProven, definiteDisproven,
                            defeasibleProven, FailedInReference, q),
         defeasibleProven' = defeasibleProven \cup {q},
         UNCHANGED <<theory, definiteProven, definiteDisproven, FailedInReference>>
  PROVE  Reference!Next
<1>1. {q} \in Reference!Part({l \in Reference!ClosedSet(theory) \ defeasibleProven :
                                Reference!CanInferDefeasible(theory, definiteProven, definiteDisproven,
                                                             defeasibleProven, FailedInReference, l)})
  BY SameRules, SameConditions DEF Reference!Part
<1> QED
  BY <1>1 DEF Reference!Next, Reference!InferDefeasible

(* and of one or more defeasible refutations.                              *)
LEMMA RefuteDefeasibleStep ==
  ASSUME NEW S, S # {}, S \subseteq ClosedSet(theory) \ FailedInReference,
         \A q \in S : CanRefuteDefeasible(theory, definiteProven, definiteDisproven,
                                          defeasibleProven, FailedInReference, q),
         FailedInReference' = FailedInReference \cup S,
         UNCHANGED <<theory, definiteProven, definiteDisproven, defeasibleProven>>
  PROVE  Reference!Next
<1>1. S \in Reference!Part({l \in Reference!ClosedSet(theory) \ FailedInReference :
                              Reference!CanRefuteDefeasible(theory, definiteProven, definiteDisproven,
                                                            defeasibleProven, FailedInReference, l)})
  BY SameRules, SameConditions DEF Reference!Part
<1> QED
  BY <1>1 DEF Reference!Next, Reference!RefuteDefeasible

(* A literal outside the index has no rule, so the -D fixpoint does not    *)
(* end before it is refuted.                                               *)
LEMMA UnindexedFails ==
  ASSUME theory \in TheoryNames, Origins, Refutable = {}, NEW q \in Unindexed(theory)
  PROVE  q \in definiteDisproven /\ RulesWithHead(theory, q) = {}
<1>1. q \in ClosedSet(theory) /\ q \notin LiteralSet(theory)
  BY DEF Unindexed
<1>2. RulesWithHead(theory, q) = {}
  BY <1>1, LiteralSetType DEF RulesWithHead
<1>3. DefiniteFailure(q) /\ q \notin definiteProven
  BY <1>1, <1>2 DEF DefiniteFailure, Origins
<1> QED
  BY <1>1, <1>2, <1>3 DEF Refutable

(* Every behaviour of the engine, seen through its four tag sets, is a     *)
(* behaviour of the proof theory.                                          *)
THEOREM EngineImplements == Spec => Implements
<1>1. Init => Reference!Init
  BY SameRules DEF Init, Reference!Init, FailedInReference
<1>2. ASSUME TypeOK, TypeOK', CountsSlots', Origins, Origins', Sound, Sound', [Next]_vars
      PROVE  [Reference!Next]_(Reference!vars)
  <2> DEFINE Goal == [Reference!Next]_(Reference!vars)
             Early(p) == p \in {"facts", "strict", "negative"}
  <2>1. theory \in TheoryNames /\ LiteralSet(theory) \subseteq ClosedSet(theory)
    BY <1>2, ClosedSetType DEF TypeOK
  <2>2. /\ UNCHANGED <<theory, defeasibleDisproven>> /\ Early(phase') = Early(phase)
             => FailedInReference' = FailedInReference
        /\ ~ Early(phase) => FailedInReference = Failed
        /\ todo # {} => ~ Early(phase)
    BY <1>2 DEF FailedInReference, Failed, Origins
  <2>3. ASSUME UNCHANGED <<theory, definiteProven, definiteDisproven, defeasibleProven,
                           defeasibleDisproven>>,
               Early(phase') = Early(phase)
        PROVE  Goal
    BY <2>2, <2>3 DEF Reference!vars
  <2>4. CASE UNCHANGED vars
    BY <2>3, <2>4 DEF vars, definiteVars, defeasibleVars
  <2>5. ASSUME NEW r \in unseeded, SeedFact(r)
        PROVE  Goal
    <3> DEFINE q == HeadOf(theory, r)
    <3>1. q \in ClosedSet(theory) /\ CanInferDefinite(theory, definiteProven, q)
      BY <1>2, <2>1, FactInfers
    <3>2. UNCHANGED <<theory, phase, definiteDisproven, defeasibleProven, defeasibleDisproven>>
      BY <2>5 DEF SeedFact, defeasibleVars
    <3>3. CASE q \in definiteProven
      BY <2>3, <2>5, <3>2, <3>3 DEF SeedFact
    <3>4. CASE q \notin definiteProven
      BY <2>2, <2>5, <3>1, <3>2, <3>4, InferDefiniteStep DEF SeedFact
    <3> QED
      BY <3>3, <3>4
  <2>6. CASE SeededFacts
    BY <2>3, <2>6 DEF SeededFacts, definiteVars, defeasibleVars
  <2>7. ASSUME NEW q \in definiteWorklist, PopDefinite(q)
        PROVE  Goal
    BY <2>3, <2>7 DEF PopDefinite, defeasibleVars
  <2>8. ASSUME NEW v \in visits, Visit(v[1], v[2])
        PROVE  Goal
    <3>1. UNCHANGED <<theory, phase, definiteDisproven, defeasibleProven, defeasibleDisproven>>
      BY <2>8 DEF Visit, defeasibleVars
    <3>2. CASE definiteProven' = definiteProven
      BY <2>3, <3>1, <3>2
    <3>3. CASE definiteProven' # definiteProven
      BY <1>2, <2>1, <2>2, <2>8, <3>1, <3>3, VisitInfers, InferDefiniteStep
    <3> QED
      BY <3>2, <3>3
  <2>9. CASE ForwardDone
    BY <2>3, <2>9 DEF ForwardDone, definiteVars, defeasibleVars
  <2>10. CASE DeriveNegative
    <3> PICK q \in Refutable : definiteDisproven' = definiteDisproven \cup {q}
      BY <2>10 DEF DeriveNegative
    <3>1. /\ q \in ClosedSet(theory) /\ q \notin definiteDisproven
          /\ CanRefuteDefinite(theory, definiteDisproven, q)
      BY FailureRefutes DEF Refutable
    <3>2. /\ definiteDisproven' = definiteDisproven \cup {q}
          /\ UNCHANGED <<theory, phase, definiteProven, defeasibleProven, defeasibleDisproven>>
      BY <2>10 DEF DeriveNegative, definiteVars, defeasibleVars
    <3> QED
      BY <2>2, <3>1, <3>2, RefuteDefiniteStep
  <2>11. CASE NegativeDone
    <3>1. /\ UNCHANGED <<theory, definiteProven, definiteDisproven, defeasibleProven>>
          /\ Refutable = {}
      BY <2>11 DEF NegativeDone, definiteVars, defeasibleVars
    <3>2. FailedInReference = {} /\ FailedInReference' = Unindexed(theory)
      BY <1>2, <2>11 DEF NegativeDone, FailedInReference, Failed, Origins, defeasibleVars
    <3>3. CASE Unindexed(theory) = {}
      BY <3>1, <3>2, <3>3 DEF Reference!vars
    <3>4. CASE Unindexed(theory) # {}
      <4>1. \A q \in Unindexed(theory) :
               CanRefuteDefeasible(theory, definiteProven, definiteDisproven,
                                   defeasibleProven, FailedInReference, q)
        BY <1>2, <2>1, <3>1, UnindexedFails DEF CanRefuteDefeasible, SupportingRules
      <4> QED
        BY <3>1, <3>2, <3>4, <4>1, RefuteDefeasibleStep DEF Unindexed
    <3> QED
      BY <3>3, <3>4
  <2>12. ASSUME NEW q \in ToSeed, Seed(q)
         PROVE  Goal
    <3>1. q \in definiteProven /\ q \in ClosedSet(theory) /\ q \notin defeasibleProven
      BY <2>1 DEF ToSeed
    <3>2. CanInferDefeasible(theory, definiteProven, definiteDisproven,
                             defeasibleProven, FailedInReference, q)
      BY <3>1 DEF CanInferDefeasible
    <3>3. /\ defeasibleProven' = defeasibleProven \cup {q}
          /\ UNCHANGED <<theory, phase, definiteProven, definiteDisproven, defeasibleDisproven>>
      BY <2>12 DEF Seed, definiteVars
    <3> QED
      BY <2>2, <3>1, <3>2, <3>3, InferDefeasibleStep
  <2>13. CASE StartRules
    BY <2>3, <2>13 DEF StartRules, definiteVars, defeasibleVars
  <2>14. ASSUME NEW e \in todo, DecideProved(e[1])
         PROVE  Goal
    <3> DEFINE q == e[1]
    <3>1. /\ q \in ClosedSet(theory)
          /\ CanInferDefeasible(theory, definiteProven, definiteDisproven,
                                defeasibleProven, Failed, q)
      <4>1. <<q, TRUE>> \in todo
        BY <2>14 DEF DecideProved
      <4>2. Decision(<<q, TRUE>>) /\ q \in LiteralSet(theory)
        BY <1>2, <4>1 DEF Sound, Origins
      <4> QED
        BY <2>1, <4>2 DEF Decision
    <3> HIDE DEF q
    <3>2. DecideProved(q) /\ FailedInReference = Failed
      BY <2>2, <2>14 DEF q
    <3>3. UNCHANGED <<theory, phase, definiteProven, definiteDisproven, defeasibleDisproven>>
      BY <3>2 DEF DecideProved, definiteVars
    <3>4. CASE defeasibleProven' = defeasibleProven
      BY <2>3, <3>3, <3>4
    <3>5. CASE defeasibleProven' # defeasibleProven
      <4>1. q \notin defeasibleProven /\ defeasibleProven' = defeasibleProven \cup {q}
        BY <3>2, <3>5 DEF DecideProved
      <4> QED
        BY <2>2, <3>1, <3>2, <3>3, <4>1, InferDefeasibleStep
    <3> QED
      BY <3>4, <3>5
  <2>15. ASSUME NEW e \in todo, DecideDisproved(e[1])
         PROVE  Goal
    <3> DEFINE q == e[1]
    <3>1. /\ q \in ClosedSet(theory)
          /\ CanRefuteDefeasible(theory, definiteProven, definiteDisproven,
                                 defeasibleProven, Failed, q)
      <4>1. <<q, FALSE>> \in todo
        BY <2>15 DEF DecideDisproved
      <4>2. Decision(<<q, FALSE>>) /\ q \in definiteDisproven
        BY <1>2, <4>1 DEF Sound, Origins
      <4> QED
        BY <1>2, <4>2 DEF Decision, Origins
    <3> HIDE DEF q
    <3>2. DecideDisproved(q) /\ FailedInReference = Failed /\ ~ Early(phase)
      BY <2>2, <2>15 DEF q
    <3>3. UNCHANGED <<theory, phase, definiteProven, definiteDisproven, defeasibleProven>>
      BY <3>2 DEF DecideDisproved, definiteVars
    <3>4. FailedInReference' = Failed'
      BY <3>2, <3>3 DEF FailedInReference
    <3>5. CASE Failed' = Failed
      BY <3>2, <3>3, <3>4, <3>5 DEF Reference!vars
    <3>6. CASE Failed' # Failed
      <4>1. q \notin Failed /\ Failed' = Failed \cup {q}
        BY <3>2, <3>3, <3>6 DEF DecideDisproved, Failed
      <4> DEFINE S == {q}
      <4>2. /\ S # {} /\ S \subseteq ClosedSet(theory) \ FailedInReference
            /\ FailedInReference' = FailedInReference \cup S
            /\ \A l \in S : CanRefuteDefeasible(theory, definiteProven, definiteDisproven,
                                               defeasibleProven, FailedInReference, l)
        BY <3>1, <3>2, <3>4, <4>1
      <4> HIDE DEF S
      <4> QED
        BY <3>3, <4>2, RefuteDefeasibleStep
    <3> QED
      BY <3>5, <3>6
  <2>16. ASSUME NEW q \in ClosedSet(theory), PopProved(q) \/ PopDisproved(q)
         PROVE  Goal
    <3>1. /\ UNCHANGED <<theory, definiteProven, definiteDisproven, defeasibleProven,
                          defeasibleDisproven>>
          /\ phase \in {"start", "drain", "sweep"} /\ phase' = "drain"
      BY <2>16 DEF PopProved, PopDisproved, definiteVars
    <3> QED
      BY <2>3, <3>1
  <2>17. CASE Sweep \/ Finish
    <3>1. /\ UNCHANGED <<theory, definiteProven, definiteDisproven, defeasibleProven,
                          defeasibleDisproven>>
          /\ phase \in {"start", "drain", "sweep"} /\ phase' \in {"sweep", "done"}
      BY <2>17 DEF Sweep, Finish, definiteVars, defeasibleVars
    <3> QED
      BY <2>3, <3>1
  <2> QED
    BY <1>2, <2>4, <2>5, <2>6, <2>7, <2>8, <2>9, <2>10, <2>11, <2>12, <2>13, <2>14, <2>15, <2>16,
       <2>17 DEF Next, Definite, Defeasible
<1> QED
  BY <1>1, <1>2, TypeCorrect, TagsOriginate, SoundAlways, PTL DEF Spec, Implements, Reference!Spec
=============================================================================
