---------------------- MODULE ReasonerComplete_proofs ----------------------
(***************************************************************************)
(* The engine forgets nothing, for every theory: when the call returns the *)
(* flags say all that the tags justify, nothing that can be inferred is    *)
(* missing, and the report is exact.  No handler ever has to choose        *)
(* between a proof and a refutation, and the tags are the least ones that  *)
(* the proof theory allows, so that no order in which rules, literals and  *)
(* events are met can make a difference.                                   *)
(***************************************************************************)
EXTENDS ReasonerSound_proofs

-----------------------------------------------------------------------------
(* A literal is never open to both a proof and a refutation. *)

(* The two conditions a handler tests exclude each other whatever the      *)
(* counters and flags say: a supporter that fires is not discarded, what   *)
(* opposes a provable literal is -D, and the defender that beats an        *)
(* attacker makes it beatable.                                             *)
LEMMA NotBothWays ==
  ASSUME Coherent, NEW rem, NEW disc, NEW q
  PROVE  ~ (CanProve(rem, disc, q) /\ CanDisprove(rem, disc, q))
<1> SUFFICES ASSUME CanProve(rem, disc, q), CanDisprove(rem, disc, q)
             PROVE  FALSE
  OBVIOUS
<1>1. q \notin definiteProven /\ Opponents(q) \cap definiteProven = {}
  BY DEF CanProve, CanDisprove, Coherent
<1>2. ~ \A r \in SupportingRules(theory, q) : disc[r]
  BY DEF CanProve, Supporters, Fires
<1>3. PICK a \in AttackingRules(theory, q) : Unbeatable(rem, disc, q, a)
  BY <1>1, <1>2 DEF CanDisprove
<1>4. PICK d \in DefendingRules(theory, q, a) : Fires(rem, disc, d) /\ Superior(theory, d, a)
  BY <1>3 DEF CanProve, Unbeatable, Fires
<1> QED
  BY <1>3, <1>4 DEF Unbeatable, Fires

(* So the decisions put on an agenda are about different, untagged         *)
(* literals.                                                               *)
LEMMA AgendaExclusive ==
  ASSUME Coherent, theory \in TheoryNames, NEW rem, NEW disc, NEW prove, NEW disprove,
         NEW e \in Agenda(rem, disc, prove, disprove)
  PROVE  /\ <<e[1], ~ e[2]>> \notin Agenda(rem, disc, prove, disprove)
         /\ e[1] \notin defeasibleProven \cup defeasibleDisproven
<1> DEFINE A == Agenda(rem, disc, prove, disprove)
<1>1. \A f \in A : \/ \E q : f = <<q, TRUE>> /\ CanProve(rem, disc, q)
                   \/ \E q : f = <<q, FALSE>> /\ CanDisprove(rem, disc, q)
  <2> SUFFICES ASSUME NEW f \in A
               PROVE  \/ \E q : f = <<q, TRUE>> /\ CanProve(rem, disc, q)
                      \/ \E q : f = <<q, FALSE>> /\ CanDisprove(rem, disc, q)
    OBVIOUS
  <2>1. CASE f \in {<<q, TRUE>> : q \in {l \in prove : CanProve(rem, disc, l)}}
    BY <2>1
  <2>2. CASE f \in {<<q, FALSE>> : q \in {l \in disprove : CanDisprove(rem, disc, l)}}
    BY <2>2
  <2> QED
    BY <2>1, <2>2 DEF Agenda
<1> HIDE DEF A
<1>2. \A q : ~ (<<q, TRUE>> \in A /\ <<q, FALSE>> \in A)
  <2> SUFFICES ASSUME NEW q, <<q, TRUE>> \in A, <<q, FALSE>> \in A
               PROVE  FALSE
    OBVIOUS
  <2>1. CanProve(rem, disc, q)
    BY <1>1
  <2>2. CanDisprove(rem, disc, q)
    BY <1>1
  <2> QED
    BY <2>1, <2>2, NotBothWays
<1>3. ASSUME NEW q, e = <<q, TRUE>>, CanProve(rem, disc, q)
      PROVE  <<e[1], ~ e[2]>> \notin A /\ e[1] \notin defeasibleProven \cup defeasibleDisproven
  <2>1. <<e[1], ~ e[2]>> = <<q, FALSE>> /\ e \in A
    BY <1>3 DEF A
  <2> QED
    BY <1>2, <1>3, <2>1 DEF CanProve
<1>4. ASSUME NEW q, e = <<q, FALSE>>, CanDisprove(rem, disc, q)
      PROVE  <<e[1], ~ e[2]>> \notin A /\ e[1] \notin defeasibleProven \cup defeasibleDisproven
  <2>1. <<e[1], ~ e[2]>> = <<q, TRUE>> /\ e \in A
    BY <1>4 DEF A
  <2> QED
    BY <1>2, <1>4, <2>1 DEF CanDisprove
<1>5. e \in A
  BY DEF A
<1> QED
  BY <1>1, <1>3, <1>4, <1>5 DEF A

(* Which steps tag a literal at the defeasible level: the seeding of a     *)
(* definite one and the decisions of the agenda.                           *)
LEMMA TagSteps ==
  ASSUME [Next]_vars
  PROVE  \/ \E q \in ToSeed : Seed(q)
         \/ \E e \in todo : DecideProved(e[1]) \/ DecideDisproved(e[1])
         \/ UNCHANGED <<theory, defeasibleProven, defeasibleDisproven>>
BY DEF Next, Definite, Defeasible, vars, SeedFact, SeededFacts, PopDefinite, Visit, ForwardDone,
       DeriveNegative, NegativeDone, StartRules, PopProved, PopDisproved, Sweep, Finish,
       defeasibleVars

(* No literal is ever open to both a proof and a refutation, and no        *)
(* decision still to be recorded has been taken the other way, so the      *)
(* order of the calls of a handler cannot matter.                          *)
THEOREM ExclusiveAlways == Spec => []Exclusive
<1>1. Init => Exclusive
  BY DEF Init, Exclusive
<1>2. ASSUME TypeOK, TypeOK', Origins, Coherent, Coherent', Exclusive, [Next]_vars
      PROVE  Exclusive'
  <2>1. theory \in TheoryNames /\ theory' = theory
    BY <1>2, StepKinds DEF TypeOK, TagsGrow
  <2>2. CASE StartRules \/ Handler
    <3>1. \E rem, disc, prove, disprove : todo' = Agenda(rem, disc, prove, disprove)
      BY <2>2 DEF StartRules, Handler, PopProved, PopDisproved, Sweep
    <3>2. UNCHANGED <<defeasibleProven, defeasibleDisproven>>
      BY <2>2 DEF StartRules, Handler, PopProved, PopDisproved, Sweep, defeasibleVars
    <3>3. /\ \A e \in todo' : <<e[1], ~ e[2]>> \notin todo'
          /\ \A e \in todo' : e[1] \notin defeasibleProven \cup defeasibleDisproven
      BY <1>2, <2>1, <3>1, AgendaExclusive
    <3> QED
      BY <3>2, <3>3 DEF Exclusive
  <2>3. CASE todo' \subseteq todo
    <3>1. CASE UNCHANGED <<theory, defeasibleProven, defeasibleDisproven>>
      BY <1>2, <2>3, <3>1 DEF Exclusive
    <3>2. ASSUME NEW q \in ToSeed, Seed(q)
          PROVE  Exclusive'
      BY <1>2, <2>3, <3>2 DEF Seed, Origins, Exclusive
    <3>3. ASSUME NEW q, NEW b \in BOOLEAN, <<q, b>> \in todo, todo' = todo \ {<<q, b>>},
                 defeasibleProven' \cup defeasibleDisproven'
                   \subseteq defeasibleProven \cup defeasibleDisproven \cup {q}
          PROVE  Exclusive'
      <4>1. \A e \in todo' : e[1] # q
        <5> SUFFICES ASSUME NEW e \in todo', e[1] = q
                     PROVE  FALSE
          OBVIOUS
        <5>1. e \in todo /\ e # <<q, b>> /\ e \in Event
          BY <1>2, <3>3 DEF TypeOK
        <5>2. e = <<q, e[2]>> /\ e[2] \in BOOLEAN
          BY <5>1 DEF Event
        <5>3. e[2] = ~ b
          BY <3>3, <5>1, <5>2
        <5>4. <<e[1], ~ e[2]>> = <<q, b>>
          BY <3>3, <5>3
        <5> QED
          BY <1>2, <3>3, <5>1, <5>4 DEF Exclusive
      <4> QED
        BY <1>2, <3>3, <4>1 DEF Exclusive
    <3>4. ASSUME NEW e \in todo, DecideProved(e[1])
          PROVE  Exclusive'
      <4> DEFINE q == e[1]
      <4>1. /\ <<q, TRUE>> \in todo /\ todo' = todo \ {<<q, TRUE>>}
            /\ defeasibleProven' \cup defeasibleDisproven'
                  \subseteq defeasibleProven \cup defeasibleDisproven \cup {q}
        BY <3>4 DEF DecideProved
      <4> QED
        BY <3>3, <4>1
    <3>5. ASSUME NEW e \in todo, DecideDisproved(e[1])
          PROVE  Exclusive'
      <4> DEFINE q == e[1]
      <4>1. /\ <<q, FALSE>> \in todo /\ todo' = todo \ {<<q, FALSE>>}
            /\ defeasibleProven' \cup defeasibleDisproven'
                  \subseteq defeasibleProven \cup defeasibleDisproven \cup {q}
        BY <3>5 DEF DecideDisproved
      <4> QED
        BY <3>3, <4>1
    <3> QED
      BY <1>2, <3>1, <3>2, <3>4, <3>5, TagSteps
  <2> QED
    BY <1>2, <2>2, <2>3, StepKinds
<1> QED
  BY <1>1, <1>2, TypeCorrect, TagsOriginate, PTL DEF Spec

-----------------------------------------------------------------------------
(* The invariant.  Every tag is still announced by an event, or has had    *)
(* its effect on the counters and flags.                                   *)

Awaits(seq, e) == \E i \in 1 .. Len(seq) : seq[i] = e

(* The definite level: facts are asserted, what is proven has covered the  *)
(* slots of the strict rules or is about to, and a strict rule that is     *)
(* covered has asserted its head.                                          *)
DefiniteDrawn ==
  /\ \A r \in BodylessDefinite(theory) : r \in unseeded \/ HeadOf(theory, r) \in definiteProven
  /\ \A q \in definiteProven :
        \/ q \in definiteWorklist
        \/ \A r \in Labels(theory) :
              KindOf(theory, r) = "strict" =>
                 <<q, r>> \in visits \/ MatchedSlots(theory, r, q) \subseteq definiteSatisfied[r]
  /\ \A r \in Labels(theory) :
        KindOf(theory, r) = "strict" /\ BodyOf(theory, r) # << >> /\ definiteRemaining[r] = 0
           => HeadOf(theory, r) \in definiteProven

(* What each phase has finished when it is left.                           *)
PhasesDone ==
  /\ phase # "facts" => unseeded = {}
  /\ phase \notin {"facts", "strict"} => definiteWorklist = {} /\ visits = {}
  /\ phase \notin {"facts", "strict", "negative"} => Refutable = {}
  /\ phase \notin {"facts", "strict", "negative", "seed"} => ToSeed = {}
  /\ phase = "done" => todo = {} /\ worklist = << >>

(* The defeasible level: a proof has covered the slots it matches, a       *)
(* refutation has been counted, and a premise all of whose members are     *)
(* counted has discarded its rule.                                         *)
Noticed ==
  /\ \A q \in defeasibleProven :
        \/ Awaits(worklist, <<q, TRUE>>)
        \/ \A r \in Labels(theory) : MatchedSlots(theory, r, q) \subseteq satisfied[r]
  /\ \A q \in defeasibleDisproven \cap LiteralSet(theory) :
        Awaits(worklist, <<q, FALSE>>) \/ q \in countedDead

DeathsNoticed ==
  \A r \in Labels(theory) : \A s \in Slots(theory, r) :
     LET b == BodyOf(theory, r)[s]
     IN  ~ NegativeModal(b) /\ Members(theory, b) \subseteq countedDead => discarded[r]

(* After a sweep, and until one of its decisions queues an event, nothing  *)
(* is left for another sweep but the decisions still to be taken.          *)
Swept ==
  phase \in {"sweep", "done"} /\ worklist = << >> =>
    /\ \A r \in Labels(theory) : /\ Refutations(r) \subseteq satisfied[r]
                                 /\ SweepDiscards(r) => discarded[r]
    /\ Agenda(remaining, discarded, LiteralSet(theory), LiteralSet(theory)) \subseteq todo

(* The conclusions pushed so far, whatever the spelling of their literals. *)
Lits(tag) == {Canonical(c.lit) : c \in {d \in conclusions : d.tag = tag}}

DefinitelyBy(r) ==
  /\ KindOf(theory, r) \in {"fact", "strict"}
  /\ DefinitelyApplicable(theory, definiteProven, r)

LitsReported ==
  /\ Lits("+D") = definiteProven
  /\ Lits("+d") = defeasibleProven
  /\ Lits("-D") = IF phase = "done" THEN definiteDisproven \cap LiteralSet(theory) ELSE {}
  /\ Lits("-d") = IF phase = "done" THEN defeasibleDisproven \cap LiteralSet(theory) ELSE {}

OneEach ==
  \A c, d \in conclusions : c.tag = d.tag /\ Canonical(c.lit) = Canonical(d.lit) => c = d

Reason(c) ==
  /\ c.tag \in {"+D", "+d"} => /\ c.label \in Labels(theory)
                               /\ RuleOf(theory, c.label).head = c.lit
  /\ c.tag = "+D" => DefinitelyBy(c.label)
  /\ c.tag = "+d" => /\ Productive(theory, c.label)
                     /\ remaining[c.label] = 0 \/ DefinitelyBy(c.label)

Pushed ==
  /\ LitsReported
  /\ OneEach
  /\ \A c \in conclusions : Reason(c)

-----------------------------------------------------------------------------
(* Phase 1. *)

(* Which steps change the definite worklists, tags and counters. *)
LEMMA DefiniteSteps ==
  ASSUME [Next]_vars
  PROVE  \/ \E r \in unseeded : SeedFact(r)
         \/ \E q \in definiteWorklist : PopDefinite(q)
         \/ \E v \in visits : Visit(v[1], v[2])
         \/ UNCHANGED <<theory, unseeded, definiteVars>>
BY DEF Next, Definite, Defeasible, vars, SeededFacts, ForwardDone, DeriveNegative, NegativeDone,
       Seed, StartRules, DecideProved, DecideDisproved, PopProved, PopDisproved, Sweep, Finish

(* Nothing definite is lost: what has been proven has covered the slots it *)
(* matches of every strict rule or is still queued to, and a strict rule   *)
(* all of whose slots are covered has asserted its head.                   *)
THEOREM DefiniteDrawnAlways == Spec => []DefiniteDrawn
<1>1. Init => DefiniteDrawn
  <2> SUFFICES ASSUME Init
               PROVE  DefiniteDrawn
    OBVIOUS
  <2>1. theory \in TheoryNames
    BY DEF Init
  <2>2. ASSUME NEW r \in Labels(theory), BodyOf(theory, r) # << >>
        PROVE  definiteRemaining[r] # 0
    <3>1. BodyOf(theory, r) \in Seq(Literal) /\ definiteRemaining[r] = Len(BodyOf(theory, r))
      BY <2>1, RuleType DEF Init, InitialRemaining
    <3> QED
      BY <2>2, <3>1
  <2> QED
    BY <2>2 DEF Init, DefiniteDrawn
<1>2. ASSUME TypeOK, Origins, DefiniteDrawn, [Next]_vars
      PROVE  DefiniteDrawn'
  <2>1. ASSUME NEW r \in unseeded, SeedFact(r)
        PROVE  DefiniteDrawn'
    <3> DEFINE h == HeadOf(theory, r)
    <3>1. /\ unseeded' = unseeded \ {r}
          /\ UNCHANGED <<theory, visits, definiteSatisfied, definiteRemaining>>
      BY <2>1 DEF SeedFact
    <3>2. /\ definiteProven' = definiteProven \cup {h}
          /\ definiteWorklist \subseteq definiteWorklist'
          /\ h \notin definiteProven => h \in definiteWorklist'
      BY <2>1 DEF SeedFact
    <3> HIDE DEF h
    <3>3. \A s \in BodylessDefinite(theory) : s \in unseeded' \/ HeadOf(theory, s) \in definiteProven'
      BY <1>2, <3>1, <3>2 DEF DefiniteDrawn, h
    <3> QED
      BY <1>2, <3>1, <3>2, <3>3 DEF DefiniteDrawn, BodylessDefinite
  <2>2. ASSUME NEW q \in definiteWorklist, PopDefinite(q)
        PROVE  DefiniteDrawn'
    <3>1. /\ visits = {} /\ definiteWorklist' = definiteWorklist \ {q}
          /\ visits' = {q} \X {r \in RulesWithBody(theory, q) : KindOf(theory, r) = "strict"}
          /\ UNCHANGED <<theory, unseeded, definiteProven, definiteSatisfied, definiteRemaining>>
      BY <2>2 DEF PopDefinite
    <3>2. ASSUME NEW r \in Labels(theory), KindOf(theory, r) = "strict"
          PROVE  <<q, r>> \in visits' \/ MatchedSlots(theory, r, q) \subseteq definiteSatisfied[r]
      BY <3>1, <3>2 DEF RulesWithBody
    <3> QED
      BY <1>2, <3>1, <3>2 DEF DefiniteDrawn, BodylessDefinite
  <2>3. ASSUME NEW v \in visits, Visit(v[1], v[2])
        PROVE  DefiniteDrawn'
    <3> DEFINE q == v[1]
               r == v[2]
               h == HeadOf(theory, r)
    <3>1. r \in Labels(theory) /\ v = <<q, r>>
      BY <1>2 DEF TypeOK
    <3>2. /\ visits' = visits \ {<<q, r>>} /\ UNCHANGED <<theory, unseeded>>
          /\ definiteSatisfied' = Cover(definiteSatisfied, {r}, q)
          /\ definiteRemaining' = Count(definiteRemaining, definiteSatisfied, {r}, q)
      BY <2>3 DEF Visit
    <3>3. \/ /\ definiteProven' = definiteProven \cup {h}
             /\ definiteWorklist' = definiteWorklist \cup {h}
          \/ UNCHANGED <<definiteProven, definiteWorklist>>
      BY <2>3 DEF Visit
    <3>4. definiteRemaining[r] > 0 /\ definiteRemaining'[r] = 0 => h \in definiteProven'
      BY <2>3 DEF Visit
    <3> HIDE DEF q, r, h
    <3>5. /\ \A s \in Labels(theory) : definiteSatisfied[s] \subseteq definiteSatisfied'[s]
          /\ MatchedSlots(theory, r, q) \subseteq definiteSatisfied'[r]
          /\ \A s \in Labels(theory) \ {r} : definiteRemaining'[s] = definiteRemaining[s]
      BY <3>1, <3>2 DEF Cover, Count
    <3>6. ASSUME NEW l \in definiteProven'
          PROVE  \/ l \in definiteWorklist'
                 \/ \A s \in Labels(theory) :
                       KindOf(theory, s) = "strict" =>
                         <<l, s>> \in visits' \/ MatchedSlots(theory, s, l) \subseteq definiteSatisfied'[s]
      <4>1. CASE l \notin definiteProven \/ l \in definiteWorklist
        BY <3>3, <3>6, <4>1
      <4>2. CASE l \in definiteProven /\ l \notin definiteWorklist
        <5> SUFFICES ASSUME NEW s \in Labels(theory), KindOf(theory, s) = "strict", <<l, s>> \notin visits'
                     PROVE  MatchedSlots(theory, s, l) \subseteq definiteSatisfied'[s]
          OBVIOUS
        <5>1. CASE <<l, s>> \in visits
          <6>1. l = q /\ s = r
            BY <3>2, <5>1
          <6> QED
            BY <3>5, <6>1
        <5>2. CASE <<l, s>> \notin visits
          BY <1>2, <3>5, <4>2, <5>2 DEF DefiniteDrawn
        <5> QED
          BY <5>1, <5>2
      <4> QED
        BY <4>1, <4>2
    <3>7. ASSUME NEW s \in Labels(theory), KindOf(theory, s) = "strict", BodyOf(theory, s) # << >>,
                 definiteRemaining'[s] = 0
          PROVE  HeadOf(theory, s) \in definiteProven'
      <4>1. CASE definiteRemaining[s] = 0
        BY <1>2, <3>3, <3>7, <4>1 DEF DefiniteDrawn
      <4>2. CASE definiteRemaining[s] # 0
        <5>1. s = r /\ definiteRemaining[s] > 0
          BY <1>2, <3>5, <3>7, <4>2 DEF TypeOK
        <5> QED
          BY <3>4, <3>7, <5>1 DEF h
      <4> QED
        BY <4>1, <4>2
    <3>8. \A s \in BodylessDefinite(theory) : s \in unseeded' \/ HeadOf(theory, s) \in definiteProven'
      BY <1>2, <3>2, <3>3 DEF DefiniteDrawn
    <3> QED
      BY <3>2, <3>6, <3>7, <3>8 DEF DefiniteDrawn, BodylessDefinite
  <2>4. CASE UNCHANGED <<theory, unseeded, definiteVars>>
    BY <1>2, <2>4 DEF DefiniteDrawn, BodylessDefinite, definiteVars
  <2> QED
    BY <1>2, <2>1, <2>2, <2>3, <2>4, DefiniteSteps
<1> QED
  BY <1>1, <1>2, TypeCorrect, TagsOriginate, PTL DEF Spec

(* A phase is left only when its work is done, and no later step brings    *)
(* any of it back.                                                         *)
THEOREM PhasesDoneAlways == Spec => []PhasesDone
<1>1. Init => PhasesDone
  BY DEF Init, PhasesDone
<1>2. ASSUME Origins, PhasesDone, [Next]_vars
      PROVE  PhasesDone'
  <2>1. CASE UNCHANGED vars
    BY <1>2, <2>1, SMTT(30) DEF PhasesDone, Refutable, DefiniteFailure, ToSeed, vars, definiteVars, defeasibleVars
  <2>2. ASSUME NEW r \in unseeded, SeedFact(r)
        PROVE  PhasesDone'
    BY <1>2, <2>2 DEF PhasesDone, SeedFact
  <2>3. CASE SeededFacts
    BY <1>2, <2>3 DEF PhasesDone, SeededFacts
  <2>4. ASSUME NEW q \in definiteWorklist, PopDefinite(q)
        PROVE  PhasesDone'
    BY <1>2, <2>4 DEF PhasesDone, PopDefinite
  <2>5. ASSUME NEW v \in visits, Visit(v[1], v[2])
        PROVE  PhasesDone'
    BY <1>2, <2>5 DEF PhasesDone, Visit
  <2>6. CASE ForwardDone
    BY <1>2, <2>6 DEF PhasesDone, ForwardDone, definiteVars
  <2>7. CASE DeriveNegative
    BY <1>2, <2>7 DEF PhasesDone, DeriveNegative, definiteVars
  <2>8. CASE NegativeDone
    BY <1>2, <2>8 DEF PhasesDone, NegativeDone, Refutable, DefiniteFailure, definiteVars
  <2>9. ASSUME UNCHANGED <<theory, unseeded, definiteVars, definiteDisproven>>,
               defeasibleProven \subseteq defeasibleProven'
        PROVE  Refutable' = Refutable /\ ToSeed' \subseteq ToSeed
    BY <2>9 DEF Refutable, DefiniteFailure, ToSeed, definiteVars
  <2>10. ASSUME NEW q \in ToSeed, Seed(q)
         PROVE  PhasesDone'
    <3>1. Refutable' = Refutable
      BY <2>9, <2>10 DEF Seed
    <3> QED
      BY <1>2, <2>10, <3>1 DEF PhasesDone, Seed, definiteVars
  <2>11. CASE StartRules
    <3>1. Refutable' = Refutable /\ ToSeed' \subseteq ToSeed
      BY <2>9, <2>11 DEF StartRules, defeasibleVars
    <3> QED
      BY <1>2, <2>11, <3>1 DEF PhasesDone, StartRules, definiteVars
  <2>12. ASSUME UNCHANGED <<theory, unseeded, definiteVars, definiteDisproven>>,
                defeasibleProven \subseteq defeasibleProven',
                phase' = phase \/ (phase \in {"start", "drain", "sweep"} /\ phase' # "seed"),
                phase' \notin {"facts", "strict", "negative"},
                phase' = "done" => todo' = {} /\ worklist' = << >>
         PROVE  PhasesDone'
    <3>1. Refutable' = Refutable /\ ToSeed' \subseteq ToSeed
      BY <2>9, <2>12
    <3> QED
      BY <1>2, <2>12, <3>1 DEF PhasesDone, definiteVars
  <2>13. ASSUME NEW e \in todo, DecideProved(e[1]) \/ DecideDisproved(e[1])
         PROVE  PhasesDone'
    <3>1. /\ UNCHANGED <<theory, phase, unseeded, definiteVars, definiteDisproven>>
          /\ defeasibleProven \subseteq defeasibleProven'
          /\ phase # "done" /\ phase \notin {"facts", "strict", "negative", "seed"}
      BY <1>2, <2>13 DEF DecideProved, DecideDisproved, PhasesDone, Origins
    <3> QED
      BY <2>12, <3>1
  <2>14. ASSUME NEW q \in ClosedSet(theory), PopProved(q) \/ PopDisproved(q)
         PROVE  PhasesDone'
    <3>1. /\ UNCHANGED <<theory, unseeded, definiteVars, definiteDisproven, defeasibleProven>>
          /\ phase \in {"start", "drain", "sweep"} /\ phase' = "drain"
      BY <2>14 DEF PopProved, PopDisproved
    <3> QED
      BY <2>12, <3>1
  <2>15. CASE Sweep \/ Finish
    <3>1. /\ UNCHANGED <<theory, unseeded, definiteVars, definiteDisproven, defeasibleProven>>
          /\ phase \in {"start", "drain", "sweep"} /\ phase' \in {"sweep", "done"}
          /\ phase' = "done" => todo' = {} /\ worklist' = << >>
      BY <2>15 DEF Sweep, Finish, defeasibleVars
    <3> QED
      BY <2>12, <3>1
  <2> QED
    BY <1>2, <2>1, <2>2, <2>3, <2>4, <2>5, <2>6, <2>7, <2>8, <2>9, <2>10, <2>11, <2>12, <2>13,
       <2>14, <2>15 DEF Next, Definite, Defeasible
<1> QED
  BY <1>1, <1>2, TagsOriginate, PTL DEF Spec

-----------------------------------------------------------------------------
(* Phase 2: what the queue still announces. *)

(* What is queued after an event has been added. *)
LEMMA AwaitsAppend ==
  ASSUME NEW S, NEW seq \in Seq(S), NEW e \in S, NEW f
  PROVE  /\ Awaits(seq, f) => Awaits(Append(seq, e), f)
         /\ Awaits(Append(seq, e), e)
<1>1. /\ Len(Append(seq, e)) = Len(seq) + 1 /\ Len(seq) \in Nat
      /\ \A i \in 1 .. Len(seq) : Append(seq, e)[i] = seq[i]
      /\ Append(seq, e)[Len(seq) + 1] = e
  OBVIOUS
<1> QED
  BY <1>1 DEF Awaits

(* What is queued but is not the next event stays queued. *)
LEMMA AwaitsTail ==
  ASSUME NEW S, NEW seq \in Seq(S), seq # << >>, NEW f, Awaits(seq, f)
  PROVE  f = Head(seq) \/ Awaits(Tail(seq), f)
<1>1. /\ Head(seq) = seq[1] /\ Len(Tail(seq)) = Len(seq) - 1 /\ Len(seq) \in Nat
      /\ \A i \in 1 .. Len(seq) - 1 : Tail(seq)[i] = seq[i + 1]
  OBVIOUS
<1>2. PICK i \in 1 .. Len(seq) : seq[i] = f
  BY DEF Awaits
<1>3. CASE i = 1
  BY <1>1, <1>2, <1>3
<1>4. CASE i # 1
  <2>1. i - 1 \in 1 .. Len(Tail(seq)) /\ Tail(seq)[i - 1] = f
    BY <1>1, <1>2, <1>4
  <2> QED
    BY <2>1 DEF Awaits
<1> QED
  BY <1>3, <1>4

(* Events are told apart by their literal and by what they announce. *)
LEMMA EventsDiffer ==
  ASSUME NEW q, NEW l
  PROVE  /\ <<l, FALSE>> # <<q, TRUE>>
         /\ \A b \in BOOLEAN : <<l, b>> = <<q, b>> => l = q
<1>1. ASSUME <<l, FALSE>> = <<q, TRUE>>
      PROVE  FALSE
  <2>1. <<l, FALSE>>[2] = <<q, TRUE>>[2]
    BY <1>1
  <2> QED
    BY <2>1
<1> QED
  BY <1>1

(* The steps that change the queue. *)
LEMMA QueueSteps ==
  ASSUME [Next]_vars
  PROVE  \/ \E q \in ToSeed : Seed(q)
         \/ \E e \in todo : DecideProved(e[1]) \/ DecideDisproved(e[1])
         \/ \E q \in ClosedSet(theory) : PopProved(q) \/ PopDisproved(q)
         \/ UNCHANGED <<defeasibleProven, defeasibleDisproven, worklist>>
BY DEF Next, Definite, Defeasible, vars, SeedFact, SeededFacts, PopDefinite, Visit, ForwardDone,
       DeriveNegative, NegativeDone, StartRules, Sweep, Finish, defeasibleVars

(* A new tag is announced, and an announcement leaves the queue only when  *)
(* it is handled.                                                          *)
LEMMA Announced ==
  ASSUME TypeOK, [Next]_vars
  PROVE  /\ \A q \in defeasibleProven' \ defeasibleProven : Awaits(worklist', <<q, TRUE>>)
         /\ \A q \in defeasibleDisproven' \ defeasibleDisproven : Awaits(worklist', <<q, FALSE>>)
         /\ \A q : Awaits(worklist, <<q, TRUE>>) => Awaits(worklist', <<q, TRUE>>) \/ PopProved(q)
         /\ \A q : Awaits(worklist, <<q, FALSE>>) => Awaits(worklist', <<q, FALSE>>) \/ PopDisproved(q)
<1> DEFINE Goal ==
      /\ \A q \in defeasibleProven' \ defeasibleProven : Awaits(worklist', <<q, TRUE>>)
      /\ \A q \in defeasibleDisproven' \ defeasibleDisproven : Awaits(worklist', <<q, FALSE>>)
      /\ \A q : Awaits(worklist, <<q, TRUE>>) => Awaits(worklist', <<q, TRUE>>) \/ PopProved(q)
      /\ \A q : Awaits(worklist, <<q, FALSE>>) => Awaits(worklist', <<q, FALSE>>) \/ PopDisproved(q)
<1>0. worklist \in Seq(Event)
  BY DEF TypeOK
<1>1. ASSUME NEW q \in Literal, worklist' = Append(worklist, <<q, TRUE>>),
             defeasibleProven' = defeasibleProven \cup {q},
             defeasibleDisproven' = defeasibleDisproven
      PROVE  Goal
  <2>1. <<q, TRUE>> \in Event
    BY DEF Event
  <2>2. /\ \A f : Awaits(worklist, f) => Awaits(worklist', f)
        /\ Awaits(worklist', <<q, TRUE>>)
    BY <1>0, <1>1, <2>1, AwaitsAppend
  <2> QED
    BY <1>1, <2>2
<1>2. ASSUME NEW q \in Literal, worklist' = Append(worklist, <<q, FALSE>>),
             defeasibleProven' = defeasibleProven,
             defeasibleDisproven' = defeasibleDisproven \cup {q}
      PROVE  Goal
  <2>1. <<q, FALSE>> \in Event
    BY DEF Event
  <2>2. /\ \A f : Awaits(worklist, f) => Awaits(worklist', f)
        /\ Awaits(worklist', <<q, FALSE>>)
    BY <1>0, <1>2, <2>1, AwaitsAppend
  <2> QED
    BY <1>2, <2>2
<1>3. CASE UNCHANGED <<defeasibleProven, defeasibleDisproven, worklist>>
  BY <1>3
<1>4. ASSUME NEW q \in ToSeed, Seed(q)
      PROVE  Goal
  <2>1. q \in Literal
    BY LiteralSetType DEF ToSeed, TypeOK
  <2> QED
    BY <1>1, <1>4, <2>1 DEF Seed
<1>5. ASSUME NEW e \in todo, DecideProved(e[1])
      PROVE  Goal
  <2>1. e[1] \in Literal
    BY DEF TypeOK, Event
  <2> QED
    BY <1>1, <1>3, <1>5, <2>1 DEF DecideProved
<1>6. ASSUME NEW e \in todo, DecideDisproved(e[1])
      PROVE  Goal
  <2>1. e[1] \in Literal
    BY DEF TypeOK, Event
  <2> QED
    BY <1>2, <1>3, <1>6, <2>1 DEF DecideDisproved
<1>7. ASSUME NEW q \in ClosedSet(theory), PopProved(q) \/ PopDisproved(q)
      PROVE  Goal
  <2>1. /\ worklist # << >> /\ worklist' = Tail(worklist)
        /\ UNCHANGED <<defeasibleProven, defeasibleDisproven>>
    BY <1>7 DEF PopProved, PopDisproved
  <2>2. \A f : Awaits(worklist, f) => Awaits(worklist', f) \/ f = Head(worklist)
    BY <1>0, <2>1, AwaitsTail
  <2>3. CASE PopProved(q)
    <3>0. Head(worklist) = <<q, TRUE>>
      BY <2>3 DEF PopProved
    <3>1. /\ \A l : <<l, FALSE>> # Head(worklist)
          /\ \A l : <<l, TRUE>> = Head(worklist) => l = q
      BY <3>0, EventsDiffer
    <3>2. /\ \A l : Awaits(worklist, <<l, FALSE>>) => Awaits(worklist', <<l, FALSE>>)
          /\ \A l : Awaits(worklist, <<l, TRUE>>) => Awaits(worklist', <<l, TRUE>>) \/ l = q
      BY <2>2, <3>1
    <3>3. \A l : l = q => PopProved(l)
      BY <2>3
    <3> QED
      BY <2>1, <3>2, <3>3
  <2>4. CASE PopDisproved(q)
    <3>0. Head(worklist) = <<q, FALSE>>
      BY <2>4 DEF PopDisproved
    <3>1. /\ \A l : <<l, TRUE>> # Head(worklist)
          /\ \A l : <<l, FALSE>> = Head(worklist) => l = q
      BY <3>0, EventsDiffer
    <3>2. /\ \A l : Awaits(worklist, <<l, TRUE>>) => Awaits(worklist', <<l, TRUE>>)
          /\ \A l : Awaits(worklist, <<l, FALSE>>) => Awaits(worklist', <<l, FALSE>>) \/ l = q
      BY <2>2, <3>1
    <3>3. \A l : l = q => PopDisproved(l)
      BY <2>4
    <3> QED
      BY <2>1, <3>2, <3>3
  <2> QED
    BY <1>7, <2>3, <2>4
<1> QED
  BY <1>3, <1>4, <1>5, <1>6, <1>7, QueueSteps

(* A tag whose event has left the queue has covered its slots or has been  *)
(* counted in its family.                                                  *)
THEOREM NoticedAlways == Spec => []Noticed
<1>1. Init => Noticed
  BY DEF Init, Noticed
<1>2. ASSUME TypeOK, TypeOK', Noticed, [Next]_vars
      PROVE  Noticed'
  <2>1. theory' = theory
    BY <1>2, StepKinds DEF TagsGrow
  <2>2. \A r \in Labels(theory) : satisfied[r] \subseteq satisfied'[r]
    BY <1>2, CoversGrow
  <2>3. countedDead \subseteq countedDead'
    <3>1. UNCHANGED counterVars \/ Handler
      BY <1>2, StepKinds
    <3> QED
      BY <3>1 DEF counterVars, Handler, PopProved, PopDisproved, Sweep
  <2>4. ASSUME NEW q \in defeasibleProven', ~ Awaits(worklist', <<q, TRUE>>),
               NEW r \in Labels(theory)
        PROVE  MatchedSlots(theory, r, q) \subseteq satisfied'[r]
    <3>1. q \in defeasibleProven
      BY <1>2, <2>4, Announced
    <3>2. CASE Awaits(worklist, <<q, TRUE>>)
      <4>1. PopProved(q)
        BY <1>2, <2>4, <3>2, Announced
      <4> QED
        BY <4>1 DEF PopProved, Cover, RulesWithBody
    <3>3. CASE ~ Awaits(worklist, <<q, TRUE>>)
      BY <1>2, <2>2, <3>1, <3>3 DEF Noticed
    <3> QED
      BY <3>2, <3>3
  <2>5. ASSUME NEW q \in defeasibleDisproven' \cap LiteralSet(theory), ~ Awaits(worklist', <<q, FALSE>>)
        PROVE  q \in countedDead'
    <3>1. q \in defeasibleDisproven
      BY <1>2, <2>5, Announced
    <3>2. CASE Awaits(worklist, <<q, FALSE>>)
      <4>1. PopDisproved(q)
        BY <1>2, <2>5, <3>2, Announced
      <4> QED
        BY <2>5, <4>1 DEF PopDisproved
    <3>3. CASE ~ Awaits(worklist, <<q, FALSE>>)
      BY <1>2, <2>3, <2>5, <3>1, <3>3 DEF Noticed
    <3> QED
      BY <3>2, <3>3
  <2> QED
    BY <2>1, <2>4, <2>5 DEF Noticed
<1> QED
  BY <1>1, <1>2, TypeCorrect, PTL DEF Spec

-----------------------------------------------------------------------------
(* Phase 2: premises all of whose members are refuted. *)

(* The canonical form of a premise satisfies it. *)
LEMMA CanonicalSatisfies ==
  ASSUME NEW l \in Literal
  PROVE  Satisfies(Canonical(l), l)
BY CanonicalOpponents DEF Satisfies, Family

(* The index holds a literal for every premise, and one for the expression *)
(* that a negative modal premise denies: no premise is without members.    *)
LEMMA MembersExist ==
  ASSUME NEW t \in TheoryNames, NEW r \in Labels(t), NEW s \in Slots(t, r)
  PROVE  /\ Members(t, BodyOf(t, r)[s]) # {}
         /\ NegativeModal(BodyOf(t, r)[s]) => Members(t, OuterNegation(BodyOf(t, r)[s])) # {}
<1> DEFINE rules == Theories[t].rules
           mentioned == UNION {{rules[l].head} \cup Premises(rules[l]) : l \in DOMAIN rules}
           b == BodyOf(t, r)[s]
<1>1. LiteralSet(t) = UNION {OppositionClosure(l) : l \in mentioned}
  <2>1. Theories[t] = Index(rules, Theories[t].sup)
    BY TheoriesAssumption
  <2> QED
    BY <2>1 DEF Index, LiteralSet
<1>2. b \in Literal /\ OuterNegation(b) \in Literal
  BY SlotsType, OuterNegationType
<1>3. b \in mentioned
  <2>1. BodyOf(t, r) \in Seq(Literal) /\ s \in 1 .. Len(BodyOf(t, r))
    BY RuleType DEF Slots
  <2>2. s \in DOMAIN rules[r].body /\ b = rules[r].body[s] /\ r \in DOMAIN rules
    BY <2>1 DEF BodyOf, RuleOf, Labels
  <2> QED
    BY <2>2 DEF Premises
<1> HIDE DEF mentioned, rules
<1>4. OppositionClosure(b) \subseteq LiteralSet(t)
  BY <1>1, <1>3
<1>5. Canonical(b) \in Members(t, b)
  BY <1>2, <1>4, ClosureType, CanonicalSatisfies DEF Members
<1>6. ASSUME NegativeModal(b)
      PROVE  Canonical(OuterNegation(b)) \in Members(t, OuterNegation(b))
  <2>1. /\ Deontic(b) /\ b.mode \in {"O", "P", "F"}
        /\ Canonical(b).mode \in {"O", "P"}
        /\ Canonical(OuterNegation(b)) = [Canonical(b) EXCEPT !.mneg = ~ b.mneg]
    BY <1>2, <1>6 DEF NegativeModal, Deontic, Canonical, OuterNegation, Literal
  <2>2. Canonical(OuterNegation(b)) \in OppositionClosure(b)
    <3>1. Canonical(b) \in Literal /\ b.mneg \in BOOLEAN
      BY <1>2, CanonicalType DEF Literal
    <3> QED
      BY <2>1, <3>1 DEF OppositionClosure, Literal
  <2> QED
    BY <1>2, <1>4, <2>2, CanonicalSatisfies DEF Members
<1> QED
  BY <1>5, <1>6

(* A premise that is not a negative modal one and all of whose members     *)
(* have been counted as refuted has discarded its rule, whatever the order *)
(* in which the members of the family were refuted.                        *)
THEOREM DeathsNoticedAlways == Spec => []DeathsNoticed
<1>1. Init => DeathsNoticed
  <2> SUFFICES ASSUME Init, NEW r \in Labels(theory), NEW s \in Slots(theory, r),
                      Members(theory, BodyOf(theory, r)[s]) \subseteq countedDead
               PROVE  FALSE
    BY DEF DeathsNoticed, Init
  <2>1. theory \in TheoryNames /\ countedDead = {}
    BY DEF Init
  <2> QED
    BY <2>1, MembersExist
<1>2. ASSUME TypeOK, TypeOK', CountsFamily, DeathsNoticed, [Next]_vars
      PROVE  DeathsNoticed'
  <2>1. theory \in TheoryNames /\ theory' = theory /\ (UNCHANGED counterVars \/ Handler)
    BY <1>2, StepKinds DEF TagsGrow, TypeOK
  <2>2. CASE UNCHANGED <<theory, countedDead>> /\ \A r \in Labels(theory) : discarded[r] => discarded'[r]
    BY <1>2, <2>2 DEF DeathsNoticed
  <2>3. CASE UNCHANGED counterVars
    BY <2>1, <2>2, <2>3 DEF counterVars
  <2>4. ASSUME NEW q \in ClosedSet(theory), PopProved(q)
        PROVE  DeathsNoticed'
    BY <2>2, <2>4 DEF PopProved
  <2>5. CASE Sweep
    BY <2>2, <2>5 DEF Sweep
  <2>6. ASSUME NEW q \in ClosedSet(theory), PopDisproved(q)
        PROVE  DeathsNoticed'
    <3> SUFFICES ASSUME NEW r \in Labels(theory), NEW s \in Slots(theory, r),
                        ~ NegativeModal(BodyOf(theory, r)[s]),
                        Members(theory, BodyOf(theory, r)[s]) \subseteq countedDead'
                 PROVE  discarded'[r]
      BY <2>1 DEF DeathsNoticed
    <3> DEFINE b == BodyOf(theory, r)[s]
    <3>1. discarded'[r] = \/ discarded[r]
                          \/ \E z \in MatchedSlots(theory, r, q) :
                                Dead(familyLive', q, BodyOf(theory, r)[z])
      BY <2>6 DEF PopDisproved
    <3>2. CASE Members(theory, b) \subseteq countedDead
      BY <1>2, <3>1, <3>2 DEF DeathsNoticed
    <3>3. CASE ~ (Members(theory, b) \subseteq countedDead)
      <4>1. q \in Members(theory, b)
        BY <2>6, <3>3 DEF PopDisproved
      <4>2. q \in LiteralSet(theory) /\ Satisfies(q, b) /\ s \in MatchedSlots(theory, r, q)
        BY <4>1 DEF Members, MatchedSlots
      <4>3. ASSUME ~ Temporal(b)
            PROVE  familyLive'[Family(q)] = 0
        <5>1. CountsFamily' /\ Family(q) \in DOMAIN familyLive'
          BY <1>2, <2>1, <2>6, <4>2, FamilyCounted DEF TypeOK
        <5>2. familyLive'[Family(q)] = Cardinality(FamilyMembers(Family(q)) \ countedDead')
          BY <2>1, <5>1 DEF CountsFamily, FamilyMembers
        <5>3. FamilyMembers(Family(q)) \subseteq Members(theory, b)
          BY <4>2, <4>3 DEF FamilyMembers, Members, Satisfies
        <5>4. FamilyMembers(Family(q)) \ countedDead' = {}
          BY <5>3
        <5> QED
          BY <5>2, <5>4, FS_EmptySet
      <4>4. Dead(familyLive', q, b)
        BY <4>3 DEF Dead
      <4> QED
        BY <3>1, <4>2, <4>4
    <3> QED
      BY <3>2, <3>3
  <2> QED
    BY <2>1, <2>3, <2>4, <2>5, <2>6 DEF Handler
<1> QED
  BY <1>1, <1>2, TypeCorrect, SoundAlways, PTL DEF Spec, Sound

-----------------------------------------------------------------------------
(* Phase 2: nothing is left after a sweep that decides nothing. *)

(* What the sweep leaves undone: the decisions it has queued. *)
THEOREM SweptAlways == Spec => []Swept
<1>1. Init => Swept
  BY DEF Init, Swept
<1>2. ASSUME TypeOK, TypeOK', Origins, Exclusive, PhasesDone, Swept, [Next]_vars
      PROVE  Swept'
  <2>1. CASE phase' \notin {"sweep", "done"} \/ worklist' # << >>
    BY <2>1 DEF Swept
  <2>2. CASE UNCHANGED <<theory, definiteProven, definiteDisproven, defeasibleProven, defeasibleDisproven,
                         satisfied, remaining, discarded, todo, worklist>>
             /\ phase \in {"sweep", "done"}
    <3>1. /\ \A r \in Labels(theory) : /\ Refutations(r)' = Refutations(r)
                                      /\ SweepDiscards(r)' = SweepDiscards(r)
          /\ Agenda(remaining, discarded, LiteralSet(theory), LiteralSet(theory))'
               = Agenda(remaining, discarded, LiteralSet(theory), LiteralSet(theory))
      <4>1. \A r, s : /\ Denied(r, s)' = Denied(r, s)
                      /\ AllRefuted(r, s)' = AllRefuted(r, s)
                      /\ NegativeSlots(r)' = NegativeSlots(r)
        BY <2>2 DEF Denied, AllRefuted, NegativeSlots
      <4>2. \A q : /\ CanProve(remaining, discarded, q)' = CanProve(remaining, discarded, q)
                   /\ CanDisprove(remaining, discarded, q)' = CanDisprove(remaining, discarded, q)
        BY <2>2 DEF CanProve, CanDisprove, Supporters, Unbeatable, Fires, Open
      <4> QED
        BY <2>2, <4>1, <4>2 DEF Refutations, SweepDiscards, Agenda
    <3> QED
      BY <1>2, <2>2, <3>1 DEF Swept
  <2>3. CASE UNCHANGED vars
    BY <2>1, <2>2, <2>3 DEF vars, definiteVars, counterVars, defeasibleVars
  <2>4. CASE Definite
    <3>1. phase' \notin {"sweep", "done"}
      BY <2>4 DEF Definite, SeedFact, SeededFacts, PopDefinite, Visit, ForwardDone,
                  DeriveNegative, NegativeDone
    <3> QED
      BY <2>1, <3>1
  <2>5. CASE StartRules \/ \E q \in ToSeed : Seed(q)
    BY <2>1, <2>5 DEF StartRules, Seed
  <2>6. ASSUME NEW q \in ClosedSet(theory), PopProved(q) \/ PopDisproved(q)
        PROVE  Swept'
    BY <2>1, <2>6 DEF PopProved, PopDisproved
  <2>7. ASSUME NEW e \in todo, DecideProved(e[1]) \/ DecideDisproved(e[1])
        PROVE  Swept'
    <3>1. worklist \in Seq(Event) /\ e[1] \in Literal
      BY <1>2 DEF TypeOK, Event
    <3>2. e[1] \notin defeasibleProven \cup defeasibleDisproven
      BY <1>2 DEF Exclusive
    <3>3. \E x \in Event : worklist' = Append(worklist, x)
      BY <2>7, <3>1, <3>2 DEF DecideProved, DecideDisproved, Event
    <3>4. worklist' # << >>
      BY <3>1, <3>3
    <3> QED
      BY <2>1, <3>4
  <2>8. CASE Sweep
    <3>1. UNCHANGED <<theory, definiteProven, definiteDisproven, defeasibleProven, defeasibleDisproven>>
      BY <2>8 DEF Sweep, definiteVars, defeasibleVars
    <3>2. \A r, s : /\ Denied(r, s)' = Denied(r, s)
                    /\ AllRefuted(r, s)' = AllRefuted(r, s)
                    /\ NegativeSlots(r)' = NegativeSlots(r)
      BY <3>1 DEF Denied, AllRefuted, NegativeSlots
    <3>3. \A r \in Labels(theory) : /\ Refutations(r)' = Refutations(r)
                                   /\ SweepDiscards(r)' = SweepDiscards(r)
      BY <3>1, <3>2 DEF Refutations, SweepDiscards
    <3>4. /\ \A r \in Labels(theory) : Refutations(r) \subseteq satisfied'[r]
          /\ \A r \in Labels(theory) : SweepDiscards(r) => discarded'[r]
      BY <2>8 DEF Sweep
    <3>5. \A q : /\ CanProve(remaining, discarded, q)' = CanProve(remaining', discarded', q)
                 /\ CanDisprove(remaining, discarded, q)' = CanDisprove(remaining', discarded', q)
      BY <3>1 DEF CanProve, CanDisprove, Supporters, Unbeatable, Fires, Open
    <3>6. (Agenda(remaining, discarded, LiteralSet(theory), LiteralSet(theory)) \subseteq todo)'
      BY <2>8, <3>1, <3>5 DEF Sweep, Agenda
    <3>7. Labels(theory)' = Labels(theory)
      BY <3>1
    <3>8. (\A r \in Labels(theory) : /\ Refutations(r) \subseteq satisfied[r]
                                     /\ SweepDiscards(r) => discarded[r])'
      BY <3>3, <3>4, <3>7
    <3> QED
      BY <3>6, <3>8 DEF Swept
  <2>9. CASE Finish
    BY <2>2, <2>9 DEF Finish, definiteVars, counterVars, defeasibleVars
  <2> QED
    BY <1>2, <2>3, <2>4, <2>5, <2>6, <2>7, <2>8, <2>9 DEF Next, Defeasible
<1> QED
  BY <1>1, <1>2, TypeCorrect, TagsOriginate, ExclusiveAlways, PhasesDoneAlways, PTL DEF Spec

(* The engine forgets no rule: at the end, in every theory, a rule that    *)
(* the final tags make applicable has its counter at zero, and one that    *)
(* they discard is marked discarded.                                       *)
THEOREM FlagsCompleteAlways == Spec => []FlagsComplete
<1>1. ASSUME TypeOK, CountsSlots, Origins, Coherent, PhasesDone, Noticed, DeathsNoticed, Swept
      PROVE  FlagsComplete
  <2> SUFFICES ASSUME phase = "done", NEW r \in Labels(theory)
               PROVE  /\ Applicable(theory, defeasibleProven, Failed, r) => remaining[r] = 0
                      /\ Discarded(theory, defeasibleProven, Failed, r) => discarded[r]
    BY DEF FlagsComplete
  <2>1. theory \in TheoryNames /\ Counted(theory, satisfied, remaining)
    BY <1>1 DEF TypeOK, CountsSlots, Counted
  <2>2. worklist = << >> /\ \A e : ~ Awaits(worklist, e)
    BY <1>1 DEF PhasesDone, Awaits
  <2>0. \A b : /\ Holds(theory, defeasibleProven, b) <=> Members(theory, b) \cap defeasibleProven # {}
               /\ Refuted(theory, Failed, b) <=> Members(theory, b) \subseteq defeasibleDisproven
    BY <1>1, <2>1, MembersSuffice DEF Origins, Failed
  <2>3. /\ \A q \in defeasibleProven : MatchedSlots(theory, r, q) \subseteq satisfied[r]
        /\ defeasibleDisproven \cap LiteralSet(theory) \subseteq countedDead
        /\ Refutations(r) \subseteq satisfied[r]
        /\ SweepDiscards(r) => discarded[r]
    BY <1>1, <2>2 DEF Noticed, Swept
  <2>4. ASSUME Applicable(theory, defeasibleProven, Failed, r)
        PROVE  remaining[r] = 0
    <3>1. ASSUME NEW s \in Slots(theory, r)
          PROVE  s \in satisfied[r]
      <4> DEFINE b == BodyOf(theory, r)[s]
      <4>1. CASE Holds(theory, defeasibleProven, b)
        <5>1. PICK m \in Members(theory, b) : m \in defeasibleProven
          BY <2>0, <4>1
        <5>2. s \in MatchedSlots(theory, r, m)
          BY <5>1 DEF Members, MatchedSlots
        <5> QED
          BY <2>3, <5>1, <5>2
      <4>2. CASE NegativeModal(b) /\ Refuted(theory, Failed, OuterNegation(b))
        <5>1. Denied(r, s) # {} /\ Denied(r, s) \subseteq defeasibleDisproven
          BY <2>0, <2>1, <4>2, MembersExist DEF Denied
        <5> QED
          BY <2>3, <4>2, <5>1 DEF Refutations, NegativeSlots, AllRefuted
      <4> QED
        BY <2>4, <4>1, <4>2 DEF Applicable, Satisfied
    <3>2. satisfied[r] = Slots(theory, r)
      BY <2>1, <3>1 DEF Counted
    <3>3. /\ remaining[r] = Len(BodyOf(theory, r)) - Cardinality(Slots(theory, r))
          /\ Cardinality(Slots(theory, r)) = Len(BodyOf(theory, r))
          /\ Len(BodyOf(theory, r)) \in Nat
      BY <2>1, <3>2, SlotsType, RuleType DEF Counted
    <3> QED
      BY <3>3
  <2>5. ASSUME Discarded(theory, defeasibleProven, Failed, r)
        PROVE  discarded[r]
    <3>1. PICK s \in Slots(theory, r) :
             Unsatisfiable(theory, defeasibleProven, Failed, BodyOf(theory, r)[s])
      BY <2>5 DEF Discarded
    <3> DEFINE b == BodyOf(theory, r)[s]
    <3>2. CASE NegativeModal(b)
      <4>1. PICK m \in Denied(r, s) : m \in defeasibleProven
        BY <2>0, <3>1, <3>2 DEF Unsatisfiable, Denied
      <4>2. ~ AllRefuted(r, s)
        BY <1>1, <4>1 DEF AllRefuted, Coherent
      <4> QED
        BY <2>3, <3>2, <4>1, <4>2 DEF SweepDiscards, NegativeSlots
    <3>3. CASE ~ NegativeModal(b)
      <4>1. Members(theory, b) \subseteq countedDead
        BY <2>0, <2>3, <3>1, <3>3 DEF Unsatisfiable, Members
      <4> QED
        BY <1>1, <3>3, <4>1 DEF DeathsNoticed
    <3> QED
      BY <3>2, <3>3
  <2> QED
    BY <2>4, <2>5
<1> QED
  BY <1>1, TypeCorrect, TagsOriginate, PhasesDoneAlways, NoticedAlways, DeathsNoticedAlways,
     SweptAlways, PTL

-----------------------------------------------------------------------------
(* Nothing is missing. *)

(* What a step newly tags, it infers from the tags before it.              *)
NewTagsInferred ==
  /\ theory' = theory
  /\ definiteProven \subseteq definiteProven' /\ definiteDisproven \subseteq definiteDisproven'
  /\ defeasibleProven \subseteq defeasibleProven' /\ FailedInReference \subseteq FailedInReference'
  /\ \A q \in definiteProven' \ definiteProven :
        q \in ClosedSet(theory) /\ CanInferDefinite(theory, definiteProven, q)
  /\ \A q \in definiteDisproven' \ definiteDisproven :
        q \in ClosedSet(theory) /\ CanRefuteDefinite(theory, definiteDisproven, q)
  /\ \A q \in defeasibleProven' \ defeasibleProven :
        /\ q \in ClosedSet(theory)
        /\ CanInferDefeasible(theory, definiteProven, definiteDisproven,
                              defeasibleProven, FailedInReference, q)
  /\ \A q \in FailedInReference' \ FailedInReference :
        /\ q \in ClosedSet(theory)
        /\ CanRefuteDefeasible(theory, definiteProven, definiteDisproven,
                               defeasibleProven, FailedInReference, q)

(* A step of the proof theory tags literals whose condition holds.         *)
LEMMA TagsInferred ==
  ASSUME [Reference!Next]_(Reference!vars)
  PROVE  NewTagsInferred
<1>1. ASSUME UNCHANGED Reference!vars
      PROVE  NewTagsInferred
  BY <1>1 DEF Reference!vars, NewTagsInferred
<1>2. CASE Reference!InferDefinite
  BY <1>2, SameRules, SameConditions DEF Reference!InferDefinite, Reference!Part, NewTagsInferred
<1>3. CASE Reference!RefuteDefinite
  BY <1>3, SameRules, SameConditions DEF Reference!RefuteDefinite, Reference!Part, NewTagsInferred
<1>4. CASE Reference!InferDefeasible
  BY <1>4, SameRules, SameConditions DEF Reference!InferDefeasible, Reference!Part, NewTagsInferred
<1>5. CASE Reference!RefuteDefeasible
  BY <1>5, SameRules, SameConditions DEF Reference!RefuteDefeasible, Reference!Part, NewTagsInferred
<1> QED
  BY <1>1, <1>2, <1>3, <1>4, <1>5 DEF Reference!Next

(* Every tag is one that the present conditions still grant: no inference  *)
(* is undone by a later one.                                               *)
Justified ==
  /\ \A q \in definiteProven : CanInferDefinite(theory, definiteProven, q)
  /\ \A q \in definiteDisproven : CanRefuteDefinite(theory, definiteDisproven, q)
  /\ \A q \in defeasibleProven :
        CanInferDefeasible(theory, definiteProven, definiteDisproven,
                           defeasibleProven, FailedInReference, q)
  /\ \A q \in FailedInReference :
        CanRefuteDefeasible(theory, definiteProven, definiteDisproven,
                            defeasibleProven, FailedInReference, q)

(* A tag once granted stays granted by the tags that follow.               *)
THEOREM JustifiedAlways == Spec => []Justified
<1>1. Init => Justified
  BY DEF Init, Justified, FailedInReference
<1>2. ASSUME Justified, [Reference!Next]_(Reference!vars)
      PROVE  Justified'
  <2>1. NewTagsInferred
    BY <1>2, TagsInferred
  <2>2. ASSUME NEW q \in definiteProven'
        PROVE  CanInferDefinite(theory, definiteProven', q)
    BY <1>2, <2>1, DefiniteMonotone DEF NewTagsInferred, Justified
  <2>3. ASSUME NEW q \in definiteDisproven'
        PROVE  CanRefuteDefinite(theory, definiteDisproven', q)
    BY <1>2, <2>1, DefiniteMonotone DEF NewTagsInferred, Justified
  <2>4. ASSUME NEW q \in defeasibleProven'
        PROVE  CanInferDefeasible(theory, definiteProven', definiteDisproven',
                                  defeasibleProven', FailedInReference', q)
    <3>1. CanInferDefeasible(theory, definiteProven, definiteDisproven,
                             defeasibleProven, FailedInReference, q)
      BY <1>2, <2>1 DEF NewTagsInferred, Justified
    <3> QED
      BY <2>1, <3>1, DefeasibleMonotone DEF NewTagsInferred
  <2>5. ASSUME NEW q \in FailedInReference'
        PROVE  CanRefuteDefeasible(theory, definiteProven', definiteDisproven',
                                   defeasibleProven', FailedInReference', q)
    <3>1. CanRefuteDefeasible(theory, definiteProven, definiteDisproven,
                              defeasibleProven, FailedInReference, q)
      BY <1>2, <2>1 DEF NewTagsInferred, Justified
    <3> QED
      BY <2>1, <3>1, DefeasibleMonotone DEF NewTagsInferred
  <2> QED
    BY <2>1, <2>2, <2>3, <2>4, <2>5 DEF Justified, NewTagsInferred
<1> QED
  BY <1>1, <1>2, EngineImplements, PTL DEF Spec, Implements, Reference!Spec

(* With sound and complete flags, and no torn rule, the flags of a rule    *)
(* say exactly what the proof theory says of it.                           *)
LEMMA FlagsExact ==
  ASSUME FlagsSound, FlagsComplete, phase = "done",
         Untorn(theory, defeasibleProven, Failed), NEW r \in Labels(theory)
  PROVE  /\ Applicable(theory, defeasibleProven, Failed, r) =>
              Fires(remaining, discarded, r)
         /\ Discarded(theory, defeasibleProven, Failed, r) => discarded[r]
BY DEF FlagsSound, FlagsComplete, Untorn, Fires

(* When the call returns nothing that the proof theory can infer or refute *)
(* is missing, in every theory: at the definite level always, at the       *)
(* defeasible level unless some rule is torn.  What has no tag is          *)
(* undecided, not overlooked.                                              *)
THEOREM SaturatedAlways == Spec => []Saturated
<1>1. ASSUME TypeOK, CountsSlots, Origins, Coherent, Justified, DefiniteDrawn, PhasesDone, Swept,
             FlagsSound, FlagsComplete
      PROVE  Saturated
  <2> SUFFICES ASSUME phase = "done"
               PROVE  Saturated
    BY DEF Saturated
  <2>1. /\ theory \in TheoryNames /\ Counted(theory, definiteSatisfied, definiteRemaining)
        /\ LiteralSet(theory) \subseteq ClosedSet(theory)
    BY <1>1, ClosedSetType DEF TypeOK, CountsSlots, Counted
  <2>2. /\ unseeded = {} /\ definiteWorklist = {} /\ visits = {} /\ Refutable = {}
        /\ ToSeed = {} /\ todo = {} /\ worklist = << >> /\ FailedInReference = Failed
    BY <1>1 DEF PhasesDone, FailedInReference
  <2>3. ASSUME NEW q, CanInferDefinite(theory, definiteProven, q)
        PROVE  q \in definiteProven
    <3>1. PICK r \in Labels(theory) :
             /\ HeadOf(theory, r) = q
             /\ \/ KindOf(theory, r) = "fact"
                \/ KindOf(theory, r) = "strict" /\ DefinitelyApplicable(theory, definiteProven, r)
      BY <2>3 DEF CanInferDefinite, RulesWithHead
    <3>2. CASE BodyOf(theory, r) = << >>
      BY <1>1, <2>2, <3>1, <3>2 DEF DefiniteDrawn, BodylessDefinite
    <3>3. CASE BodyOf(theory, r) # << >>
      <4>1. KindOf(theory, r) = "strict" /\ DefinitelyApplicable(theory, definiteProven, r)
        <5>1. KindOf(theory, r) # "fact"
          BY <2>1, <3>3, TheoriesAssumption DEF KindOf, BodyOf, RuleOf, Labels
        <5> QED
          BY <3>1, <5>1
      <4>2. ASSUME NEW s \in Slots(theory, r)
            PROVE  s \in definiteSatisfied[r]
        <5>1. PICK m \in Members(theory, BodyOf(theory, r)[s]) : m \in definiteProven
          <6>1. Holds(theory, definiteProven, BodyOf(theory, r)[s])
            BY <4>1 DEF DefinitelyApplicable
          <6>2. definiteProven \subseteq LiteralSet(theory)
            BY <1>1 DEF Origins
          <6> QED
            BY <2>1, <6>1, <6>2, MembersSuffice
        <5>2. s \in MatchedSlots(theory, r, m)
          BY <5>1 DEF Members, MatchedSlots
        <5> QED
          BY <1>1, <2>2, <4>1, <5>1, <5>2 DEF DefiniteDrawn
      <4>3. definiteSatisfied[r] = Slots(theory, r)
        BY <2>1, <4>2 DEF Counted
      <4>4. definiteRemaining[r] = 0
        <5>1. /\ definiteRemaining[r] = Len(BodyOf(theory, r)) - Cardinality(Slots(theory, r))
              /\ Cardinality(Slots(theory, r)) = Len(BodyOf(theory, r))
              /\ Len(BodyOf(theory, r)) \in Nat
          BY <2>1, <4>3, SlotsType, RuleType DEF Counted
        <5> QED
          BY <5>1
      <4> QED
        BY <1>1, <3>1, <3>3, <4>1, <4>4 DEF DefiniteDrawn
    <3> QED
      BY <3>2, <3>3
  <2>4. ASSUME NEW q \in ClosedSet(theory), CanRefuteDefinite(theory, definiteDisproven, q)
        PROVE  q \in definiteDisproven
    <3>1. q \notin definiteProven
      BY <1>1, <2>4, NotBothDefinite DEF Justified, Coherent
    <3> QED
      BY <2>2, <2>4, <3>1, FailureRefutes DEF Refutable
  <2>5. ASSUME Untorn(theory, defeasibleProven, Failed),
               NEW q \in LiteralSet(theory) \ (defeasibleProven \cup defeasibleDisproven)
        PROVE  /\ ~ CanInferDefeasible(theory, definiteProven, definiteDisproven,
                                       defeasibleProven, Failed, q)
               /\ ~ CanRefuteDefeasible(theory, definiteProven, definiteDisproven,
                                        defeasibleProven, Failed, q)
    <3> DEFINE Appl(r) == Applicable(theory, defeasibleProven, Failed, r)
               Disc(r) == Discarded(theory, defeasibleProven, Failed, r)
    <3>1. ~ CanProve(remaining, discarded, q) /\ ~ CanDisprove(remaining, discarded, q)
      BY <1>1, <2>2, <2>5 DEF Swept, Agenda
    <3>2. /\ \A r \in Labels(theory) : Appl(r) => Fires(remaining, discarded, r)
          /\ \A r \in Labels(theory) : Disc(r) => discarded[r]
      BY <1>1, <2>5, FlagsExact
    <3>3. q \notin definiteProven
      BY <2>2, <2>5 DEF ToSeed
    <3>4. /\ SupportingRules(theory, q) \subseteq Labels(theory)
          /\ AttackingRules(theory, q) \subseteq Labels(theory)
          /\ \A a : DefendingRules(theory, q, a) \subseteq Labels(theory)
      BY DEF SupportingRules, RulesWithHead, AttackingRules, DefendingRules
    <3>5. ASSUME CanInferDefeasible(theory, definiteProven, definiteDisproven,
                                    defeasibleProven, Failed, q)
          PROVE  FALSE
      <4>1. /\ Opponents(q) \subseteq definiteDisproven
            /\ \E r \in SupportingRules(theory, q) : Appl(r)
            /\ \A a \in AttackingRules(theory, q) :
                  Disc(a) \/ Beaten(theory, defeasibleProven, Failed, q, a)
        BY <3>3, <3>5 DEF CanInferDefeasible
      <4>2. Supporters(remaining, discarded, q) # {}
        BY <3>2, <3>4, <4>1 DEF Supporters
      <4>3. \A a \in AttackingRules(theory, q) :
               \/ discarded[a]
               \/ \E d \in DefendingRules(theory, q, a) :
                     Fires(remaining, discarded, d) /\ Superior(theory, d, a)
        BY <3>2, <3>4, <4>1 DEF Beaten
      <4> QED
        BY <2>5, <3>1, <4>1, <4>2, <4>3 DEF CanProve
    <3>6. ASSUME CanRefuteDefeasible(theory, definiteProven, definiteDisproven,
                                     defeasibleProven, Failed, q)
          PROVE  FALSE
      <4>1. \A a \in AttackingRules(theory, q) :
               Overruled(theory, defeasibleProven, Failed, q, a) =>
                 Unbeatable(remaining, discarded, q, a)
        BY <3>2, <3>4 DEF Overruled, Unbeatable, Open
      <4>2. \/ Opponents(q) \cap definiteProven # {}
            \/ \A r \in SupportingRules(theory, q) : discarded[r]
            \/ \E a \in AttackingRules(theory, q) : Unbeatable(remaining, discarded, q, a)
        BY <3>2, <3>4, <3>6, <4>1 DEF CanRefuteDefeasible
      <4> QED
        BY <2>5, <3>1, <3>6, <4>2 DEF CanDisprove, CanRefuteDefeasible
    <3> QED
      BY <3>5, <3>6
  <2>6. ASSUME Untorn(theory, defeasibleProven, Failed), NEW q \in ClosedSet(theory)
        PROVE  /\ CanInferDefeasible(theory, definiteProven, definiteDisproven,
                                     defeasibleProven, Failed, q) => q \in defeasibleProven
               /\ CanRefuteDefeasible(theory, definiteProven, definiteDisproven,
                                      defeasibleProven, Failed, q) => q \in Failed
    <3>1. ~ /\ CanInferDefeasible(theory, definiteProven, definiteDisproven,
                                  defeasibleProven, Failed, q)
            /\ CanRefuteDefeasible(theory, definiteProven, definiteDisproven,
                                   defeasibleProven, Failed, q)
      BY <1>1, <2>6, UntornOneWay DEF Coherent
    <3>2. CASE q \in defeasibleProven \cup Failed
      BY <1>1, <2>2, <3>1, <3>2 DEF Justified
    <3>3. CASE q \in LiteralSet(theory) \ (defeasibleProven \cup defeasibleDisproven)
      BY <2>5, <2>6, <3>3
    <3> QED
      BY <3>2, <3>3 DEF Failed, Unindexed
  <2> QED
    BY <2>3, <2>4, <2>6 DEF Saturated
<1> QED
  BY <1>1, TypeCorrect, TagsOriginate, JustifiedAlways, DefiniteDrawnAlways, PhasesDoneAlways,
     SweptAlways, FlagsSoundAlways, FlagsCompleteAlways, PTL

(* Only a denial in a premise can tear a rule: without one the proviso of  *)
(* Saturated is always met.                                                *)
THEOREM NeverTorn == Spec => [](NoDenials(theory) => Untorn(theory, defeasibleProven, Failed))
<1>1. Origins /\ Coherent => (NoDenials(theory) => Untorn(theory, defeasibleProven, Failed))
  <2>1. Origins /\ Coherent => defeasibleProven \cap Failed = {}
    BY DEF Origins, Coherent, Failed, Unindexed
  <2> QED
    BY <2>1, NoDenialsUntorn
<1> QED
  BY <1>1, TagsOriginate, PTL

-----------------------------------------------------------------------------
(* The report. *)

(* What one more conclusion adds to the reported literals. *)
LEMMA LitsAdd ==
  ASSUME NEW tag, NEW l, NEW label, conclusions' = conclusions \cup {Conclude(tag, l, label)}
  PROVE  /\ Lits(tag)' = Lits(tag) \cup {Canonical(l)}
         /\ \A other : other # tag => Lits(other)' = Lits(other)
<1> DEFINE c == Conclude(tag, l, label)
<1>1. c.tag = tag /\ c.lit = l
  BY DEF Conclude
<1> HIDE DEF c
<1>2. conclusions' = conclusions \cup {c}
  BY DEF c
<1> QED
  BY <1>1, <1>2 DEF Lits

(* Which steps push conclusions. *)
LEMMA ReportSteps ==
  ASSUME [Next]_vars
  PROVE  \/ \E r \in unseeded : SeedFact(r)
         \/ \E v \in visits : Visit(v[1], v[2])
         \/ DeriveNegative
         \/ \E q \in ToSeed : Seed(q)
         \/ \E e \in todo : DecideProved(e[1]) \/ DecideDisproved(e[1])
         \/ Finish
         \/ /\ UNCHANGED <<theory, definiteProven, definiteDisproven, defeasibleProven, defeasibleDisproven,
                           conclusions>>
            /\ phase' = "done" <=> phase = "done"
BY DEF Next, Definite, Defeasible, vars, SeededFacts, PopDefinite, ForwardDone, NegativeDone,
       StartRules, PopProved, PopDisproved, Sweep, definiteVars, defeasibleVars

(* A conclusion that names a rule goes on naming a good one: heads and     *)
(* kinds do not change, a covered rule stays covered.                      *)
LEMMA ReasonsLast ==
  ASSUME TypeOK, CountsSlots, CountsSlots', TypeOK', [Next]_vars, NEW r \in Labels(theory)
  PROVE  /\ DefinitelyBy(r) => DefinitelyBy(r)'
         /\ remaining[r] = 0 => remaining'[r] = 0
<1>1. theory \in TheoryNames /\ theory' = theory /\ definiteProven \subseteq definiteProven'
  BY StepKinds DEF TagsGrow, TypeOK
<1>2. DefinitelyBy(r) => DefinitelyBy(r)'
  BY <1>1, HoldsMonotone DEF DefinitelyBy, DefinitelyApplicable
<1>3. ASSUME remaining[r] = 0
      PROVE  remaining'[r] = 0
  <2>1. /\ Counted(theory, satisfied, remaining)
        /\ Counted(theory, satisfied', remaining')
    BY <1>1 DEF TypeOK, CountsSlots, Counted
  <2>2. satisfied[r] = Slots(theory, r)
    BY <1>1, <1>3, <2>1, ZeroMeansCovered
  <2>3. satisfied'[r] = Slots(theory, r)
    BY <2>1, <2>2, CoversGrow DEF Counted
  <2> QED
    BY <1>1, <1>3, <2>1, <2>2, <2>3 DEF Counted
<1> QED
  BY <1>2, <1>3

(* One conclusion more, about a literal not yet reported with that tag.    *)
LEMMA PushOne ==
  ASSUME Pushed, NEW tag, NEW l, NEW label, Canonical(l) \notin Lits(tag),
         conclusions' = conclusions \cup {Conclude(tag, l, label)}
  PROVE  OneEach'
<1> DEFINE c == Conclude(tag, l, label)
<1>1. c.tag = tag /\ c.lit = l
  BY DEF Conclude
<1> HIDE DEF c
<1>2. conclusions' = conclusions \cup {c}
  BY DEF c
<1>3. \A d \in conclusions : ~ (d.tag = c.tag /\ Canonical(d.lit) = Canonical(c.lit))
  BY <1>1 DEF Lits
<1> QED
  BY <1>2, <1>3 DEF OneEach, Pushed

(* At every moment the conclusions pushed are the positive tags, once      *)
(* each, with a rule that asserts the literal and is applicable; the       *)
(* negative ones join them when the call returns.                          *)
THEOREM PushedAlways == Spec => []Pushed
<1>1. Init => Pushed
  BY DEF Init, Pushed, LitsReported, OneEach, Lits
<1>2. ASSUME TypeOK, TypeOK', CountsSlots, CountsSlots', Origins, Exclusive, Sound, Sound',
             PhasesDone, Pushed, [Next]_vars
      PROVE  Pushed'
  <2>1. theory \in TheoryNames /\ theory' = theory
    BY <1>2, StepKinds DEF TagsGrow, TypeOK
  <2>2. \A c \in conclusions : Reason(c)'
    <3> SUFFICES ASSUME NEW c \in conclusions
                 PROVE  Reason(c)'
      OBVIOUS
    <3>1. Reason(c)
      BY <1>2 DEF Pushed
    <3>2. CASE c.tag \in {"+D", "+d"}
      <4>1. c.label \in Labels(theory) /\ RuleOf(theory, c.label).head = c.lit
        BY <3>1, <3>2 DEF Reason
      <4>2. /\ DefinitelyBy(c.label) => DefinitelyBy(c.label)'
            /\ remaining[c.label] = 0 => remaining'[c.label] = 0
        BY <1>2, <4>1, ReasonsLast
      <4> QED
        BY <2>1, <3>1, <4>1, <4>2 DEF Reason
    <3>3. CASE c.tag \notin {"+D", "+d"}
      BY <3>3 DEF Reason
    <3> QED
      BY <3>2, <3>3
  <2>3. ASSUME NEW r \in Labels(theory), DefinitelyBy(r)',
               definiteProven' = definiteProven \cup {HeadOf(theory, r)},
               HeadOf(theory, r) \notin definiteProven,
               conclusions' = conclusions \cup {Conclude("+D", RuleOf(theory, r).head, r)},
               UNCHANGED <<phase, definiteDisproven, defeasibleVars>>
        PROVE  Pushed'
    <3> DEFINE h == RuleOf(theory, r).head
    <3>1. /\ Lits("+D")' = Lits("+D") \cup {HeadOf(theory, r)}
          /\ \A other : other # "+D" => Lits(other)' = Lits(other)
      BY <2>3, LitsAdd DEF HeadOf
    <3>2. LitsReported'
      BY <1>2, <2>1, <2>3, <3>1 DEF Pushed, LitsReported, defeasibleVars
    <3>3. OneEach'
      BY <1>2, <2>3, PushOne DEF Pushed, LitsReported, HeadOf
    <3>4. ASSUME NEW c \in conclusions', c \notin conclusions
          PROVE  Reason(c)'
      <4>1. c = Conclude("+D", h, r)
        BY <2>3, <3>4
      <4>2. c.tag = "+D" /\ c.lit = h /\ c.label = r
        BY <4>1 DEF Conclude
      <4> QED
        BY <2>1, <2>3, <4>2 DEF Reason
    <3> QED
      BY <2>2, <3>2, <3>3, <3>4 DEF Pushed
  <2>4. ASSUME NEW q, NEW r \in Labels(theory), HeadOf(theory, r) = q, Productive(theory, r),
               remaining'[r] = 0 \/ DefinitelyBy(r)',
               defeasibleProven' = defeasibleProven \cup {q}, q \notin defeasibleProven,
               conclusions' = conclusions \cup {Conclude("+d", RuleOf(theory, r).head, r)},
               UNCHANGED <<phase, definiteProven, definiteDisproven, defeasibleDisproven>>
        PROVE  Pushed'
    <3>1. /\ Lits("+d")' = Lits("+d") \cup {q}
          /\ \A other : other # "+d" => Lits(other)' = Lits(other)
      BY <2>4, LitsAdd DEF HeadOf
    <3>2. LitsReported'
      BY <1>2, <2>1, <2>4, <3>1 DEF Pushed, LitsReported
    <3>3. OneEach'
      BY <1>2, <2>4, PushOne DEF Pushed, LitsReported, HeadOf
    <3>4. ASSUME NEW c \in conclusions', c \notin conclusions
          PROVE  Reason(c)'
      <4>1. c = Conclude("+d", RuleOf(theory, r).head, r)
        BY <2>4, <3>4
      <4>2. c.tag = "+d" /\ c.lit = RuleOf(theory, r).head /\ c.label = r
        BY <4>1 DEF Conclude
      <4> QED
        BY <2>1, <2>4, <4>2 DEF Reason
    <3> QED
      BY <2>2, <3>2, <3>3, <3>4 DEF Pushed
  <2>5. ASSUME UNCHANGED <<definiteProven, defeasibleProven, conclusions>>,
               phase' = "done" <=> phase = "done",
               phase = "done" => UNCHANGED <<definiteDisproven, defeasibleDisproven>>
        PROVE  Pushed'
    <3>1. \A tag : Lits(tag)' = Lits(tag)
      BY <2>5 DEF Lits
    <3>2. LitsReported'
      BY <1>2, <2>1, <2>5, <3>1 DEF Pushed, LitsReported
    <3> QED
      BY <1>2, <2>2, <2>5, <3>2 DEF Pushed, OneEach
  <2>6. ASSUME NEW r \in unseeded, SeedFact(r)
        PROVE  Pushed'
    <3>1. /\ r \in Labels(theory) /\ KindOf(theory, r) \in {"fact", "strict"}
          /\ BodyOf(theory, r) = << >>
      BY <1>2 DEF Origins, BodylessDefinite
    <3>2. DefinitelyBy(r)'
      <4>1. Slots(theory, r) = {}
        BY <3>1 DEF Slots
      <4> QED
        BY <2>1, <3>1, <4>1 DEF DefinitelyBy, DefinitelyApplicable
    <3>3. UNCHANGED <<phase, definiteDisproven, defeasibleVars>>
      BY <2>6 DEF SeedFact
    <3>4. CASE HeadOf(theory, r) \in definiteProven
      <4>1. UNCHANGED <<definiteProven, conclusions>>
        BY <2>6, <3>4 DEF SeedFact
      <4> QED
        BY <2>5, <3>3, <4>1 DEF defeasibleVars
    <3>5. CASE HeadOf(theory, r) \notin definiteProven
      <4>1. /\ definiteProven' = definiteProven \cup {HeadOf(theory, r)}
            /\ conclusions' = conclusions \cup {Conclude("+D", RuleOf(theory, r).head, r)}
        BY <2>6, <3>5 DEF SeedFact
      <4> QED
        BY <2>3, <3>1, <3>2, <3>3, <3>5, <4>1
    <3> QED
      BY <3>4, <3>5
  <2>7. ASSUME NEW v \in visits, Visit(v[1], v[2])
        PROVE  Pushed'
    <3> DEFINE r == v[2]
    <3>1. r \in Labels(theory) /\ KindOf(theory, r) = "strict"
      BY <1>2 DEF Origins
    <3>2. CASE definiteProven' = definiteProven
      <4>1. UNCHANGED <<phase, defeasibleProven, definiteDisproven, defeasibleDisproven>>
        BY <2>7 DEF Visit, defeasibleVars
      <4>2. conclusions' = conclusions
        BY <2>7, <3>2 DEF Visit
      <4> QED
        BY <2>5, <3>2, <4>1, <4>2
    <3>3. CASE definiteProven' # definiteProven
      <4>1. /\ definiteRemaining'[r] = 0 /\ HeadOf(theory, r) \notin definiteProven
            /\ definiteProven' = definiteProven \cup {HeadOf(theory, r)}
            /\ conclusions' = conclusions \cup {Conclude("+D", RuleOf(theory, r).head, r)}
            /\ UNCHANGED <<phase, definiteDisproven, defeasibleVars>>
        BY <2>7, <3>3 DEF Visit
      <4>2. Counted(theory, definiteSatisfied', definiteRemaining')
        BY <1>2, <2>1 DEF TypeOK, CountsSlots, Counted
      <4>3. definiteSatisfied'[r] = Slots(theory, r)
        BY <2>1, <3>1, <4>1, <4>2, ZeroMeansCovered
      <4>4. DefinitelyBy(r)'
        BY <1>2, <2>1, <3>1, <4>3 DEF Sound, DefiniteCoversMean, DefinitelyBy, DefinitelyApplicable
      <4> QED
        BY <2>3, <3>1, <4>1, <4>4
    <3> QED
      BY <3>2, <3>3
  <2>8. CASE DeriveNegative
    BY <2>5, <2>8 DEF DeriveNegative, definiteVars, defeasibleVars
  <2>9. ASSUME NEW q \in ToSeed, Seed(q)
        PROVE  Pushed'
    <3>1. PICK c \in conclusions :
             /\ c.tag = "+D" /\ Canonical(c.lit) = q
             /\ conclusions' = conclusions \cup {Conclude("+d", c.lit, c.label)}
      BY <2>9 DEF Seed
    <3>2. Reason(c) /\ Reason(c)'
      BY <1>2, <2>2 DEF Pushed
    <3>3. /\ c.label \in Labels(theory) /\ HeadOf(theory, c.label) = q
          /\ RuleOf(theory, c.label).head = c.lit
          /\ DefinitelyBy(c.label) /\ DefinitelyBy(c.label)'
      BY <2>1, <3>1, <3>2 DEF Reason, HeadOf
    <3>4. Productive(theory, c.label)
      BY <3>3 DEF DefinitelyBy, Productive
    <3>5. /\ defeasibleProven' = defeasibleProven \cup {q} /\ q \notin defeasibleProven
          /\ UNCHANGED <<phase, definiteProven, definiteDisproven, defeasibleDisproven>>
      BY <2>9 DEF Seed, ToSeed, definiteVars
    <3> QED
      BY <2>4, <3>1, <3>3, <3>4, <3>5
  <2>10. ASSUME NEW e \in todo, DecideProved(e[1])
         PROVE  Pushed'
    <3> DEFINE q == e[1]
    <3>1. q \notin defeasibleProven \cup defeasibleDisproven
      BY <1>2 DEF Exclusive
    <3> HIDE DEF q
    <3>2. DecideProved(q)
      BY <2>10 DEF q
    <3>3. PICK r \in Supporters(remaining, discarded, q) :
             conclusions' = conclusions \cup {Conclude("+d", RuleOf(theory, r).head, r)}
      BY <3>1, <3>2 DEF DecideProved
    <3>4. /\ r \in Labels(theory) /\ HeadOf(theory, r) = q /\ Productive(theory, r)
          /\ remaining[r] = 0
      BY DEF Supporters, SupportingRules, RulesWithHead, Fires
    <3>5. /\ defeasibleProven' = defeasibleProven \cup {q}
          /\ UNCHANGED <<phase, definiteProven, definiteDisproven, defeasibleDisproven, remaining>>
      BY <3>1, <3>2 DEF DecideProved, definiteVars, counterVars
    <3> QED
      BY <2>4, <3>1, <3>3, <3>4, <3>5
  <2>11. ASSUME NEW e \in todo, DecideDisproved(e[1])
         PROVE  Pushed'
    <3>1. phase # "done" /\ phase' = phase
      BY <1>2, <2>11 DEF PhasesDone, DecideDisproved
    <3> QED
      BY <2>5, <2>11, <3>1 DEF DecideDisproved, definiteVars
  <2>12. CASE Finish
    <3> DEFINE neg == {Conclude("-D", l, NoLabel) : l \in definiteDisproven \cap LiteralSet(theory)}
               negd == {Conclude("-d", l, NoLabel) : l \in defeasibleDisproven \cap LiteralSet(theory)}
    <3>1. /\ phase # "done" /\ phase' = "done"
          /\ conclusions' = conclusions \cup neg \cup negd
          /\ UNCHANGED <<definiteProven, definiteDisproven, defeasibleProven, defeasibleDisproven>>
      BY <2>12 DEF Finish, definiteVars, defeasibleVars
    <3>2. \A l : /\ Conclude("-D", l, NoLabel).tag = "-D" /\ Conclude("-D", l, NoLabel).lit = l
                 /\ Conclude("-d", l, NoLabel).tag = "-d" /\ Conclude("-d", l, NoLabel).lit = l
      BY DEF Conclude
    <3>3. /\ \A c \in neg : /\ c.tag = "-D" /\ c.lit \in definiteDisproven \cap LiteralSet(theory)
                            /\ c = Conclude("-D", c.lit, NoLabel)
          /\ \A c \in negd : /\ c.tag = "-d" /\ c.lit \in defeasibleDisproven \cap LiteralSet(theory)
                             /\ c = Conclude("-d", c.lit, NoLabel)
      BY <3>2
    <3>4. \A c \in conclusions : c.tag # "-D" /\ c.tag # "-d"
      BY <1>2, <3>1 DEF Pushed, LitsReported, Lits
    <3>5. /\ \A l \in definiteDisproven \cap LiteralSet(theory) :
                \E c \in neg : c.tag = "-D" /\ c.lit = l
          /\ \A l \in defeasibleDisproven \cap LiteralSet(theory) :
                \E c \in negd : c.tag = "-d" /\ c.lit = l
      BY <3>2
    <3> HIDE DEF neg, negd
    <3>6. /\ Lits("+D")' = Lits("+D") /\ Lits("+d")' = Lits("+d")
      BY <3>1, <3>3 DEF Lits
    <3>11. \A l \in LiteralSet(theory) : Canonical(l) = l
      BY <2>1, ClosedSetType, CanonicalSet
    <3>7. /\ Lits("-D")' = definiteDisproven \cap LiteralSet(theory)
          /\ Lits("-d")' = defeasibleDisproven \cap LiteralSet(theory)
      BY <3>1, <3>3, <3>4, <3>5, <3>11 DEF Lits
    <3>8. LitsReported'
      BY <1>2, <2>1, <3>1, <3>6, <3>7 DEF Pushed, LitsReported
    <3>9. OneEach'
      BY <1>2, <3>1, <3>3, <3>4, <3>11 DEF Pushed, OneEach
    <3>10. \A c \in neg \cup negd : Reason(c)'
      BY <3>3 DEF Reason
    <3> QED
      BY <2>2, <3>1, <3>8, <3>9, <3>10 DEF Pushed
  <2> QED
    BY <1>2, <2>5, <2>6, <2>7, <2>8, <2>9, <2>10, <2>11, <2>12, ReportSteps
<1> QED
  BY <1>1, <1>2, TypeCorrect, TagsOriginate, ExclusiveAlways, SoundAlways, PhasesDoneAlways, PTL
  DEF Spec

(* The report is exact in every theory: when the call returns, the         *)
(* conclusions are the tags of the literals of the theory, one for each,   *)
(* and a positive one names a rule that asserts it and is applicable.      *)
THEOREM ReportedAlways == Spec => []Reported
<1>1. ASSUME TypeOK, Origins, PhasesDone, FlagsComplete, Pushed
      PROVE  Reported
  <2> SUFFICES ASSUME phase = "done"
               PROVE  Reported
    BY DEF Reported
  <2>1. definiteProven \subseteq defeasibleProven
    BY <1>1 DEF PhasesDone, ToSeed, Origins
  <2>2. ASSUME NEW r \in Labels(theory), DefinitelyBy(r)
        PROVE  remaining[r] = 0
    <3>1. Applicable(theory, defeasibleProven, Failed, r)
      BY <2>1, <2>2, HoldsMonotone DEF DefinitelyBy, DefinitelyApplicable, Applicable, Satisfied
    <3> QED
      BY <1>1, <3>1 DEF FlagsComplete
  <2>3. ASSUME NEW c \in conclusions
        PROVE  /\ c.tag = "+D" =>
                    /\ RuleOf(theory, c.label).head = c.lit
                    /\ KindOf(theory, c.label) \in {"fact", "strict"}
                    /\ DefinitelyApplicable(theory, definiteProven, c.label)
               /\ c.tag = "+d" =>
                    /\ RuleOf(theory, c.label).head = c.lit
                    /\ Productive(theory, c.label)
                    /\ remaining[c.label] = 0
    <3>1. Reason(c)
      BY <1>1 DEF Pushed
    <3> QED
      BY <2>2, <3>1 DEF Reason, DefinitelyBy
  <2>4. /\ Lits("+D") = definiteProven /\ Lits("+d") = defeasibleProven
        /\ Lits("-D") = definiteDisproven \cap LiteralSet(theory)
        /\ Lits("-d") = defeasibleDisproven \cap LiteralSet(theory)
        /\ \A c, d \in conclusions :
              c.tag = d.tag /\ Canonical(c.lit) = Canonical(d.lit) => c = d
    BY <1>1 DEF Pushed, LitsReported, OneEach
  <2> QED
    BY <2>3, <2>4 DEF Reported, Lits
<1> QED
  BY <1>1, TypeCorrect, TagsOriginate, PhasesDoneAlways, FlagsCompleteAlways, PushedAlways, PTL

-----------------------------------------------------------------------------
(* One outcome.  The order in which hash maps are iterated and names are   *)
(* sorted leaves no trace in the tags: they are the least sets closed      *)
(* under the four inference conditions, a function of the theory.          *)

ClosedTags(t, A, B, C, D) ==
  /\ \A q \in ClosedSet(t) :
        /\ CanInferDefinite(t, A, q) => q \in A
        /\ CanRefuteDefinite(t, B, q) => q \in B
        /\ CanInferDefeasible(t, A, B, C, D, q) => q \in C
        /\ CanRefuteDefeasible(t, A, B, C, D, q) => q \in D

(* The given tags are in every closed quadruple.                           *)
Forced(t, pD, nD, pd, nd) ==
  \A A, B, C, D \in SUBSET ClosedSet(t) :
     ClosedTags(t, A, B, C, D) => /\ pD \subseteq A /\ nD \subseteq B
                                  /\ pd \subseteq C /\ nd \subseteq D

LeastTags(t, pD, nD, pd, nd) ==
  /\ pD \subseteq ClosedSet(t) /\ nD \subseteq ClosedSet(t)
  /\ pd \subseteq ClosedSet(t) /\ nd \subseteq ClosedSet(t)
  /\ ClosedTags(t, pD, nD, pd, nd)
  /\ Forced(t, pD, nD, pd, nd)

(* A theory has one least quadruple of closed tags.                        *)
LEMMA OneLeast ==
  ASSUME NEW t, NEW A1, NEW B1, NEW C1, NEW D1, NEW A2, NEW B2, NEW C2, NEW D2,
         LeastTags(t, A1, B1, C1, D1), LeastTags(t, A2, B2, C2, D2)
  PROVE  A1 = A2 /\ B1 = B2 /\ C1 = C2 /\ D1 = D2
<1>1. /\ A1 \subseteq A2 /\ B1 \subseteq B2 /\ C1 \subseteq C2 /\ D1 \subseteq D2
  BY DEF LeastTags, Forced
<1>2. /\ A2 \subseteq A1 /\ B2 \subseteq B1 /\ C2 \subseteq C1 /\ D2 \subseteq D1
  BY DEF LeastTags, Forced
<1> QED
  BY <1>1, <1>2

(* Nothing is concluded that some closed quadruple of tags does without.   *)
Minimal ==
  Forced(theory, definiteProven, definiteDisproven, defeasibleProven, FailedInReference)

(* In every order of its steps the engine concludes only what every closed *)
(* quadruple of tags contains: no order gives a surplus conclusion.        *)
THEOREM MinimalAlways == Spec => []Minimal
<1>1. Init => Minimal
  BY DEF Init, Minimal, Forced, FailedInReference
<1>2. ASSUME Minimal, [Reference!Next]_(Reference!vars)
      PROVE  Minimal'
  <2> DEFINE t == theory
  <2>1. NewTagsInferred
    BY <1>2, TagsInferred
  <2> SUFFICES ASSUME NEW A \in SUBSET ClosedSet(t), NEW B \in SUBSET ClosedSet(t),
                      NEW C \in SUBSET ClosedSet(t), NEW D \in SUBSET ClosedSet(t),
                      ClosedTags(t, A, B, C, D)
               PROVE  /\ definiteProven' \subseteq A /\ definiteDisproven' \subseteq B
                      /\ defeasibleProven' \subseteq C /\ FailedInReference' \subseteq D
    BY <2>1 DEF Minimal, Forced, NewTagsInferred
  <2>2. /\ definiteProven \subseteq A /\ definiteDisproven \subseteq B
        /\ defeasibleProven \subseteq C /\ FailedInReference \subseteq D
    BY <1>2 DEF Minimal, Forced
  <2>3. ASSUME NEW q \in definiteProven' \ definiteProven
        PROVE  q \in A
    <3>1. q \in ClosedSet(t) /\ CanInferDefinite(t, A, q)
      BY <2>1, <2>2, DefiniteMonotone DEF NewTagsInferred
    <3> QED
      BY <3>1 DEF ClosedTags
  <2>4. ASSUME NEW q \in definiteDisproven' \ definiteDisproven
        PROVE  q \in B
    <3>1. q \in ClosedSet(t) /\ CanRefuteDefinite(t, B, q)
      BY <2>1, <2>2, DefiniteMonotone DEF NewTagsInferred
    <3> QED
      BY <3>1 DEF ClosedTags
  <2>5. ASSUME NEW q \in defeasibleProven' \ defeasibleProven
        PROVE  q \in C
    <3>1. q \in ClosedSet(t) /\ CanInferDefeasible(t, A, B, C, D, q)
      BY <2>1, <2>2, DefeasibleMonotone DEF NewTagsInferred
    <3> QED
      BY <3>1 DEF ClosedTags
  <2>6. ASSUME NEW q \in FailedInReference' \ FailedInReference
        PROVE  q \in D
    <3>1. q \in ClosedSet(t) /\ CanRefuteDefeasible(t, A, B, C, D, q)
      BY <2>1, <2>2, DefeasibleMonotone DEF NewTagsInferred
    <3> QED
      BY <3>1 DEF ClosedTags
  <2> QED
    BY <2>2, <2>3, <2>4, <2>5, <2>6
<1> QED
  BY <1>1, <1>2, EngineImplements, PTL DEF Spec, Implements, Reference!Spec

(* When the call returns and no rule is torn, the tags are the least       *)
(* quadruple closed under the inference conditions, the literals outside   *)
(* the index being refuted.  OneLeast makes them a function of the theory: *)
(* they do not depend on the iteration order of the maps, on the names     *)
(* that sort literals and labels, or on the order in which the events were *)
(* met.                                                                    *)
THEOREM OutcomeIsLeast ==
  Spec => [](phase = "done" /\ Untorn(theory, defeasibleProven, Failed) =>
               LeastTags(theory, definiteProven, definiteDisproven, defeasibleProven, Failed))
<1>1. ASSUME TypeOK, Origins, Coherent, Saturated, Minimal, phase = "done",
             Untorn(theory, defeasibleProven, Failed)
      PROVE  LeastTags(theory, definiteProven, definiteDisproven, defeasibleProven, Failed)
  <2>1. /\ definiteProven \subseteq ClosedSet(theory) /\ definiteDisproven \subseteq ClosedSet(theory)
        /\ defeasibleProven \subseteq ClosedSet(theory)
    BY <1>1, ClosedSetType DEF TypeOK, Origins
  <2>2. Failed \subseteq ClosedSet(theory) /\ FailedInReference = Failed
    <3>1. defeasibleDisproven \subseteq ClosedSet(theory)
      BY <1>1 DEF Origins, Coherent
    <3>2. phase \notin {"facts", "strict", "negative"}
      BY <1>1
    <3> QED
      BY <3>1, <3>2 DEF Failed, FailedInReference, Unindexed
  <2> QED
    BY <1>1, <2>1, <2>2 DEF LeastTags, ClosedTags, Saturated, Minimal
<1> QED
  BY <1>1, TypeCorrect, TagsOriginate, SaturatedAlways, MinimalAlways, PTL

-----------------------------------------------------------------------------
(* Consistency, in every theory whose superiority has no cycle.            *)

(* An attacker decides against o by the counters and flags.                *)
Overridden(o) == \E a \in AttackingRules(theory, o) : Unbeatable(remaining, discarded, o, a)

(* The opponent o of the concluded literal q is refuted, or about to be,   *)
(* or will be when the event of q is handled: an attacker that overrides   *)
(* it has fired.                                                           *)
Barred(o, q) ==
  /\ o \notin defeasibleProven
  /\ \/ o \in defeasibleDisproven
     \/ <<o, FALSE>> \in todo
     \/ Awaits(worklist, <<q, TRUE>>) /\ Overridden(o)

RivalsBarred ==
  Acyclic(theory) =>
    \A q \in defeasibleProven \ definiteProven :
       /\ Opponents(q) \subseteq definiteDisproven
       /\ \A o \in Opponents(q) : o.mode = q.mode => Barred(o, q)

StillProvable == \A e \in todo : e[2] => CanProve(remaining, discarded, e[1])

(* When the counters let q be proved, not by a fact, some rule of its camp *)
(* overrides an opponent of its mode: otherwise each rule of the camp that *)
(* fires would have a superior rule of the other camp that is not          *)
(* discarded, each of those a superior one of the first camp that fires,   *)
(* and so on without end.                                                  *)
LEMMA ProvedOverrides ==
  ASSUME theory \in TheoryNames, Acyclic(theory), NEW rem, NEW disc,
         NEW q \in Literal, Canonical(q) = q, NEW o \in Opponents(q), o.mode = q.mode,
         CanProve(rem, disc, q)
  PROVE  \E a \in AttackingRules(theory, o) : Unbeatable(rem, disc, o, a)
<1>1. o \in Literal /\ Canonical(o) = o /\ q \in Opponents(o)
  BY SameModeOpponents
<1> SUFFICES ASSUME \A a \in AttackingRules(theory, o) : ~ Unbeatable(rem, disc, o, a)
             PROVE  FALSE
  OBVIOUS
<1> DEFINE own == {r \in Camp(theory, o, q) : Fires(rem, disc, r)}
           other == {r \in Camp(theory, q, o) : ~ disc[r]}
<1>2. ASSUME NEW r \in own
      PROVE  \E s \in other : Superior(theory, s, r)
  <2>1. r \in AttackingRules(theory, o)
    BY <1>1, CampAttacks
  <2>2. PICK d \in DefendingRules(theory, o, r) : Superior(theory, d, r) /\ ~ disc[d]
    BY <1>2, <2>1 DEF Unbeatable, Open
  <2>3. d \in Camp(theory, q, o)
    BY <1>1, DefendersCamp
  <2> QED
    BY <2>2, <2>3
<1>3. ASSUME NEW r \in other
      PROVE  \E s \in own : Superior(theory, s, r)
  <2>1. r \in AttackingRules(theory, q)
    BY CampAttacks
  <2>2. PICK d \in DefendingRules(theory, q, r) : Fires(rem, disc, d) /\ Superior(theory, d, r)
    BY <1>3, <2>1 DEF CanProve
  <2>3. d \in Camp(theory, o, q)
    BY DefendersCamp
  <2> QED
    BY <2>2, <2>3
<1>4. own \cup other = {}
  <2> HIDE DEF own, other
  <2>1. \A r \in own \cup other : \E s \in own \cup other : Superior(theory, s, r)
    BY <1>2, <1>3
  <2> QED
    BY <2>1, NoAscent
<1>5. PICK r \in SupportingRules(theory, q) : Fires(rem, disc, r)
  BY DEF CanProve, Supporters
<1>6. r \in Camp(theory, o, q)
  BY <1>1, CampAttacks
<1> QED
  BY <1>4, <1>5, <1>6

(* What is overridden cannot be proved by the same counters.               *)
LEMMA OverriddenBlocks ==
  ASSUME NEW rem, NEW disc, NEW q, NEW a \in AttackingRules(theory, q), Unbeatable(rem, disc, q, a)
  PROVE  ~ CanProve(rem, disc, q)
BY DEF CanProve, Unbeatable, Fires

(* A rule that fires goes on firing while events are handled: the premise  *)
(* that an event could refute is none that holds by refutation.  Only the  *)
(* sweep can discard a rule that fires.                                    *)
LEMMA FiringKept ==
  ASSUME TypeOK, TypeOK', CountsSlots, CountsSlots', Origins, Origins', Coherent, Sound, [Next]_vars,
         NEW q \in ClosedSet(theory), PopProved(q) \/ PopDisproved(q),
         NEW r \in Labels(theory), Fires(remaining, discarded, r)
  PROVE  Fires(remaining', discarded', r)
<1>1. theory \in TheoryNames
  BY DEF TypeOK
<1>2. remaining'[r] = 0
  BY ReasonsLast DEF Fires
<1>3. CASE PopProved(q)
  BY <1>2, <1>3 DEF PopProved, Fires
<1>4. CASE PopDisproved(q)
  <2> SUFFICES ASSUME discarded'[r]
               PROVE  FALSE
    BY <1>2 DEF Fires
  <2>1. PICK s \in MatchedSlots(theory, r, q) :
           /\ ~ NegativeModal(BodyOf(theory, r)[s])
           /\ Temporal(BodyOf(theory, r)[s]) \/ familyLive'[Family(q)] = 0
    BY <1>4 DEF PopDisproved, Dead, Fires
  <2>2. CountsFamily /\ CountsFamily'
    BY <1>4, FamilyCounted DEF Sound
  <2>3. q \in defeasibleDisproven /\ countedDead' \subseteq defeasibleDisproven
    BY <1>4, PoppedTagged DEF Origins, PopDisproved
  <2>4. DOMAIN familyLive' = DOMAIN familyLive
    BY <1>4 DEF TypeOK, PopDisproved
  <2>5. Unsatisfiable(theory, defeasibleProven, Failed, BodyOf(theory, r)[s])
    BY <1>4, <2>1, <2>2, <2>3, <2>4, DiscardMeans
  <2>6. satisfied[r] = Slots(theory, r) /\ s \in Slots(theory, r)
    <3>1. Counted(theory, satisfied, remaining)
      BY <1>1 DEF TypeOK, CountsSlots, Counted
    <3> QED
      BY <1>1, <3>1, ZeroMeansCovered DEF Fires, MatchedSlots
  <2>7. Satisfied(theory, defeasibleProven, Failed, BodyOf(theory, r)[s])
    BY <2>6 DEF Sound, CoversMean
  <2>8. defeasibleProven \cap Failed = {}
    BY DEF Origins, Coherent, Failed, Unindexed
  <2> QED
    BY <2>1, <2>5, <2>7, <2>8 DEF Satisfied, Unsatisfiable, Holds, Refuted
<1> QED
  BY <1>3, <1>4

(* So what is overridden stays so while events are handled.                *)
LEMMA OverriddenKept ==
  ASSUME TypeOK, TypeOK', CountsSlots, CountsSlots', Origins, Origins', Coherent, Sound, [Next]_vars,
         NEW q \in ClosedSet(theory), PopProved(q) \/ PopDisproved(q),
         NEW o, Overridden(o)
  PROVE  Overridden(o)' /\ \E a \in AttackingRules(theory, o) : Unbeatable(remaining', discarded', o, a)
<1>1. PICK a \in AttackingRules(theory, o) : Unbeatable(remaining, discarded, o, a)
  BY DEF Overridden
<1>2. a \in Labels(theory) /\ Fires(remaining, discarded, a)
  BY <1>1 DEF AttackingRules, Unbeatable
<1>3. Fires(remaining', discarded', a)
  BY <1>2, FiringKept
<1>4. \A d \in Labels(theory) : discarded[d] => discarded'[d]
  BY DEF PopProved, PopDisproved
<1>5. Unbeatable(remaining', discarded', o, a)
  BY <1>1, <1>3, <1>4 DEF Unbeatable, Open, DefendingRules
<1>6. theory' = theory
  BY DEF PopProved, PopDisproved
<1>7. Unbeatable(remaining, discarded, o, a)'
  BY <1>5, <1>6 DEF Unbeatable, Fires, Open
<1>8. a \in AttackingRules(theory, o)'
  BY <1>6
<1> QED
  BY <1>5, <1>7, <1>8 DEF Overridden

(* What is on the agenda to be proved can still be proved when its turn    *)
(* comes.                                                                  *)
THEOREM StillProvableAlways == Spec => []StillProvable
<1>1. Init => StillProvable
  BY DEF Init, StillProvable
<1>2. ASSUME TypeOK, Origins, Exclusive', StillProvable, [Next]_vars
      PROVE  StillProvable'
  <2>1. TagsGrow
    BY <1>2, StepKinds
  <2> SUFFICES ASSUME NEW e \in todo', e[2]
               PROVE  CanProve(remaining, discarded, e[1])'
    BY DEF StillProvable
  <2>2. e[1] \notin defeasibleProven' \cup defeasibleDisproven'
    BY <1>2 DEF Exclusive
  <2>3. ASSUME CanProve(remaining', discarded', e[1])
        PROVE  CanProve(remaining, discarded, e[1])'
    <3>1. /\ \A r : Fires(remaining', discarded', r) <=> Fires(remaining, discarded, r)'
          /\ \A q : Supporters(remaining', discarded', q) = Supporters(remaining, discarded, q)'
      BY <2>1 DEF Fires, Supporters, TagsGrow
    <3> QED
      BY <2>1, <2>2, <2>3, <3>1 DEF CanProve, TagsGrow
  <2>4. CASE StartRules \/ Handler
    <3>1. \E prove, disprove : todo' = Agenda(remaining', discarded', prove, disprove)
      BY <2>4 DEF StartRules, Handler, PopProved, PopDisproved, Sweep, counterVars
    <3>2. CanProve(remaining', discarded', e[1])
      BY <1>2, <3>1, AgendaOrigins DEF TypeOK
    <3> QED
      BY <2>3, <3>2
  <2>5. CASE todo' \subseteq todo /\ UNCHANGED counterVars
    <3>1. CanProve(remaining, discarded, e[1])
      BY <1>2, <2>5 DEF StillProvable
    <3> QED
      BY <2>3, <2>5, <3>1 DEF counterVars
  <2> QED
    BY <1>2, <2>4, <2>5, StepKinds
<1> QED
  BY <1>1, <1>2, TypeCorrect, TagsOriginate, ExclusiveAlways, PTL DEF Spec

(* Every opponent, of its own mode, of a literal concluded without being   *)
(* definite is -D, is not concluded and is, or is bound to be, refuted.    *)
THEOREM RivalsBarredAlways == Spec => []RivalsBarred
<1>1. Init => RivalsBarred
  BY DEF Init, RivalsBarred
<1>2. ASSUME TypeOK, TypeOK', CountsSlots, CountsSlots', Origins, Origins', Coherent, Coherent', Sound,
             Exclusive, StillProvable, RivalsBarred, [Next]_vars
      PROVE  RivalsBarred'
  <2>1. /\ TagsGrow /\ theory' = theory /\ theory \in TheoryNames
        /\ definiteProven \subseteq definiteProven' /\ definiteDisproven \subseteq definiteDisproven'
        /\ defeasibleDisproven \subseteq defeasibleDisproven'
    BY <1>2, StepKinds DEF TagsGrow, TypeOK
  <2> SUFFICES ASSUME Acyclic(theory), NEW q \in defeasibleProven' \ definiteProven'
               PROVE  /\ Opponents(q) \subseteq definiteDisproven'
                      /\ \A o \in Opponents(q) : o.mode = q.mode => Barred(o, q)'
    BY <2>1 DEF RivalsBarred
  <2>2. q \in Literal /\ Canonical(q) = q
    BY <1>2, <2>1, LiteralSetType, ClosedSetType, CanonicalSet DEF Origins
  <2>3. q \notin definiteProven
    BY <2>1
  <2>4. ASSUME q \in defeasibleProven
        PROVE  /\ Opponents(q) \subseteq definiteDisproven'
               /\ \A o \in Opponents(q) : o.mode = q.mode => Barred(o, q)
    BY <1>2, <2>1, <2>3, <2>4 DEF RivalsBarred
  <2>5. ASSUME UNCHANGED <<defeasibleProven, worklist, counterVars>>, todo \subseteq todo'
        PROVE  q \in defeasibleProven /\ \A o : Barred(o, q) => Barred(o, q)'
    <3>1. \A o : Overridden(o)' <=> Overridden(o)
      BY <2>1, <2>5 DEF Overridden, Unbeatable, Fires, Open, counterVars
    <3> QED
      BY <2>1, <2>5, <3>1 DEF Barred
  <2>6. ASSUME NEW l \in ToSeed, Seed(l)
        PROVE  q \in defeasibleProven /\ \A o \in Opponents(q) : Barred(o, q) => Barred(o, q)'
    <3>1. /\ l \in definiteProven /\ l \in Literal /\ <<l, TRUE>> \in Event
          /\ defeasibleProven' = defeasibleProven \cup {l}
          /\ worklist' = Append(worklist, <<l, TRUE>>)
          /\ UNCHANGED <<definiteProven, definiteDisproven, defeasibleDisproven, todo, counterVars>>
      BY <1>2, <2>6 DEF TypeOK, ToSeed, Seed, definiteVars, Event
    <3>2. q \in defeasibleProven
      BY <2>3, <3>1
    <3>3. \A o \in Opponents(q) : o # l
      BY <1>2, <2>4, <3>1, <3>2 DEF Coherent
    <3>4. Awaits(worklist, <<q, TRUE>>) => Awaits(worklist', <<q, TRUE>>)
      BY <1>2, <3>1, AwaitsAppend DEF TypeOK
    <3>5. \A o : Overridden(o)' <=> Overridden(o)
      BY <2>1, <3>1 DEF Overridden, Unbeatable, Fires, Open, counterVars
    <3> QED
      BY <3>1, <3>2, <3>3, <3>4, <3>5 DEF Barred
  <2>7. ASSUME NEW e \in todo, DecideProved(e[1])
        PROVE  /\ Opponents(q) \subseteq definiteDisproven
               /\ \A o \in Opponents(q) : o.mode = q.mode => Barred(o, q)'
    <3> DEFINE l == e[1]
    <3>1. DecideProved(l)
      BY <2>7
    <3>2. <<l, TRUE>> \in todo
      BY <3>1 DEF DecideProved
    <3>3. /\ l \in Literal /\ <<l, TRUE>> \in Event
          /\ l \notin defeasibleProven \cup defeasibleDisproven
          /\ <<l, FALSE>> \notin todo
          /\ CanProve(remaining, discarded, l)
      <4>1. <<l, TRUE>>[1] = l /\ <<l, TRUE>>[2] = TRUE
        OBVIOUS
      <4>2. <<l, TRUE>> \in Event /\ l \in Literal
        BY <1>2, <3>2 DEF TypeOK, Event
      <4>3. l \notin defeasibleProven \cup defeasibleDisproven /\ <<l, FALSE>> \notin todo
        BY <1>2, <3>2, <4>1 DEF Exclusive
      <4>4. CanProve(remaining, discarded, l)
        BY <1>2, <3>2, <4>1 DEF StillProvable
      <4> QED
        BY <4>2, <4>3, <4>4
    <3> HIDE DEF l
    <3>4. /\ defeasibleProven' = defeasibleProven \cup {l}
          /\ worklist' = Append(worklist, <<l, TRUE>>)
          /\ todo' = todo \ {<<l, TRUE>>}
          /\ UNCHANGED <<definiteProven, definiteDisproven, defeasibleDisproven, counterVars>>
      BY <3>1, <3>3 DEF DecideProved, definiteVars
    <3>5. /\ Awaits(worklist', <<l, TRUE>>)
          /\ \A f : Awaits(worklist, f) => Awaits(worklist', f)
      BY <1>2, <3>3, <3>4, AwaitsAppend DEF TypeOK
    <3>6. \A o : Overridden(o)' <=> Overridden(o)
      BY <2>1, <3>4 DEF Overridden, Unbeatable, Fires, Open, counterVars
    <3>7. \A x : <<x, FALSE>> # <<l, TRUE>>
      BY EventsDiffer
    <3>8. ~ Overridden(l)
      BY <3>3, OverriddenBlocks DEF Overridden
    <3>9. \A x : ~ Barred(l, x)
      BY <3>3, <3>8 DEF Barred
    <3>10. CASE q \in defeasibleProven
      <4>1. /\ Opponents(q) \subseteq definiteDisproven
            /\ \A o \in Opponents(q) : o.mode = q.mode => Barred(o, q) /\ o # l
        BY <2>4, <3>4, <3>9, <3>10
      <4>2. \A o : Barred(o, q) /\ o # l => Barred(o, q)'
        BY <3>4, <3>5, <3>6, <3>7 DEF Barred
      <4> QED
        BY <4>1, <4>2
    <3>11. CASE q \notin defeasibleProven
      <4>1. q = l
        BY <3>4, <3>11
      <4>2. Opponents(q) \subseteq definiteDisproven
        BY <2>3, <3>3, <4>1 DEF CanProve
      <4>3. ASSUME NEW o \in Opponents(q), o.mode = q.mode
            PROVE  Barred(o, q)'
        <5>1. Overridden(o)
          BY <2>1, <2>2, <3>3, <4>1, <4>3, ProvedOverrides DEF Overridden
        <5>2. o # l
          BY <3>8, <5>1
        <5>3. o \notin defeasibleProven
          <6> SUFFICES ASSUME o \in defeasibleProven
                       PROVE  FALSE
            OBVIOUS
          <6>1. o \notin definiteProven
            BY <1>2, <4>2 DEF Coherent
          <6>2. q \in Opponents(o)
            BY <2>2, <4>3, SameModeOpponents
          <6>3. Barred(q, o)
            BY <1>2, <4>3, <6>1, <6>2 DEF RivalsBarred
          <6> QED
            BY <3>9, <4>1, <6>3
        <5> QED
          BY <3>4, <3>5, <3>6, <4>1, <5>1, <5>2, <5>3 DEF Barred
      <4> QED
        BY <4>2, <4>3
    <3> QED
      BY <3>10, <3>11
  <2>8. ASSUME NEW e \in todo, DecideDisproved(e[1])
        PROVE  q \in defeasibleProven /\ \A o : Barred(o, q) => Barred(o, q)'
    <3> DEFINE l == e[1]
    <3>1. DecideDisproved(l)
      BY <2>8
    <3>2. <<l, FALSE>> \in todo
      BY <3>1 DEF DecideDisproved
    <3>3. <<l, FALSE>> \in Event /\ l \notin defeasibleProven
      BY <1>2, <3>2 DEF TypeOK, Exclusive
    <3> HIDE DEF l
    <3>4. /\ defeasibleDisproven' = defeasibleDisproven \cup {l}
          /\ worklist' = Append(worklist, <<l, FALSE>>)
          /\ todo' = todo \ {<<l, FALSE>>}
          /\ UNCHANGED <<defeasibleProven, counterVars>>
      BY <3>1, <3>3 DEF DecideDisproved
    <3>5. \A f : Awaits(worklist, f) => Awaits(worklist', f)
      BY <1>2, <3>3, <3>4, AwaitsAppend DEF TypeOK
    <3>6. \A o : Overridden(o)' <=> Overridden(o)
      BY <2>1, <3>4 DEF Overridden, Unbeatable, Fires, Open, counterVars
    <3>7. \A x : <<x, FALSE>> = <<l, FALSE>> => x = l
      OBVIOUS
    <3> QED
      BY <3>4, <3>5, <3>6, <3>7 DEF Barred
  <2>9. ASSUME NEW l \in ClosedSet(theory), PopProved(l) \/ PopDisproved(l)
        PROVE  /\ q \in defeasibleProven
               /\ Opponents(q) \subseteq definiteDisproven =>
                    \A o \in Opponents(q) : Barred(o, q) => Barred(o, q)'
    <3>1. /\ todo = {} /\ worklist # << >> /\ worklist' = Tail(worklist)
          /\ UNCHANGED <<defeasibleProven, defeasibleDisproven>>
      BY <2>9 DEF PopProved, PopDisproved
    <3>2. ASSUME NEW o \in Opponents(q), Barred(o, q), Opponents(q) \subseteq definiteDisproven,
                 o \notin defeasibleDisproven
          PROVE  Barred(o, q)'
      <4>1. Awaits(worklist, <<q, TRUE>>) /\ Overridden(o) /\ o \notin defeasibleProven
        BY <3>1, <3>2 DEF Barred
      <4>2. /\ Overridden(o)'
            /\ \E a \in AttackingRules(theory, o) : Unbeatable(remaining', discarded', o, a)
        BY <1>2, <2>9, <4>1, OverriddenKept
      <4>3. CASE <<q, TRUE>> = Head(worklist)
        <5>1. PopProved(q)
          BY <2>9, <4>3, EventsDiffer DEF PopProved, PopDisproved
        <5>2. PICK prove, disprove : todo' = Agenda(remaining', discarded', prove, disprove \cup Opponents(q))
          BY <5>1 DEF PopProved
        <5>3. CanDisprove(remaining', discarded', o)
          BY <3>2, <4>1, <4>2 DEF CanDisprove
        <5>4. <<o, FALSE>> \in todo'
          BY <5>2, <5>3 DEF Agenda
        <5> QED
          BY <3>1, <4>1, <5>4 DEF Barred
      <4>4. CASE Awaits(Tail(worklist), <<q, TRUE>>)
        BY <3>1, <4>1, <4>2, <4>4 DEF Barred
      <4> QED
        BY <1>2, <3>1, <4>1, <4>3, <4>4, AwaitsTail DEF TypeOK
    <3>3. \A o : Barred(o, q) /\ o \in defeasibleDisproven => Barred(o, q)'
      BY <3>1 DEF Barred
    <3> QED
      BY <3>1, <3>2, <3>3
  <2>10. CASE Sweep
    <3>1. /\ todo = {} /\ worklist = << >>
          /\ UNCHANGED <<defeasibleProven, defeasibleDisproven>>
      BY <2>10 DEF Sweep, defeasibleVars
    <3>2. \A o : Barred(o, q) => o \in defeasibleDisproven
      BY <3>1 DEF Barred, Awaits
    <3>3. q \in defeasibleProven /\ \A o : Barred(o, q) => Barred(o, q)'
      BY <3>1, <3>2 DEF Barred
    <3> QED
      BY <2>4, <3>3
  <2>11. CASE UNCHANGED <<defeasibleProven, worklist, counterVars>> /\ todo \subseteq todo'
    BY <2>4, <2>5, <2>11
  <2>12. \/ \E l \in ToSeed : Seed(l)
         \/ \E e \in todo : DecideProved(e[1]) \/ DecideDisproved(e[1])
         \/ \E l \in ClosedSet(theory) : PopProved(l) \/ PopDisproved(l)
         \/ Sweep
         \/ UNCHANGED <<defeasibleProven, worklist, counterVars>> /\ todo \subseteq todo'
    <3>1. StartRules => todo = {} /\ UNCHANGED <<defeasibleProven, worklist, counterVars>>
      BY <1>2 DEF StartRules, Origins, defeasibleVars
    <3> QED
      BY <1>2, <3>1 DEF Next, Definite, Defeasible, vars, SeedFact, SeededFacts, PopDefinite, Visit,
            ForwardDone, DeriveNegative, NegativeDone, Finish, defeasibleVars
  <2>13. ASSUME NEW l \in ClosedSet(theory), PopProved(l) \/ PopDisproved(l)
         PROVE  /\ Opponents(q) \subseteq definiteDisproven'
                /\ \A o \in Opponents(q) : o.mode = q.mode => Barred(o, q)'
    <3>1. definiteDisproven' = definiteDisproven
      BY <2>13 DEF PopProved, PopDisproved
    <3> QED
      BY <2>4, <2>9, <2>13, <3>1
  <2> QED
    BY <2>1, <2>4, <2>6, <2>7, <2>8, <2>10, <2>11, <2>12, <2>13
<1> QED
  BY <1>1, <1>2, TypeCorrect, TagsOriginate, SoundAlways, ExclusiveAlways, StillProvableAlways, PTL DEF Spec

(* Two opposed literals of one mode are both concluded only when the facts *)
(* contradict each other, in every theory whose superiority has no cycle,  *)
(* denials among the premises included.                                    *)
THEOREM ConsistentAlways == Spec => []Consistent
<1>1. ASSUME TypeOK, Origins, RivalsBarred
      PROVE  Consistent
  <2> SUFFICES ASSUME Acyclic(theory), NEW q \in defeasibleProven,
                      NEW o \in Opponents(q) \cap defeasibleProven, o.mode = q.mode
               PROVE  {q, o} \subseteq definiteProven
    BY DEF Consistent
  <2>1. q \in Literal /\ Canonical(q) = q
    BY <1>1, LiteralSetType, ClosedSetType, CanonicalSet DEF TypeOK, Origins
  <2>2. q \in Opponents(o)
    BY <2>1, SameModeOpponents
  <2>3. q \in definiteProven
    BY <1>1 DEF RivalsBarred, Barred
  <2>4. o \in definiteProven
    BY <1>1, <2>2 DEF RivalsBarred, Barred
  <2> QED
    BY <2>3, <2>4
<1> QED
  BY <1>1, TypeCorrect, TagsOriginate, RivalsBarredAlways, PTL

=============================================================================
