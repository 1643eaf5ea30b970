-------------------------- MODULE Reasoner_proofs --------------------------
(***************************************************************************)
(* The engine for every theory: its counters count, its tags are coherent  *)
(* and its flags mean what the proof theory says.                          *)
(***************************************************************************)
EXTENDS Reasoner, ProofTheory_proofs, SequenceTheorems

-----------------------------------------------------------------------------
(* Counting the slots of a rule. *)

(* Covering V more of the slots S, of which T are covered already, makes W *)
(* the covered ones and leaves that many fewer.                            *)
LEMMA CoverCounts ==
  ASSUME NEW S, IsFiniteSet(S), NEW T, NEW V, NEW W,
         T \subseteq S, V \subseteq S \ T, W = T \cup V
  PROVE  /\ Cardinality(S) - Cardinality(T) \in Nat
         /\ Cardinality(V) \in Nat
         /\ (Cardinality(S) - Cardinality(T)) - Cardinality(V) = Cardinality(S) - Cardinality(W)
         /\ Cardinality(V) <= Cardinality(S) - Cardinality(T)
<1>1. T \in SUBSET S /\ V \in SUBSET S /\ W \in SUBSET S /\ T \cap V = {}
  OBVIOUS
<1>2. /\ IsFiniteSet(T) /\ IsFiniteSet(V)
      /\ Cardinality(T) <= Cardinality(S) /\ Cardinality(W) <= Cardinality(S)
  BY <1>1, FS_Subset
<1>3. Cardinality(S) \in Nat /\ Cardinality(T) \in Nat /\ Cardinality(V) \in Nat
  BY <1>2, FS_CardinalityType
<1>4. Cardinality(W) = Cardinality(T) + Cardinality(V)
  <2>1. Cardinality(T \cup V) =
          Cardinality(T) + Cardinality(V) - Cardinality(T \cap V)
    BY <1>2, FS_Union
  <2>2. Cardinality(T \cap V) = 0
    BY <1>1, FS_EmptySet, Zenon
  <2> QED
    BY <1>3, <2>1, <2>2
<1> QED
  BY <1>2, <1>3, <1>4

(* A counting of rule t's slots: the covered ones and how many are not.    *)
Counted(t, sat, rem) ==
  /\ sat \in [Labels(t) -> SUBSET Nat]
  /\ rem \in [Labels(t) -> Nat]
  /\ \A r \in Labels(t) :
        /\ sat[r] \subseteq Slots(t, r)
        /\ rem[r] = Len(BodyOf(t, r)) - Cardinality(sat[r])

(* Before anything is proven every counter is the length of its rule's     *)
(* body.                                                                   *)
LEMMA InitiallyCounted ==
  ASSUME NEW t \in TheoryNames
  PROVE  Counted(t, InitialSatisfied(t), InitialRemaining(t))
<1>1. \A r \in Labels(t) : Len(BodyOf(t, r)) \in Nat
  BY RuleType
<1> QED
  BY <1>1, FS_EmptySet DEF Counted, InitialSatisfied, InitialRemaining

(* Covering keeps a counting exact, and never needs the saturation.        *)
LEMMA CoverKeepsCounted ==
  ASSUME theory \in TheoryNames, NEW sat, NEW rem, Counted(theory, sat, rem), NEW hit, NEW q
  PROVE  Counted(theory, Cover(sat, hit, q), Count(rem, sat, hit, q))
<1> SUFFICES ASSUME NEW r \in Labels(theory)
             PROVE  /\ Cover(sat, hit, q)[r] \subseteq Slots(theory, r)
                    /\ Count(rem, sat, hit, q)[r] \in Nat
                    /\ Count(rem, sat, hit, q)[r] =
                         Len(BodyOf(theory, r)) - Cardinality(Cover(sat, hit, q)[r])
  <2>1. \A r \in Labels(theory) : Slots(theory, r) \subseteq Nat
    BY SlotsType
  <2> QED
    BY <2>1 DEF Counted, Cover, Count
<1> DEFINE S == Slots(theory, r)
           T == sat[r]
           V == MatchedSlots(theory, r, q) \ sat[r]
           W == sat[r] \cup MatchedSlots(theory, r, q)
<1>1. /\ T \subseteq S /\ rem[r] = Cardinality(S) - Cardinality(T) /\ rem[r] \in Nat
      /\ V \subseteq S \ T /\ W = T \cup V /\ IsFiniteSet(S)
      /\ Cardinality(S) = Len(BodyOf(theory, r))
  BY SlotsType, MatchedSlotsType DEF Counted
<1>2. CASE r \notin hit
  BY <1>1, <1>2 DEF Cover, Count
<1>3. CASE r \in hit
  <2>1. Cover(sat, hit, q)[r] = W
    BY <1>3 DEF Cover
  <2>2. Count(rem, sat, hit, q)[r] = Saturate(rem[r], Cardinality(V))
    BY <1>3 DEF Count
  <2> HIDE DEF S, T, V, W
  <2>3. /\ Cardinality(S) - Cardinality(T) \in Nat
        /\ Cardinality(V) \in Nat
        /\ (Cardinality(S) - Cardinality(T)) - Cardinality(V) = Cardinality(S) - Cardinality(W)
        /\ Cardinality(V) <= Cardinality(S) - Cardinality(T)
    <3>1. T \subseteq S /\ V \subseteq S \ T /\ W = T \cup V /\ IsFiniteSet(S)
      BY <1>1
    <3> QED
      BY <3>1, CoverCounts, SMTT(30)
  <2>4. Saturate(rem[r], Cardinality(V)) = rem[r] - Cardinality(V)
    BY <1>1, <2>3 DEF Saturate
  <2>5. rem[r] - Cardinality(V) \in Nat /\ W \subseteq S
    BY <1>1, <2>3
  <2> QED
    BY <1>1, <2>1, <2>2, <2>3, <2>4, <2>5 DEF S
<1> QED
  BY <1>2, <1>3

(* The sweep subtracts without saturating; it counts right nevertheless.   *)
LEMMA RefutationsKeepCounted ==
  ASSUME theory \in TheoryNames, NEW sat, NEW rem, Counted(theory, sat, rem)
  PROVE  Counted(theory,
                 [r \in Labels(theory) |-> sat[r] \cup Refutations(r)],
                 [r \in Labels(theory) |-> rem[r] - Cardinality(Refutations(r) \ sat[r])])
<1> DEFINE newSat == [r \in Labels(theory) |-> sat[r] \cup Refutations(r)]
           newRem == [r \in Labels(theory) |-> rem[r] - Cardinality(Refutations(r) \ sat[r])]
<1>0. SUFFICES ASSUME NEW r \in Labels(theory)
               PROVE  /\ sat[r] \cup Refutations(r) \subseteq Slots(theory, r)
                      /\ rem[r] - Cardinality(Refutations(r) \ sat[r]) \in Nat
                      /\ rem[r] - Cardinality(Refutations(r) \ sat[r]) =
                           Len(BodyOf(theory, r)) - Cardinality(sat[r] \cup Refutations(r))
  <2>1. \A r \in Labels(theory) : Slots(theory, r) \subseteq Nat
    BY SlotsType
  <2>2. \A r \in Labels(theory) : /\ newSat[r] = sat[r] \cup Refutations(r)
                                 /\ newRem[r] = rem[r] - Cardinality(Refutations(r) \ sat[r])
    OBVIOUS
  <2>3. \A r \in Labels(theory) : newSat[r] \subseteq Nat /\ newRem[r] \in Nat
    BY <1>0, <2>1, <2>2
  <2>4. newSat \in [Labels(theory) -> SUBSET Nat] /\ newRem \in [Labels(theory) -> Nat]
    BY <2>3, Zenon
  <2>5. \A r \in Labels(theory) :
           /\ newSat[r] \subseteq Slots(theory, r)
           /\ newRem[r] = Len(BodyOf(theory, r)) - Cardinality(newSat[r])
    BY <1>0, <2>2
  <2> QED
    BY <2>4, <2>5 DEF Counted
<1> DEFINE S == Slots(theory, r)
           T == sat[r]
           V == Refutations(r) \ sat[r]
           W == sat[r] \cup Refutations(r)
<1>1. Refutations(r) \subseteq S
  BY DEF Refutations, NegativeSlots
<1>2. /\ T \subseteq S /\ rem[r] = Cardinality(S) - Cardinality(T) /\ rem[r] \in Nat
      /\ V \subseteq S \ T /\ W = T \cup V /\ IsFiniteSet(S)
      /\ Cardinality(S) = Len(BodyOf(theory, r))
  BY <1>1, SlotsType DEF Counted
<1> HIDE DEF S, T, V, W
<1>3. /\ Cardinality(S) - Cardinality(T) \in Nat
      /\ Cardinality(V) \in Nat
      /\ (Cardinality(S) - Cardinality(T)) - Cardinality(V) = Cardinality(S) - Cardinality(W)
      /\ Cardinality(V) <= Cardinality(S) - Cardinality(T)
  <2>1. T \subseteq S /\ V \subseteq S \ T /\ W = T \cup V /\ IsFiniteSet(S)
    BY <1>2
  <2> QED
    BY <2>1, CoverCounts, SMTT(30)
<1>4. rem[r] - Cardinality(V) \in Nat /\ W \subseteq S
  BY <1>2, <1>3
<1>5. rem[r] - Cardinality(V) = Cardinality(S) - Cardinality(W)
  BY <1>2, <1>3
<1> QED
  BY <1>2, <1>4, <1>5 DEF S, V, W

-----------------------------------------------------------------------------
(* Types. *)

(* The heads of rules, and the opponents of heads, are literals. *)
LEMMA HeadsType ==
  ASSUME theory \in TheoryNames, NEW R, R \subseteq Labels(theory)
  PROVE  /\ {HeadOf(theory, r) : r \in R} \subseteq Literal
         /\ UNION {Opponents(HeadOf(theory, r)) : r \in R} \subseteq Literal
<1>1. \A r \in R : HeadOf(theory, r) \in Literal
  BY RuleType
<1>2. \A r \in R : Opponents(HeadOf(theory, r)) \subseteq Literal
  BY <1>1, OpponentsType
<1> QED
  BY <1>1, <1>2

(* What a handler decides about is events. *)
LEMMA AgendaType ==
  ASSUME NEW rem, NEW disc, NEW prove, prove \subseteq Literal,
         NEW disprove, disprove \subseteq Literal
  PROVE  Agenda(rem, disc, prove, disprove) \subseteq Event
<1>1. \A q \in Literal : <<q, TRUE>> \in Event /\ <<q, FALSE>> \in Event
  BY DEF Event
<1>2. \A e \in Agenda(rem, disc, prove, disprove) :
         \E q \in Literal : e = <<q, TRUE>> \/ e = <<q, FALSE>>
  BY DEF Agenda
<1> QED
  BY <1>1, <1>2

(* A conclusion pushed by the engine is a conclusion. *)
LEMMA ConcludeType ==
  ASSUME NEW tag \in Tag, NEW l \in Literal, NEW label \in Label \cup {NoLabel}
  PROVE  Conclude(tag, l, label) \in [tag : Tag, lit : Literal, label : Label \cup {NoLabel}]
BY DEF Conclude

(* What the index says of a literal met in the worklist or in a rule.      *)
LEMMA RulesWithBodyType ==
  ASSUME NEW t, NEW q
  PROVE  RulesWithBody(t, q) \subseteq Labels(t)
BY DEF RulesWithBody

(* The engine keeps its types, and each counter of a rule is the number of *)
(* body slots not yet covered: two proven members of one family that cover *)
(* one slot count once, and no subtraction goes below zero.                *)
THEOREM TypeCorrect == Spec => [](TypeOK /\ CountsSlots)
<1>1. ASSUME TypeOK
      PROVE  CountsSlots <=> /\ Counted(theory, definiteSatisfied, definiteRemaining)
                             /\ Counted(theory, satisfied, remaining)
  BY <1>1 DEF TypeOK, CountsSlots, Counted
<1>2. Init => TypeOK /\ CountsSlots
  <2> SUFFICES ASSUME Init
               PROVE  TypeOK /\ CountsSlots
    OBVIOUS
  <2>1. theory \in TheoryNames
    BY DEF Init
  <2>2. Counted(theory, InitialSatisfied(theory), InitialRemaining(theory))
    BY <2>1, InitiallyCounted
  <2>3. familyLive \in [{Family(l) : l \in LiteralSet(theory)} -> Nat]
    <3>1. \A f : FamilyMembers(f) \in SUBSET LiteralSet(theory)
      BY DEF FamilyMembers
    <3>2. \A f : Cardinality(FamilyMembers(f)) \in Nat
      BY <2>1, <3>1, LiteralSetType, FS_Subset, FS_CardinalityType
    <3> QED
      BY <3>2 DEF Init
  <2>4. TypeOK
    BY <2>1, <2>2, <2>3 DEF Init, TypeOK, Counted, BodylessDefinite, Event
  <2>5. /\ Counted(theory, definiteSatisfied, definiteRemaining)
        /\ Counted(theory, satisfied, remaining)
    BY <2>2 DEF Init
  <2> QED
    BY <1>1, <2>4, <2>5
<1>3. ASSUME TypeOK, CountsSlots, [Next]_vars
      PROVE  TypeOK' /\ CountsSlots'
  <2>1. /\ theory \in TheoryNames
        /\ Counted(theory, definiteSatisfied, definiteRemaining)
        /\ Counted(theory, satisfied, remaining)
    BY <1>1, <1>3 DEF TypeOK
  <2>2. \A r \in Labels(theory) : HeadOf(theory, r) \in Literal
    BY <2>1, RuleType
  <2>3. LiteralSet(theory) \subseteq Literal /\ ClosedSet(theory) \subseteq Literal
    BY <2>1, LiteralSetType, ClosedSetType
  <2>4. CASE UNCHANGED vars
    BY <1>3, <2>4 DEF TypeOK, CountsSlots, vars, definiteVars, counterVars, defeasibleVars
  <2>5. ASSUME NEW r \in unseeded, SeedFact(r)
        PROVE  TypeOK' /\ CountsSlots'
    <3>1. r \in Labels(theory) /\ HeadOf(theory, r) \in Literal
      BY <1>3, <2>2 DEF TypeOK
    <3>2. r \in Label /\ RuleOf(theory, r).head \in Literal /\ "+D" \in Tag
      BY <2>1, <3>1, RuleType DEF Tag, Rule
    <3>3. Conclude("+D", RuleOf(theory, r).head, r)
            \in [tag : Tag, lit : Literal, label : Label \cup {NoLabel}]
      BY <3>1, <3>2, ConcludeType
    <3> QED
      BY <1>3, <2>5, <3>1, <3>3 DEF TypeOK, CountsSlots, SeedFact, counterVars, defeasibleVars
  <2>6. CASE SeededFacts
    BY <1>3, <2>6 DEF TypeOK, CountsSlots, SeededFacts, definiteVars, counterVars, defeasibleVars
  <2>7. ASSUME NEW q \in definiteWorklist, PopDefinite(q)
        PROVE  TypeOK' /\ CountsSlots'
    <3>1. RulesWithBody(theory, q) \subseteq Labels(theory)
      BY RulesWithBodyType
    <3> QED
      BY <1>3, <2>7, <3>1 DEF TypeOK, CountsSlots, PopDefinite, counterVars, defeasibleVars
  <2>8. ASSUME NEW v \in visits, Visit(v[1], v[2])
        PROVE  TypeOK' /\ CountsSlots'
    <3> DEFINE q == v[1]
               r == v[2]
    <3>1. r \in Labels(theory) /\ HeadOf(theory, r) \in Literal
      BY <1>3, <2>2 DEF TypeOK
    <3>2. Counted(theory, definiteSatisfied', definiteRemaining')
      BY <2>1, <2>8, CoverKeepsCounted DEF Visit
    <3>3. /\ definiteProven' \subseteq Literal /\ definiteWorklist' \subseteq Literal
          /\ conclusions' \subseteq [tag : Tag, lit : Literal, label : Label \cup {NoLabel}]
      <4>1. r \in Label /\ RuleOf(theory, r).head \in Literal
        BY <2>1, <3>1, RuleType DEF Rule
      <4> HIDE DEF q, r
      <4>2. Visit(q, r)
        BY <2>8 DEF q, r
      <4> QED
        BY <1>3, <3>1, <4>1, <4>2 DEF TypeOK, Visit, Tag, Conclude
    <3>4. TypeOK'
      BY <1>3, <2>8, <3>2, <3>3 DEF TypeOK, Visit, Counted, counterVars, defeasibleVars
    <3> QED
      BY <1>3, <2>8, <3>2, <3>4 DEF CountsSlots, Counted, Visit, counterVars
  <2>9. CASE ForwardDone
    BY <1>3, <2>9 DEF TypeOK, CountsSlots, ForwardDone, definiteVars, counterVars, defeasibleVars
  <2>10. CASE DeriveNegative
    <3>1. PICK q \in Refutable : definiteDisproven' = definiteDisproven \cup {q}
      BY <2>10 DEF DeriveNegative
    <3>2. q \in Literal
      BY <2>3 DEF Refutable
    <3> QED
      BY <1>3, <2>10, <3>1, <3>2 DEF TypeOK, CountsSlots, DeriveNegative, definiteVars, counterVars, defeasibleVars
  <2>11. CASE NegativeDone
    BY <1>3, <2>11 DEF TypeOK, CountsSlots, NegativeDone, definiteVars, counterVars, defeasibleVars
  <2>12. ASSUME NEW q \in ToSeed, Seed(q)
         PROVE  TypeOK' /\ CountsSlots'
    <3>1. q \in Literal
      BY <2>3 DEF ToSeed
    <3>2. <<q, TRUE>> \in Event
      BY <3>1 DEF Event
    <3>3. worklist' \in Seq(Event)
      BY <1>3, <2>12, <3>2 DEF TypeOK, Seed
    <3>4. conclusions' \subseteq [tag : Tag, lit : Literal, label : Label \cup {NoLabel}]
      <4>1. PICK c \in conclusions : conclusions' = conclusions \cup {Conclude("+d", c.lit, c.label)}
        BY <2>12 DEF Seed
      <4>2. c.lit \in Literal /\ c.label \in Label \cup {NoLabel} /\ "+d" \in Tag
        BY <1>3 DEF TypeOK, Tag
      <4>3. Conclude("+d", c.lit, c.label) \in [tag : Tag, lit : Literal, label : Label \cup {NoLabel}]
        BY <4>2, ConcludeType
      <4> QED
        BY <1>3, <4>1, <4>3 DEF TypeOK
    <3> QED
      BY <1>3, <2>12, <3>1, <3>3, <3>4 DEF TypeOK, CountsSlots, Seed, definiteVars, counterVars
  <2>13. CASE StartRules
    <3>1. todo' \subseteq Event
      <4> DEFINE R == {s \in Labels(theory) : BodyOf(theory, s) = << >> /\ Productive(theory, s)}
                 prove == {HeadOf(theory, r) : r \in R}
      <4>1. prove \subseteq Literal
        BY <2>2
      <4>2. todo' = Agenda(remaining, discarded, prove, {})
        BY <2>13 DEF StartRules
      <4> QED
        BY <4>1, <4>2, AgendaType
    <3> QED
      BY <1>3, <2>13, <3>1 DEF TypeOK, CountsSlots, StartRules, definiteVars, counterVars, defeasibleVars
  <2>14. ASSUME NEW e \in todo, DecideProved(e[1])
         PROVE  TypeOK' /\ CountsSlots'
    <3> DEFINE q == e[1]
    <3>1. q \in Literal
      BY <1>3 DEF TypeOK, Event
    <3>2. <<q, TRUE>> \in Event
      BY <3>1 DEF Event
    <3> HIDE DEF q
    <3>3. DecideProved(q)
      BY <2>14 DEF q
    <3>4. worklist' \in Seq(Event) /\ defeasibleProven' \subseteq Literal
      <4>1. Append(worklist, <<q, TRUE>>) \in Seq(Event)
        BY <1>3, <3>2 DEF TypeOK
      <4>2. defeasibleProven \cup {q} \subseteq Literal
        BY <1>3, <3>1 DEF TypeOK
      <4> QED
        BY <1>3, <3>3, <4>1, <4>2 DEF TypeOK, DecideProved
    <3>5. conclusions' \subseteq [tag : Tag, lit : Literal, label : Label \cup {NoLabel}]
      <4>1. CASE conclusions' = conclusions
        BY <1>3, <4>1 DEF TypeOK
      <4>2. ASSUME NEW r \in Supporters(remaining, discarded, q),
                   conclusions' = conclusions \cup {Conclude("+d", RuleOf(theory, r).head, r)}
            PROVE  conclusions' \subseteq [tag : Tag, lit : Literal, label : Label \cup {NoLabel}]
        <5>1. r \in Labels(theory)
          BY DEF Supporters, SupportingRules, RulesWithHead
        <5>2. /\ RuleOf(theory, r).head \in Literal
              /\ r \in Label \cup {NoLabel} /\ "+d" \in Tag
          BY <2>1, <5>1, RuleType DEF Tag, Rule
        <5>3. Conclude("+d", RuleOf(theory, r).head, r)
                \in [tag : Tag, lit : Literal, label : Label \cup {NoLabel}]
          BY <5>2, ConcludeType
        <5> QED
          BY <1>3, <4>2, <5>3 DEF TypeOK
      <4> QED
        BY <3>3, <4>1, <4>2 DEF DecideProved
    <3> QED
      BY <1>3, <3>3, <3>4, <3>5 DEF TypeOK, CountsSlots, DecideProved, definiteVars, counterVars
  <2>15. ASSUME NEW e \in todo, DecideDisproved(e[1])
         PROVE  TypeOK' /\ CountsSlots'
    <3> DEFINE q == e[1]
    <3>1. q \in Literal
      BY <1>3 DEF TypeOK, Event
    <3>2. <<q, FALSE>> \in Event
      BY <3>1 DEF Event
    <3> HIDE DEF q
    <3>3. DecideDisproved(q)
      BY <2>15 DEF q
    <3>4. worklist' \in Seq(Event) /\ defeasibleDisproven' \subseteq Literal
      <4>1. Append(worklist, <<q, FALSE>>) \in Seq(Event)
        BY <1>3, <3>2 DEF TypeOK
      <4>2. defeasibleDisproven \cup {q} \subseteq Literal
        BY <1>3, <3>1 DEF TypeOK
      <4> QED
        BY <1>3, <3>3, <4>1, <4>2 DEF TypeOK, DecideDisproved
    <3> QED
      BY <1>3, <3>3, <3>4 DEF TypeOK, CountsSlots, DecideDisproved, definiteVars, counterVars
  <2>16. ASSUME NEW q \in ClosedSet(theory), PopProved(q)
         PROVE  TypeOK' /\ CountsSlots'
    <3>1. Counted(theory, satisfied', remaining')
      BY <2>1, <2>16, CoverKeepsCounted DEF PopProved
    <3>2. worklist' \in Seq(Event)
      BY <1>3, <2>16 DEF TypeOK, PopProved
    <3>3. todo' \subseteq Event
      <4> DEFINE fired == {r \in RulesWithBody(theory, q) : Fires(remaining', discarded, r)}
                 productive == {s \in fired : Productive(theory, s)}
                 rivals == UNION {Opponents(HeadOf(theory, r)) : r \in fired}
                 heads == {HeadOf(theory, r) : r \in productive}
      <4>1. fired \subseteq Labels(theory) /\ productive \subseteq Labels(theory)
        BY RulesWithBodyType
      <4>2. rivals \subseteq Literal /\ heads \subseteq Literal
        BY <2>1, <4>1, HeadsType
      <4>3. Opponents(q) \subseteq Literal
        BY <2>3, OpponentsType
      <4>4. todo' = Agenda(remaining', discarded, heads \cup rivals, rivals \cup Opponents(q))
        BY <2>16 DEF PopProved
      <4> HIDE DEF rivals, heads
      <4> QED
        BY <4>2, <4>3, <4>4, AgendaType
    <3>4. TypeOK'
      BY <1>3, <2>16, <3>1, <3>2, <3>3 DEF TypeOK, PopProved, Counted, definiteVars
    <3> QED
      BY <1>3, <2>16, <3>1, <3>4 DEF CountsSlots, Counted, PopProved, definiteVars
  <2>17. ASSUME NEW q \in ClosedSet(theory), PopDisproved(q)
         PROVE  TypeOK' /\ CountsSlots'
    <3>1. worklist' \in Seq(Event)
      BY <1>3, <2>17 DEF TypeOK, PopDisproved
    <3>2. todo' \subseteq Event
      <4> DEFINE hit == RulesWithBody(theory, q)
                 productive == {s \in hit : Productive(theory, s)}
                 rivals == UNION {Opponents(HeadOf(theory, r)) : r \in hit}
                 heads == {HeadOf(theory, r) : r \in productive}
      <4>1. hit \subseteq Labels(theory) /\ productive \subseteq Labels(theory)
        BY RulesWithBodyType
      <4>2. rivals \subseteq Literal /\ heads \subseteq Literal
        BY <2>1, <4>1, HeadsType
      <4>3. Opponents(q) \subseteq Literal
        BY <2>3, OpponentsType
      <4>4. todo' = Agenda(remaining, discarded', rivals \cup Opponents(q), heads)
        BY <2>17 DEF PopDisproved
      <4> HIDE DEF rivals, heads
      <4> QED
        BY <4>2, <4>3, <4>4, AgendaType
    <3>3. /\ countedDead' \subseteq Literal
          /\ familyLive' \in [{Family(l) : l \in LiteralSet(theory)} -> Nat]
      <4>1. \A m \in Nat : Saturate(m, 1) \in Nat
        BY DEF Saturate
      <4> QED
        BY <1>3, <2>3, <2>17, <4>1 DEF TypeOK, PopDisproved
    <3>4. discarded' \in [Labels(theory) -> BOOLEAN]
      BY <1>3, <2>17, Zenon DEF TypeOK, PopDisproved
    <3> QED
      BY <1>3, <2>17, <3>1, <3>2, <3>3, <3>4 DEF TypeOK, CountsSlots, PopDisproved, definiteVars
  <2>18. CASE Sweep
    <3>1. Counted(theory, satisfied', remaining')
      BY <2>1, <2>18, RefutationsKeepCounted DEF Sweep, NewRefutations
    <3>2. todo' \subseteq Event
      BY <2>3, <2>18, AgendaType DEF Sweep
    <3>3. discarded' \in [Labels(theory) -> BOOLEAN]
      BY <1>3, <2>18, Zenon DEF TypeOK, Sweep
    <3>4. TypeOK'
      BY <1>3, <2>18, <3>1, <3>2, <3>3 DEF TypeOK, Sweep, Counted, definiteVars, defeasibleVars
    <3> QED
      BY <1>3, <2>18, <3>1, <3>4 DEF CountsSlots, Counted, Sweep, definiteVars
  <2>19. CASE Finish
    <3>1. /\ {Conclude("-D", l, NoLabel) : l \in definiteDisproven \cap LiteralSet(theory)}
               \subseteq [tag : Tag, lit : Literal, label : Label \cup {NoLabel}]
          /\ {Conclude("-d", l, NoLabel) : l \in defeasibleDisproven \cap LiteralSet(theory)}
               \subseteq [tag : Tag, lit : Literal, label : Label \cup {NoLabel}]
      <4>1. "-D" \in Tag /\ "-d" \in Tag
        BY DEF Tag
      <4> QED
        BY <2>3, <4>1, ConcludeType
    <3>2. conclusions' \subseteq [tag : Tag, lit : Literal, label : Label \cup {NoLabel}]
      BY <1>3, <2>19, <3>1 DEF TypeOK, Finish
    <3> QED
      BY <1>3, <2>19, <3>2 DEF TypeOK, CountsSlots, Finish, definiteVars, counterVars, defeasibleVars
  <2> QED
    BY <1>3, <2>4, <2>5, <2>6, <2>7, <2>8, <2>9, <2>10, <2>11, <2>12, <2>13, <2>14, <2>15,
       <2>16, <2>17, <2>18, <2>19 DEF Next, Definite, Defeasible
<1> QED
  BY <1>2, <1>3, PTL DEF Spec

(* Whatever was matched twice, in an event or in a sweep, each counter is  *)
(* the number of premises that are still open.                             *)
THEOREM CountsSlotsAlways == Spec => []CountsSlots
BY TypeCorrect, PTL

-----------------------------------------------------------------------------
(* Where the tags, events and decisions come from. *)

TagEvents == (defeasibleProven \X {TRUE}) \cup (defeasibleDisproven \X {FALSE})

(* An event stands for the tag it announces. *)
LEMMA EventTagged ==
  ASSUME NEW q
  PROVE  /\ <<q, TRUE>> \in TagEvents <=> q \in defeasibleProven
         /\ <<q, FALSE>> \in TagEvents <=> q \in defeasibleDisproven
BY Zenon DEF TagEvents

(* Appending an element of S to a sequence over S. *)
LEMMA AppendType ==
  ASSUME NEW S, NEW seq \in Seq(S), NEW e \in S
  PROVE  Append(seq, e) \in Seq(S)
OBVIOUS

(* Proofs are of literals of the theory and refutations of its closure;    *)
(* the queues hold only tagged literals; a decision to refute is about a   *)
(* literal that is -D; and no refutation precedes its phase.               *)
Origins ==
  /\ unseeded \subseteq BodylessDefinite(theory)
  /\ definiteProven \subseteq LiteralSet(theory)
  /\ definiteDisproven \subseteq ClosedSet(theory)
  /\ defeasibleProven \subseteq LiteralSet(theory)
  /\ definiteWorklist \subseteq definiteProven
  /\ visits \subseteq definiteProven \X {r \in Labels(theory) : KindOf(theory, r) = "strict"}
  /\ countedDead \subseteq defeasibleDisproven
  /\ worklist \in Seq(TagEvents)
  /\ \A e \in todo : IF e[2] THEN e[1] \in LiteralSet(theory) ELSE e[1] \in definiteDisproven
  /\ phase \in {"facts", "strict"} => definiteDisproven = {}
  /\ phase \in {"facts", "strict", "negative", "seed"} => defeasibleDisproven = {} /\ todo = {}

(* What a handler puts on its agenda is of that kind. *)
LEMMA AgendaOrigins ==
  ASSUME theory \in TheoryNames, NEW rem, NEW disc, NEW prove, NEW disprove,
         NEW e \in Agenda(rem, disc, prove, disprove)
  PROVE  /\ e[2] \in BOOLEAN
         /\ e[2] => e[1] \in LiteralSet(theory) /\ CanProve(rem, disc, e[1])
         /\ ~ e[2] => e[1] \in definiteDisproven /\ CanDisprove(rem, disc, e[1])
<1>1. CASE e \in {<<q, TRUE>> : q \in {l \in prove : CanProve(rem, disc, l)}}
  <2>1. PICK q \in {l \in prove : CanProve(rem, disc, l)} : e = <<q, TRUE>>
    BY <1>1
  <2>2. CanProve(rem, disc, q)
    BY <2>1
  <2>3. PICK r \in Labels(theory) : HeadOf(theory, r) = q
    BY <2>2 DEF CanProve, Supporters, SupportingRules, RulesWithHead
  <2>4. q \in LiteralSet(theory)
    BY <2>3, LiteralSetType
  <2> QED
    BY <2>1, <2>2, <2>4
<1>2. CASE e \in {<<q, FALSE>> : q \in {l \in disprove : CanDisprove(rem, disc, l)}}
  <2>1. PICK q \in {l \in disprove : CanDisprove(rem, disc, l)} : e = <<q, FALSE>>
    BY <1>2
  <2>2. CanDisprove(rem, disc, q)
    BY <2>1
  <2> QED
    BY <2>1, <2>2 DEF CanDisprove
<1> QED
  BY <1>1, <1>2 DEF Agenda

(* Every handler that sets an agenda meets the conditions of Origins on it. *)
LEMMA AgendaSet ==
  ASSUME theory \in TheoryNames, NEW rem, NEW disc, NEW prove, NEW disprove
  PROVE  \A e \in Agenda(rem, disc, prove, disprove) :
            IF e[2] THEN e[1] \in LiteralSet(theory) ELSE e[1] \in definiteDisproven
BY AgendaOrigins

(* What a tag is about, and the coherence of the tags: proofs are of       *)
(* literals of the theory, refutations of its closure, every queued event  *)
(* has its tag already, and no literal ever gets both tags of one level    *)
(* (try_prove_defeasible, try_disprove_defeasible and derive_negative      *)
(* check before they insert).                                              *)
THEOREM TagsOriginate == Spec => [](Origins /\ Coherent)
<1>1. Init => Origins /\ Coherent
  BY DEF Init, Origins, Coherent
<1>2. ASSUME TypeOK, Origins, Coherent, [Next]_vars
      PROVE  Origins' /\ Coherent'
  <2>1. theory \in TheoryNames
    BY <1>2 DEF TypeOK
  <2>2. \A r \in Labels(theory) : HeadOf(theory, r) \in LiteralSet(theory)
    BY <2>1, LiteralSetType
  <2>4. CASE UNCHANGED vars
    BY <1>2, <2>4 DEF Origins, Coherent, TagEvents, vars, definiteVars, counterVars, defeasibleVars
  <2>5. ASSUME NEW r \in unseeded, SeedFact(r)
        PROVE  Origins' /\ Coherent'
    <3>1. r \in Labels(theory)
      BY <1>2 DEF TypeOK
    <3>2. HeadOf(theory, r) \in LiteralSet(theory)
      BY <2>2, <3>1
    <3>3. definiteDisproven = {} /\ defeasibleDisproven = {} /\ todo = {}
      BY <1>2, <2>5 DEF Origins, SeedFact
    <3> QED
      BY <1>2, <2>5, <3>2, <3>3 DEF Origins, Coherent, TagEvents, SeedFact, counterVars, defeasibleVars
  <2>6. CASE SeededFacts
    BY <1>2, <2>6 DEF Origins, Coherent, TagEvents, SeededFacts, definiteVars, counterVars, defeasibleVars
  <2>7. ASSUME NEW q \in definiteWorklist, PopDefinite(q)
        PROVE  Origins' /\ Coherent'
    <3>1. q \in definiteProven
      BY <1>2 DEF Origins
    <3>2. RulesWithBody(theory, q) \subseteq Labels(theory)
      BY RulesWithBodyType
    <3>3. visits' \subseteq definiteProven \X {r \in Labels(theory) : KindOf(theory, r) = "strict"}
      BY <2>7, <3>1, <3>2 DEF PopDefinite
    <3> QED
      BY <1>2, <2>7, <3>3 DEF Origins, Coherent, TagEvents, PopDefinite, counterVars, defeasibleVars
  <2>8. ASSUME NEW v \in visits, Visit(v[1], v[2])
        PROVE  Origins' /\ Coherent'
    <3> DEFINE r == v[2]
    <3>1. r \in Labels(theory)
      BY <1>2 DEF TypeOK
    <3>2. HeadOf(theory, r) \in LiteralSet(theory)
      BY <2>2, <3>1
    <3>3. definiteDisproven = {} /\ defeasibleDisproven = {} /\ todo = {}
      BY <1>2, <2>8 DEF Origins, Visit
    <3>4. /\ definiteProven \subseteq definiteProven'
          /\ definiteProven' \subseteq definiteProven \cup {HeadOf(theory, r)}
          /\ definiteWorklist' \subseteq definiteProven'
      BY <1>2, <2>8 DEF Visit, Origins
    <3>5. visits' \subseteq definiteProven' \X {s \in Labels(theory) : KindOf(theory, s) = "strict"}
      <4>1. visits' \subseteq visits
        BY <2>8 DEF Visit
      <4> QED
        BY <1>2, <3>4, <4>1 DEF Origins
    <3>6. UNCHANGED <<theory, phase, unseeded, definiteDisproven, counterVars, defeasibleVars, todo>>
      BY <2>8 DEF Visit
    <3> HIDE DEF r
    <3> QED
      BY <1>2, <3>2, <3>3, <3>4, <3>5, <3>6 DEF Origins, Coherent, TagEvents, counterVars, defeasibleVars
  <2>9. CASE ForwardDone
    BY <1>2, <2>9 DEF Origins, Coherent, TagEvents, ForwardDone, definiteVars, counterVars, defeasibleVars
  <2>10. CASE DeriveNegative
    <3>1. PICK q \in Refutable : definiteDisproven' = definiteDisproven \cup {q}
      BY <2>10 DEF DeriveNegative
    <3>2. q \in ClosedSet(theory) /\ q \notin definiteProven
      BY DEF Refutable
    <3> QED
      BY <1>2, <2>10, <3>1, <3>2 DEF Origins, Coherent, TagEvents, DeriveNegative, definiteVars, counterVars, defeasibleVars
  <2>11. CASE NegativeDone
    BY <1>2, <2>11 DEF Origins, Coherent, TagEvents, NegativeDone, definiteVars, counterVars, defeasibleVars
  <2>12. ASSUME NEW q \in ToSeed, Seed(q)
         PROVE  Origins' /\ Coherent'
    <3>1. q \in LiteralSet(theory)
      BY DEF ToSeed
    <3>2. worklist' \in Seq(TagEvents')
      <4>1. TagEvents \subseteq TagEvents' /\ <<q, TRUE>> \in TagEvents'
        BY <2>12 DEF Seed, TagEvents
      <4>2. worklist \in Seq(TagEvents')
        BY <1>2, <4>1, SeqMonotonic DEF Origins
      <4> QED
        BY <2>12, <4>1, <4>2 DEF Seed
    <3>3. defeasibleDisproven = {} /\ todo = {}
      BY <1>2, <2>12 DEF Origins, Seed
    <3> QED
      BY <1>2, <2>12, <3>1, <3>2, <3>3 DEF Origins, Coherent, Seed, definiteVars, counterVars
  <2>13. CASE StartRules
    <3>1. \A e \in todo' : IF e[2] THEN e[1] \in LiteralSet(theory) ELSE e[1] \in definiteDisproven
      BY <2>1, <2>13, AgendaSet DEF StartRules
    <3> QED
      BY <1>2, <2>13, <3>1 DEF Origins, Coherent, TagEvents, StartRules, definiteVars, counterVars, defeasibleVars
  <2>14. ASSUME NEW e \in todo, DecideProved(e[1])
         PROVE  Origins' /\ Coherent'
    <3> DEFINE q == e[1]
    <3>1. q \in LiteralSet(theory)
      BY <1>2, <2>14 DEF DecideProved, Origins
    <3>2. phase \notin {"facts", "strict", "negative", "seed"}
      BY <1>2 DEF Origins
    <3> HIDE DEF q
    <3>3. DecideProved(q)
      BY <2>14 DEF q
    <3>4. worklist' \in Seq(TagEvents')
      <4>1. CASE q \in defeasibleDisproven
        BY <1>2, <3>3, <4>1 DEF DecideProved, Origins, TagEvents
      <4>2. CASE q \notin defeasibleDisproven
        <5>1. TagEvents \subseteq TagEvents' /\ <<q, TRUE>> \in TagEvents'
          BY <3>3, <4>2 DEF DecideProved, TagEvents
        <5>2. worklist \in Seq(TagEvents')
          BY <1>2, <5>1, SeqMonotonic DEF Origins
        <5>3. Append(worklist, <<q, TRUE>>) \in Seq(TagEvents')
          BY <5>1, <5>2, AppendType
        <5>4. worklist' = Append(worklist, <<q, TRUE>>)
          BY <3>3, <4>2 DEF DecideProved
        <5> QED
          BY <5>3, <5>4
      <4> QED
        BY <4>1, <4>2
    <3> QED
      BY <1>2, <3>1, <3>2, <3>3, <3>4 DEF Origins, Coherent, DecideProved, definiteVars, counterVars
  <2>15. ASSUME NEW e \in todo, DecideDisproved(e[1])
         PROVE  Origins' /\ Coherent'
    <3> DEFINE q == e[1]
    <3>1. q \in definiteDisproven
      BY <1>2, <2>15 DEF DecideDisproved, Origins
    <3>2. phase \notin {"facts", "strict", "negative", "seed"}
      BY <1>2 DEF Origins
    <3> HIDE DEF q
    <3>3. DecideDisproved(q)
      BY <2>15 DEF q
    <3>4. worklist' \in Seq(TagEvents')
      <4>1. CASE q \in defeasibleProven
        BY <1>2, <3>3, <4>1 DEF DecideDisproved, Origins, TagEvents
      <4>2. CASE q \notin defeasibleProven
        <5>1. TagEvents \subseteq TagEvents' /\ <<q, FALSE>> \in TagEvents'
          BY <3>3, <4>2 DEF DecideDisproved, TagEvents
        <5>2. worklist \in Seq(TagEvents')
          BY <1>2, <5>1, SeqMonotonic DEF Origins
        <5>3. Append(worklist, <<q, FALSE>>) \in Seq(TagEvents')
          BY <5>1, <5>2, AppendType
        <5>4. worklist' = Append(worklist, <<q, FALSE>>)
          BY <3>3, <4>2 DEF DecideDisproved
        <5> QED
          BY <5>3, <5>4
      <4> QED
        BY <4>1, <4>2
    <3> QED
      BY <1>2, <3>1, <3>2, <3>3, <3>4 DEF Origins, Coherent, DecideDisproved, definiteVars, counterVars
  <2>16. ASSUME NEW q \in ClosedSet(theory), PopProved(q)
         PROVE  Origins' /\ Coherent'
    <3>1. worklist' \in Seq(TagEvents)
      BY <1>2, <2>16, HeadTailProperties DEF PopProved, Origins
    <3>2. \A e \in todo' : IF e[2] THEN e[1] \in LiteralSet(theory) ELSE e[1] \in definiteDisproven
      BY <2>1, <2>16, AgendaSet DEF PopProved
    <3> QED
      BY <1>2, <2>16, <3>1, <3>2 DEF Origins, Coherent, TagEvents, PopProved, definiteVars
  <2>17. ASSUME NEW q \in ClosedSet(theory), PopDisproved(q)
         PROVE  Origins' /\ Coherent'
    <3>1. worklist' \in Seq(TagEvents)
      BY <1>2, <2>17, HeadTailProperties DEF PopDisproved, Origins
    <3>2. \A e \in todo' : IF e[2] THEN e[1] \in LiteralSet(theory) ELSE e[1] \in definiteDisproven
      BY <2>1, <2>17, AgendaSet DEF PopDisproved
    <3>3. q \in defeasibleDisproven
      <4>1. Head(worklist) \in TagEvents /\ Head(worklist) = <<q, FALSE>>
        BY <1>2, <2>17, HeadTailProperties DEF PopDisproved, Origins
      <4> QED
        BY <4>1, EventTagged
    <3>4. countedDead' \subseteq defeasibleDisproven
      BY <1>2, <2>17, <3>3 DEF PopDisproved, Origins
    <3> QED
      BY <1>2, <2>17, <3>1, <3>2, <3>4 DEF Origins, Coherent, TagEvents, PopDisproved, definiteVars
  <2>18. CASE Sweep
    <3>1. \A e \in todo' : IF e[2] THEN e[1] \in LiteralSet(theory) ELSE e[1] \in definiteDisproven
      BY <2>1, <2>18, AgendaSet DEF Sweep
    <3> QED
      BY <1>2, <2>18, <3>1 DEF Origins, Coherent, TagEvents, Sweep, definiteVars, defeasibleVars
  <2>19. CASE Finish
    BY <1>2, <2>19 DEF Origins, Coherent, TagEvents, Finish, definiteVars, counterVars, defeasibleVars
  <2> QED
    BY <1>2, <2>4, <2>5, <2>6, <2>7, <2>8, <2>9, <2>10, <2>11, <2>12, <2>13, <2>14, <2>15,
       <2>16, <2>17, <2>18, <2>19 DEF Next, Definite, Defeasible
<1> QED
  BY <1>1, <1>2, TypeCorrect, PTL DEF Spec
=============================================================================
