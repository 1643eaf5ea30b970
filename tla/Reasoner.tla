------------------------------ MODULE Reasoner ------------------------------
(***************************************************************************)
(* The reasoning engine of crates/spindle-core/src/reason: one call of     *)
(* reason_indexed_trace on an indexed ground theory.                       *)
(*                                                                         *)
(* The call is sequential.  `phase` is the place it has reached:           *)
(*   "facts"     facts.rs, seeding +D with facts and empty strict rules    *)
(*   "strict"    definite.rs, forward chaining of strict rules             *)
(*   "negative"  definite.rs, the constructive -D fixpoint                 *)
(*   "seed"      defeasible.rs, +D gives +d                                *)
(*   "start"     defeasible.rs, the empty-body rules                       *)
(*   "drain"     defeasible.rs, the event loop                             *)
(*   "sweep"     defeasible.rs, the battle-resolution sweep                *)
(*   "done"      conclusions emitted                                       *)
(* What is not determined by the theory is the order of hash maps and the  *)
(* order of names: rules and facts are met in any order, and the orders of *)
(* literals and labels are the parameters LitBefore and LabelBefore.       *)
(***************************************************************************)
EXTENDS ProofTheory

CONSTANTS
  LitBefore(_, _),     \* the order of the literals' rendered names
  LabelBefore(_, _),   \* the order of the rule labels
  NoLabel              \* the rule label of a negative conclusion

VARIABLES
  theory,               \* the name of the indexed theory; read-only
  phase,                \* where the call is
  unseeded,             \* body-less definite rules not yet met in phase "facts"
  definiteWorklist,     \* literals whose strict consequences are to be drawn
  visits,               \* <<literal, strict rule>> visits left of the popped literal
  definiteProven,       \* +D
  definiteDisproven,    \* -D
  definiteSatisfied,    \* per rule, the body slots covered at the definite level
  definiteRemaining,    \* per rule, the count of slots not yet covered
  defeasibleProven,     \* +d
  defeasibleDisproven,  \* -d
  satisfied,            \* per rule, the slots covered at the defeasible level
  remaining,            \* per rule, the count of slots not yet covered
  discarded,            \* per rule, rule_discarded
  familyLive,           \* per family, members not yet refuted (family_live)
  countedDead,          \* members already subtracted from familyLive
  worklist,             \* events <<literal, proved>> of phase 2
  todo,                 \* decisions <<literal, proved>> of the running handler
  conclusions           \* the conclusions pushed so far

definiteVars   == <<definiteWorklist, visits, definiteProven, definiteSatisfied, definiteRemaining>>
counterVars    == <<satisfied, remaining, discarded, familyLive, countedDead>>
defeasibleVars == <<defeasibleProven, defeasibleDisproven, worklist>>
vars == <<theory, phase, unseeded, definiteVars, definiteDisproven, counterVars,
          defeasibleVars, todo, conclusions>>

Event == Literal \X BOOLEAN
Tag   == {"+D", "-D", "+d", "-d"}

TypeOK ==
  /\ theory \in TheoryNames
  /\ phase \in {"facts", "strict", "negative", "seed", "start", "drain",
               "sweep", "done"}
  /\ unseeded \subseteq Labels(theory)
  /\ definiteWorklist \subseteq Literal
  /\ visits \subseteq Literal \X Labels(theory)
  /\ definiteProven \subseteq Literal
  /\ definiteDisproven \subseteq Literal
  /\ definiteSatisfied \in [Labels(theory) -> SUBSET Nat]
  /\ definiteRemaining \in [Labels(theory) -> Nat]
  /\ defeasibleProven \subseteq Literal
  /\ defeasibleDisproven \subseteq Literal
  /\ satisfied \in [Labels(theory) -> SUBSET Nat]
  /\ remaining \in [Labels(theory) -> Nat]
  /\ discarded \in [Labels(theory) -> BOOLEAN]
  /\ familyLive \in [{Family(l) : l \in LiteralSet(theory)} -> Nat]
  /\ countedDead \subseteq Literal
  /\ worklist \in Seq(Event)
  /\ todo \subseteq Event
  /\ conclusions \subseteq [tag : Tag, lit : Literal, label : Label \cup {NoLabel}]

-----------------------------------------------------------------------------
(* Counters.  The literal q covers the slots it satisfies of the rules in  *)
(* hit.  A slot is covered once, however many members of its family are    *)
(* proven, and the counter saturates at zero.                              *)

Cover(sat, hit, q) ==
  [r \in Labels(theory) |->
     IF r \in hit THEN sat[r] \cup MatchedSlots(theory, r, q) ELSE sat[r]]

Saturate(m, n) == IF n <= m THEN m - n ELSE 0

(* Mutant: every match is subtracted, not only those of open slots.        *)
CountEveryMatch(rem, sat, hit, q) ==
  [r \in Labels(theory) |->
     IF r \in hit THEN Saturate(rem[r], Cardinality(MatchedSlots(theory, r, q))) ELSE rem[r]]

Count(rem, sat, hit, q) ==
  [r \in Labels(theory) |->
     IF r \in hit THEN Saturate(rem[r], Cardinality(MatchedSlots(theory, r, q) \ sat[r]))
                  ELSE rem[r]]

InitialSatisfied(t) == [r \in Labels(t) |-> {}]
InitialRemaining(t) == [r \in Labels(t) |-> Len(BodyOf(t, r))]

FamilyMembers(f) == {l \in LiteralSet(theory) : Family(l) = f}

BodylessDefinite(t) ==
  {r \in Labels(t) : /\ KindOf(t, r) \in {"fact", "strict"}
                     /\ BodyOf(t, r) = << >>}

(* A positive conclusion keeps the spelling of its rule's head, "F p" or   *)
(* "O not p"; a negative one is in canonical form.                         *)
Conclude(tag, l, label) == [tag |-> tag, lit |-> l, label |-> label]

Init ==
  /\ theory \in TheoryNames
  /\ phase = "facts"
  /\ unseeded = BodylessDefinite(theory)
  /\ definiteWorklist = {}
  /\ visits = {}
  /\ definiteProven = {}
  /\ definiteDisproven = {}
  /\ definiteSatisfied = InitialSatisfied(theory)
  /\ definiteRemaining = InitialRemaining(theory)
  /\ defeasibleProven = {}
  /\ defeasibleDisproven = {}
  /\ satisfied = InitialSatisfied(theory)
  /\ remaining = InitialRemaining(theory)
  /\ discarded = [r \in Labels(theory) |-> FALSE]
  /\ familyLive = [f \in {Family(l) : l \in LiteralSet(theory)} |->
                     Cardinality(FamilyMembers(f))]
  /\ countedDead = {}
  /\ worklist = << >>
  /\ todo = {}
  /\ conclusions = {}

-----------------------------------------------------------------------------
(* Phase 1. *)

(* One fact or empty strict rule; facts come first, hash order otherwise.  *)
(* A literal is proven and enqueued once, under the first label that       *)
(* asserts it.                                                             *)
SeedFact(r) ==
  /\ phase = "facts"
  /\ r \in unseeded
  /\ KindOf(theory, r) = "strict" =>
        \A f \in unseeded : KindOf(theory, f) # "fact"
  /\ unseeded' = unseeded \ {r}
  /\ LET q == HeadOf(theory, r)
     IN  IF q \in definiteProven
         THEN UNCHANGED <<definiteProven, definiteWorklist, conclusions>>
         ELSE /\ definiteProven' = definiteProven \cup {q}
              /\ definiteWorklist' = definiteWorklist \cup {q}
              /\ conclusions' = conclusions \cup {Conclude("+D", RuleOf(theory, r).head, r)}
  /\ UNCHANGED <<theory, phase, visits, definiteSatisfied, definiteRemaining,
                 definiteDisproven, counterVars, defeasibleVars, todo>>

SeededFacts ==
  /\ phase = "facts"
  /\ unseeded = {}
  /\ phase' = "strict"
  /\ UNCHANGED <<theory, unseeded, definiteVars, definiteDisproven, counterVars,
                 defeasibleVars, todo, conclusions>>

(* A literal is popped and the strict rules with it in their body are      *)
(* visited in hash order; the queue is a set that is left in any order.    *)
PopDefinite(q) ==
  /\ phase = "strict"
  /\ visits = {}
  /\ q \in definiteWorklist
  /\ definiteWorklist' = definiteWorklist \ {q}
  /\ visits' = {q} \X {r \in RulesWithBody(theory, q) : KindOf(theory, r) = "strict"}
  /\ UNCHANGED <<theory, phase, unseeded, definiteProven, definiteSatisfied,
                 definiteRemaining, definiteDisproven, counterVars, defeasibleVars,
                 todo, conclusions>>

(* The rule whose last open slot q covers asserts its head. *)
Visit(q, r) ==
  /\ phase = "strict"
  /\ <<q, r>> \in visits
  /\ visits' = visits \ {<<q, r>>}
  /\ definiteSatisfied' = Cover(definiteSatisfied, {r}, q)
  /\ definiteRemaining' = Count(definiteRemaining, definiteSatisfied, {r}, q)
  /\ LET h == HeadOf(theory, r)
     IN  IF definiteRemaining[r] > 0 /\ definiteRemaining'[r] = 0 /\ h \notin definiteProven
         THEN /\ definiteProven' = definiteProven \cup {h}
              /\ definiteWorklist' = definiteWorklist \cup {h}
              /\ conclusions' = conclusions \cup {Conclude("+D", RuleOf(theory, r).head, r)}
         ELSE UNCHANGED <<definiteProven, definiteWorklist, conclusions>>
  /\ UNCHANGED <<theory, phase, unseeded, definiteDisproven, counterVars,
                 defeasibleVars, todo>>

ForwardDone ==
  /\ phase = "strict"
  /\ definiteWorklist = {} /\ visits = {}
  /\ phase' = "negative"
  /\ UNCHANGED <<theory, unseeded, definiteVars, definiteDisproven, counterVars,
                 defeasibleVars, todo, conclusions>>

First(l, S) == l \in S /\ \A m \in S \ {l} : LitBefore(l, m)

(* Every rule for the literal is refuted at the definite level: a fact     *)
(* never is, a strict rule is by a slot all of whose members are -D, and   *)
(* the other kinds carry no definite support.                              *)
DefiniteFailure(q) ==
  \A r \in RulesWithHead(theory, q) :
     /\ KindOf(theory, r) # "fact"
     /\ KindOf(theory, r) = "strict" =>
          \E s \in Slots(theory, r) :
             \A m \in ClosedSet(theory) :
                Satisfies(m, BodyOf(theory, r)[s]) => m \in definiteDisproven

Refutable == {q \in ClosedSet(theory) \ (definiteProven \cup definiteDisproven) :
                DefiniteFailure(q)}

(* The fixpoint of derive_negative.  The set it grows is the same in every *)
(* order, so the order of the hash set is taken to be that of the names.   *)
DeriveNegative ==
  /\ phase = "negative"
  /\ LET open == Refutable
     IN  \E q \in open :
           /\ First(q, open)
           /\ definiteDisproven' = definiteDisproven \cup {q}
  /\ UNCHANGED <<theory, phase, unseeded, definiteVars, counterVars, defeasibleVars,
                 todo, conclusions>>

NegativeDone ==
  /\ phase = "negative"
  /\ Refutable = {}
  /\ phase' = "seed"
  /\ UNCHANGED <<theory, unseeded, definiteVars, definiteDisproven, counterVars,
                 defeasibleVars, todo, conclusions>>

-----------------------------------------------------------------------------
(* Phase 2: the two inference conditions, read off the counters.           *)

Fires(rem, disc, r) == rem[r] = 0 /\ ~ disc[r]
Open(rem, disc, r)  == rem[r] > 0 /\ ~ disc[r]

(* Mutant: a rule still waiting for a premise is taken for a supporter.    *)
SupportersNotDiscarded(rem, disc, q) == {r \in SupportingRules(theory, q) : ~ disc[r]}

Supporters(rem, disc, q) ==
  {r \in SupportingRules(theory, q) : Fires(rem, disc, r)}

(* Mutants: only attackers that have fired count, and a literal already    *)
(* tagged is proved again.                                                 *)
CanProveEagerly(rem, disc, q) ==
  /\ q \notin defeasibleProven \cup defeasibleDisproven
  /\ Supporters(rem, disc, q) # {}
  /\ q \in definiteProven \/ Opponents(q) \subseteq definiteDisproven
  /\ \A a \in AttackingRules(theory, q) :
        \/ ~ Fires(rem, disc, a)
        \/ \E d \in DefendingRules(theory, q, a) :
              Fires(rem, disc, d) /\ Superior(theory, d, a)

CanProveAgain(rem, disc, q) ==
  /\ q \notin defeasibleDisproven
  /\ Supporters(rem, disc, q) # {}
  /\ q \in definiteProven \/ Opponents(q) \subseteq definiteDisproven
  /\ \A a \in AttackingRules(theory, q) :
        \/ disc[a]
        \/ \E d \in DefendingRules(theory, q, a) :
              Fires(rem, disc, d) /\ Superior(theory, d, a)

(* try_prove_defeasible past its early returns: an attacker that is not    *)
(* discarded, applicable or still open, must be beaten by an applicable    *)
(* superior defender.                                                      *)
CanProve(rem, disc, q) ==
  /\ q \notin defeasibleProven \cup defeasibleDisproven
  /\ Supporters(rem, disc, q) # {}
  /\ q \in definiteProven \/ Opponents(q) \subseteq definiteDisproven
  /\ \A a \in AttackingRules(theory, q) :
        \/ disc[a]
        \/ \E d \in DefendingRules(theory, q, a) :
              Fires(rem, disc, d) /\ Superior(theory, d, a)

(* Mutants: a superior defender that is still open is not waited for, and  *)
(* the superiority is read the wrong way round.                            *)
UnbeatableSoFar(rem, disc, q, a) ==
  /\ Fires(rem, disc, a)
  /\ \A d \in DefendingRules(theory, q, a) :
        ~ (Fires(rem, disc, d) /\ Superior(theory, d, a))

UnbeatableReversed(rem, disc, q, a) ==
  /\ Fires(rem, disc, a)
  /\ \A d \in DefendingRules(theory, q, a) : disc[d] \/ ~ Superior(theory, a, d)

(* An applicable attacker against which no defender can be effective: none *)
(* that is superior and open, none that is superior and not discarded.     *)
Unbeatable(rem, disc, q, a) ==
  /\ Fires(rem, disc, a)
  /\ \A d \in DefendingRules(theory, q, a) :
        /\ ~ (Open(rem, disc, d) /\ Superior(theory, d, a))
        /\ disc[d] \/ ~ Superior(theory, d, a)

(* Mutants: the guard on -D, and the case of an opposed fact, are missing. *)
CanDisproveUnguarded(rem, disc, q) ==
  /\ q \notin defeasibleProven \cup defeasibleDisproven
  /\ \/ Opponents(q) \cap definiteProven # {}
     \/ \A r \in SupportingRules(theory, q) : disc[r]
     \/ \E a \in AttackingRules(theory, q) : Unbeatable(rem, disc, q, a)

CanDisproveWithoutFacts(rem, disc, q) ==
  /\ q \notin defeasibleProven \cup defeasibleDisproven
  /\ q \in definiteDisproven
  /\ \/ \A r \in SupportingRules(theory, q) : disc[r]
     \/ \E a \in AttackingRules(theory, q) : Unbeatable(rem, disc, q, a)

CanDisprove(rem, disc, q) ==
  /\ q \notin defeasibleProven \cup defeasibleDisproven
  /\ q \in definiteDisproven
  /\ \/ Opponents(q) \cap definiteProven # {}
     \/ \A r \in SupportingRules(theory, q) : disc[r]
     \/ \E a \in AttackingRules(theory, q) : Unbeatable(rem, disc, q, a)

(* A handler calls try_prove on some literals and try_disprove on others.  *)
(* A call reads the counters and the definite tags, which no call changes, *)
(* and the tags of its own literal; so the calls that will not return      *)
(* early are known when the counters are.                                  *)
Agenda(rem, disc, prove, disprove) ==
  {<<q, TRUE>>  : q \in {l \in prove : CanProve(rem, disc, l)}} \cup
  {<<q, FALSE>> : q \in {l \in disprove : CanDisprove(rem, disc, l)}}

ToSeed == (definiteProven \cap LiteralSet(theory)) \ defeasibleProven

Seed(q) ==
  /\ phase = "seed"
  /\ First(q, ToSeed)
  /\ defeasibleProven' = defeasibleProven \cup {q}
  /\ worklist' = Append(worklist, <<q, TRUE>>)
  /\ \E c \in conclusions :
        /\ c.tag = "+D" /\ Canonical(c.lit) = q
        /\ conclusions' = conclusions \cup {Conclude("+d", c.lit, c.label)}
  /\ UNCHANGED <<theory, phase, unseeded, definiteVars, definiteDisproven, counterVars,
                 defeasibleDisproven, todo>>

StartRules ==
  /\ phase = "seed"
  /\ ToSeed = {}
  /\ phase' = "start"
  /\ todo' = Agenda(remaining, discarded,
                    {HeadOf(theory, r) : r \in {s \in Labels(theory) :
                        BodyOf(theory, s) = << >> /\ Productive(theory, s)}}, {})
  /\ UNCHANGED <<theory, unseeded, definiteVars, definiteDisproven, counterVars,
                 defeasibleVars, conclusions>>

(* One decision of the agenda.  The calls for body-less rules and those of *)
(* the sweep come in the order of the names; those of one event are taken  *)
(* in any order.                                                           *)
Due(q) == phase = "drain" \/ First(q, {e[1] : e \in todo})

DecideProved(q) ==
  /\ <<q, TRUE>> \in todo
  /\ Due(q)
  /\ todo' = todo \ {<<q, TRUE>>}
  /\ IF q \in defeasibleDisproven
     THEN UNCHANGED <<defeasibleProven, worklist, conclusions>>
     ELSE /\ defeasibleProven' = defeasibleProven \cup {q}
          /\ worklist' = Append(worklist, <<q, TRUE>>)
          /\ LET by == Supporters(remaining, discarded, q)
             IN  \E r \in by :
                   /\ \A s \in by \ {r} : LabelBefore(r, s)
                   /\ conclusions' = conclusions \cup {Conclude("+d", RuleOf(theory, r).head, r)}
  /\ UNCHANGED <<theory, phase, unseeded, definiteVars, definiteDisproven, counterVars,
                 defeasibleDisproven>>

DecideDisproved(q) ==
  /\ <<q, FALSE>> \in todo
  /\ Due(q)
  /\ todo' = todo \ {<<q, FALSE>>}
  /\ IF q \in defeasibleProven
     THEN UNCHANGED <<defeasibleDisproven, worklist>>
     ELSE /\ defeasibleDisproven' = defeasibleDisproven \cup {q}
          /\ worklist' = Append(worklist, <<q, FALSE>>)
  /\ UNCHANGED <<theory, phase, unseeded, definiteVars, definiteDisproven, counterVars,
                 defeasibleProven, conclusions>>

-----------------------------------------------------------------------------
(* Phase 2: the event loop.  A +d literal covers body slots, and the rules *)
(* it completes may decide their heads and the opponents of those.         *)
PopProved(q) ==
  /\ phase \in {"start", "drain", "sweep"}
  /\ todo = {}
  /\ worklist # << >> /\ Head(worklist) = <<q, TRUE>>
  /\ phase' = "drain"
  /\ worklist' = Tail(worklist)
  /\ LET hit   == RulesWithBody(theory, q)
         fired == {r \in hit : Fires(remaining', discarded, r)}
         rivals == UNION {Opponents(HeadOf(theory, r)) : r \in fired}
         heads  == {HeadOf(theory, r) : r \in {s \in fired : Productive(theory, s)}}
     IN  /\ satisfied' = Cover(satisfied, hit, q)
         /\ remaining' = Count(remaining, satisfied, hit, q)
         /\ todo' = Agenda(remaining', discarded, heads \cup rivals,
                           rivals \cup Opponents(q))
  /\ UNCHANGED <<theory, unseeded, definiteVars, definiteDisproven, discarded,
                 familyLive, countedDead, defeasibleProven, defeasibleDisproven,
                 conclusions>>

(* Mutants: one refuted member discards a premise of the whole family, and *)
(* a temporal premise waits for the other windows.                         *)
DeadAtOnce(live, q, b) == ~ NegativeModal(b)

DeadWithFamily(live, q, b) == ~ NegativeModal(b) /\ live[Family(q)] = 0

(* A refuted literal was the last way to satisfy a premise it matches; a   *)
(* negative modal premise is left to the sweep.                            *)
Dead(live, q, b) ==
  /\ ~ NegativeModal(b)
  /\ Temporal(b) \/ live[Family(q)] = 0

(* A -d literal leaves its family one live member poorer, once, and        *)
(* discards the rules it was the last way to satisfy.                      *)
PopDisproved(q) ==
  /\ phase \in {"start", "drain", "sweep"}
  /\ todo = {}
  /\ worklist # << >> /\ Head(worklist) = <<q, FALSE>>
  /\ phase' = "drain"
  /\ worklist' = Tail(worklist)
  /\ IF q \in LiteralSet(theory) \ countedDead
     THEN /\ countedDead' = countedDead \cup {q}
          /\ familyLive' = [familyLive EXCEPT ![Family(q)] = Saturate(@, 1)]
     ELSE UNCHANGED <<countedDead, familyLive>>
  /\ LET hit   == RulesWithBody(theory, q)
         heads  == {HeadOf(theory, r) : r \in {s \in hit : Productive(theory, s)}}
         rivals == UNION {Opponents(HeadOf(theory, r)) : r \in hit}
     IN  /\ discarded' =
              [r \in Labels(theory) |->
                 \/ discarded[r]
                 \/ \E s \in MatchedSlots(theory, r, q) : Dead(familyLive', q, BodyOf(theory, r)[s])]
         /\ todo' = Agenda(remaining, discarded', rivals \cup Opponents(q), heads)
  /\ UNCHANGED <<theory, unseeded, definiteVars, definiteDisproven, satisfied, remaining,
                 defeasibleProven, defeasibleDisproven, conclusions>>

-----------------------------------------------------------------------------
(* Phase 2: the sweep, once the queue has drained.  First the negative     *)
(* modal premises: such a slot is covered when every member of its outer   *)
(* negation is -d, and the rule is discarded when one of them is +d.       *)
NegativeSlots(r) == {s \in Slots(theory, r) : NegativeModal(BodyOf(theory, r)[s])}

Denied(r, s) == Members(theory, OuterNegation(BodyOf(theory, r)[s]))

(* Mutant: no slot is ever covered by refutation.                          *)
NeverRefuted(r, s) == FALSE

AllRefuted(r, s) ==
  Denied(r, s) # {} /\ Denied(r, s) \subseteq defeasibleDisproven

Refutations(r) == {s \in NegativeSlots(r) : AllRefuted(r, s)}

(* Mutant: a slot the sweep has covered before is subtracted again.        *)
EveryRefutation(r) == Refutations(r)

NewRefutations(r) == Refutations(r) \ satisfied[r]

SweepDiscards(r) ==
  \E s \in NegativeSlots(r) :
     ~ AllRefuted(r, s) /\ Denied(r, s) \cap defeasibleProven # {}

Sweep ==
  /\ phase \in {"start", "drain"}
  /\ todo = {}
  /\ worklist = << >>
  /\ phase' = "sweep"
  /\ satisfied' = [r \in Labels(theory) |-> satisfied[r] \cup Refutations(r)]
  /\ remaining' = [r \in Labels(theory) |->
                     remaining[r] - Cardinality(NewRefutations(r))]
  /\ discarded' = [r \in Labels(theory) |-> discarded[r] \/ SweepDiscards(r)]
  /\ todo' = Agenda(remaining', discarded', LiteralSet(theory), LiteralSet(theory))
  /\ UNCHANGED <<theory, unseeded, definiteVars, definiteDisproven, familyLive,
                 countedDead, defeasibleVars, conclusions>>

(* A sweep that decided nothing ends the loop; the negative tags of the    *)
(* literals of the theory are reported.                                    *)
Finish ==
  /\ phase = "sweep"
  /\ todo = {}
  /\ worklist = << >>
  /\ phase' = "done"
  /\ conclusions' = conclusions
       \cup {Conclude("-D", l, NoLabel) : l \in definiteDisproven \cap LiteralSet(theory)}
       \cup {Conclude("-d", l, NoLabel) : l \in defeasibleDisproven \cap LiteralSet(theory)}
  /\ UNCHANGED <<theory, unseeded, definiteVars, definiteDisproven, counterVars,
                 defeasibleVars, todo>>

Definite ==
  \/ \E r \in unseeded : SeedFact(r)
  \/ SeededFacts
  \/ \E q \in definiteWorklist : PopDefinite(q)
  \/ \E v \in visits : Visit(v[1], v[2])
  \/ ForwardDone
  \/ DeriveNegative
  \/ NegativeDone

Defeasible ==
  \/ \E q \in ToSeed : Seed(q)
  \/ StartRules
  \/ \E e \in todo : DecideProved(e[1]) \/ DecideDisproved(e[1])
  \/ \E q \in ClosedSet(theory) : PopProved(q) \/ PopDisproved(q)
  \/ Sweep
  \/ Finish

Next == Definite \/ Defeasible

Spec == Init /\ [][Next]_vars /\ WF_vars(Next)

-----------------------------------------------------------------------------
(* What the engine must keep.                                              *)

(* The complement of an indexed literal may be outside the index.  No rule *)
(* is about such a literal, and the event loop need not meet it; to the    *)
(* proof theory it is refuted.                                             *)
Failed == defeasibleDisproven \cup Unindexed(theory)

(* The proof theory refutes the literals outside the index when the -D     *)
(* fixpoint of the engine is complete.                                     *)
FailedInReference == IF phase \in {"facts", "strict", "negative"} THEN {} ELSE Failed

Reference == INSTANCE DefeasibleLogic WITH defeasibleDisproven <- FailedInReference

(* The counter of a rule is the number of its slots that no proven literal *)
(* has covered: two members of one family covering one slot count once     *)
(* (cover_body_slots).                                                     *)
CountsSlots ==
  \A r \in Labels(theory) :
     /\ definiteSatisfied[r] \subseteq Slots(theory, r)
     /\ definiteRemaining[r] = Len(BodyOf(theory, r)) - Cardinality(definiteSatisfied[r])
     /\ satisfied[r] \subseteq Slots(theory, r)
     /\ remaining[r] = Len(BodyOf(theory, r)) - Cardinality(satisfied[r])

(* A rule whose counter is zero is applicable and a rule marked discarded  *)
(* is discarded in the sense of the proof theory, at every moment.         *)
FlagsSound ==
  \A r \in Labels(theory) :
     /\ remaining[r] = 0 =>
          Applicable(theory, defeasibleProven, Failed, r)
     /\ discarded[r] =>
          Discarded(theory, defeasibleProven, Failed, r)

(* When the call returns no rule has been forgotten: what is applicable or *)
(* discarded by the final tags is so by the counters.                      *)
FlagsComplete ==
  phase = "done" =>
    \A r \in Labels(theory) :
       /\ Applicable(theory, defeasibleProven, Failed, r) =>
            remaining[r] = 0
       /\ Discarded(theory, defeasibleProven, Failed, r) =>
            discarded[r]

(* No literal has both tags of one level, what is +D is never -d, and what *)
(* is -d is -D.                                                            *)
Coherent ==
  /\ definiteProven \cap definiteDisproven = {}
  /\ defeasibleProven \cap defeasibleDisproven = {}
  /\ defeasibleDisproven \subseteq definiteDisproven

(* Without a cycle in the superiority relation, two opposed literals of    *)
(* one mode are both +d only when both are +D (the facts contradict each   *)
(* other); see OpposedNeverBoth for a permission and the opposite          *)
(* obligation.                                                             *)
Consistent ==
  Acyclic(theory) =>
    \A q \in defeasibleProven : \A o \in Opponents(q) \cap defeasibleProven :
       o.mode = q.mode => {q, o} \subseteq definiteProven

(* The order in which a handler makes its calls cannot matter: no literal  *)
(* is open to both a proof and a refutation, and a decision still to be    *)
(* recorded has not been taken the other way.                              *)
Exclusive ==
  /\ \A e \in todo : <<e[1], ~ e[2]>> \notin todo
  /\ \A e \in todo : e[1] \notin defeasibleProven \cup defeasibleDisproven

(* When the call returns the tags are saturated: whatever the proof theory *)
(* can infer has its tag, at the defeasible level unless a rule is torn    *)
(* (the engine lets such a rule be discarded).  What has no tag is         *)
(* undecided (a cycle), not overlooked.                                    *)
Saturated ==
  phase = "done" =>
    /\ \A q \in ClosedSet(theory) :
          /\ CanInferDefinite(theory, definiteProven, q) => q \in definiteProven
          /\ CanRefuteDefinite(theory, definiteDisproven, q) => q \in definiteDisproven
    /\ Untorn(theory, defeasibleProven, Failed) =>
          \A q \in ClosedSet(theory) :
             /\ CanInferDefeasible(theory, definiteProven, definiteDisproven,
                                   defeasibleProven, Failed, q) => q \in defeasibleProven
             /\ CanRefuteDefeasible(theory, definiteProven, definiteDisproven,
                                    defeasibleProven, Failed, q) => q \in Failed

(* The report: at the end, the conclusions are the tags of the literals of *)
(* the theory, one conclusion for each in one of its spellings, and a      *)
(* positive one names a rule that asserts it, so spelled, and is           *)
(* applicable.                                                             *)
Reported ==
  phase = "done" =>
    /\ \A c \in conclusions :
         /\ \A d \in conclusions :
               c.tag = d.tag /\ Canonical(c.lit) = Canonical(d.lit) => c = d
         /\ c.tag = "+D" =>
              /\ RuleOf(theory, c.label).head = c.lit
              /\ KindOf(theory, c.label) \in {"fact", "strict"}
              /\ DefinitelyApplicable(theory, definiteProven, c.label)
         /\ c.tag = "+d" =>
              /\ RuleOf(theory, c.label).head = c.lit
              /\ Productive(theory, c.label)
              /\ remaining[c.label] = 0
    /\ LET reported(tag) == {Canonical(c.lit) : c \in {d \in conclusions : d.tag = tag}}
       IN  /\ reported("+D") = definiteProven
           /\ reported("+d") = defeasibleProven
           /\ reported("-D") = definiteDisproven \cap LiteralSet(theory)
           /\ reported("-d") = defeasibleDisproven \cap LiteralSet(theory)

(* A rule that has become applicable stays so: no later event discards it, *)
(* so nothing concluded through it has to be withdrawn.  The exception is  *)
(* a negative modal premise that holds by an explicit proof, which the     *)
(* sweep may still discard; one that holds by refutation is settled.       *)
Settled(r) == \A s \in NegativeSlots(r) : AllRefuted(r, s)

StaysApplicable ==
  \A r \in Labels(theory) :
     Settled(r) /\ Fires(remaining, discarded, r) => Fires(remaining', discarded', r)

ApplicableForever == [][StaysApplicable]_vars

(* Every step of the engine grants tags that the proof theory infers from  *)
(* the tags before it, or leaves the tags alone.                           *)
Implements == Reference!Spec

(* The sweep loop ends. *)
Terminates == <>(phase = "done")

-----------------------------------------------------------------------------
(* What comments and guides of the repository say, and the engine does not *)
(* do.                                                                     *)


(* "An explicit proof of the outer-negated expression can also satisfy     *)
(* that premise": a rule all of whose premises have a +d member would      *)
(* prove its head when nothing attacks it.                                 *)
ExplicitProofSuffices ==
  phase = "done" =>
    \A r \in Labels(theory) :
       /\ Productive(theory, r)
       /\ \A s \in Slots(theory, r) : Holds(theory, defeasibleProven, BodyOf(theory, r)[s])
       /\ AttackingRules(theory, HeadOf(theory, r)) = {}
       /\ Opponents(HeadOf(theory, r)) \subseteq definiteDisproven
       => HeadOf(theory, r) \in defeasibleProven

(* "Opposite permissions coexist; obligations conflict with both opposite  *)
(* obligations and opposite permissions": an obligation and the opposite   *)
(* permission would not both be concluded from defaults whose superiority  *)
(* has no cycle.                                                           *)
OpposedNeverBoth ==
  Acyclic(theory) =>
    \A q \in defeasibleProven : \A o \in Opponents(q) \cap defeasibleProven :
       {q, o} \subseteq definiteProven
=============================================================================
