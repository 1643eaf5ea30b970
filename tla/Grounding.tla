------------------------------ MODULE Grounding ------------------------------
(***************************************************************************)
(* One call of ground_theory_with_limit in crates/spindle-core/src/        *)
(* grounding.rs: semi-naive rounds over the rules with variables, under a  *)
(* limit on the rounds and one on the instances.                           *)
(*                                                                         *)
(* The call is sequential.  `phase` is the place it has reached:           *)
(*   "idle"     not called yet                                             *)
(*   "rounds"   in the loop over iterations                                *)
(*   "build"    past the loop                                              *)
(*   "done"     returned                                                   *)
(* The rules are taken by label.  The substitutions of one rule are taken  *)
(* in any order; the code's order is that of the facts.                    *)
(***************************************************************************)
EXTENDS Templates

CONSTANTS
  LabelBefore(_, _),     \* the order of labels
  InstanceLabel(_, _),   \* the label of the n-th instance, made from a rule's
  MaxCount               \* the largest number a counter holds

(* The number of an instance is the end of its label. *)
ASSUME LabelAssumption ==
  /\ MaxCount \in Nat
  /\ \A r, s \in Label, m, n \in 1 .. MaxCount :
        m # n => InstanceLabel(r, m) # InstanceLabel(s, n)

Limits == [iterations : 0 .. MaxCount, instances : 0 .. MaxCount]

VARIABLES
  source,      \* the theory of the call
  limits,      \* max_iterations and max_instances
  phase,
  facts,       \* fact_keys and fact_index
  delta,       \* facts_new: the facts that were new in the round before
  fresh,       \* new_facts_this_round; facts_list is the rest of facts
  made,        \* the instances: rule, substitution, ground rule
  queue,       \* the rules this round has not taken yet
  pending,     \* the substitutions left of the rule that was taken
  round,       \* rounds completed
  limitHit,
  grounded     \* the result

call  == <<source, limits>>
vars  == <<source, limits, phase, facts, delta, fresh, made, queue, pending, round,
           limitHit, grounded>>

NoTheory == [rules |-> [l \in {} |-> l], sup |-> {}]

(* Facts that are ground are where matching starts. *)
Seeds(th) == {th.rules[r].head : r \in {l \in GroundRules(th) : th.rules[l].kind = "fact"}}

Init ==
  /\ source = NoTheory /\ limits = [iterations |-> 0, instances |-> 0]
  /\ phase = "idle"
  /\ facts = {} /\ delta = {} /\ fresh = {}
  /\ made = << >> /\ queue = {} /\ pending = {}
  /\ round = 0 /\ limitHit = FALSE
  /\ grounded = NoTheory

(* A theory without variables is returned as it is. *)
Call(th, lim) ==
  /\ phase = "idle"
  /\ source' = th /\ limits' = lim
  /\ IF VarRules(th) = {}
     THEN /\ phase' = "done" /\ grounded' = th
          /\ UNCHANGED <<facts, delta, queue>>
     ELSE /\ phase' = IF lim.iterations = 0 THEN "build" ELSE "rounds"
          /\ facts' = Seeds(th) /\ delta' = Seeds(th)
          /\ queue' = VarRules(th)
          /\ UNCHANGED grounded
  /\ UNCHANGED <<fresh, made, pending, round, limitHit>>

(* Mutant: it must use nothing but facts of the round before.              *)
RelevantAllNew(rule) ==
  UNION {Substitutions(rule.body, choice) :
           choice \in {c \in Premised(rule.body, facts, facts \ fresh) :
                         \A i \in DOMAIN c : c[i] \in delta}}

(* A substitution is worth taking when it uses a fact of the round before, *)
(* or when the body has no logic literal at all.                           *)
Relevant(rule) ==
  UNION {Substitutions(rule.body, choice) :
           choice \in {c \in Premised(rule.body, facts, facts \ fresh) :
                         \/ \E i \in DOMAIN c : c[i] \in delta
                         \/ Slots(rule.body, {"match", "deny"}) = {}}}

(* match_body_with_delta: what the index holds now is what counts for this *)
(* rule, whatever its instances add.                                       *)
TakeRule ==
  /\ phase = "rounds" /\ pending = {} /\ ~ limitHit
  /\ \E r \in queue :
        /\ \A s \in queue \ {r} : LabelBefore(r, s)
        /\ queue' = queue \ {r}
        /\ pending' = {r} \X Relevant(source.rules[r])
  /\ UNCHANGED <<call, phase, facts, delta, fresh, made, round, limitHit, grounded>>

(* Mutant: instances are not remembered.                                   *)
KnownNever(r, subst) == FALSE

Known(r, subst) == \E n \in DOMAIN made : made[n].of = r /\ made[n].subst = subst

(* Mutant: the limit is tested with an instance more.                      *)
FullLate == Len(made) > limits.instances

Full == Len(made) >= limits.instances

(* The limit is tested before anything else is known of the substitution. *)
HitLimit ==
  /\ pending # {} /\ Full
  /\ limitHit' = TRUE
  /\ pending' = {}
  /\ UNCHANGED <<call, phase, facts, delta, fresh, made, queue, round, grounded>>

Skip(r, subst) ==
  /\ ~ Full
  /\ ~ Holds(source.rules[r], subst) \/ Known(r, subst)
  /\ pending' = pending \ {<<r, subst>>}
  /\ UNCHANGED <<call, phase, facts, delta, fresh, made, queue, round, limitHit, grounded>>

(* Mutant: a defeater makes facts.                                         *)
NewFactsOfAll(rule) == {AsFact(rule.head)}

NewFacts(rule) == IF rule.kind = "defeater" THEN {} ELSE {AsFact(rule.head)}

(* The index grows at once; what was not in it is new in the next round.   *)
Instantiate(r, subst) ==
  /\ ~ Full
  /\ Holds(source.rules[r], subst) /\ ~ Known(r, subst)
  /\ \E rule \in Instances(r, source.rules[r], subst, facts) :
        /\ made' = Append(made, [of |-> r, subst |-> subst, rule |-> rule])
        /\ facts' = facts \cup NewFacts(rule)
        /\ fresh' = fresh \cup (NewFacts(rule) \ facts)
  /\ pending' = pending \ {<<r, subst>>}
  /\ UNCHANGED <<call, phase, delta, queue, round, limitHit, grounded>>

(* Mutant: a round more than the limit.                                    *)
LastRoundLate == round = limits.iterations

LastRound == round + 1 = limits.iterations

EndRound ==
  /\ phase = "rounds" /\ pending = {}
  /\ queue = {} \/ limitHit
  /\ round' = round + 1
  /\ IF fresh = {} \/ limitHit \/ LastRound
     THEN /\ phase' = "build"
          /\ UNCHANGED <<delta, fresh, queue>>
     ELSE /\ delta' = fresh /\ fresh' = {} /\ queue' = VarRules(source)
          /\ UNCHANGED phase
  /\ UNCHANGED <<call, facts, made, pending, limitHit, grounded>>

LabelOf(n) == InstanceLabel(made[n].of, n)
InstanceLabels == {LabelOf(n) : n \in DOMAIN made}

(* Mutant: a ground rule keeps its label.                                  *)
RuleOfSource(l) ==
  IF l \in GroundRules(source)
  THEN source.rules[l]
  ELSE made[CHOOSE n \in DOMAIN made : LabelOf(n) = l].rule

(* Adding a rule replaces one of the same label: ground rules are added    *)
(* first, the instances after them.                                        *)
RuleOf(l) ==
  IF l \in InstanceLabels
  THEN made[CHOOSE n \in DOMAIN made : LabelOf(n) = l].rule
  ELSE source.rules[l]

Assembled ==
  [rules |-> [l \in GroundRules(source) \cup InstanceLabels |-> RuleOf(l)],
   sup   |-> source.sup]

Build ==
  /\ phase = "build"
  /\ phase' = "done"
  /\ grounded' = Assembled
  /\ UNCHANGED <<call, facts, delta, fresh, made, queue, pending, round, limitHit>>

Rounds ==
  \/ TakeRule
  \/ HitLimit
  \/ \E item \in pending : Skip(item[1], item[2]) \/ Instantiate(item[1], item[2])
  \/ EndRound
  \/ Build

-----------------------------------------------------------------------------
(* Where an instance may come from: the facts of the theory and the heads  *)
(* of the instances before it that support what they conclude.             *)
Concluding == {m \in DOMAIN made : made[m].rule.kind # "defeater"}
Available(n) == Seeds(source) \cup {AsFact(made[m].rule.head) : m \in {k \in Concluding : k < n}}

(* Nothing is instantiated out of thin air: every instance comes from a    *)
(* choice of facts that were facts of the theory or heads of earlier       *)
(* instances, so no two instances support each other in a circle.          *)
Supported ==
  \A n \in DOMAIN made :
     LET body == source.rules[made[n].of].body
     IN  \E choice \in [Matching(body) -> Available(n)] :
            made[n].subst \in Substitutions(body, choice)

(* No rule is instantiated twice by one substitution, although a           *)
(* substitution is found again whenever one of several facts it uses is    *)
(* new, and also when a fact of the same round was matched early.          *)
Once ==
  \A m, n \in DOMAIN made :
     made[m].of = made[n].of /\ made[m].subst = made[n].subst => m = n

(* Every substitution of every rule over all the facts has its instance,   *)
(* unless its constraints fail.  A rule whose only logic premises are      *)
(* outer-negated ones uses no fact and is never instantiated.              *)
Closed ==
  \A r \in VarRules(source) :
     LET rule == source.rules[r]
     IN  Matching(rule.body) # {} \/ Slots(rule.body, {"deny"}) = {} =>
           \A choice \in [Matching(rule.body) -> facts] :
              \A subst \in Substitutions(rule.body, choice) :
                 Holds(rule, subst) => Known(r, subst)

(* When the rounds end because nothing new was found, the instances are    *)
(* all there: looking only at the facts of the round before loses nothing. *)
Complete ==
  phase \in {"build", "done"} /\ queue = {} /\ fresh = {} /\ ~ limitHit => Closed

(* The report says whether grounding stopped due to limits, so a caller    *)
(* who is told that it did not has every instance.                         *)
StopReported == phase = "done" /\ ~ limitHit => Closed

(* The limit on the instances is kept, and reported only when it was met:  *)
(* a report without it, before the last round, means a complete theory.    *)
LimitMeant ==
  /\ phase # "idle" => Len(made) <= limits.instances
  /\ limitHit => Len(made) = limits.instances
  /\ phase = "done" /\ ~ limitHit /\ round < limits.iterations => fresh = {} /\ queue = {}

(* The engine satisfies a premise by the same literal, or by the same      *)
(* terms at any window if it has none.  Every premise that was matched can *)
(* be met in this way, except that an untimed one keeps the types of its   *)
(* own numbers when only timed facts are equal to it.  (Without range      *)
(* restriction a fact may have variables, and a premise that was bound to  *)
(* one matches facts that its instance does not name.)                     *)
Meets(l, fact) == l.terms = fact.terms /\ l.win \in {NoWindow, fact.win}

Met ==
  \A n \in DOMAIN made :
     (\A fact \in Available(n) : Variables(fact) = {}) =>
        \A i \in Matching(made[n].rule.body) :
           LET l == made[n].rule.body[i].lit
           IN  \E fact \in Available(n) :
                  \/ Meets(l, fact)
                  \/ /\ l.win = NoWindow /\ fact.win # NoWindow
                     /\ Equal(l, [fact EXCEPT !.win = NoWindow])

(* The result has every instance under its own label and every ground rule *)
(* under its label, unless an instance has taken it.                       *)
Kept ==
  phase = "done" /\ VarRules(source) # {} =>
    /\ \A n \in DOMAIN made : grounded.rules[LabelOf(n)] = made[n].rule
    /\ \A r \in GroundRules(source) :
          \/ grounded.rules[r] = source.rules[r]
          \/ r \in InstanceLabels

=============================================================================
