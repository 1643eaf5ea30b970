--------------------------- MODULE Pipeline_proofs ---------------------------
(***************************************************************************)
(* Preparation, whatever the theory, its order, its options and limits.    *)
(* First the rounds: they lose no instance, repeat none, invent none, and  *)
(* keep the limits; nothing there expands what a body's substitutions are, *)
(* so it holds of any notion of matching. Then the stages: what the result *)
(* keeps of its input. Last what matching binds: premises of an instance   *)
(* are facts it was made from, windows run forward, no variable is left.   *)
(***************************************************************************)
EXTENDS Pipeline, WellFoundedInduction, TLAPS

IsSequence(s) == \E S : s \in Seq(S)

(* Where the call has got to.                                              *)
Placed ==
  /\ phase \in {"idle", "rounds", "build", "done"}
  /\ limits \in Limits
  /\ round \in 0 .. limits.iterations
  /\ limitHit \in BOOLEAN
  /\ phase = "rounds" => round < limits.iterations
  /\ pending # {} => phase = "rounds" /\ ~ limitHit
  /\ phase = "idle" =>
       made = << >> /\ queue = {} /\ facts = {} /\ fresh = {} /\ round = 0 /\ ~ limitHit

(* What it has collected.                                                  *)
Collected ==
  /\ delta \subseteq facts /\ fresh \subseteq facts
  /\ queue \subseteq VarRules(source)
  /\ \A item \in pending : /\ item[1] \in VarRules(source) \ queue
                           /\ item = <<item[1], item[2]>>
  /\ IsSequence(made)
  /\ \A n \in DOMAIN made : made[n].of \in VarRules(source)

Typed == Placed /\ Collected

Asked ==
  /\ opts \in Options
  /\ stage \in {"filter", "validate", "rewrite", "ground", "times", "filter again",
                "ready", "failed"}

-----------------------------------------------------------------------------
(* A sequence and one more. *)

LEMMA Appended ==
  ASSUME NEW s, IsSequence(s), NEW e
  PROVE  /\ IsSequence(Append(s, e))
         /\ Len(s) \in Nat /\ DOMAIN s = 1 .. Len(s)
         /\ Len(Append(s, e)) = Len(s) + 1
         /\ DOMAIN Append(s, e) = 1 .. Len(s) + 1
         /\ \A n \in 1 .. Len(s) : Append(s, e)[n] = s[n]
         /\ Append(s, e)[Len(s) + 1] = e
<1>1. PICK S : s \in Seq(S)
  BY DEF IsSequence
<1>2. s \in Seq(S \cup {e}) /\ e \in S \cup {e}
  BY <1>1
<1>3. Append(s, e) \in Seq(S \cup {e})
  BY <1>2
<1> QED
  BY <1>2, <1>3 DEF IsSequence

(* The body of grounding moves in the stage of grounding only.             *)
LEMMA StepKinds ==
  ASSUME Asked, [PrepareNext]_prepareVars
  PROVE  \/ UNCHANGED vars
         \/ \E lim \in Limits : Call(theory, lim)
         \/ Rounds
<1>1. opts.limits \in Limits
  BY PipelineAssumption DEF Asked
<1> QED
  BY <1>1 DEF PrepareNext, prepareVars, groundVars, FilterBefore, Validate,
     RewriteWildcards, SkipGround, StartGround, Ground, EndGround, ValidateTimes, FilterAfter

LEMMA AskedKept ==
  ASSUME Asked, [PrepareNext]_prepareVars
  PROVE  Asked'
BY DEF Asked, PrepareNext, prepareVars, groundVars, request, FilterBefore, Validate,
     RewriteWildcards, SkipGround, StartGround, Ground, EndGround, ValidateTimes, FilterAfter

-----------------------------------------------------------------------------
(* Types. *)

LEMMA TypedInit == PrepareInit => Asked /\ Typed
<1> SUFFICES ASSUME PrepareInit PROVE Asked /\ Typed
  OBVIOUS
<1>1. IsSequence(made)
  BY DEF PrepareInit, Init, IsSequence
<1>2. limits \in Limits /\ round \in 0 .. limits.iterations
  BY LabelAssumption DEF PrepareInit, Init, Limits
<1>3. DOMAIN made = {}
  BY DEF PrepareInit, Init
<1>4. Collected
  BY <1>1, <1>3 DEF PrepareInit, Init, Collected
<1>5. Placed
  BY <1>2 DEF PrepareInit, Init, Placed
<1>6. Asked
  BY DEF PrepareInit, Asked
<1> QED
  BY <1>4, <1>5, <1>6 DEF Typed

LEMMA CallTyped ==
  ASSUME Typed, NEW th, NEW lim \in Limits, Call(th, lim)
  PROVE  Typed'
<1>1. made = << >> /\ pending = {} /\ queue = {} /\ facts = {} /\ delta = {} /\ fresh = {}
  BY DEF Typed, Placed, Collected, Call
<1>2. lim.iterations \in Nat /\ 0 \in 0 .. lim.iterations
  BY LabelAssumption DEF Limits
<1>3. Placed'
  BY <1>1, <1>2 DEF Typed, Placed, Call
<1>4. Collected'
  BY <1>1 DEF Typed, Collected, Call
<1> QED
  BY <1>3, <1>4 DEF Typed

LEMMA RoundsTyped ==
  ASSUME Typed, Rounds
  PROVE  Typed'
<1>0. limits.iterations \in Nat /\ round \in Nat
  BY LabelAssumption DEF Typed, Placed, Limits
<1>1. CASE TakeRule
  <2>1. PICK r \in queue : queue' = queue \ {r} /\ pending' = {r} \X Relevant(source.rules[r])
    BY <1>1 DEF TakeRule
  <2>2. \A item \in pending' : item[1] = r /\ item = <<item[1], item[2]>>
    BY <2>1
  <2>3. r \in VarRules(source) \ queue'
    BY <2>1 DEF Typed, Collected
  <2>4. Collected'
    BY <1>1, <2>1, <2>2, <2>3 DEF Typed, Collected, TakeRule, call, VarRules, Labels
  <2> QED
    BY <1>1, <2>4 DEF Typed, Placed, TakeRule, call
<1>2. CASE HitLimit
  BY <1>2 DEF Typed, Placed, Collected, HitLimit, call, VarRules, Labels
<1>3. ASSUME NEW item \in pending, Skip(item[1], item[2]) PROVE Typed'
  BY <1>3 DEF Typed, Placed, Collected, Skip, call, VarRules, Labels
<1>4. ASSUME NEW item \in pending, Instantiate(item[1], item[2]) PROVE Typed'
  <2>1. PICK rule : /\ made' = Append(made, [of |-> item[1], subst |-> item[2], rule |-> rule])
                    /\ facts' = facts \cup NewFacts(rule)
                    /\ fresh' = fresh \cup (NewFacts(rule) \ facts)
    BY <1>4 DEF Instantiate
  <2>2. IsSequence(made') /\ \A n \in DOMAIN made' : made'[n].of \in VarRules(source)
    BY <2>1, Appended DEF Typed, Collected
  <2>3. Collected'
    BY <1>4, <2>1, <2>2 DEF Typed, Collected, Instantiate, call, VarRules, Labels
  <2> QED
    BY <1>4, <2>3 DEF Typed, Placed, Instantiate, call
<1>5. CASE EndRound
  <2>1. pending = {} /\ phase = "rounds" /\ round' = round + 1 /\ round < limits.iterations
    BY <1>5 DEF EndRound, Typed, Placed
  <2>2. Placed'
    BY <1>0, <1>5, <2>1 DEF Typed, Placed, EndRound, LastRound, call
  <2> QED
    BY <1>5, <2>1, <2>2 DEF Typed, Collected, EndRound, call, VarRules, Labels
<1>6. CASE Build
  BY <1>6 DEF Typed, Placed, Collected, Build, call, VarRules, Labels
<1> QED
  BY <1>1, <1>2, <1>3, <1>4, <1>5, <1>6 DEF Rounds

LEMMA TypedKept ==
  ASSUME Asked, Typed, [PrepareNext]_prepareVars
  PROVE  Asked' /\ Typed'
<1>1. ASSUME UNCHANGED vars PROVE Typed'
  <2>1. Placed'
    BY <1>1 DEF vars, Typed, Placed
  <2>2. Collected'
    BY <1>1 DEF vars, Typed, Collected, VarRules, Labels
  <2> QED
    BY <2>1, <2>2 DEF Typed
<1>2. ASSUME NEW lim \in Limits, Call(theory, lim) PROVE Typed'
  BY <1>2, CallTyped
<1>3. ASSUME Rounds PROVE Typed'
  BY <1>3, RoundsTyped
<1>4. Asked'
  BY AskedKept
<1>5. UNCHANGED vars \/ (\E lim \in Limits : Call(theory, lim)) \/ Rounds
  BY StepKinds
<1> QED
  BY <1>1, <1>2, <1>3, <1>4, <1>5

(* Counters, phases and collections keep their types in every run.         *)
THEOREM PrepareTypeOK == PrepareSpec => []TypeOK
<1>1. Asked /\ Typed => TypeOK
  BY DEF Asked, Typed, Placed, Collected, TypeOK
<1>2. UNCHANGED prepareVars => [PrepareNext]_prepareVars
  OBVIOUS
<1> QED
  BY <1>1, TypedInit, TypedKept, PTL DEF PrepareSpec

(* What is left to show of a step, for an invariant that holds with Typed. *)
LEMMA StepCases ==
  ASSUME Asked, [PrepareNext]_prepareVars
  PROVE  \/ UNCHANGED vars
         \/ \E lim \in Limits : Call(theory, lim)
         \/ TakeRule \/ HitLimit \/ EndRound \/ Build
         \/ \E item \in pending : Skip(item[1], item[2])
         \/ \E item \in pending : Instantiate(item[1], item[2])
BY StepKinds DEF Rounds

(* One instance more.                                                      *)
LEMMA OneMore ==
  ASSUME Typed, NEW r, NEW subst, Instantiate(r, subst)
  PROVE  \E rule :
           /\ Len(made) \in Nat /\ Len(made') = Len(made) + 1
           /\ DOMAIN made = 1 .. Len(made) /\ DOMAIN made' = 1 .. Len(made) + 1
           /\ \A n \in 1 .. Len(made) : made'[n] = made[n]
           /\ made'[Len(made) + 1].of = r /\ made'[Len(made) + 1].subst = subst
           /\ made'[Len(made) + 1].rule = rule
           /\ facts' = facts \cup NewFacts(rule)
           /\ fresh' = fresh \cup (NewFacts(rule) \ facts)
<1>1. PICK rule : /\ made' = Append(made, [of |-> r, subst |-> subst, rule |-> rule])
                  /\ facts' = facts \cup NewFacts(rule)
                  /\ fresh' = fresh \cup (NewFacts(rule) \ facts)
  BY DEF Instantiate
<1> DEFINE instance == [of |-> r, subst |-> subst, rule |-> rule]
<1>2. /\ Len(made) \in Nat /\ Len(made') = Len(made) + 1
      /\ DOMAIN made = 1 .. Len(made) /\ DOMAIN made' = 1 .. Len(made) + 1
      /\ \A n \in 1 .. Len(made) : made'[n] = made[n]
      /\ made'[Len(made) + 1] = instance
  BY <1>1, Appended DEF Typed, Collected
<1> QED
  BY <1>1, <1>2

(* What is known stays known, and the instance just made is.               *)
LEMMA KnownGrows ==
  ASSUME Typed, NEW r, NEW subst, Instantiate(r, subst)
  PROVE  /\ Known(r, subst)'
         /\ \A s, t : Known(s, t) => Known(s, t)'
<1>1. PICK rule :
         /\ Len(made) \in Nat /\ DOMAIN made = 1 .. Len(made)
         /\ DOMAIN made' = 1 .. Len(made) + 1
         /\ \A n \in 1 .. Len(made) : made'[n] = made[n]
         /\ made'[Len(made) + 1].of = r /\ made'[Len(made) + 1].subst = subst
  BY OneMore
<1> QED
  BY <1>1 DEF Known

-----------------------------------------------------------------------------
(* The limits. *)

Limited ==
  /\ LimitMeant
  /\ phase = "build" /\ ~ limitHit /\ round < limits.iterations => fresh = {} /\ queue = {}

LEMMA LimitedKept ==
  ASSUME Asked, Typed, Limited, [PrepareNext]_prepareVars
  PROVE  Limited'
<1>0. limits.iterations \in Nat /\ limits.instances \in Nat /\ round \in Nat /\ Len(made) \in Nat
  <2>1. Len(made) \in Nat
    BY Appended DEF Typed, Collected
  <2> QED
    BY <2>1, LabelAssumption DEF Typed, Placed, Limits
<1>1. ASSUME UNCHANGED vars PROVE Limited'
  BY <1>1 DEF vars, Limited, LimitMeant
<1>2. ASSUME NEW lim \in Limits, Call(theory, lim) PROVE Limited'
  <2>1. lim.iterations \in Nat /\ lim.instances \in Nat
    BY LabelAssumption DEF Limits
  <2>2. made = << >> /\ queue = {} /\ fresh = {} /\ round = 0 /\ limitHit = FALSE
    BY <1>2 DEF Typed, Placed, Call
  <2>3. made' = << >> /\ fresh' = {} /\ round' = 0 /\ limitHit' = FALSE /\ limits' = lim
    BY <1>2, <2>2 DEF Call
  <2>4. phase' = "done" => queue' = {}
    BY <1>2, <2>2 DEF Call
  <2>5. phase' = "build" => lim.iterations = 0
    BY <1>2 DEF Call
  <2> QED
    BY <2>1, <2>3, <2>4, <2>5 DEF Limited, LimitMeant
<1>3. CASE TakeRule
  BY <1>3 DEF TakeRule, call, Limited, LimitMeant
<1>4. CASE HitLimit
  BY <1>0, <1>4 DEF HitLimit, Full, call, Typed, Placed, Limited, LimitMeant
<1>5. ASSUME NEW item \in pending, Skip(item[1], item[2]) PROVE Limited'
  BY <1>5 DEF Skip, call, Limited, LimitMeant
<1>6. ASSUME NEW item \in pending, Instantiate(item[1], item[2]) PROVE Limited'
  <2>1. Len(made') = Len(made) + 1 /\ Len(made) < limits.instances
    BY <1>0, <1>6, OneMore DEF Instantiate, Full
  <2>2. phase = "rounds" /\ limitHit = FALSE /\ UNCHANGED <<phase, limits, limitHit>>
    BY <1>6 DEF Typed, Placed, Instantiate, call
  <2> QED
    BY <1>0, <2>1, <2>2 DEF Limited, LimitMeant
<1>7. CASE EndRound
  BY <1>0, <1>7 DEF EndRound, LastRound, call, Typed, Placed, Limited, LimitMeant
<1>8. CASE Build
  BY <1>8 DEF Build, call, Limited, LimitMeant
<1>9. \/ UNCHANGED vars \/ \E lim \in Limits : Call(theory, lim)
      \/ TakeRule \/ HitLimit \/ EndRound \/ Build
      \/ \E item \in pending : Skip(item[1], item[2])
      \/ \E item \in pending : Instantiate(item[1], item[2])
  BY StepCases
<1> QED
  BY <1>1, <1>2, <1>3, <1>4, <1>5, <1>6, <1>7, <1>8, <1>9

(* The limit on instances is kept and reported when, and only when, it is  *)
(* met; only the last round that is allowed may leave work undone silently. *)
THEOREM PrepareLimitMeant == PrepareSpec => []LimitMeant
<1>1. PrepareInit => Limited
  BY DEF PrepareInit, Init, Limited, LimitMeant
<1>2. Limited => LimitMeant
  BY DEF Limited
<1>3. Asked /\ Typed /\ Limited /\ [PrepareNext]_prepareVars => Asked' /\ Typed' /\ Limited'
  BY TypedKept, LimitedKept
<1> QED
  BY <1>1, <1>2, <1>3, TypedInit, PTL DEF PrepareSpec

-----------------------------------------------------------------------------
(* No instance is made twice. *)

LEMMA OnceKept ==
  ASSUME Asked, Typed, Once, [PrepareNext]_prepareVars
  PROVE  Once'
<1>1. ASSUME made' = made PROVE Once'
  BY <1>1 DEF Once
<1>2. ASSUME NEW item \in pending, Instantiate(item[1], item[2]) PROVE Once'
  <2>1. PICK rule :
           /\ Len(made) \in Nat /\ DOMAIN made = 1 .. Len(made)
           /\ DOMAIN made' = 1 .. Len(made) + 1
           /\ \A n \in 1 .. Len(made) : made'[n] = made[n]
           /\ made'[Len(made) + 1].of = item[1] /\ made'[Len(made) + 1].subst = item[2]
    BY <1>2, OneMore
  <2>2. \A n \in 1 .. Len(made) : ~ (made[n].of = item[1] /\ made[n].subst = item[2])
    BY <1>2, <2>1 DEF Instantiate, Known
  <2> QED
    BY <2>1, <2>2 DEF Once
<1>3. made' = made \/ \E item \in pending : Instantiate(item[1], item[2])
  <2>1. \A lim : Call(theory, lim) => made' = made
    BY DEF Call
  <2>2. TakeRule \/ HitLimit \/ EndRound \/ Build \/ UNCHANGED vars => made' = made
    BY DEF TakeRule, HitLimit, EndRound, Build, vars
  <2>3. \A r, t : Skip(r, t) => made' = made
    BY DEF Skip
  <2> QED
    BY <2>1, <2>2, <2>3, StepCases
<1> QED
  BY <1>1, <1>2, <1>3

(* However often a substitution is found, its rule is instantiated by it   *)
(* once.                                                                   *)
THEOREM PrepareOnce == PrepareSpec => []Once
<1>1. PrepareInit => Once
  BY DEF PrepareInit, Init, Once
<1>2. Asked /\ Typed /\ Once /\ [PrepareNext]_prepareVars => Asked' /\ Typed' /\ Once'
  BY TypedKept, OnceKept
<1> QED
  BY <1>1, <1>2, TypedInit, PTL DEF PrepareSpec

-----------------------------------------------------------------------------
(* The rounds leave nothing out. *)

Body(r) == source.rules[r].body
Eligible(r) == Matching(Body(r)) # {} \/ Slots(Body(r), {"deny"}) = {}

Settled(r, choice) ==
  \A subst \in Substitutions(Body(r), choice) : Holds(source.rules[r], subst) => Known(r, subst)

Waiting(r, choice) ==
  \A subst \in Substitutions(Body(r), choice) :
     Holds(source.rules[r], subst) => Known(r, subst) \/ <<r, subst>> \in pending

(* Choices among the facts that are older than the delta are settled.      *)
OldSettled ==
  phase = "rounds" =>
    \A r \in VarRules(source) :
       Matching(Body(r)) # {} =>
         \A choice \in [Matching(Body(r)) -> (facts \ fresh) \ delta] : Settled(r, choice)

(* For a rule that was taken, so are those among all but the fresh facts,  *)
(* but for what is pending.                                                *)
TakenSettled ==
  phase = "rounds" /\ ~ limitHit =>
    \A r \in VarRules(source) \ queue :
       Eligible(r) => \A choice \in [Matching(Body(r)) -> facts \ fresh] : Waiting(r, choice)

Covered == OldSettled /\ TakenSettled /\ Complete

(* A choice with a fact of the delta in it, or with no logic premise to    *)
(* choose for, is one that TakeRule looks at.                              *)
LEMMA RelevantCovers ==
  ASSUME NEW r, NEW choice \in [Matching(Body(r)) -> facts \ fresh],
         \/ \E i \in Matching(Body(r)) : choice[i] \in delta
         \/ Slots(Body(r), {"match", "deny"}) = {}
  PROVE  Substitutions(Body(r), choice) \subseteq Relevant(source.rules[r])
<1>1. DOMAIN choice = Matching(Body(r)) /\ choice \in [Matching(Body(r)) -> facts]
  OBVIOUS
<1>2. \A i \in Matching(Body(r)) : choice[i] \in facts \ fresh
  OBVIOUS
<1>3. choice \in Premised(Body(r), facts, facts \ fresh)
  BY <1>1, <1>2 DEF Premised
<1> QED
  BY <1>1, <1>3 DEF Relevant, Body

LEMMA NothingToMatch ==
  ASSUME NEW body, Matching(body) = {}, Slots(body, {"deny"}) = {}
  PROVE  Slots(body, {"match", "deny"}) = {}
BY DEF Matching, Slots

LEMMA CoveredTakeRule ==
  ASSUME Typed, Covered, TakeRule
  PROVE  Covered'
<1>1. PICK r \in queue : queue' = queue \ {r} /\ pending' = {r} \X Relevant(source.rules[r])
  BY DEF TakeRule
<1>2. /\ phase = "rounds" /\ pending = {} /\ ~ limitHit
      /\ UNCHANGED <<source, phase, facts, delta, fresh, made, limitHit>>
  BY DEF TakeRule, call
<1>3. OldSettled' /\ Complete'
  BY <1>2 DEF Covered, OldSettled, Complete, Settled, Body, Known, VarRules, Labels
<1>4. ASSUME NEW s \in VarRules(source) \ queue', Eligible(s),
             NEW choice \in [Matching(Body(s)) -> facts \ fresh],
             NEW subst \in Substitutions(Body(s), choice), Holds(source.rules[s], subst)
      PROVE  Known(s, subst) \/ <<s, subst>> \in pending'
  <2>1. CASE s # r
    BY <1>1, <1>2, <1>4, <2>1 DEF Covered, TakenSettled, Waiting
  <2>2. CASE s = r
    <3>1. CASE \/ \E i \in Matching(Body(s)) : choice[i] \in delta
               \/ Slots(Body(s), {"match", "deny"}) = {}
      BY <1>1, <2>2, <3>1, RelevantCovers
    <3>2. CASE /\ \A i \in Matching(Body(s)) : choice[i] \notin delta
               /\ Slots(Body(s), {"match", "deny"}) # {}
      <4>1. Matching(Body(s)) # {}
        BY <1>4, <3>2, NothingToMatch DEF Eligible
      <4>2. choice \in [Matching(Body(s)) -> (facts \ fresh) \ delta]
        BY <3>2
      <4> QED
        BY <1>2, <1>4, <4>1, <4>2 DEF Covered, OldSettled, Settled
    <3> QED
      BY <3>1, <3>2
  <2> QED
    BY <2>1, <2>2
<1>5. TakenSettled'
  BY <1>2, <1>4 DEF TakenSettled, Waiting, Eligible, Body, Known, VarRules, Labels
<1> QED
  BY <1>3, <1>5 DEF Covered

LEMMA CoveredSkip ==
  ASSUME Typed, Covered, NEW item \in pending, Skip(item[1], item[2])
  PROVE  Covered'
<1>1. /\ UNCHANGED <<source, phase, facts, delta, fresh, made, queue, limitHit>>
      /\ pending' = pending \ {<<item[1], item[2]>>}
  BY DEF Skip, call
<1>2. OldSettled' /\ Complete'
  <2>1. OldSettled'
    BY <1>1 DEF Covered, OldSettled, Settled, Body, Known, VarRules, Labels
  <2>2. Complete'
    BY <1>1 DEF Covered, Complete, Known, VarRules, Labels, Closed
  <2> QED
    BY <2>1, <2>2
<1>3. ASSUME NEW s, NEW choice, Waiting(s, choice)
      PROVE  Waiting(s, choice)'
  <2>1. ~ Holds(source.rules[item[1]], item[2]) \/ Known(item[1], item[2])
    BY DEF Skip
  <2> QED
    BY <1>1, <1>3, <2>1 DEF Waiting, Body, Known
<1>4. TakenSettled'
  BY <1>1, <1>3 DEF Covered, TakenSettled, Eligible, Body, VarRules, Labels
<1> QED
  BY <1>2, <1>4 DEF Covered

LEMMA CoveredInstantiate ==
  ASSUME Typed, Covered, NEW item \in pending, Instantiate(item[1], item[2])
  PROVE  Covered'
<1>1. /\ UNCHANGED <<source, phase, delta, queue, limitHit>>
      /\ pending' = pending \ {<<item[1], item[2]>>}
      /\ phase = "rounds"
  BY DEF Instantiate, call, Typed, Placed
<1>2. facts' \ fresh' = facts \ fresh
  BY OneMore DEF Typed, Collected
<1>3. Known(item[1], item[2])' /\ \A s, t : Known(s, t) => Known(s, t)'
  BY KnownGrows
<1>4. ASSUME NEW s, NEW choice
      PROVE  /\ Settled(s, choice) => Settled(s, choice)'
             /\ Waiting(s, choice) => Waiting(s, choice)'
  <2>1. Body(s)' = Body(s) /\ source'.rules[s] = source.rules[s]
    BY <1>1 DEF Body
  <2> QED
    BY <1>1, <1>3, <2>1 DEF Settled, Waiting
<1>5. OldSettled'
  BY <1>1, <1>2, <1>4 DEF Covered, OldSettled, Body, VarRules, Labels
<1>6. TakenSettled'
  BY <1>1, <1>2, <1>4 DEF Covered, TakenSettled, Eligible, Body, VarRules, Labels
<1> QED
  BY <1>1, <1>5, <1>6 DEF Covered, Complete

(* At the end of a round the facts found in it become the delta; what is   *)
(* older than they has been settled for every rule.                        *)
LEMMA CoveredEndRound ==
  ASSUME Typed, Covered, EndRound
  PROVE  Covered'
<1>1. /\ UNCHANGED <<source, facts, made, pending, limitHit>>
      /\ phase = "rounds" /\ pending = {} /\ (queue = {} \/ limitHit)
  BY DEF EndRound, call
<1>2. ASSUME ~ limitHit, NEW r \in VarRules(source), Eligible(r),
             NEW choice \in [Matching(Body(r)) -> facts \ fresh]
      PROVE  Settled(r, choice)
  BY <1>1, <1>2 DEF Covered, TakenSettled, Waiting, Settled
<1>3. CASE phase' = "rounds"
  <2>1. ~ limitHit /\ delta' = fresh /\ fresh' = {} /\ queue' = VarRules(source)
    BY <1>3 DEF EndRound
  <2>2. OldSettled'
    BY <1>1, <1>2, <2>1 DEF OldSettled, Settled, Eligible, Body, Known, VarRules, Labels
  <2>3. TakenSettled'
    BY <1>1, <2>1 DEF TakenSettled, VarRules, Labels
  <2> QED
    BY <1>3, <2>2, <2>3 DEF Covered, Complete
<1>4. CASE phase' # "rounds"
  <2>1. phase' = "build" /\ UNCHANGED <<fresh, queue>>
    BY <1>1, <1>4 DEF EndRound
  <2>2. queue = {} /\ fresh = {} /\ ~ limitHit => Closed
    BY <1>2 DEF Closed, Settled, Eligible, Body
  <2>3. Complete'
    BY <1>1, <2>1, <2>2 DEF Complete, Closed, Known, VarRules, Labels
  <2> QED
    BY <2>1, <2>3 DEF Covered, OldSettled, TakenSettled
<1> QED
  BY <1>3, <1>4

LEMMA CoveredKept ==
  ASSUME Asked, Typed, Covered, [PrepareNext]_prepareVars
  PROVE  Covered'
<1>1. ASSUME UNCHANGED <<source, phase, facts, delta, fresh, made, queue, pending, limitHit>>
      PROVE  Covered'
  <2>1. OldSettled'
    BY <1>1 DEF Covered, OldSettled, Settled, Body, Known, VarRules, Labels
  <2>2. TakenSettled'
    BY <1>1 DEF Covered, TakenSettled, Waiting, Eligible, Body, Known, VarRules, Labels
  <2>3. Complete'
    BY <1>1 DEF Covered, Complete, Closed, Known, VarRules, Labels
  <2> QED
    BY <2>1, <2>2, <2>3 DEF Covered
<1>2. ASSUME NEW lim \in Limits, Call(theory, lim) PROVE Covered'
  <2>1. CASE VarRules(theory) = {}
    <3>1. source' = theory /\ phase' = "done"
      BY <1>2, <2>1 DEF Call
    <3>2. VarRules(source') = {}
      BY <2>1, <3>1
    <3> QED
      BY <3>1, <3>2 DEF Covered, OldSettled, TakenSettled, Complete, Closed, VarRules, Labels
  <2>2. CASE VarRules(theory) # {}
    <3>1. /\ source' = theory /\ queue' = VarRules(theory)
          /\ phase' \in {"build", "rounds"}
          /\ facts' = delta' /\ fresh' = fresh
      BY <1>2, <2>2 DEF Call
    <3>2. VarRules(source)' = queue'
      BY <3>1 DEF VarRules, Labels
    <3>3. OldSettled'
      BY <3>1 DEF OldSettled
    <3> QED
      BY <2>2, <3>1, <3>2, <3>3 DEF Covered, TakenSettled, Complete
  <2> QED
    BY <2>1, <2>2
<1>3. CASE HitLimit
  BY <1>3 DEF HitLimit, call, Covered, OldSettled, TakenSettled, Complete, Settled,
     Body, Known, VarRules, Labels
<1>4. CASE Build
  <2>1. phase = "build" /\ phase' = "done"
        /\ UNCHANGED <<source, facts, fresh, made, queue, limitHit>>
    BY <1>4 DEF Build, call
  <2> QED
    BY <2>1 DEF Covered, OldSettled, TakenSettled, Complete, Closed, Known, VarRules, Labels
<1>5. ASSUME UNCHANGED vars PROVE Covered'
  BY <1>1, <1>5 DEF vars
<1> QED
  BY <1>2, <1>3, <1>4, <1>5, StepCases, CoveredTakeRule, CoveredSkip, CoveredInstantiate,
     CoveredEndRound

(* Semi-naive rounds are complete: when they end because nothing new was   *)
(* found, every substitution over all the facts has its instance.          *)
THEOREM PrepareComplete == PrepareSpec => []Complete
<1>1. PrepareInit => Covered
  BY DEF PrepareInit, Init, Covered, OldSettled, TakenSettled, Complete
<1>2. Asked /\ Typed /\ Covered /\ [PrepareNext]_prepareVars => Asked' /\ Typed' /\ Covered'
  BY TypedKept, CoveredKept
<1>3. Covered => Complete
  BY DEF Covered
<1> QED
  BY <1>1, <1>2, <1>3, TypedInit, PTL DEF PrepareSpec

-----------------------------------------------------------------------------
(* No instance comes from nowhere. *)

MadeFacts == {AsFact(made[m].rule.head) : m \in Concluding}

Drawn ==
  /\ facts \subseteq Seeds(source) \cup MadeFacts
  /\ \A item \in pending :
        \E choice \in [Matching(Body(item[1])) -> facts] :
           item[2] \in Substitutions(Body(item[1]), choice)
  /\ Supported

(* An instance more takes nothing from, and gives nothing to, the ones     *)
(* before it; it may use what all of them conclude.                        *)
LEMMA AvailableKept ==
  ASSUME Len(made) \in Nat, DOMAIN made = 1 .. Len(made), DOMAIN made' = 1 .. Len(made) + 1,
         \A n \in 1 .. Len(made) : made'[n] = made[n], Seeds(source)' = Seeds(source)
  PROVE  /\ \A n \in 1 .. Len(made) : Available(n)' = Available(n)
         /\ \A n : n = Len(made) + 1 => Available(n)' = Seeds(source) \cup MadeFacts
<1>1. ASSUME NEW n \in 1 .. Len(made) + 1
      PROVE  {k \in Concluding' : k < n} = {k \in Concluding : k < n}
  BY DEF Concluding
<1>2. ASSUME NEW n \in 1 .. Len(made) + 1 PROVE Available(n)' = Available(n)
  <2>1. \A k \in {j \in Concluding : j < n} : made'[k] = made[k]
    BY DEF Concluding
  <2> HIDE DEF Concluding
  <2>2. {AsFact(made'[m].rule.head) : m \in {k \in Concluding' : k < n}}
        = {AsFact(made[m].rule.head) : m \in {k \in Concluding : k < n}}
    BY <1>1, <2>1
  <2> QED
    BY <2>2 DEF Available
<1>3. {k \in Concluding : k < Len(made) + 1} = Concluding
  BY DEF Concluding
<1>4. Available(Len(made) + 1) = Seeds(source) \cup MadeFacts
  BY <1>3 DEF Available, MadeFacts
<1> QED
  BY <1>2, <1>4

LEMMA DrawnInstantiate ==
  ASSUME Typed, Drawn, NEW item \in pending, Instantiate(item[1], item[2])
  PROVE  Drawn'
<1>1. PICK rule :
         /\ Len(made) \in Nat
         /\ DOMAIN made = 1 .. Len(made) /\ DOMAIN made' = 1 .. Len(made) + 1
         /\ \A n \in 1 .. Len(made) : made'[n] = made[n]
         /\ made'[Len(made) + 1].of = item[1] /\ made'[Len(made) + 1].subst = item[2]
         /\ made'[Len(made) + 1].rule = rule
         /\ facts' = facts \cup NewFacts(rule)
  BY OneMore
<1>2. source' = source /\ pending' = pending \ {<<item[1], item[2]>>}
  BY DEF Instantiate, call
<1>3. Seeds(source)' = Seeds(source) /\ \A r : Body(r)' = Body(r)
  BY <1>2 DEF Seeds, GroundRules, VarRules, Labels, Body
<1>4. facts' \subseteq Seeds(source)' \cup MadeFacts'
  <2>1. MadeFacts \subseteq MadeFacts'
    BY <1>1 DEF MadeFacts, Concluding
  <2>2. NewFacts(rule) \subseteq MadeFacts'
    BY <1>1 DEF MadeFacts, Concluding, NewFacts
  <2> QED
    BY <1>1, <1>3, <2>1, <2>2 DEF Drawn
<1>5. ASSUME NEW other \in pending
      PROVE  \E choice \in [Matching(Body(other[1])) -> facts'] :
                other[2] \in Substitutions(Body(other[1]), choice)
  <2>1. PICK choice \in [Matching(Body(other[1])) -> facts] :
               other[2] \in Substitutions(Body(other[1]), choice)
    BY DEF Drawn
  <2>2. choice \in [Matching(Body(other[1])) -> facts']
    BY <1>1
  <2> QED
    BY <2>1, <2>2
<1>6. ASSUME NEW n \in 1 .. Len(made) PROVE Available(n)' = Available(n)
  BY <1>1, <1>3, AvailableKept
<1>7. ASSUME NEW n, n = Len(made) + 1 PROVE facts \subseteq Available(n)'
  <2>1. Available(n)' = Seeds(source) \cup MadeFacts
    BY <1>1, <1>3, <1>7, AvailableKept
  <2> QED
    BY <2>1 DEF Drawn
<1>8. ASSUME NEW n \in DOMAIN made'
      PROVE  \E choice \in [Matching(Body(made'[n].of)) -> Available(n)'] :
                made'[n].subst \in Substitutions(Body(made'[n].of), choice)
  <2>1. CASE n \in 1 .. Len(made)
    BY <1>1, <1>6, <2>1 DEF Drawn, Supported, Body
  <2>2. CASE n = Len(made) + 1
    <3>1. PICK choice \in [Matching(Body(item[1])) -> facts] :
                 item[2] \in Substitutions(Body(item[1]), choice)
      BY DEF Drawn
    <3>2. facts \subseteq Available(n)'
      BY <1>7, <2>2
    <3>3. made'[n].of = item[1] /\ made'[n].subst = item[2]
      BY <1>1, <2>2
    <3> QED
      BY <3>1, <3>2, <3>3
  <2> QED
    BY <1>1, <2>1, <2>2
<1>9. Supported'
  BY <1>2, <1>8 DEF Supported, Body
<1> QED
  BY <1>2, <1>3, <1>4, <1>5, <1>9 DEF Drawn

LEMMA DrawnKept ==
  ASSUME Asked, Typed, Drawn, [PrepareNext]_prepareVars
  PROVE  Drawn'
<1>1. ASSUME UNCHANGED <<source, facts, made>>, pending' \subseteq pending PROVE Drawn'
  <2>1. facts' \subseteq Seeds(source)' \cup MadeFacts'
    BY <1>1 DEF Drawn, MadeFacts, Concluding, Seeds, GroundRules, VarRules, Labels
  <2>2. \A item \in pending' :
           \E choice \in [Matching(Body(item[1])') -> facts'] :
              item[2] \in Substitutions(Body(item[1])', choice)
    BY <1>1 DEF Drawn, Body
  <2>3. Supported'
    <3>1. \A n : Available(n)' = Available(n)
      BY <1>1 DEF Available, Concluding, Seeds, GroundRules, VarRules, Labels
    <3> QED
      BY <1>1, <3>1 DEF Drawn, Supported
  <2> QED
    BY <2>1, <2>2, <2>3 DEF Drawn
<1>2. ASSUME NEW lim \in Limits, Call(theory, lim) PROVE Drawn'
  <2>1. made = << >> /\ facts = {} /\ pending = {}
    BY <1>2 DEF Typed, Placed, Call
  <2>2. made' = << >> /\ pending' = {} /\ facts' \subseteq Seeds(source')
    BY <1>2, <2>1 DEF Call
  <2>3. DOMAIN made' = {}
    BY <2>2
  <2>4. Supported'
    BY <2>3 DEF Supported
  <2>5. Seeds(source)' = Seeds(source')
    BY DEF Seeds, GroundRules, VarRules, Labels
  <2> QED
    BY <2>2, <2>4, <2>5 DEF Drawn
<1>3. CASE TakeRule
  <2>1. PICK r \in queue : pending' = {r} \X Relevant(source.rules[r])
    BY <1>3 DEF TakeRule
  <2>2. UNCHANGED <<source, facts, made>>
    BY <1>3 DEF TakeRule, call
  <2>3. ASSUME NEW subst \in Relevant(source.rules[r])
        PROVE  \E choice \in [Matching(Body(r)) -> facts] : subst \in Substitutions(Body(r), choice)
    BY DEF Relevant, Premised, Body
  <2>4. \A item \in pending' :
           \E choice \in [Matching(Body(item[1])) -> facts] :
              item[2] \in Substitutions(Body(item[1]), choice)
    BY <2>1, <2>3
  <2>5. facts' \subseteq Seeds(source)' \cup MadeFacts'
    BY <2>2 DEF Drawn, MadeFacts, Concluding, Seeds, GroundRules, VarRules, Labels
  <2>6. Supported'
    BY <2>2 DEF Drawn, Supported, Available, Concluding, Seeds, GroundRules, VarRules, Labels
  <2> QED
    BY <2>2, <2>4, <2>5, <2>6 DEF Drawn, Body
<1>4. ASSUME NEW item \in pending, Skip(item[1], item[2]) PROVE Drawn'
  BY <1>1, <1>4 DEF Skip, call
<1>5. CASE HitLimit \/ EndRound \/ Build
  BY <1>1, <1>5 DEF HitLimit, EndRound, Build, call
<1>6. ASSUME UNCHANGED vars PROVE Drawn'
  BY <1>1, <1>6 DEF vars
<1> QED
  BY <1>2, <1>3, <1>4, <1>5, <1>6, StepCases, DrawnInstantiate

(* Every instance stands on facts of the theory and heads of instances     *)
(* made before it.                                                         *)
THEOREM PrepareSupported == PrepareSpec => []Supported
<1>1. PrepareInit => Drawn
  <2> SUFFICES ASSUME PrepareInit PROVE Drawn
    OBVIOUS
  <2>1. made = << >> /\ facts = {} /\ pending = {} /\ DOMAIN made = {}
    BY DEF PrepareInit, Init
  <2> QED
    BY <2>1 DEF Drawn, Supported
<1>2. Asked /\ Typed /\ Drawn /\ [PrepareNext]_prepareVars => Asked' /\ Typed' /\ Drawn'
  BY TypedKept, DrawnKept
<1>3. Drawn => Supported
  BY DEF Drawn
<1> QED
  BY <1>1, <1>2, <1>3, TypedInit, PTL DEF PrepareSpec
-----------------------------------------------------------------------------
(* The result is what was made. *)

(* Labels come from the input until grounding has returned.                *)
Named ==
  /\ Labels(source) \subseteq Label
  /\ stage \in {"filter", "validate", "rewrite", "ground"} => Labels(theory) \subseteq Label

Result == phase = "done" /\ VarRules(source) # {} => grounded = Assembled

LEMMA AsOfNamed == Labels(theory) \subseteq Label => Labels(AsOf(theory)) \subseteq Label
BY DEF AsOf, FilterTemporal, Labels

LEMMA NamedInit == PrepareInit => Named /\ Result
<1> SUFFICES ASSUME PrepareInit PROVE Named /\ Result
  OBVIOUS
<1>1. Labels(source) = {} /\ phase = "idle"
  BY DEF PrepareInit, Init, NoTheory, Labels
<1>2. Labels(theory) \subseteq Label
  BY PipelineAssumption DEF PrepareInit, IsTheory
<1> QED
  BY <1>1, <1>2 DEF Named, Result

LEMMA NamedKept ==
  ASSUME Named, [PrepareNext]_prepareVars
  PROVE  Named'
<1>1. CASE FilterBefore \/ FilterAfter
  BY <1>1, AsOfNamed DEF FilterBefore, FilterAfter, Named, groundVars, vars, Labels
<1>2. CASE Validate \/ SkipGround \/ EndGround \/ ValidateTimes \/ UNCHANGED prepareVars
  BY <1>2 DEF Validate, SkipGround, EndGround, ValidateTimes, prepareVars, groundVars, vars,
     Named, Labels
<1>3. CASE RewriteWildcards
  <2>1. PICK number : theory' = Rewritten(theory, number)
    BY <1>3 DEF RewriteWildcards
  <2>2. Labels(theory) \subseteq Label /\ UNCHANGED source
    BY <1>3, Zenon DEF RewriteWildcards, Named, groundVars, vars
  <2>3. Labels(theory') = Labels(theory)
    BY <2>1, Zenon DEF Rewritten, Labels
  <2> QED
    BY <2>2, <2>3 DEF Named, Labels
<1>4. CASE StartGround
  BY <1>4 DEF StartGround, Call, Named, Labels
<1>5. CASE Ground
  <2>1. UNCHANGED <<source, stage, theory>>
    BY <1>5 DEF Ground, Rounds, TakeRule, HitLimit, Skip, Instantiate, EndRound, Build, call
  <2> QED
    BY <2>1 DEF Named, Labels
<1> QED
  BY <1>1, <1>2, <1>3, <1>4, <1>5 DEF PrepareNext

LEMMA ResultKept ==
  ASSUME Asked, Typed, Result, [PrepareNext]_prepareVars
  PROVE  Result'
<1>1. CASE UNCHANGED vars
  BY <1>1 DEF vars, Result, Assembled, RuleOf, InstanceLabels, LabelOf, GroundRules, VarRules, Labels
<1>2. ASSUME NEW lim \in Limits, Call(theory, lim) PROVE Result'
  BY <1>2 DEF Call, Result, VarRules, Labels
<1>3. CASE Build
  BY <1>3 DEF Build, call, Result, Assembled, RuleOf, InstanceLabels, LabelOf, GroundRules,
     VarRules, Labels
<1>4. CASE TakeRule \/ HitLimit \/ EndRound
           \/ \E item \in pending : Skip(item[1], item[2]) \/ Instantiate(item[1], item[2])
  <2>1. phase = "rounds" /\ phase' \in {phase, "build"}
    BY <1>4 DEF TakeRule, HitLimit, EndRound, Skip, Instantiate, Typed, Placed
  <2> QED
    BY <2>1 DEF Result
<1> QED
  BY <1>1, <1>2, <1>3, <1>4, StepCases

(* Labels of two instances never meet, since the limit keeps their numbers *)
(* countable, so the result is made of all the instances and of the ground *)
(* rules whose labels none of them has taken.                              *)
LEMMA AssembledRules ==
  ASSUME Typed, Limited, Named
  PROVE  /\ Labels(Assembled) = GroundRules(source) \cup InstanceLabels
         /\ Assembled.sup = source.sup
         /\ \A n \in DOMAIN made : Assembled.rules[LabelOf(n)] = made[n].rule
         /\ \A r \in GroundRules(source) \ InstanceLabels : Assembled.rules[r] = source.rules[r]
<1>1. DOMAIN made \subseteq 1 .. MaxCount
  <2>1. Len(made) \in Nat /\ DOMAIN made = 1 .. Len(made)
    BY Appended DEF Typed, Collected
  <2>2. Len(made) <= limits.instances /\ limits.instances \in 0 .. MaxCount
    <3>1. CASE phase = "idle"
      <4>1. Len(made) = 0
        BY <2>1, <3>1 DEF Typed, Placed
      <4> QED
        BY <4>1, LabelAssumption DEF Typed, Placed, Limits
    <3>2. CASE phase # "idle"
      BY <3>2 DEF Limited, LimitMeant, Typed, Placed, Limits
    <3> QED
      BY <3>1, <3>2
  <2> QED
    BY <2>1, <2>2, LabelAssumption
<1>2. \A n \in DOMAIN made : made[n].of \in Label
  BY DEF Typed, Collected, Named, VarRules
<1>3. \A m, n \in DOMAIN made : LabelOf(m) = LabelOf(n) => m = n
  BY <1>1, <1>2, LabelAssumption DEF LabelOf
<1>4. /\ Labels(Assembled) = GroundRules(source) \cup InstanceLabels
      /\ Assembled.sup = source.sup
      /\ \A l \in Labels(Assembled) : Assembled.rules[l] = RuleOf(l)
  BY DEF Assembled, Labels
<1>5. ASSUME NEW n \in DOMAIN made PROVE Assembled.rules[LabelOf(n)] = made[n].rule
  <2>1. LabelOf(n) \in InstanceLabels
    BY DEF InstanceLabels
  <2>2. (CHOOSE m \in DOMAIN made : LabelOf(m) = LabelOf(n)) = n
    BY <1>3
  <2> QED
    BY <1>4, <2>1, <2>2 DEF RuleOf
<1>6. ASSUME NEW r \in GroundRules(source), r \notin InstanceLabels
      PROVE  Assembled.rules[r] = source.rules[r]
  BY <1>4, <1>6 DEF RuleOf
<1> QED
  BY <1>4, <1>5, <1>6

LEMMA StandingKept ==
  ASSUME Asked, Typed, Limited, Named, Result, [PrepareNext]_prepareVars
  PROVE  Asked' /\ Typed' /\ Limited' /\ Named' /\ Result'
BY TypedKept, LimitedKept, NamedKept, ResultKept

(* Every instance is found under its own label in the result, and a ground *)
(* rule under its label unless an instance has taken it.                   *)
THEOREM PrepareKept == PrepareSpec => []Kept
<1>1. ASSUME Typed, Limited, Named, Result PROVE Kept
  BY <1>1, AssembledRules DEF Result, Kept
<1>2. PrepareInit => Limited
  BY DEF PrepareInit, Init, Limited, LimitMeant
<1> QED
  BY <1>1, <1>2, StandingKept, TypedInit, NamedInit, PTL DEF PrepareSpec

-----------------------------------------------------------------------------
(* What the stages before grounding do to the rules of the input. *)

Formed(th) == \A r \in Labels(th) : IsRule(th.rules[r])

Places(rule) == {0} \cup Slots(rule.body, {"match", "deny"})

LEMMA RuleParts ==
  ASSUME NEW rule, IsRule(rule)
  PROVE  /\ rule = [kind |-> rule.kind, template |-> rule.template, body |-> rule.body,
                    head |-> rule.head, win |-> rule.win, before |-> rule.before]
         /\ DOMAIN rule.body = 1 .. Len(rule.body) /\ Len(rule.body) \in Nat
         /\ \A i \in Places(rule) : LiteralAt(rule, i) \in Pattern
         /\ \A i \in DOMAIN rule.body :
              \/ /\ i \in Slots(rule.body, {"match", "deny"}) /\ IsLogic(rule.body[i])
                 /\ rule.body[i] = [op |-> rule.body[i].op, lit |-> rule.body[i].lit]
              \/ i \in Slots(rule.body, {"bind"}) /\ ~ IsLogic(rule.body[i])
<1>1. rule \in [kind : {"fact", "strict", "defeasible", "defeater"}, template : Label,
               body : Seq({rule.body[i] : i \in DOMAIN rule.body}), head : Pattern,
               win : {NoWindow} \cup (Time \X Time), before : SUBSET (TimeVar \X TimeVar)]
  BY DEF IsRule
<1>2. DOMAIN rule.body = 1 .. Len(rule.body) /\ Len(rule.body) \in Nat
  BY <1>1
<1>3. \A i \in Slots(rule.body, {"match", "deny"}) :
        rule.body[i] \in [op : {"match", "deny"}, lit : Pattern]
  BY DEF IsRule, IsItem, Slots
<1>4. \A i \in Places(rule) : LiteralAt(rule, i) \in Pattern
  BY <1>1, <1>2, <1>3 DEF Places, LiteralAt, Slots
<1>5. \A i \in DOMAIN rule.body : rule.body[i].op \in {"match", "deny", "bind"}
  BY DEF IsRule, IsItem
<1> QED
  BY <1>1, <1>2, <1>3, <1>4, <1>5 DEF Slots, IsLogic

LEMMA PatternParts ==
  ASSUME NEW l \in Pattern
  PROVE  /\ l = [terms |-> l.terms, win |-> l.win]
         /\ l.terms \in Seq(Term \cup TermVar) /\ DOMAIN l.terms = 1 .. Len(l.terms)
         /\ Len(l.terms) \in Nat /\ Len(l.win) \in {0, 2} /\ DOMAIN l.win = 1 .. Len(l.win)
         /\ l.win \in Seq(Time \cup TimeVar)
<1>1. /\ l = [terms |-> l.terms, win |-> l.win] /\ l.terms \in Seq(Term \cup TermVar)
      /\ l.win \in {NoWindow} \cup Window
  BY DEF Pattern
<1>2. l.win \in Seq(Time \cup TimeVar) /\ Len(l.win) \in {0, 2}
  <2>1. CASE l.win = << >>
    BY <2>1
  <2>2. CASE l.win # << >>
    <3> DEFINE S == Time \cup TimeVar
    <3>1. PICK a \in S, b \in S : l.win = <<a, b>>
      BY <1>1, <2>2 DEF NoWindow, Window
    <3> HIDE DEF S
    <3>2. <<a, b>> \in Seq(S) /\ Len(<<a, b>>) = 2
      <4>1. <<a, b>> \in Seq(S)
        OBVIOUS
      <4>2. Len(<<a, b>>) = 2
        OBVIOUS
      <4> QED
        BY <4>1, <4>2
    <3> QED
      BY <3>1, <3>2 DEF S
  <2> QED
    BY <2>1, <2>2
<1> QED
  BY <1>1, <1>2

(* Rewriting wildcards changes terms and nothing else.                     *)
Renames(old, new, r, number) ==
  /\ new = [kind |-> old.kind, template |-> old.template, body |-> new.body,
            head |-> new.head, win |-> old.win, before |-> old.before]
  /\ DOMAIN new.body = DOMAIN old.body
  /\ new.body = [i \in DOMAIN old.body |-> new.body[i]]
  /\ \A i \in DOMAIN old.body :
        /\ new.body[i].op = old.body[i].op
        /\ ~ IsLogic(old.body[i]) => new.body[i] = old.body[i]
        /\ IsLogic(old.body[i]) =>
             new.body[i] = [op |-> old.body[i].op, lit |-> new.body[i].lit]
  /\ \A i \in Places(old) :
        LiteralAt(new, i) =
          [terms |-> [k \in DOMAIN LiteralAt(old, i).terms |->
                        IF <<r, i, k>> \in DOMAIN number
                        THEN FreshVar(number[<<r, i, k>>])
                        ELSE LiteralAt(old, i).terms[k]],
           win |-> LiteralAt(old, i).win]

LEMMA RewrittenRule ==
  ASSUME NEW th, Formed(th), NEW number, NEW r \in Labels(th)
  PROVE  Renames(th.rules[r], Rewritten(th, number).rules[r], r, number)
<1> DEFINE old == th.rules[r]
           new == Rewritten(th, number).rules[r]
           terms(i) == [k \in DOMAIN LiteralAt(old, i).terms |->
                          IF <<r, i, k>> \in DOMAIN number
                          THEN FreshVar(number[<<r, i, k>>])
                          ELSE LiteralAt(old, i).terms[k]]
           lit(i) == [LiteralAt(old, i) EXCEPT !.terms = terms(i)]
           body == [i \in DOMAIN old.body |->
                      IF IsLogic(old.body[i]) THEN [old.body[i] EXCEPT !.lit = lit(i)]
                                              ELSE old.body[i]]
<1>1. IsRule(old)
  BY DEF Formed
<1>2. new = [old EXCEPT !.body = body, !.head = lit(0)]
  BY DEF Rewritten
<1> HIDE DEF new
<1>3. \A i \in Places(old) : lit(i) = [terms |-> terms(i), win |-> LiteralAt(old, i).win]
  <2> TAKE i \in Places(old)
  <2>1. LiteralAt(old, i) \in Pattern
    BY <1>1, RuleParts
  <2>2. LiteralAt(old, i) = [terms |-> LiteralAt(old, i).terms, win |-> LiteralAt(old, i).win]
    BY <2>1, PatternParts
  <2> HIDE DEF terms
  <2> QED
    BY <2>2
<1> HIDE DEF lit
<1>4. new = [kind |-> old.kind, template |-> old.template, body |-> body,
             head |-> lit(0), win |-> old.win, before |-> old.before]
  <2>1. old = [kind |-> old.kind, template |-> old.template, body |-> old.body,
               head |-> old.head, win |-> old.win, before |-> old.before]
    BY <1>1, RuleParts
  <2> HIDE DEF body, old
  <2> QED
    BY <1>2, <2>1
<1>5. ASSUME NEW i \in DOMAIN old.body
      PROVE  /\ body[i].op = old.body[i].op
             /\ ~ IsLogic(old.body[i]) => body[i] = old.body[i]
             /\ IsLogic(old.body[i]) => body[i] = [op |-> old.body[i].op, lit |-> lit(i)]
  <2>1. IsLogic(old.body[i]) =>
          old.body[i] = [op |-> old.body[i].op, lit |-> old.body[i].lit]
    BY <1>1, RuleParts
  <2>2. CASE IsLogic(old.body[i])
    <3>1. body[i] = [old.body[i] EXCEPT !.lit = lit(i)]
      BY <2>2
    <3> HIDE DEF body, old
    <3>2. body[i] = [op |-> old.body[i].op, lit |-> lit(i)]
      BY <2>1, <2>2, <3>1
    <3> QED
      BY <2>2, <3>2
  <2>3. CASE ~ IsLogic(old.body[i])
    BY <2>3
  <2> QED
    BY <2>2, <2>3
<1>6. \A i \in Places(old) : LiteralAt(new, i) = lit(i)
  <2> TAKE i \in Places(old)
  <2>1. CASE i = 0
    BY <1>4, <2>1, Zenon DEF LiteralAt
  <2>2. CASE i # 0
    <3>1. i \in DOMAIN old.body /\ IsLogic(old.body[i])
      BY <2>2, <1>1, RuleParts DEF Places, Slots, IsLogic
    <3> QED
      BY <1>4, <1>5, <2>2, <3>1 DEF LiteralAt
  <2> QED
    BY <2>1, <2>2
<1>7. \A i \in DOMAIN old.body : IsLogic(old.body[i]) => new.body[i].lit = lit(i)
  BY <1>4, <1>5
<1>8. DOMAIN new.body = DOMAIN old.body /\ new.body = [i \in DOMAIN old.body |-> new.body[i]]
  BY <1>4
<1>9. \A i \in DOMAIN old.body :
        /\ new.body[i].op = old.body[i].op
        /\ ~ IsLogic(old.body[i]) => new.body[i] = old.body[i]
        /\ IsLogic(old.body[i]) =>
             new.body[i] = [op |-> old.body[i].op, lit |-> new.body[i].lit]
  <2>1. new.body = body
    BY <1>4
  <2> HIDE DEF body, old
  <2> QED
    BY <1>5, <1>7, <2>1
<1>10. \A i \in Places(old) :
         LiteralAt(new, i) = [terms |-> terms(i), win |-> LiteralAt(old, i).win]
  BY <1>3, <1>6
<1>11. new = [kind |-> old.kind, template |-> old.template, body |-> new.body,
              head |-> new.head, win |-> old.win, before |-> old.before]
  <2> HIDE DEF body, old
  <2> QED
    BY <1>4
<1> QED
  BY <1>8, <1>9, <1>10, <1>11, Zenon DEF new, Renames

LEMMA WildcardAt ==
  ASSUME NEW th
  PROVE  /\ \A r, i, k : <<r, i, k>> \in Wildcards(th) <=>
              /\ r \in Labels(th) /\ i \in Places(th.rules[r])
              /\ k \in DOMAIN LiteralAt(th.rules[r], i).terms
              /\ LiteralAt(th.rules[r], i).terms[k] = Wildcard
         /\ \A w \in Wildcards(th) : w = <<w[1], w[2], w[3]>>
<1>1. \A w : w \in Wildcards(th) <=>
        \E r \in Labels(th) : \E i \in Places(th.rules[r]) :
          \E k \in {h \in DOMAIN LiteralAt(th.rules[r], i).terms :
                      LiteralAt(th.rules[r], i).terms[h] = Wildcard} : w = <<r, i, k>>
  <2> DEFINE at(r, i) == {<<r, i, k>> : k \in {h \in DOMAIN LiteralAt(th.rules[r], i).terms :
                                              LiteralAt(th.rules[r], i).terms[h] = Wildcard}}
             of(r) == UNION {at(r, i) : i \in Places(th.rules[r])}
  <2>1. Wildcards(th) = UNION {of(r) : r \in Labels(th)}
    BY DEF Wildcards, Places
  <2>2. \A r, w : w \in of(r) <=> \E i \in Places(th.rules[r]) : w \in at(r, i)
    <3> HIDE DEF at
    <3> QED
      OBVIOUS
  <2>3. \A w : w \in Wildcards(th) <=> \E r \in Labels(th) : w \in of(r)
    <3> HIDE DEF of
    <3> QED
      BY <2>1
  <2> HIDE DEF of
  <2> QED
    BY <2>2, <2>3
<1> QED
  BY <1>1

LEMMA RewrittenFormed ==
  ASSUME NEW th, Formed(th), NEW number \in Numbering(Wildcards(th))
  PROVE  /\ Labels(Rewritten(th, number)) = Labels(th)
         /\ Rewritten(th, number).sup = th.sup
         /\ Formed(Rewritten(th, number))
<1>1. Labels(Rewritten(th, number)) = Labels(th) /\ Rewritten(th, number).sup = th.sup
  BY DEF Rewritten, Labels
<1>2. ASSUME NEW r \in Labels(th) PROVE IsRule(Rewritten(th, number).rules[r])
  <2> DEFINE old == th.rules[r]
             new == Rewritten(th, number).rules[r]
  <2>0. Renames(old, new, r, number)
    BY <1>2, RewrittenRule, Zenon
  <2>1. /\ new = [kind |-> old.kind, template |-> old.template, body |-> new.body,
                  head |-> new.head, win |-> old.win, before |-> old.before]
        /\ DOMAIN new.body = DOMAIN old.body
        /\ new.body = [i \in DOMAIN old.body |-> new.body[i]]
        /\ \A i \in DOMAIN old.body :
              /\ ~ IsLogic(old.body[i]) => new.body[i] = old.body[i]
              /\ IsLogic(old.body[i]) =>
                   new.body[i] = [op |-> old.body[i].op, lit |-> new.body[i].lit]
        /\ \A i \in Places(old) :
              LiteralAt(new, i) =
                [terms |-> [k \in DOMAIN LiteralAt(old, i).terms |->
                              IF <<r, i, k>> \in DOMAIN number
                              THEN FreshVar(number[<<r, i, k>>])
                              ELSE LiteralAt(old, i).terms[k]],
                 win |-> LiteralAt(old, i).win]
    BY <2>0 DEF Renames
  <2>2. IsRule(old)
    BY <1>2 DEF Formed
  <2> HIDE DEF old, new
  <2>3. /\ \A i \in Places(old) : LiteralAt(old, i) \in Pattern
        /\ DOMAIN old.body = 1 .. Len(old.body) /\ Len(old.body) \in Nat
        /\ \A i \in DOMAIN old.body : IsItem(old.body[i])
        /\ \A i \in DOMAIN old.body :
             IsLogic(old.body[i]) => i \in Slots(old.body, {"match", "deny"})
    BY <2>2, RuleParts DEF IsRule
  <2>4. ASSUME NEW i \in Places(old) PROVE LiteralAt(new, i) \in Pattern
    <3> DEFINE l == LiteralAt(old, i)
               terms == [k \in DOMAIN l.terms |-> IF <<r, i, k>> \in DOMAIN number
                                                  THEN FreshVar(number[<<r, i, k>>])
                                                  ELSE l.terms[k]]
    <3>1. /\ l.terms \in Seq(Term \cup TermVar) /\ DOMAIN l.terms = 1 .. Len(l.terms)
          /\ Len(l.terms) \in Nat /\ l.win \in {NoWindow} \cup Window
      BY <2>3, <2>4, PatternParts DEF Pattern
    <3>2. \A w \in DOMAIN number : FreshVar(number[w]) \in TermVar
      BY PipelineAssumption DEF Numbering
    <3>3. LiteralAt(new, i) = [terms |-> terms, win |-> l.win]
      BY <2>1
    <3> HIDE DEF l
    <3>4. terms \in [1 .. Len(l.terms) -> Term \cup TermVar]
      BY <3>1, <3>2
    <3>5. terms \in Seq(Term \cup TermVar)
      BY <3>1, <3>4
    <3> QED
      BY <3>1, <3>3, <3>5 DEF Pattern
  <2>5. new.head \in Pattern
    BY <2>4 DEF Places, LiteralAt
  <2>6. ASSUME NEW i \in DOMAIN old.body PROVE IsItem(new.body[i])
    <3>1. CASE IsLogic(old.body[i])
      <4>1. i \in Slots(old.body, {"match", "deny"}) /\ i # 0
        BY <2>3, <2>6, <3>1
      <4>2. new.body[i].lit \in Pattern
        BY <2>4, <4>1 DEF Places, LiteralAt
      <4>3. old.body[i].op \in {"match", "deny"}
        BY <4>1 DEF Slots
      <4>4. new.body[i] = [op |-> old.body[i].op, lit |-> new.body[i].lit]
        BY <2>1, <2>6, <3>1
      <4>5. new.body[i] \in [op : {"match", "deny"}, lit : Pattern]
        BY <4>2, <4>3, <4>4
      <4> QED
        BY <4>5 DEF IsItem
    <3>2. CASE ~ IsLogic(old.body[i])
      BY <2>1, <2>3, <2>6, <3>2
    <3> QED
      BY <3>1, <3>2
  <2>7. new.body \in Seq({new.body[i] : i \in DOMAIN new.body})
    <3> DEFINE body == new.body
    <3>1. DOMAIN body = 1 .. Len(old.body) /\ Len(old.body) \in Nat
          /\ body = [i \in 1 .. Len(old.body) |-> body[i]]
      BY <2>1, <2>3
    <3> HIDE DEF body
    <3>2. body \in [1 .. Len(old.body) -> {body[i] : i \in DOMAIN body}]
      BY <3>1
    <3>3. body \in Seq({body[i] : i \in DOMAIN body})
      BY <3>1, <3>2
    <3> QED
      BY <3>3 DEF body
  <2>8. /\ old.kind \in {"fact", "strict", "defeasible", "defeater"} /\ old.template \in Label
        /\ old.win \in {NoWindow} \cup (Time \X Time) /\ old.before \in SUBSET (TimeVar \X TimeVar)
    BY <2>2 DEF IsRule
  <2>9. \A i \in DOMAIN new.body : IsItem(new.body[i])
    BY <2>1, <2>6
  <2>10. new \in [kind : {"fact", "strict", "defeasible", "defeater"}, template : Label,
                  body : Seq({new.body[i] : i \in DOMAIN new.body}), head : Pattern,
                  win : {NoWindow} \cup (Time \X Time), before : SUBSET (TimeVar \X TimeVar)]
    <3> DEFINE bodies == Seq({new.body[i] : i \in DOMAIN new.body})
    <3>1. new.body \in bodies
      BY <2>7
    <3>2. new = [kind |-> old.kind, template |-> old.template, body |-> new.body,
                 head |-> new.head, win |-> old.win, before |-> old.before]
      BY <2>1
    <3> HIDE DEF bodies
    <3>3. new \in [kind : {"fact", "strict", "defeasible", "defeater"}, template : Label,
                   body : bodies, head : Pattern,
                   win : {NoWindow} \cup (Time \X Time), before : SUBSET (TimeVar \X TimeVar)]
      BY <2>5, <2>8, <3>1, <3>2
    <3> QED
      BY <3>3 DEF bodies
  <2>11. IsRule(new)
    BY <2>9, <2>10 DEF IsRule
  <2> QED
    BY <2>11 DEF new
<1> QED
  BY <1>1, <1>2 DEF Formed

(* A rule that is rewritten is active when it was, and ground when it was  *)
(* and had no wildcards.                                                   *)
Free(l) == /\ \A k \in DOMAIN l.terms : l.terms[k] \notin Var
           /\ \A k \in DOMAIN l.win : l.win[k] \notin Var

LEMMA FreeVariables ==
  ASSUME NEW l \in Pattern
  PROVE  Variables(l) = {} <=> Free(l)
<1>1. /\ \A k \in DOMAIN l.terms : l.terms[k] \in Term \cup TermVar
      /\ \A k \in DOMAIN l.win : l.win[k] \in Time \cup TimeVar
  BY PatternParts
<1> QED
  BY <1>1, SortAssumption DEF Variables, TermVars, TimeVars, Free, Var

LEMMA GroundRule ==
  ASSUME NEW rule, IsRule(rule)
  PROVE  ~ HasVariables(rule) <=>
           /\ Slots(rule.body, {"bind"}) = {} /\ rule.before = {}
           /\ \A i \in Places(rule) : Free(LiteralAt(rule, i))
<1>1. \A i \in Places(rule) : Variables(LiteralAt(rule, i)) = {} <=> Free(LiteralAt(rule, i))
  BY RuleParts, FreeVariables
<1>2. DOMAIN rule.body = 1 .. Len(rule.body) /\ Len(rule.body) \in Nat
  BY RuleParts
<1>3. \A i \in Slots(rule.body, {"match", "deny"}) :
        i \in Places(rule) /\ LiteralAt(rule, i) = rule.body[i].lit
  BY <1>2 DEF Places, LiteralAt, Slots
<1>4. 0 \in Places(rule) /\ LiteralAt(rule, 0) = rule.head
  BY DEF Places, LiteralAt
<1>5. \A i \in Places(rule) : i = 0 \/ i \in Slots(rule.body, {"match", "deny"})
  BY DEF Places
<1> QED
  BY <1>1, <1>3, <1>4, <1>5 DEF HasVariables

LEMMA RewrittenGround ==
  ASSUME NEW th, Formed(th), NEW number \in Numbering(Wildcards(th)), NEW r \in Labels(th)
  PROVE  LET new == Rewritten(th, number).rules[r]
         IN  /\ \A t : RuleActive(new, t) <=> RuleActive(th.rules[r], t)
             /\ ~ HasVariables(new) <=>
                  ~ HasVariables(th.rules[r]) /\ \A w \in Wildcards(th) : w[1] # r
<1> DEFINE old == th.rules[r]
           new == Rewritten(th, number).rules[r]
<1>1. Renames(old, new, r, number)
  BY RewrittenRule
<1>2. IsRule(old) /\ IsRule(new)
  BY RewrittenFormed DEF Formed
<1>3. /\ DOMAIN number = Wildcards(th) /\ \A w \in Wildcards(th) : FreshVar(number[w]) \in Var
  BY PipelineAssumption DEF Numbering, Var
<1>4. old.win = new.win /\ old.before = new.before
  <2> HIDE DEF old, new
  <2> QED
    BY <1>1 DEF Renames
<1>5. \A ops : Slots(new.body, ops) = Slots(old.body, ops)
  <2> HIDE DEF old, new
  <2> QED
    BY <1>1 DEF Renames, Slots
<1>6. Places(new) = Places(old)
  BY <1>5 DEF Places
<1>7. \A i \in Places(old) :
        /\ LiteralAt(new, i).win = LiteralAt(old, i).win
        /\ DOMAIN LiteralAt(new, i).terms = DOMAIN LiteralAt(old, i).terms
        /\ \A k \in DOMAIN LiteralAt(old, i).terms :
             LiteralAt(new, i).terms[k] = IF <<r, i, k>> \in Wildcards(th)
                                          THEN FreshVar(number[<<r, i, k>>])
                                          ELSE LiteralAt(old, i).terms[k]
  <2> HIDE DEF old, new
  <2> QED
    BY <1>1, <1>3 DEF Renames
<1>8. \A i \in Places(old) :
        Free(LiteralAt(new, i)) <=>
          /\ Free(LiteralAt(old, i))
          /\ \A k \in DOMAIN LiteralAt(old, i).terms : <<r, i, k>> \notin Wildcards(th)
  <2> HIDE DEF old, new
  <2> TAKE i \in Places(old)
  <2>1. ASSUME NEW k \in DOMAIN LiteralAt(old, i).terms, <<r, i, k>> \in Wildcards(th)
        PROVE  LiteralAt(new, i).terms[k] \in Var
    BY <1>3, <1>7, <2>1
  <2>2. ASSUME NEW k \in DOMAIN LiteralAt(old, i).terms, <<r, i, k>> \notin Wildcards(th)
        PROVE  LiteralAt(new, i).terms[k] = LiteralAt(old, i).terms[k]
    BY <1>7, <2>2
  <2> QED
    BY <1>7, <2>1, <2>2 DEF Free
<1>9. (\A w \in Wildcards(th) : w[1] # r) <=>
        \A i \in Places(old) : \A k \in DOMAIN LiteralAt(old, i).terms :
          <<r, i, k>> \notin Wildcards(th)
  <2>1. ASSUME NEW w \in Wildcards(th), w[1] = r
        PROVE  \E i \in Places(old) : \E k \in DOMAIN LiteralAt(old, i).terms :
                 <<r, i, k>> \in Wildcards(th)
    <3>1. w = <<r, w[2], w[3]>>
      BY <2>1, WildcardAt
    <3> QED
      BY <2>1, <3>1, WildcardAt
  <2>2. ASSUME NEW i, NEW k, <<r, i, k>> \in Wildcards(th)
        PROVE  \E w \in Wildcards(th) : w[1] = r
    <3>1. <<r, i, k>>[1] = r
      OBVIOUS
    <3> QED
      BY <2>2, <3>1
  <2> QED
    BY <2>1, <2>2
<1>10. ~ HasVariables(new) <=> ~ HasVariables(old) /\ \A w \in Wildcards(th) : w[1] # r
  <2>1. ~ HasVariables(new) <=> /\ Slots(old.body, {"bind"}) = {} /\ old.before = {}
                                /\ \A i \in Places(old) : Free(LiteralAt(new, i))
    BY <1>2, <1>4, <1>5, <1>6, GroundRule
  <2>2. ~ HasVariables(old) <=> /\ Slots(old.body, {"bind"}) = {} /\ old.before = {}
                                /\ \A i \in Places(old) : Free(LiteralAt(old, i))
    BY <1>2, GroundRule
  <2> HIDE DEF old, new
  <2> QED
    BY <1>8, <1>9, <2>1, <2>2
<1>11. ASSUME NEW t PROVE RuleActive(new, t) <=> RuleActive(old, t)
  <2>1. \A rule : IsRule(rule) =>
          (RuleActive(rule, t) <=>
             Active(rule.win, t) /\ \A i \in Places(rule) : Active(LiteralAt(rule, i).win, t))
    <3> TAKE rule
    <3> HAVE IsRule(rule)
    <3>1. DOMAIN rule.body = 1 .. Len(rule.body) /\ Len(rule.body) \in Nat
      BY RuleParts
    <3>2. \A i \in Slots(rule.body, {"match", "deny"}) : LiteralAt(rule, i) = rule.body[i].lit
      BY <3>1 DEF LiteralAt, Slots
    <3>3. LiteralAt(rule, 0) = rule.head
      BY DEF LiteralAt
    <3> QED
      BY <3>2, <3>3 DEF RuleActive, Places
  <2> HIDE DEF old, new
  <2> QED
    BY <1>2, <1>4, <1>6, <1>7, <2>1
<1> QED
  BY <1>10, <1>11

-----------------------------------------------------------------------------
(* The stages, one after the other. *)

LEMMA AsOfRules ==
  ASSUME NEW th
  PROVE  /\ Labels(AsOf(th)) =
              {r \in Labels(th) : opts.time # NoTime => RuleActive(th.rules[r], opts.time)}
         /\ \A r \in Labels(AsOf(th)) : AsOf(th).rules[r] = th.rules[r]
         /\ opts.time = NoTime => AsOf(th) = th
         /\ opts.time # NoTime =>
              AsOf(th).sup = {pair \in th.sup : {pair[1], pair[2]} \subseteq Labels(AsOf(th))}
<1>1. CASE opts.time = NoTime
  BY <1>1 DEF AsOf, Labels
<1>2. CASE opts.time # NoTime
  <2> DEFINE kept == {r \in Labels(th) : RuleActive(th.rules[r], opts.time)}
  <2>1. AsOf(th) = [rules |-> [r \in kept |-> th.rules[r]],
                    sup |-> {pair \in th.sup : {pair[1], pair[2]} \subseteq kept}]
    BY <1>2 DEF AsOf, FilterTemporal
  <2> HIDE DEF kept
  <2>2. /\ Labels(AsOf(th)) = kept
        /\ \A r \in kept : AsOf(th).rules[r] = th.rules[r]
        /\ AsOf(th).sup = {pair \in th.sup : {pair[1], pair[2]} \subseteq kept}
    BY <2>1 DEF Labels
  <2> QED
    BY <1>2, <2>2 DEF kept
<1> QED
  BY <1>1, <1>2

(* What grounding is given, and what it leaves.                            *)
ReadyToGround(th) ==
  \E number \in Numbering(Wildcards(AsOf(input))) : th = Rewritten(AsOf(input), number)

LeftByGround(th) ==
  \/ phase = "idle" /\ (opts.ground => VarRules(th) = {}) /\ ReadyToGround(th)
  \/ phase = "done" /\ VarRules(source) # {} /\ ReadyToGround(source) /\ th = Assembled

Staged ==
  /\ input \in Theories
  /\ stage = "filter" => theory = input /\ phase = "idle"
  /\ stage \in {"validate", "rewrite"} => theory = AsOf(input) /\ phase = "idle"
  /\ stage = "ground" => /\ ReadyToGround(theory)
                         /\ phase # "idle" => source = theory /\ VarRules(source) # {}
  /\ stage \in {"times", "filter again"} => LeftByGround(theory)
  /\ stage = "ready" => \E th : LeftByGround(th) /\ theory = AsOf(th)

LEMMA StagedInit == PrepareInit => Staged
BY DEF PrepareInit, Init, Staged

LEMMA LeftKept ==
  ASSUME UNCHANGED <<request, vars>>
  PROVE  /\ \A th : LeftByGround(th)' <=> LeftByGround(th)
         /\ \A th : ReadyToGround(th)' <=> ReadyToGround(th)
         /\ \A th : AsOf(th)' = AsOf(th)
<1>1. /\ opts' = opts /\ input' = input
      /\ phase' = phase /\ source' = source /\ made' = made
  BY DEF request, vars
<1>2. \A th : AsOf(th)' = AsOf(th)
  BY <1>1 DEF AsOf
<1>3. AsOf(input)' = AsOf(input)
  BY <1>1 DEF AsOf
<1>4. \A th : ReadyToGround(th)' <=> ReadyToGround(th)
  BY <1>3 DEF ReadyToGround
<1>5. ReadyToGround(source)' <=> ReadyToGround(source)
  BY <1>1, <1>3 DEF ReadyToGround
<1>6. Assembled' = Assembled /\ VarRules(source)' = VarRules(source)
  BY <1>1 DEF Assembled, RuleOf, InstanceLabels, LabelOf, GroundRules, VarRules, Labels
<1> QED
  BY <1>1, <1>2, <1>4, <1>5, <1>6 DEF LeftByGround

LEMMA TheoryLeft ==
  ASSUME UNCHANGED <<request, vars>>, theory' = theory
  PROVE  LeftByGround(theory)' <=> LeftByGround(theory)
<1>1. AsOf(input)' = AsOf(input)
  BY DEF AsOf, request
<1>2. ReadyToGround(theory)' <=> ReadyToGround(theory)
  BY <1>1 DEF ReadyToGround
<1>3. ReadyToGround(source)' <=> ReadyToGround(source)
  BY <1>1 DEF ReadyToGround, vars
<1>4. Assembled' = Assembled
  BY DEF Assembled, RuleOf, InstanceLabels, LabelOf, GroundRules, VarRules, Labels, vars
<1>5. VarRules(source)' = VarRules(source) /\ VarRules(theory)' = VarRules(theory)
  BY DEF VarRules, Labels, vars
<1>6. phase' = phase /\ opts' = opts
  BY DEF request, vars
<1> QED
  BY <1>2, <1>3, <1>4, <1>5, <1>6 DEF LeftByGround

LEMMA StagedKept ==
  ASSUME Asked, Typed, Result, Staged, [PrepareNext]_prepareVars
  PROVE  Staged'
<1>1. CASE UNCHANGED prepareVars
  <2>1. /\ UNCHANGED <<request, vars>> /\ stage' = stage /\ theory' = theory
        /\ input' = input /\ phase' = phase /\ source' = source
    BY <1>1 DEF prepareVars, request, vars
  <2>2. /\ ReadyToGround(theory)' <=> ReadyToGround(theory)
        /\ LeftByGround(theory)' <=> LeftByGround(theory)
        /\ AsOf(input)' = AsOf(input) /\ VarRules(source)' = VarRules(source)
    BY <2>1, TheoryLeft DEF ReadyToGround, AsOf, VarRules, Labels, request, vars
  <2>3. (\E th : LeftByGround(th) /\ theory = AsOf(th))
          => (\E th : LeftByGround(th)' /\ theory' = AsOf(th)')
    BY <2>1, LeftKept
  <2> QED
    BY <2>1, <2>2, <2>3 DEF Staged
<1>2. CASE FilterBefore
  <2>1. /\ UNCHANGED <<request, vars>> /\ stage' = "validate" /\ theory' = AsOf(theory)
        /\ stage = "filter" /\ input' = input /\ phase' = phase
    BY <1>2 DEF FilterBefore, groundVars, vars, request
  <2>2. AsOf(input)' = AsOf(input)
    BY <2>1 DEF AsOf, request
  <2> QED
    BY <2>1, <2>2 DEF Staged
<1>3. CASE Validate
  <2>1. /\ UNCHANGED <<request, vars>> /\ stage' \in {"rewrite", "failed"} /\ theory' = theory
        /\ stage = "validate" /\ input' = input /\ phase' = phase
    BY <1>3 DEF Validate, groundVars, vars, request
  <2>2. AsOf(input)' = AsOf(input)
    BY <2>1 DEF AsOf, request
  <2> QED
    BY <2>1, <2>2 DEF Staged
<1>4. CASE RewriteWildcards
  <2>1. /\ UNCHANGED <<request, vars>> /\ stage' = "ground" /\ theory = AsOf(input)
        /\ input' = input /\ phase' = "idle"
    BY <1>4 DEF RewriteWildcards, groundVars, vars, request, Staged
  <2>2. PICK number \in Numbering(Wildcards(theory)) : theory' = Rewritten(theory, number)
    BY <1>4 DEF RewriteWildcards
  <2>3. AsOf(input)' = AsOf(input)
    BY <2>1 DEF AsOf, request
  <2>4. ReadyToGround(theory)'
    BY <2>1, <2>2, <2>3 DEF ReadyToGround
  <2> QED
    BY <2>1, <2>4 DEF Staged
<1>5. CASE SkipGround
  <2>1. /\ UNCHANGED <<request, vars>> /\ stage' = "times" /\ theory' = theory
        /\ input' = input /\ stage = "ground" /\ phase = "idle"
        /\ ~ opts.ground \/ VarRules(theory) = {}
    BY <1>5 DEF SkipGround, groundVars, vars, request
  <2>2. ReadyToGround(theory)
    BY <2>1 DEF Staged
  <2>3. LeftByGround(theory)
    BY <2>1, <2>2 DEF LeftByGround
  <2>4. LeftByGround(theory)'
    BY <2>1, <2>3, TheoryLeft
  <2> QED
    BY <2>1, <2>4 DEF Staged
<1>6. CASE StartGround
  <2>1. /\ UNCHANGED request /\ stage' = "ground" /\ theory' = theory /\ input' = input
        /\ stage = "ground" /\ source' = theory /\ VarRules(theory) # {}
    BY <1>6 DEF StartGround, Call, request
  <2>2. VarRules(source)' # {}
    BY <2>1 DEF VarRules, Labels
  <2>3. ReadyToGround(theory)'
    BY <2>1 DEF Staged, ReadyToGround, AsOf, request
  <2> QED
    BY <2>1, <2>2, <2>3 DEF Staged
<1>7. CASE Ground
  <2>1. /\ UNCHANGED request /\ stage' = "ground" /\ theory' = theory /\ input' = input
        /\ stage = "ground" /\ source' = source /\ phase # "idle"
    BY <1>7 DEF Ground, Rounds, TakeRule, HitLimit, Skip, Instantiate, EndRound, Build,
       call, request, Typed, Placed
  <2>2. VarRules(source)' = VarRules(source)
    BY <2>1 DEF VarRules, Labels
  <2>3. ReadyToGround(theory)'
    BY <2>1 DEF Staged, ReadyToGround, AsOf, request
  <2> QED
    BY <2>1, <2>2, <2>3 DEF Staged
<1>8. CASE EndGround
  <2>1. /\ UNCHANGED <<request, vars>> /\ stage' = "times" /\ theory' = grounded
        /\ input' = input /\ stage = "ground" /\ phase = "done"
    BY <1>8 DEF EndGround, groundVars, vars, request
  <2>2. ReadyToGround(source) /\ VarRules(source) # {}
    BY <2>1 DEF Staged
  <2>3. theory' = Assembled
    BY <2>1, <2>2 DEF Result
  <2>4. Assembled' = Assembled /\ VarRules(source)' = VarRules(source) /\ phase' = phase
        /\ ReadyToGround(source)'
    BY <2>1, <2>2 DEF Assembled, RuleOf, InstanceLabels, LabelOf, GroundRules, VarRules, Labels,
       vars, ReadyToGround, AsOf, request
  <2>5. LeftByGround(theory)'
    BY <2>1, <2>2, <2>3, <2>4 DEF LeftByGround
  <2> QED
    BY <2>1, <2>5 DEF Staged
<1>9. CASE ValidateTimes
  <2>1. /\ UNCHANGED <<request, vars>> /\ stage' \in {"filter again", "failed"}
        /\ theory' = theory /\ input' = input /\ stage = "times"
    BY <1>9 DEF ValidateTimes, groundVars, vars, request
  <2>2. LeftByGround(theory)
    BY <2>1 DEF Staged
  <2>3. LeftByGround(theory)'
    BY <2>1, <2>2, TheoryLeft
  <2> QED
    BY <2>1, <2>3 DEF Staged
<1>10. CASE FilterAfter
  <2>1. /\ UNCHANGED <<request, vars>> /\ stage' = "ready" /\ theory' = AsOf(theory)
        /\ input' = input /\ stage = "filter again"
    BY <1>10 DEF FilterAfter, groundVars, vars, request
  <2>2. LeftByGround(theory)
    BY <2>1 DEF Staged
  <2>3. \E th : LeftByGround(th)' /\ theory' = AsOf(th)'
    BY <2>1, <2>2, LeftKept
  <2> QED
    BY <2>1, <2>3 DEF Staged
<1> QED
  BY <1>1, <1>2, <1>3, <1>4, <1>5, <1>6, <1>7, <1>8, <1>9, <1>10 DEF PrepareNext

LEMMA GivenToGround ==
  ASSUME input \in Theories, NEW th, ReadyToGround(th)
  PROVE  /\ Labels(th) = Labels(AsOf(input)) /\ th.sup = AsOf(input).sup /\ Formed(th)
         /\ GroundRules(th) = Plain \cap Labels(th)
         /\ \A r \in Labels(th) : \A t :
              RuleActive(th.rules[r], t) <=> RuleActive(input.rules[r], t)
<1> DEFINE early == AsOf(input)
<1>1. Formed(input)
  BY PipelineAssumption DEF IsTheory, Formed
<1>2. /\ Labels(early) \subseteq Labels(input)
      /\ \A r \in Labels(early) : early.rules[r] = input.rules[r]
  BY AsOfRules
<1>3. Formed(early)
  BY <1>1, <1>2 DEF Formed
<1>4. PICK number \in Numbering(Wildcards(early)) : th = Rewritten(early, number)
  BY DEF ReadyToGround
<1>5. /\ Labels(th) = Labels(early) /\ th.sup = early.sup /\ Formed(th)
  BY <1>3, <1>4, RewrittenFormed
<1>6. ASSUME NEW r \in Labels(early)
      PROVE  (\A w \in Wildcards(early) : w[1] # r) <=> (\A w \in Wildcards(input) : w[1] # r)
  <2>1. \A i, k : <<r, i, k>> \in Wildcards(early) <=> <<r, i, k>> \in Wildcards(input)
    BY <1>2, <1>6, WildcardAt
  <2>2. \A other : \A w \in Wildcards(other) : w = <<w[1], w[2], w[3]>>
    BY WildcardAt
  <2>3. \A i, k : <<r, i, k>>[1] = r
    OBVIOUS
  <2> QED
    BY <2>1, <2>2, <2>3
<1>7. ASSUME NEW r \in Labels(early)
      PROVE  /\ \A t : RuleActive(th.rules[r], t) <=> RuleActive(input.rules[r], t)
             /\ ~ HasVariables(th.rules[r]) <=>
                  ~ HasVariables(input.rules[r]) /\ \A w \in Wildcards(input) : w[1] # r
  BY <1>2, <1>3, <1>4, <1>6, <1>7, RewrittenGround
<1>8. \A r \in Labels(early) : r \in GroundRules(th) <=> r \in Plain
  BY <1>2, <1>5, <1>7 DEF GroundRules, VarRules, Plain
<1>9. GroundRules(th) \subseteq Labels(th)
  BY DEF GroundRules
<1> QED
  BY <1>5, <1>7, <1>8, <1>9

LEMMA LeftRules ==
  ASSUME Typed, Limited, Named, Staged, NEW th, LeftByGround(th)
  PROVE  /\ th.sup = AsOf(input).sup
         /\ Plain \cap Labels(AsOf(input)) \subseteq Labels(th)
         /\ \A r \in Labels(th) \ InstanceLabels :
              /\ r \in Labels(AsOf(input))
              /\ \A t : RuleActive(th.rules[r], t) <=> RuleActive(input.rules[r], t)
         /\ opts.ground => Labels(th) \subseteq Plain \cup InstanceLabels
         /\ \A n \in DOMAIN made : LabelOf(n) \in Labels(th) /\ th.rules[LabelOf(n)] = made[n].rule
<1>0. input \in Theories
  BY DEF Staged
<1>1. CASE phase = "idle" /\ (opts.ground => VarRules(th) = {}) /\ ReadyToGround(th)
  <2>1. DOMAIN made = {} /\ InstanceLabels = {}
    BY <1>1 DEF Typed, Placed, InstanceLabels
  <2>2. opts.ground => GroundRules(th) = Labels(th)
    BY <1>1 DEF GroundRules
  <2> QED
    BY <1>0, <1>1, <2>1, <2>2, GivenToGround
<1>2. CASE phase = "done" /\ VarRules(source) # {} /\ ReadyToGround(source) /\ th = Assembled
  <2>1. /\ Labels(source) = Labels(AsOf(input)) /\ source.sup = AsOf(input).sup
        /\ GroundRules(source) = Plain \cap Labels(source)
        /\ \A r \in Labels(source) : \A t :
             RuleActive(source.rules[r], t) <=> RuleActive(input.rules[r], t)
    <3>1. ReadyToGround(source)
      BY <1>2
    <3> QED
      BY <1>0, <3>1, GivenToGround
  <2>2. /\ Labels(th) = GroundRules(source) \cup InstanceLabels
        /\ th.sup = source.sup
        /\ \A n \in DOMAIN made : th.rules[LabelOf(n)] = made[n].rule
        /\ \A r \in GroundRules(source) \ InstanceLabels : th.rules[r] = source.rules[r]
    BY <1>2, AssembledRules
  <2>3. \A n \in DOMAIN made : LabelOf(n) \in InstanceLabels
    BY DEF InstanceLabels
  <2> QED
    BY <2>1, <2>2, <2>3
<1> QED
  BY <1>1, <1>2 DEF LeftByGround

(* The as-of contract of the whole pipeline: what is ready has exactly the *)
(* ground rules and the instances that are active at the reference time.   *)
THEOREM PrepareAsOf == PrepareSpec => []AsOfContract
<1>1. ASSUME Typed, Limited, Named, Staged PROVE AsOfContract
  <2> SUFFICES ASSUME stage = "ready" PROVE AsOfContract
    BY DEF AsOfContract
  <2> DEFINE asOf(rule) == opts.time # NoTime => RuleActive(rule, opts.time)
  <2>1. PICK th : LeftByGround(th) /\ theory = AsOf(th)
    BY <1>1 DEF Staged
  <2>2. /\ Plain \cap Labels(AsOf(input)) \subseteq Labels(th)
        /\ \A r \in Labels(th) \ InstanceLabels :
              /\ r \in Labels(AsOf(input))
              /\ \A t : RuleActive(th.rules[r], t) <=> RuleActive(input.rules[r], t)
        /\ opts.ground => Labels(th) \subseteq Plain \cup InstanceLabels
        /\ \A n \in DOMAIN made : LabelOf(n) \in Labels(th) /\ th.rules[LabelOf(n)] = made[n].rule
    BY <1>1, <2>1, LeftRules
  <2>3. /\ Labels(theory) = {r \in Labels(th) : asOf(th.rules[r])}
        /\ \A r \in Labels(theory) : theory.rules[r] = th.rules[r]
    BY <2>1, AsOfRules
  <2>4. Labels(AsOf(input)) = {r \in Labels(input) : asOf(input.rules[r])}
    BY AsOfRules
  <2>5. Plain \subseteq Labels(input)
    BY DEF Plain, GroundRules
  <2>6. \A n \in DOMAIN made :
          asOf(made[n].rule) <=>
            LabelOf(n) \in Labels(theory) /\ theory.rules[LabelOf(n)] = made[n].rule
    BY <2>2, <2>3
  <2>7. \A r \in Plain \ InstanceLabels : asOf(input.rules[r]) <=> r \in Labels(theory)
    BY <2>2, <2>3, <2>4, <2>5
  <2>8. opts.ground => Labels(theory) \subseteq Plain \cup InstanceLabels
    BY <2>2, <2>3
  <2> QED
    BY <2>6, <2>7, <2>8 DEF AsOfContract
<1>2. PrepareInit => Limited
  BY DEF PrepareInit, Init, Limited, LimitMeant
<1> QED
  BY <1>1, <1>2, StandingKept, StagedKept, StagedInit, TypedInit, NamedInit, PTL DEF PrepareSpec

(* Without a reference time no superiority is lost on the way; with one,   *)
(* none between ground rules that are still there.                         *)
THEOREM PrepareRanked == PrepareSpec => []Ranked
<1>1. ASSUME Typed, Limited, Named, Staged PROVE Ranked
  <2> SUFFICES ASSUME stage = "ready", NEW pair \in input.sup,
                      opts.time # NoTime =>
                        {pair[1], pair[2]} \subseteq (Plain \ InstanceLabels) \cap Labels(theory)
               PROVE  pair \in theory.sup
    BY DEF Ranked
  <2>1. PICK th : LeftByGround(th) /\ theory = AsOf(th)
    BY <1>1 DEF Staged
  <2>2. /\ th.sup = AsOf(input).sup
        /\ \A r \in Labels(th) \ InstanceLabels : r \in Labels(AsOf(input))
    BY <1>1, <2>1, LeftRules
  <2>3. CASE opts.time = NoTime
    BY <2>1, <2>2, <2>3, AsOfRules
  <2>4. CASE opts.time # NoTime
    <3>1. /\ Labels(theory) \subseteq Labels(th)
          /\ theory.sup = {p \in th.sup : {p[1], p[2]} \subseteq Labels(theory)}
      BY <2>1, <2>4, AsOfRules
    <3>2. {pair[1], pair[2]} \subseteq Labels(AsOf(input))
      BY <2>2, <2>4, <3>1
    <3>3. pair \in AsOf(input).sup
      BY <2>4, <3>2, AsOfRules
    <3> QED
      BY <2>2, <2>4, <3>1, <3>3
  <2> QED
    BY <2>3, <2>4
<1>2. PrepareInit => Limited
  BY DEF PrepareInit, Init, Limited, LimitMeant
<1> QED
  BY <1>1, <1>2, StandingKept, StagedKept, StagedInit, TypedInit, NamedInit, PTL DEF PrepareSpec

-----------------------------------------------------------------------------
(* Wildcards. *)

(* The variables that stand for wildcards are written in no theory.  The   *)
(* code does not refuse a theory that writes one.                          *)
FreshUnwritten ==
  \A th \in Theories : \A r \in Labels(th) : \A i \in Places(th.rules[r]) :
    \A k \in DOMAIN LiteralAt(th.rules[r], i).terms : \A n \in 1 .. MaxCount :
      LiteralAt(th.rules[r], i).terms[k] # FreshVar(n)

LEMMA WildcardsApart ==
  ASSUME FreshUnwritten, Staged
  PROVE  WildcardsFree
<1> SUFFICES ASSUME stage = "ground", NEW r \in Labels(theory)
             PROVE  \A x, y \in Places(theory.rules[r]) :
                      \A j \in DOMAIN LiteralAt(theory.rules[r], x).terms,
                        k \in DOMAIN LiteralAt(theory.rules[r], y).terms :
                         /\ LiteralAt(input.rules[r], x).terms[j] = Wildcard
                         /\ <<x, j>> # <<y, k>>
                         => LiteralAt(theory.rules[r], x).terms[j]
                              # LiteralAt(theory.rules[r], y).terms[k]
  BY Zenon DEF WildcardsFree, Places
<1> TAKE x, y \in Places(theory.rules[r])
<1> TAKE j \in DOMAIN LiteralAt(theory.rules[r], x).terms,
         k \in DOMAIN LiteralAt(theory.rules[r], y).terms
<1> HAVE /\ LiteralAt(input.rules[r], x).terms[j] = Wildcard
         /\ <<x, j>> # <<y, k>>
<1> DEFINE early == AsOf(input)
<1>1. PICK number \in Numbering(Wildcards(early)) : theory = Rewritten(early, number)
  BY DEF Staged, ReadyToGround
<1>2. /\ Labels(early) \subseteq Labels(input)
      /\ \A l \in Labels(early) : early.rules[l] = input.rules[l]
  BY AsOfRules
<1>3. input \in Theories /\ Formed(early)
  BY <1>2, PipelineAssumption DEF Staged, IsTheory, Formed
<1>4. r \in Labels(early) /\ r \in Labels(input)
  BY <1>1, <1>2, <1>3, RewrittenFormed
<1>5. Renames(early.rules[r], theory.rules[r], r, number)
  BY <1>1, <1>3, <1>4, RewrittenRule
<1>6. Renames(input.rules[r], theory.rules[r], r, number)
  BY <1>2, <1>4, <1>5, Zenon
<1> DEFINE old == input.rules[r]
           new == theory.rules[r]
<1>7. Places(new) = Places(old)
  <2>1. Renames(old, new, r, number)
    BY <1>6
  <2> HIDE DEF old, new
  <2> QED
    BY <2>1 DEF Renames, Places, Slots
<1>8. \A i \in Places(old) :
        /\ DOMAIN LiteralAt(new, i).terms = DOMAIN LiteralAt(old, i).terms
        /\ \A h \in DOMAIN LiteralAt(old, i).terms :
             LiteralAt(new, i).terms[h] = IF <<r, i, h>> \in DOMAIN number
                                          THEN FreshVar(number[<<r, i, h>>])
                                          ELSE LiteralAt(old, i).terms[h]
  <2>1. Renames(old, new, r, number)
    BY <1>6
  <2> HIDE DEF old, new
  <2> QED
    BY <2>1 DEF Renames
<1>9. /\ DOMAIN number = Wildcards(early)
      /\ \A w \in Wildcards(early) : number[w] \in 1 .. MaxCount
      /\ \A v, w \in Wildcards(early) : v # w => number[v] # number[w]
  BY <1>1 DEF Numbering
<1>10. <<r, x, j>> \in Wildcards(early)
  <2>1. /\ x \in Places(old) /\ j \in DOMAIN LiteralAt(old, x).terms
        /\ LiteralAt(old, x).terms[j] = Wildcard
    BY <1>7, <1>8
  <2>2. early.rules[r] = old
    BY <1>2, <1>4
  <2> HIDE DEF early, old
  <2> QED
    BY <1>4, <2>1, <2>2, WildcardAt
<1>11. LiteralAt(new, x).terms[j] = FreshVar(number[<<r, x, j>>])
  BY <1>7, <1>8, <1>9, <1>10
<1>12. CASE <<r, y, k>> \in Wildcards(early)
  <2>1. LiteralAt(new, y).terms[k] = FreshVar(number[<<r, y, k>>])
    BY <1>7, <1>8, <1>9, <1>12
  <2>2. <<r, x, j>> # <<r, y, k>>
    OBVIOUS
  <2>3. number[<<r, x, j>>] # number[<<r, y, k>>]
    BY <1>9, <1>10, <1>12, <2>2
  <2> QED
    BY <1>9, <1>10, <1>11, <1>12, <2>1, <2>3, PipelineAssumption
<1>13. CASE <<r, y, k>> \notin Wildcards(early)
  <2>1. LiteralAt(new, y).terms[k] = LiteralAt(old, y).terms[k]
    BY <1>7, <1>8, <1>9, <1>13
  <2>2. LiteralAt(old, y).terms[k] # FreshVar(number[<<r, x, j>>])
    <3>1. y \in Places(old) /\ k \in DOMAIN LiteralAt(old, y).terms
      BY <1>7, <1>8
    <3>2. number[<<r, x, j>>] \in 1 .. MaxCount
      BY <1>9, <1>10
    <3> HIDE DEF early
    <3> QED
      BY <1>3, <1>4, <3>1, <3>2 DEF FreshUnwritten
  <2> QED
    BY <1>11, <2>1, <2>2
<1> QED
  BY <1>12, <1>13

(* A wildcard matches anything: the variable that stands for it occurs     *)
(* nowhere else in its rule, as long as nobody writes such a variable.     *)
THEOREM PrepareWildcardsFree ==
  ASSUME FreshUnwritten
  PROVE  PrepareSpec => []WildcardsFree
<1>1. Staged => WildcardsFree
  BY WildcardsApart
<1>2. PrepareInit => Limited
  BY DEF PrepareInit, Init, Limited, LimitMeant
<1> QED
  BY <1>1, <1>2, StandingKept, StagedKept, StagedInit, TypedInit, NamedInit, PTL DEF PrepareSpec

-----------------------------------------------------------------------------
(* Induction.  A set of numbers takes the place of the predicate, and a    *)
(* function that satisfies its recursive equation is put together up to    *)
(* every length.                                                           *)

LEMMA Least ==
  ASSUME NEW T, T \subseteq Nat, T # {}
  PROVE  \E n \in T : \A m \in T : n <= m
<1>1. IsWellFoundedOn(OpToRel(<, Nat), Nat)
  BY NatLessThanWellFounded, Zenon
<1>2. PICK n \in T : \A m \in T : ~ (<<m, n>> \in OpToRel(<, Nat))
  BY <1>1, WFMin, Zenon
<1>3. \A m \in T : ~ (m < n)
  BY <1>2, Zenon DEF OpToRel
<1> QED
  BY <1>3

LEMMA Inductive ==
  ASSUME NEW S, 0 \in S, \A n \in Nat : n \in S => n + 1 \in S
  PROVE  Nat \subseteq S
<1> SUFFICES ASSUME Nat \ S # {} PROVE FALSE
  OBVIOUS
<1>1. PICK n \in Nat \ S : \A m \in Nat \ S : n <= m
  <2> DEFINE T == Nat \ S
  <2>1. T \subseteq Nat /\ T # {}
    OBVIOUS
  <2> HIDE DEF T
  <2>2. \E n \in T : \A m \in T : n <= m
    BY <2>1, Least
  <2> QED
    BY <2>2 DEF T
<1>2. n # 0
  BY <1>1
<1>3. n - 1 \in Nat /\ (n - 1) + 1 = n /\ ~ (n <= n - 1)
  BY <1>2
<1> QED
  BY <1>1, <1>3

(* One premise more.                                                       *)
Advance(body, choice, i, S) ==
  UNION {Extend(body[i], subst, IF body[i].op = "match" THEN choice[i] ELSE NoWindow) :
           subst \in S}

Unfolds(body, choice, f, n) ==
  f = [i \in 0 .. n |-> IF i = 0 THEN {Unbound} ELSE Advance(body, choice, i, f[i - 1])]

Follows(body, choice, f, n) ==
  f[0] = {Unbound} /\ \A i \in 1 .. n : f[i] = Advance(body, choice, i, f[i - 1])

LEMMA Unfolded ==
  ASSUME NEW body, NEW choice, NEW n \in Nat, NEW f, Unfolds(body, choice, f, n)
  PROVE  Follows(body, choice, f, n)
<1> DEFINE e(i) == IF i = 0 THEN {Unbound} ELSE Advance(body, choice, i, f[i - 1])
<1>1. f = [i \in 0 .. n |-> e(i)]
  BY DEF Unfolds
<1> HIDE DEF e
<1>2. \A i \in 0 .. n : f[i] = e(i)
  BY <1>1
<1>3. 0 \in 0 .. n /\ \A i \in 1 .. n : i \in 0 .. n /\ i # 0
  OBVIOUS
<1> QED
  BY <1>2, <1>3 DEF e, Follows

LEMMA MatchedSteps ==
  ASSUME NEW body, NEW choice, Len(body) \in Nat
  PROVE  Follows(body, choice, Matched(body, choice), Len(body))
<1> DEFINE T == {n \in Nat : \E f : Unfolds(body, choice, f, n)}
<1>1. 0 \in T
  <2> DEFINE f == [i \in 0 .. 0 |-> {Unbound}]
  <2>1. Unfolds(body, choice, f, 0)
    BY DEF Unfolds
  <2> QED
    BY <2>1
<1>2. ASSUME NEW n \in Nat, n \in T PROVE n + 1 \in T
  <2>1. PICK f : Unfolds(body, choice, f, n)
    BY <1>2
  <2>2. f[0] = {Unbound} /\ \A i \in 1 .. n : f[i] = Advance(body, choice, i, f[i - 1])
    <3>1. Follows(body, choice, f, n)
      BY <2>1, Unfolded, Zenon
    <3> QED
      BY <3>1 DEF Follows
  <2> DEFINE g == [i \in 0 .. n + 1 |-> IF i <= n THEN f[i] ELSE Advance(body, choice, i, f[n])]
  <2>3. ASSUME NEW i \in 0 .. n + 1
        PROVE  g[i] = IF i = 0 THEN {Unbound} ELSE Advance(body, choice, i, g[i - 1])
    <3>1. CASE i = 0
      BY <2>2, <3>1
    <3>2. CASE i \in 1 .. n
      <4>1. g[i - 1] = f[i - 1] /\ g[i] = f[i] /\ i # 0
        BY <3>2
      <4> QED
        BY <2>2, <3>2, <4>1
    <3>3. CASE i = n + 1
      <4>1. g[i - 1] = f[n] /\ g[i] = Advance(body, choice, i, f[n]) /\ i # 0
        BY <3>3
      <4> QED
        BY <4>1
    <3> QED
      BY <3>1, <3>2, <3>3
  <2>4. Unfolds(body, choice, g, n + 1)
    <3>1. g = [i \in 0 .. n + 1 |-> g[i]]
      OBVIOUS
    <3> HIDE DEF g
    <3> QED
      BY <2>3, <3>1 DEF Unfolds
  <2> HIDE DEF g
  <2> QED
    BY <2>4
<1>3. Nat \subseteq T
  <2> HIDE DEF T
  <2> QED
    BY <1>1, <1>2, Inductive
<1>4. \E h : Unfolds(body, choice, h, Len(body))
  BY <1>3
<1>5. Matched(body, choice) = CHOOSE f : Unfolds(body, choice, f, Len(body))
  BY DEF Matched, Advance, Unfolds
<1>6. Unfolds(body, choice, Matched(body, choice), Len(body))
  BY <1>4, <1>5
<1> QED
  BY <1>6, Unfolded, Zenon

-----------------------------------------------------------------------------
(* Substitutions keep the sorts of variables apart. *)

IsSubst(subst) ==
  /\ DOMAIN subst \subseteq Var
  /\ \A v \in DOMAIN subst \cap TermVar : subst[v] \in Term \cup TermVar
  /\ \A v \in DOMAIN subst \cap TimeVar : subst[v] \in Time

LEMMA Resolved ==
  ASSUME NEW subst, IsSubst(subst)
  PROVE  /\ \A t \in Term \cup TermVar : Resolve(t, subst) \in Term \cup TermVar
         /\ \A t \in Time \cup TimeVar : Resolve(t, subst) \in Time \cup TimeVar
BY SortAssumption DEF IsSubst, Resolve, Var

LEMMA WindowParts ==
  ASSUME NEW win \in Window
  PROVE  /\ win = <<win[1], win[2]>> /\ win # NoWindow /\ DOMAIN win = {1, 2} /\ Len(win) = 2
         /\ win[1] \in Time \cup TimeVar /\ win[2] \in Time \cup TimeVar
         /\ win[1] \in Time /\ win[2] \in Time => win[1] <= win[2]
BY DEF Window, NoWindow

LEMMA IntervalWindow ==
  ASSUME NEW a \in Time \cup TimeVar, NEW b \in Time \cup TimeVar
  PROVE  /\ Interval(<<a, b>>) \in Window
         /\ <<a, b>> \in Window => Interval(<<a, b>>) = <<a, b>>
         /\ Interval(<<a, b>>) \in {<<a, b>>, <<b, a>>}
<1> DEFINE w == <<a, b>>
<1>1. w # NoWindow /\ w[1] = a /\ w[2] = b
  BY DEF NoWindow
<1>2. CASE {a, b} \subseteq Time /\ a > b
  <2>1. Interval(w) = <<b, a>>
    BY <1>1, <1>2 DEF Interval
  <2>2. a \in Nat /\ b \in Nat /\ b <= a /\ ~ (a <= b)
    BY <1>2 DEF Time
  <2>3. <<b, a>> \in Window
    BY <2>2 DEF Window, Time
  <2>4. w \notin Window
    BY <1>2, <2>2 DEF Window
  <2> QED
    BY <2>1, <2>3, <2>4
<1>3. CASE ~ ({a, b} \subseteq Time /\ a > b)
  <2>1. Interval(w) = w
    BY <1>1, <1>3 DEF Interval
  <2>2. {a, b} \subseteq Time => a <= b
    BY <1>3 DEF Time
  <2>3. w \in Window
    BY <2>2 DEF Window
  <2> QED
    BY <2>1, <2>3
<1> QED
  BY <1>2, <1>3

LEMMA Applied ==
  ASSUME NEW l \in Pattern, NEW subst, IsSubst(subst)
  PROVE  /\ Apply(l, subst) \in Pattern
         /\ Len(Apply(l, subst).terms) = Len(l.terms)
         /\ DOMAIN Apply(l, subst).terms = DOMAIN l.terms
         /\ \A k \in DOMAIN l.terms : Apply(l, subst).terms[k] = Resolve(l.terms[k], subst)
         /\ l.win = NoWindow => Apply(l, subst).win = NoWindow
         /\ l.win # NoWindow =>
              /\ l.win \in Window /\ Apply(l, subst).win \in Window
              /\ Apply(l, subst).win =
                   Interval(<<Resolve(l.win[1], subst), Resolve(l.win[2], subst)>>)
<1>1. /\ l.terms \in Seq(Term \cup TermVar) /\ DOMAIN l.terms = 1 .. Len(l.terms)
      /\ Len(l.terms) \in Nat
  BY PatternParts
<1> DEFINE terms == [k \in DOMAIN l.terms |-> Resolve(l.terms[k], subst)]
           win == [k \in DOMAIN l.win |-> Resolve(l.win[k], subst)]
<1>2. Apply(l, subst) = [terms |-> terms, win |-> Interval(win)]
  BY DEF Apply
<1>3. terms \in [1 .. Len(l.terms) -> Term \cup TermVar]
  BY <1>1, Resolved
<1>4. terms \in Seq(Term \cup TermVar) /\ Len(terms) = Len(l.terms)
  BY <1>1, <1>3
<1>5. CASE l.win = NoWindow
  <2>1. win = << >>
    BY <1>5 DEF NoWindow
  <2>2. Interval(win) = NoWindow
    BY <2>1 DEF Interval, NoWindow
  <2> HIDE DEF win
  <2> QED
    BY <1>2, <1>4, <1>5, <2>2 DEF Pattern
<1>6. CASE l.win # NoWindow
  <2> DEFINE a == Resolve(l.win[1], subst)
             b == Resolve(l.win[2], subst)
  <2>1. l.win \in Window
    BY <1>6 DEF Pattern
  <2>2. DOMAIN l.win = {1, 2} /\ a \in Time \cup TimeVar /\ b \in Time \cup TimeVar
    BY <2>1, WindowParts, Resolved
  <2>3. win = <<a, b>>
    BY <2>2
  <2> HIDE DEF a, b, win
  <2>4. Interval(win) \in Window
    BY <2>2, <2>3, IntervalWindow
  <2>5. Apply(l, subst) \in Pattern
    BY <1>2, <1>4, <2>4 DEF Pattern
  <2> QED
    BY <1>2, <1>4, <1>6, <2>1, <2>3, <2>4, <2>5 DEF a, b
<1> QED
  BY <1>5, <1>6

LEMMA FirstIs ==
  ASSUME NEW s, NEW m \in Nat, DOMAIN s = 1 .. m, NEW v, \E k \in DOMAIN s : s[k] = v
  PROVE  First(s, v) \in DOMAIN s /\ s[First(s, v)] = v
<1> DEFINE T == {k \in DOMAIN s : s[k] = v}
<1>1. T \subseteq Nat /\ T # {}
  OBVIOUS
<1>2. PICK k \in T : \A j \in T : k <= j
  <2> HIDE DEF T
  <2> QED
    BY <1>1, Least
<1>3. \A j \in 1 .. k - 1 : j \in DOMAIN s /\ ~ (k <= j)
  BY <1>2
<1>4. k \in DOMAIN s /\ s[k] = v /\ \A j \in 1 .. k - 1 : s[j] # v
  BY <1>2, <1>3
<1> QED
  BY <1>4 DEF First

LEMMA BindingsOf ==
  ASSUME NEW l \in Pattern, NEW fact \in Pattern, Timed(fact), MatchLiteral(l, fact)
  PROVE  /\ IsSubst(Bindings(l, fact)) /\ DOMAIN Bindings(l, fact) = Variables(l)
         /\ DOMAIN l.terms = DOMAIN fact.terms
         /\ l.win # NoWindow => l.win \in Window /\ fact.win \in Window
         /\ \A v \in Variables(l) :
              \/ /\ v \in TermVar
                 /\ \E k \in DOMAIN l.terms : l.terms[k] = v /\ Bindings(l, fact)[v] = fact.terms[k]
              \/ /\ v \in TimeVar
                 /\ \E k \in DOMAIN l.win : l.win[k] = v /\ Bindings(l, fact)[v] = fact.win[k]
<1>1. /\ DOMAIN l.terms = 1 .. Len(l.terms) /\ Len(l.terms) \in Nat
      /\ DOMAIN l.win = 1 .. Len(l.win) /\ Len(l.win) \in Nat
      /\ DOMAIN fact.terms = 1 .. Len(fact.terms)
      /\ \A k \in DOMAIN fact.terms : fact.terms[k] \in Term \cup TermVar
      /\ \A k \in DOMAIN fact.win : fact.win[k] \in Time \cup TimeVar
  BY PatternParts
<1>2. DOMAIN l.terms = DOMAIN fact.terms
  BY <1>1 DEF MatchLiteral
<1>3. l.win # NoWindow => l.win \in Window /\ fact.win \in Window
  BY DEF MatchLiteral, Pattern
<1>4. \A k \in DOMAIN l.win : k \in DOMAIN fact.win
  <2>1. CASE l.win = NoWindow
    BY <2>1 DEF NoWindow
  <2>2. CASE l.win # NoWindow
    BY <1>3, <2>2, WindowParts
  <2> QED
    BY <2>1, <2>2
<1> DEFINE b == Bindings(l, fact)
<1>5. /\ DOMAIN b = Variables(l)
      /\ \A v \in Variables(l) : b[v] = IF v \in TermVar THEN fact.terms[First(l.terms, v)]
                                                        ELSE fact.win[First(l.win, v)]
  BY DEF Bindings
<1> HIDE DEF b
<1>6. ASSUME NEW v \in Variables(l), v \in TermVar
      PROVE  \E k \in DOMAIN l.terms : l.terms[k] = v /\ b[v] = fact.terms[k]
  <2>1. v \in TermVars(l)
    BY <1>6, SortAssumption DEF Variables, TimeVars
  <2>2. \E k \in DOMAIN l.terms : l.terms[k] = v
    BY <2>1 DEF TermVars
  <2>3. First(l.terms, v) \in DOMAIN l.terms /\ l.terms[First(l.terms, v)] = v
    BY <1>1, <2>2, FirstIs
  <2> QED
    BY <1>5, <1>6, <2>3
<1>7. ASSUME NEW v \in Variables(l), v \notin TermVar
      PROVE  v \in TimeVar /\ \E k \in DOMAIN l.win : l.win[k] = v /\ b[v] = fact.win[k]
  <2>1. v \in TimeVars(l) /\ v \in TimeVar
    BY <1>7 DEF Variables, TermVars, TimeVars
  <2>2. \E k \in DOMAIN l.win : l.win[k] = v
    BY <2>1 DEF TimeVars
  <2>3. First(l.win, v) \in DOMAIN l.win /\ l.win[First(l.win, v)] = v
    BY <1>1, <2>2, FirstIs
  <2> QED
    BY <1>5, <1>7, <2>1, <2>3
<1>8. IsSubst(b)
  <2>1. Variables(l) \subseteq Var
    BY DEF Variables, TermVars, TimeVars, Var
  <2>2. \A v \in Variables(l) \cap TermVar : b[v] \in Term \cup TermVar
    BY <1>1, <1>2, <1>6
  <2>3. \A v \in Variables(l) \cap TimeVar : b[v] \in Time
    BY <1>1, <1>4, <1>7, SortAssumption DEF Timed, Var
  <2> QED
    BY <1>5, <2>1, <2>2, <2>3 DEF IsSubst
<1> QED
  BY <1>2, <1>3, <1>5, <1>6, <1>7, <1>8 DEF b

LEMMA AppliedVariables ==
  ASSUME NEW l \in Pattern, NEW subst, IsSubst(subst)
  PROVE  Variables(l) \subseteq DOMAIN subst \cup Variables(Apply(l, subst))
<1> DEFINE m == Apply(l, subst)
<1>1. /\ DOMAIN m.terms = DOMAIN l.terms
      /\ \A k \in DOMAIN l.terms : m.terms[k] = Resolve(l.terms[k], subst)
      /\ l.win # NoWindow =>
           /\ l.win \in Window /\ m.win \in Window
           /\ m.win = Interval(<<Resolve(l.win[1], subst), Resolve(l.win[2], subst)>>)
  BY Applied
<1> HIDE DEF m
<1>2. ASSUME NEW v \in TermVars(l), v \notin DOMAIN subst PROVE v \in TermVars(m)
  <2>1. PICK k \in DOMAIN l.terms : l.terms[k] = v
    BY <1>2 DEF TermVars
  <2>2. m.terms[k] = v
    BY <1>1, <1>2, <2>1 DEF Resolve
  <2> QED
    BY <1>1, <1>2, <2>1, <2>2 DEF TermVars
<1>3. ASSUME NEW v \in TimeVars(l), v \notin DOMAIN subst PROVE v \in TimeVars(m)
  <2>1. PICK k \in DOMAIN l.win : l.win[k] = v
    BY <1>3 DEF TimeVars
  <2>2. l.win # NoWindow
    BY <2>1 DEF NoWindow
  <2> DEFINE a == Resolve(l.win[1], subst)
             b == Resolve(l.win[2], subst)
  <2>3. k \in {1, 2} /\ a \in Time \cup TimeVar /\ b \in Time \cup TimeVar /\ DOMAIN m.win = {1, 2}
    BY <1>1, <2>1, <2>2, WindowParts, Resolved
  <2>4. v = a \/ v = b
    BY <1>3, <2>1, <2>3 DEF Resolve
  <2> HIDE DEF a, b
  <2>5. m.win \in {<<a, b>>, <<b, a>>}
    BY <1>1, <2>2, <2>3, IntervalWindow DEF a, b
  <2>6. \E j \in DOMAIN m.win : m.win[j] = v
    BY <2>3, <2>4, <2>5
  <2> QED
    BY <1>3, <2>6 DEF TimeVars
<1> QED
  BY <1>2, <1>3 DEF Variables, m

-----------------------------------------------------------------------------
(* Matching from left to right binds more and more, and what it has bound  *)
(* stays bound, to an equal term or to the same instant.                   *)

Refines(later, subst) ==
  /\ DOMAIN subst \subseteq DOMAIN later
  /\ \A v \in DOMAIN subst : Same(subst[v], later[v])
  /\ \A v \in DOMAIN subst \cap TimeVar : later[v] = subst[v]

Binds(item, subst) ==
  /\ item.op = "match" => Variables(item.lit) \subseteq DOMAIN subst
  /\ item.op = "bind" => item.to \in DOMAIN subst

LEMMA SameAsEqual ==
  /\ \A a : Same(a, a)
  /\ \A a, b : Same(a, b) => Same(b, a)
  /\ \A a, b, c : Same(a, b) /\ Same(b, c) => Same(a, c)
BY DEF Same

LEMMA Merged ==
  ASSUME NEW subst, NEW new
  PROVE  /\ DOMAIN Merge(subst, new) = DOMAIN subst \cup DOMAIN new
         /\ \A v \in DOMAIN subst : Merge(subst, new)[v] = subst[v]
         /\ \A v \in DOMAIN new \ DOMAIN subst : Merge(subst, new)[v] = new[v]
         /\ IsSubst(subst) /\ IsSubst(new) => IsSubst(Merge(subst, new))
<1> DEFINE m == Merge(subst, new)
<1>1. /\ DOMAIN m = DOMAIN subst \cup DOMAIN new
      /\ \A v \in DOMAIN subst : m[v] = subst[v]
      /\ \A v \in DOMAIN new \ DOMAIN subst : m[v] = new[v]
  BY DEF Merge
<1> HIDE DEF m
<1>2. IsSubst(subst) /\ IsSubst(new) => IsSubst(m)
  BY <1>1 DEF IsSubst
<1> QED
  BY <1>1, <1>2 DEF m

LEMMA ExtendedMatch ==
  ASSUME NEW item, item.op = "match", item.lit \in Pattern, NEW subst, IsSubst(subst),
         NEW fact \in Pattern, Timed(fact), NEW later \in Extend(item, subst, fact),
         NEW l, l = Apply(item.lit, subst)
  PROVE  /\ l \in Pattern /\ MatchLiteral(l, fact)
         /\ later = Merge(subst, Bindings(l, fact))
         /\ DOMAIN later = DOMAIN subst \cup Variables(l)
         /\ \A v \in DOMAIN subst : later[v] = subst[v]
         /\ \A v \in Variables(l) \ DOMAIN subst : later[v] = Bindings(l, fact)[v]
<1>1. l \in Pattern
  BY Applied
<1>2. MatchLiteral(l, fact) /\ later = Merge(subst, Bindings(l, fact))
  BY DEF Extend
<1>3. DOMAIN Bindings(l, fact) = Variables(l)
  BY <1>1, <1>2, BindingsOf
<1> DEFINE new == Bindings(l, fact)
<1>4. later = Merge(subst, new) /\ DOMAIN new = Variables(l)
  BY <1>2, <1>3
<1> HIDE DEF new
<1>5. /\ DOMAIN later = DOMAIN subst \cup Variables(l)
      /\ \A v \in DOMAIN subst : later[v] = subst[v]
      /\ \A v \in Variables(l) \ DOMAIN subst : later[v] = new[v]
  <2>1. /\ DOMAIN Merge(subst, new) = DOMAIN subst \cup DOMAIN new
        /\ \A v \in DOMAIN subst : Merge(subst, new)[v] = subst[v]
        /\ \A v \in DOMAIN new \ DOMAIN subst : Merge(subst, new)[v] = new[v]
    BY Merged, Zenon
  <2> QED
    BY <1>4, <2>1, Zenon
<1> QED
  BY <1>1, <1>2, <1>5 DEF new

LEMMA ExtendedBind ==
  ASSUME NEW item, item.op = "bind", IsItem(item), NEW subst, IsSubst(subst), NEW fact,
         NEW later \in Extend(item, subst, fact)
  PROVE  /\ DOMAIN later = DOMAIN subst \cup {item.to}
         /\ later[item.to] \in Term /\ item.to \in TermVar
         /\ \A v \in DOMAIN subst \ {item.to} : later[v] = subst[v]
         /\ item.to \in DOMAIN subst => Same(subst[item.to], later[item.to])
<1> DEFINE term == Resolve(item.from, subst)
           new == [v \in {item.to} |-> item.fun[term]]
<1>1. /\ item.to \in TermVar
      /\ \A t \in DOMAIN item.fun : item.fun[t] \in Term
  BY DEF IsItem
<1>2. /\ later = Merge(new, subst) /\ term \in DOMAIN item.fun
      /\ item.to \in DOMAIN subst => Same(subst[item.to], item.fun[term])
  BY DEF Extend
<1>3. DOMAIN new = {item.to} /\ new[item.to] = item.fun[term]
  OBVIOUS
<1> HIDE DEF new
<1>4. /\ DOMAIN later = {item.to} \cup DOMAIN subst
      /\ later[item.to] = item.fun[term]
      /\ \A v \in DOMAIN subst \ {item.to} : later[v] = subst[v]
  <2>1. /\ DOMAIN Merge(new, subst) = DOMAIN new \cup DOMAIN subst
        /\ \A v \in DOMAIN new : Merge(new, subst)[v] = new[v]
        /\ \A v \in DOMAIN subst \ DOMAIN new : Merge(new, subst)[v] = subst[v]
    BY Merged, Zenon
  <2> QED
    BY <1>2, <1>3, <2>1
<1> HIDE DEF term
<1>5. later[item.to] \in Term
  BY <1>1, <1>2, <1>4
<1>6. DOMAIN later = DOMAIN subst \cup {item.to}
  BY <1>4
<1>7. item.to \in DOMAIN subst => Same(subst[item.to], later[item.to])
  BY <1>2, <1>4
<1> QED
  BY <1>1, <1>4, <1>5, <1>6, <1>7

LEMMA Extended ==
  ASSUME NEW item, IsItem(item), NEW subst, IsSubst(subst),
         NEW fact, item.op = "match" => fact \in Pattern /\ Timed(fact),
         NEW later \in Extend(item, subst, fact)
  PROVE  IsSubst(later) /\ Refines(later, subst) /\ Binds(item, later)
<1>0. item.op \in {"match", "deny", "bind"} /\ (item.op # "bind" => item.lit \in Pattern)
  BY DEF IsItem
<1>1. CASE item.op = "match"
  <2> PICK l : l = Apply(item.lit, subst)
    OBVIOUS
  <2>1. /\ l \in Pattern /\ MatchLiteral(l, fact)
        /\ later = Merge(subst, Bindings(l, fact))
        /\ DOMAIN later = DOMAIN subst \cup Variables(l)
        /\ \A v \in DOMAIN subst : later[v] = subst[v]
    BY <1>0, <1>1, ExtendedMatch
  <2>2. IsSubst(Bindings(l, fact))
    BY <1>1, <2>1, BindingsOf
  <2>3. IsSubst(later)
    BY <2>1, <2>2, Merged
  <2>4. Variables(item.lit) \subseteq DOMAIN later
    BY <1>0, <1>1, <2>1, AppliedVariables
  <2>5. Refines(later, subst)
    BY <2>1, SameAsEqual DEF Refines
  <2> QED
    BY <1>1, <2>3, <2>4, <2>5 DEF Binds
<1>2. CASE item.op = "bind"
  <2>1. /\ DOMAIN later = DOMAIN subst \cup {item.to}
        /\ later[item.to] \in Term /\ item.to \in TermVar
        /\ \A v \in DOMAIN subst \ {item.to} : later[v] = subst[v]
        /\ item.to \in DOMAIN subst => Same(subst[item.to], later[item.to])
    BY <1>2, ExtendedBind
  <2>2. item.to \in Var /\ item.to \notin TimeVar
    BY <2>1, SortAssumption DEF Var
  <2>3. IsSubst(later)
    BY <2>1, <2>2 DEF IsSubst
  <2>4. Refines(later, subst)
    BY <2>1, <2>2, SameAsEqual DEF Refines
  <2> QED
    BY <1>2, <2>1, <2>3, <2>4 DEF Binds
<1>3. CASE item.op = "deny"
  <2>1. later = subst
    BY <1>3 DEF Extend
  <2> QED
    BY <1>3, <2>1, SameAsEqual DEF Refines, Binds
<1> QED
  BY <1>0, <1>1, <1>2, <1>3

(* A literal whose variables are bound to terms and instants of a fact, up *)
(* to the types of numbers.                                                *)

Grounds(subst) == \A v \in DOMAIN subst \cap TermVar : subst[v] \in Term

Fits(l, subst, fact) ==
  /\ DOMAIN l.terms = DOMAIN fact.terms
  /\ \A k \in DOMAIN l.terms : Same(Resolve(l.terms[k], subst), fact.terms[k])
  /\ l.win # NoWindow => fact.win # NoWindow /\ Apply(l, subst).win = fact.win

(* An endpoint of a window, before and after it is matched with an instant. *)
LEMMA EndpointFits ==
  ASSUME NEW l \in Pattern, l.win # NoWindow, NEW subst, IsSubst(subst),
         NEW fact \in Pattern, Timed(fact), MatchLiteral(l, fact),
         NEW t \in Time \cup TimeVar, NEW k \in {1, 2}, l.win[k] = Resolve(t, subst)
  PROVE  Resolve(t, Merge(subst, Bindings(l, fact))) = fact.win[k]
<1> DEFINE new == Bindings(l, fact)
           later == Merge(subst, new)
<1>1. l.win \in Window /\ fact.win \in Window /\ DOMAIN l.win = {1, 2}
  BY BindingsOf, WindowParts
<1>2. DOMAIN new = Variables(l)
  BY BindingsOf
<1>3. /\ DOMAIN later = DOMAIN subst \cup Variables(l)
      /\ \A v \in DOMAIN subst : later[v] = subst[v]
      /\ \A v \in Variables(l) \ DOMAIN subst : later[v] = new[v]
  <2> HIDE DEF new
  <2>1. DOMAIN Merge(subst, new) = DOMAIN subst \cup DOMAIN new
    BY Merged, Zenon
  <2>2. \A v \in DOMAIN subst : Merge(subst, new)[v] = subst[v]
    BY Merged, Zenon
  <2>3. \A v \in DOMAIN new \ DOMAIN subst : Merge(subst, new)[v] = new[v]
    BY Merged, Zenon
  <2> QED
    BY <1>2, <2>1, <2>2, <2>3, Zenon
<1> HIDE DEF later
<1>4. /\ l.win[k] \in Var \/ l.win[k] = fact.win[k]
      /\ \A j \in {1, 2} : l.win[j] \in Var /\ l.win[j] = l.win[k] => fact.win[j] = fact.win[k]
  BY <1>1 DEF MatchLiteral
<1>5. CASE t \in DOMAIN subst
  <2>1. t \in TimeVar /\ subst[t] \in Time
    BY <1>5, SortAssumption DEF IsSubst, Var
  <2>2. l.win[k] = subst[t] /\ later[t] = subst[t] /\ l.win[k] \notin Var
    BY <1>3, <1>5, <2>1, SortAssumption DEF Resolve
  <2> QED
    BY <1>3, <1>4, <1>5, <2>2 DEF Resolve, later
<1>6. CASE t \notin DOMAIN subst /\ t \in TimeVar
  <2>1. l.win[k] = t /\ t \in TimeVars(l) /\ t \in Variables(l)
    BY <1>1, <1>6 DEF Resolve, TimeVars, Variables
  <2>2. t \notin TermVar
    BY <1>6, SortAssumption
  <2>3. PICK j \in DOMAIN l.win : l.win[j] = t /\ new[t] = fact.win[j]
    BY <2>1, <2>2, BindingsOf
  <2>4. fact.win[j] = fact.win[k]
    BY <1>1, <1>4, <1>6, <2>1, <2>3 DEF Var
  <2>5. later[t] = fact.win[k] /\ t \in DOMAIN later
    BY <1>3, <1>6, <2>1, <2>3, <2>4
  <2> QED
    BY <2>5 DEF Resolve, later
<1>7. CASE t \notin DOMAIN subst /\ t \notin TimeVar
  <2>1. t \in Time /\ t \notin Var
    BY <1>7, SortAssumption
  <2>2. t \notin DOMAIN later
    BY <1>3, <2>1 DEF IsSubst, Variables, TermVars, TimeVars, Var
  <2>3. l.win[k] = t
    BY <1>7 DEF Resolve
  <2> QED
    BY <1>4, <2>1, <2>2, <2>3 DEF Resolve, later
<1> QED
  BY <1>5, <1>6, <1>7

LEMMA WindowFits ==
  ASSUME NEW l \in Pattern, l.win # NoWindow, NEW subst, IsSubst(subst),
         NEW fact \in Pattern, Timed(fact), NEW m, m = Apply(l, subst), MatchLiteral(m, fact)
  PROVE  fact.win # NoWindow /\ Apply(l, Merge(subst, Bindings(m, fact))).win = fact.win
<1> DEFINE later == Merge(subst, Bindings(m, fact))
           a == Resolve(l.win[1], subst)
           b == Resolve(l.win[2], subst)
           c == Resolve(l.win[1], later)
           d == Resolve(l.win[2], later)
<1>1. /\ m \in Pattern /\ l.win \in Window /\ m.win \in Window
      /\ m.win = Interval(<<a, b>>)
  BY Applied
<1>2. /\ l.win[1] \in Time \cup TimeVar /\ l.win[2] \in Time \cup TimeVar
      /\ a \in Time \cup TimeVar /\ b \in Time \cup TimeVar
  BY <1>1, WindowParts, Resolved
<1>3. /\ fact.win \in Window /\ fact.win = <<fact.win[1], fact.win[2]>>
      /\ fact.win[1] \in Time /\ fact.win[2] \in Time /\ m.win # NoWindow
      /\ m.win = <<m.win[1], m.win[2]>> /\ fact.win # NoWindow
  <2>1. m.win # NoWindow
    BY <1>1, WindowParts
  <2>2. fact.win \in Window
    BY <1>1, <2>1, BindingsOf
  <2>3. DOMAIN fact.win = {1, 2} /\ fact.win[1] \in Time \cup TimeVar /\ fact.win[2] \in Time \cup TimeVar
    BY <2>2, WindowParts
  <2>4. fact.win[1] \in Time /\ fact.win[2] \in Time
    BY <2>3 DEF Timed, Var
  <2> QED
    BY <1>1, <2>1, <2>2, <2>4, WindowParts
<1>4. IsSubst(later)
  <2>1. IsSubst(Bindings(m, fact))
    BY <1>1, BindingsOf
  <2> QED
    BY <2>1, Merged
<1>5. Apply(l, later).win = Interval(<<c, d>>)
  BY <1>4, Applied
<1>6. CASE {a, b} \subseteq Time
  <2>1. c = a /\ d = b
    <3>1. \A t \in Time \cup TimeVar : Resolve(t, subst) \in Time => Resolve(t, later) = Resolve(t, subst)
      <4> TAKE t \in Time \cup TimeVar
      <4> HAVE Resolve(t, subst) \in Time
      <4>1. \A v \in DOMAIN subst : v \in DOMAIN later /\ later[v] = subst[v]
        <5> DEFINE new == Bindings(m, fact)
        <5> HIDE DEF new
        <5>1. /\ DOMAIN Merge(subst, new) = DOMAIN subst \cup DOMAIN new
              /\ \A v \in DOMAIN subst : Merge(subst, new)[v] = subst[v]
          BY Merged, Zenon
        <5>2. later = Merge(subst, new)
          BY DEF new
        <5> QED
          BY <5>1, <5>2
      <4>2. CASE t \in DOMAIN subst
        BY <4>1, <4>2 DEF Resolve
      <4>3. CASE t \notin DOMAIN subst
        <5>1. t \in Time /\ t \notin Var
          BY <4>3, SortAssumption DEF Resolve
        <5>2. t \notin DOMAIN later
          BY <1>4, <5>1 DEF IsSubst
        <5> QED
          BY <4>3, <5>2 DEF Resolve
      <4> QED
        BY <4>2, <4>3
    <3> QED
      BY <1>2, <1>6, <3>1
  <2>2. m.win = Interval(<<c, d>>)
    BY <1>1, <2>1
  <2>3. m.win \in {<<a, b>>, <<b, a>>}
    BY <1>1, <1>2, IntervalWindow
  <2>4. m.win[1] \in Time /\ m.win[2] \in Time
    BY <1>6, <2>3
  <2>5. m.win[1] \notin Var /\ m.win[2] \notin Var
    BY <2>4, SortAssumption
  <2>6. m.win[1] = fact.win[1] /\ m.win[2] = fact.win[2]
    BY <1>1, <2>5, WindowParts DEF MatchLiteral
  <2> QED
    BY <1>3, <1>5, <2>2, <2>6
<1>7. CASE ~ ({a, b} \subseteq Time)
  <2>1. Interval(<<a, b>>) = <<a, b>>
    <3>1. <<a, b>>[1] = a /\ <<a, b>>[2] = b
      OBVIOUS
    <3> HIDE DEF a, b
    <3> QED
      BY <1>7, <3>1 DEF Interval
  <2>2. m.win[1] = a /\ m.win[2] = b
    BY <1>1, <2>1
  <2>3. c = fact.win[1] /\ d = fact.win[2]
    BY <1>1, <1>2, <1>3, <2>2, EndpointFits
  <2>4. Interval(<<c, d>>) = <<c, d>>
    BY <1>3, <2>3, IntervalWindow
  <2> QED
    BY <1>3, <1>5, <2>3, <2>4
<1> QED
  BY <1>3, <1>6, <1>7

LEMMA TermsFit ==
  ASSUME NEW l \in Pattern, NEW subst, IsSubst(subst), Grounds(subst),
         NEW fact \in Pattern, Free(fact), NEW m, m = Apply(l, subst), MatchLiteral(m, fact),
         NEW later, later = Merge(subst, Bindings(m, fact))
  PROVE  /\ Grounds(later) /\ DOMAIN l.terms = DOMAIN fact.terms
         /\ \A k \in DOMAIN l.terms : Same(Resolve(l.terms[k], later), fact.terms[k])
<1>1. /\ m \in Pattern /\ DOMAIN m.terms = DOMAIN l.terms
      /\ \A k \in DOMAIN l.terms : m.terms[k] = Resolve(l.terms[k], subst)
  BY Applied
<1>2. Timed(fact) /\ \A k \in DOMAIN fact.terms : fact.terms[k] \in Term
  BY PatternParts DEF Free, Timed, Var
<1> DEFINE new == Bindings(m, fact)
<1>3. /\ DOMAIN new = Variables(m) /\ DOMAIN m.terms = DOMAIN fact.terms /\ IsSubst(new)
      /\ \A v \in Variables(m) : v \in TermVar =>
           \E k \in DOMAIN m.terms : m.terms[k] = v /\ new[v] = fact.terms[k]
  BY <1>1, <1>2, BindingsOf, SortAssumption
<1>4. later = Merge(subst, new)
  OBVIOUS
<1> HIDE DEF new
<1>5. /\ DOMAIN later = DOMAIN subst \cup Variables(m)
      /\ \A v \in DOMAIN subst : later[v] = subst[v]
      /\ \A v \in Variables(m) \ DOMAIN subst : later[v] = new[v]
  <2>1. /\ DOMAIN Merge(subst, new) = DOMAIN subst \cup DOMAIN new
        /\ \A v \in DOMAIN subst : Merge(subst, new)[v] = subst[v]
        /\ \A v \in DOMAIN new \ DOMAIN subst : Merge(subst, new)[v] = new[v]
    BY Merged, Zenon
  <2> QED
    BY <1>3, <1>4, <2>1, Zenon
<1>6. ASSUME NEW v \in DOMAIN later \cap TermVar PROVE later[v] \in Term
  <2>1. CASE v \in DOMAIN subst
    BY <1>5, <2>1 DEF Grounds
  <2>2. CASE v \notin DOMAIN subst
    BY <1>2, <1>3, <1>5, <2>2
  <2> QED
    BY <2>1, <2>2
<1>7. ASSUME NEW k \in DOMAIN l.terms PROVE Same(Resolve(l.terms[k], later), fact.terms[k])
  <2> DEFINE t == l.terms[k]
  <2>1. /\ m.terms[k] = Resolve(t, subst) /\ k \in DOMAIN m.terms
        /\ m.terms[k] \in Var \/ Same(m.terms[k], fact.terms[k])
        /\ \A j \in DOMAIN m.terms :
             m.terms[j] \in Var /\ m.terms[j] = m.terms[k] => Same(fact.terms[j], fact.terms[k])
    BY <1>1 DEF MatchLiteral
  <2>2. t \in Term \cup TermVar
    BY PatternParts
  <2> HIDE DEF t
  <2>3. CASE t \in DOMAIN subst
    <3>1. t \in TermVar
      BY <2>2, <2>3, SortAssumption DEF IsSubst
    <3>2. subst[t] \in Term /\ subst[t] \notin Var
      BY <2>3, <3>1, SortAssumption DEF Grounds
    <3>3. Resolve(t, subst) = subst[t] /\ Resolve(t, later) = subst[t]
      BY <1>5, <2>3 DEF Resolve
    <3> QED
      BY <2>1, <3>2, <3>3 DEF t
  <2>4. CASE t \notin DOMAIN subst /\ t \in TermVar
    <3>1. m.terms[k] = t /\ t \in Variables(m) /\ t \in Var
      BY <2>1, <2>4 DEF Resolve, Variables, TermVars, Var
    <3>2. PICK j \in DOMAIN m.terms : m.terms[j] = t /\ new[t] = fact.terms[j]
      BY <1>3, <2>4, <3>1
    <3>3. Same(fact.terms[j], fact.terms[k])
      BY <2>1, <3>1, <3>2
    <3>4. Resolve(t, later) = fact.terms[j]
      BY <1>5, <2>4, <3>1, <3>2 DEF Resolve
    <3> QED
      BY <3>3, <3>4 DEF t
  <2>5. CASE t \notin DOMAIN subst /\ t \notin TermVar
    <3>1. t \in Term /\ t \notin Var
      BY <2>2, <2>5, SortAssumption
    <3>2. t \notin DOMAIN later
      BY <1>5, <3>1 DEF IsSubst, Variables, TermVars, TimeVars, Var
    <3>3. m.terms[k] = t /\ Resolve(t, later) = t
      BY <2>1, <2>5, <3>2 DEF Resolve
    <3> QED
      BY <2>1, <3>1, <3>3 DEF t
  <2> QED
    BY <2>3, <2>4, <2>5
<1> QED
  BY <1>1, <1>3, <1>6, <1>7 DEF Grounds

LEMMA ExtendedFree ==
  ASSUME NEW item, IsItem(item), NEW subst, IsSubst(subst), Grounds(subst),
         NEW fact, item.op = "match" => fact \in Pattern /\ Free(fact),
         NEW later \in Extend(item, subst, fact)
  PROVE  Grounds(later) /\ (item.op = "match" => Fits(item.lit, later, fact))
<1>0. item.op \in {"match", "deny", "bind"} /\ (item.op # "bind" => item.lit \in Pattern)
  BY DEF IsItem
<1>1. CASE item.op = "match"
  <2>1. PICK m : m = Apply(item.lit, subst)
    OBVIOUS
  <2>2. fact \in Pattern /\ item.lit \in Pattern /\ Timed(fact)
    BY <1>0, <1>1 DEF Free, Timed
  <2>3. /\ m \in Pattern /\ MatchLiteral(m, fact)
        /\ later = Merge(subst, Bindings(m, fact))
        /\ DOMAIN later = DOMAIN subst \cup Variables(m)
        /\ \A v \in DOMAIN subst : later[v] = subst[v]
        /\ \A v \in Variables(m) \ DOMAIN subst : later[v] = Bindings(m, fact)[v]
    BY <1>1, <2>1, <2>2, ExtendedMatch
  <2>4. /\ Grounds(later) /\ DOMAIN item.lit.terms = DOMAIN fact.terms
        /\ \A k \in DOMAIN item.lit.terms : Same(Resolve(item.lit.terms[k], later), fact.terms[k])
    BY <1>0, <1>1, <2>1, <2>3, TermsFit
  <2>5. item.lit.win # NoWindow => fact.win # NoWindow /\ Apply(item.lit, later).win = fact.win
    BY <1>0, <1>1, <2>1, <2>2, <2>3, WindowFits
  <2> QED
    BY <1>1, <2>4, <2>5 DEF Fits
<1>2. CASE item.op = "bind"
  <2>1. /\ DOMAIN later = DOMAIN subst \cup {item.to}
        /\ later[item.to] \in Term /\ item.to \in TermVar
        /\ \A v \in DOMAIN subst \ {item.to} : later[v] = subst[v]
        /\ item.to \in DOMAIN subst => Same(subst[item.to], later[item.to])
    BY <1>2, ExtendedBind
  <2> QED
    BY <1>2, <2>1 DEF Grounds
<1>3. CASE item.op = "deny"
  BY <1>3 DEF Extend
<1> QED
  BY <1>0, <1>1, <1>2, <1>3

LEMMA FitsKept ==
  ASSUME NEW l \in Pattern, NEW subst, IsSubst(subst), Variables(l) \subseteq DOMAIN subst,
         NEW fact, Fits(l, subst, fact), NEW later, IsSubst(later), Refines(later, subst)
  PROVE  Fits(l, later, fact)
<1>1. ASSUME NEW k \in DOMAIN l.terms PROVE Same(Resolve(l.terms[k], later), fact.terms[k])
  <2> DEFINE t == l.terms[k]
  <2>1. Same(Resolve(t, subst), fact.terms[k])
    BY DEF Fits
  <2>2. t \in Term \cup TermVar /\ (t \in TermVar => t \in DOMAIN subst)
    BY PatternParts DEF Variables, TermVars
  <2> HIDE DEF t
  <2>3. CASE t \in DOMAIN subst
    <3>1. Same(Resolve(t, subst), Resolve(t, later))
      BY <2>3 DEF Refines, Resolve
    <3>2. Same(Resolve(t, later), Resolve(t, subst))
      BY <3>1, SameAsEqual
    <3>3. Same(Resolve(t, later), fact.terms[k])
      BY <2>1, <3>2, SameAsEqual
    <3> QED
      BY <3>3 DEF t
  <2>4. CASE t \notin DOMAIN subst
    <3>1. t \notin DOMAIN later
      BY <2>2, <2>4, SortAssumption DEF IsSubst
    <3>2. Resolve(t, later) = Resolve(t, subst)
      BY <2>4, <3>1 DEF Resolve
    <3> QED
      BY <2>1, <3>2 DEF t
  <2> QED
    BY <2>3, <2>4
<1>2. ASSUME l.win # NoWindow PROVE Apply(l, later).win = Apply(l, subst).win
  <2>1. l.win \in Window
    BY <1>2 DEF Pattern
  <2>2. ASSUME NEW k \in {1, 2} PROVE Resolve(l.win[k], later) = Resolve(l.win[k], subst)
    <3>1. /\ l.win[k] \in Time \cup TimeVar
          /\ l.win[k] \in TimeVar => l.win[k] \in DOMAIN subst
      BY <2>1, WindowParts DEF Variables, TimeVars
    <3>2. CASE l.win[k] \in TimeVar
      BY <3>1, <3>2 DEF Refines, Resolve
    <3>3. CASE l.win[k] \notin TimeVar
      <4>1. l.win[k] \notin Var
        BY <3>1, <3>3, SortAssumption
      <4> QED
        BY <4>1 DEF IsSubst, Resolve
    <3> QED
      BY <3>2, <3>3
  <2>3. /\ Resolve(l.win[1], later) = Resolve(l.win[1], subst)
        /\ Resolve(l.win[2], later) = Resolve(l.win[2], subst)
    BY <2>2
  <2>4. \A other : IsSubst(other) =>
          Apply(l, other).win = Interval(<<Resolve(l.win[1], other), Resolve(l.win[2], other)>>)
    BY <1>2, Applied
  <2> QED
    BY <2>3, <2>4
<1> QED
  BY <1>1, <1>2 DEF Fits

(* What a substitution does for the first premises of a body.              *)
Bound(body, choice, i, subst) ==
  /\ IsSubst(subst)
  /\ \A j \in 1 .. i : Binds(body[j], subst)
  /\ (\A h \in Matching(body) : Free(choice[h])) =>
       /\ Grounds(subst)
       /\ \A j \in 1 .. i : body[j].op = "match" => Fits(body[j].lit, subst, choice[j])

(* A body and a choice of facts that can be matched.                       *)
Matchable(body, choice) ==
  /\ Len(body) \in Nat /\ DOMAIN body = 1 .. Len(body)
  /\ \A i \in DOMAIN body : IsItem(body[i])
  /\ \A i \in Matching(body) : choice[i] \in Pattern /\ Timed(choice[i])

LEMMA BoundAdvance ==
  ASSUME NEW body, NEW choice, Matchable(body, choice), NEW i \in Nat, i + 1 \in DOMAIN body,
         NEW subst, Bound(body, choice, i, subst),
         NEW later, later \in Extend(body[i + 1], subst, IF body[i + 1].op = "match"
                                                      THEN choice[i + 1] ELSE NoWindow)
  PROVE  Bound(body, choice, i + 1, later)
<1> DEFINE item == body[i + 1]
           fact == IF body[i + 1].op = "match" THEN choice[i + 1] ELSE NoWindow
<1>1. /\ IsItem(item) /\ later \in Extend(item, subst, fact)
      /\ item.op = "match" => /\ fact \in Pattern /\ Timed(fact) /\ fact = choice[i + 1]
                              /\ i + 1 \in Matching(body)
  BY DEF Matchable, Matching, Slots
<1> HIDE DEF item, fact
<1>2. IsSubst(subst)
  BY DEF Bound
<1>3. IsSubst(later) /\ Refines(later, subst) /\ Binds(item, later)
  BY <1>1, <1>2, Extended
<1>4. \A j \in 1 .. i + 1 : j \in 1 .. i \/ j = i + 1
  OBVIOUS
<1>5. \A j \in 1 .. i : Binds(body[j], later)
  BY <1>3 DEF Bound, Binds, Refines
<1>6. ASSUME \A h \in Matching(body) : Free(choice[h])
      PROVE  /\ Grounds(later)
             /\ \A j \in 1 .. i + 1 : body[j].op = "match" => Fits(body[j].lit, later, choice[j])
  <2>1. Grounds(subst)
    BY <1>6 DEF Bound
  <2>2. item.op = "match" => fact \in Pattern /\ Free(fact)
    BY <1>1, <1>6
  <2>3. Grounds(later) /\ (item.op = "match" => Fits(item.lit, later, fact))
    BY <1>1, <1>2, <2>1, <2>2, ExtendedFree
  <2>4. ASSUME NEW j \in 1 .. i, body[j].op = "match" PROVE Fits(body[j].lit, later, choice[j])
    <3>1. j \in DOMAIN body /\ IsItem(body[j])
      <4>1. j \in 1 .. i + 1
        OBVIOUS
      <4> QED
        BY <4>1 DEF Matchable
    <3>2. body[j].lit \in Pattern
      BY <2>4, <3>1 DEF IsItem
    <3>3. Fits(body[j].lit, subst, choice[j]) /\ Variables(body[j].lit) \subseteq DOMAIN subst
      BY <1>6, <2>4 DEF Bound, Binds
    <3> QED
      BY <1>2, <1>3, <3>2, <3>3, FitsKept
  <2>5. item.op = "match" => Fits(item.lit, later, choice[i + 1])
    BY <1>1, <2>3
  <2> QED
    BY <1>4, <2>3, <2>4, <2>5 DEF item
<1> QED
  BY <1>3, <1>4, <1>5, <1>6 DEF Bound, item

LEMMA MatchedBound ==
  ASSUME NEW body, NEW choice, Matchable(body, choice)
  PROVE  \A subst \in Matched(body, choice)[Len(body)] : Bound(body, choice, Len(body), subst)
<1> DEFINE T == {n \in Nat : n <= Len(body) =>
                   \A subst \in Matched(body, choice)[n] : Bound(body, choice, n, subst)}
<1>0. Len(body) \in Nat /\ DOMAIN body = 1 .. Len(body)
  BY DEF Matchable
<1>1. 0 \in T
  <2>1. Bound(body, choice, 0, Unbound)
    <3>1. DOMAIN Unbound = {}
      BY DEF Unbound
    <3>2. 1 .. 0 = {}
      OBVIOUS
    <3> QED
      BY <3>1, <3>2 DEF Bound, IsSubst, Grounds
  <2>2. Matched(body, choice)[0] = {Unbound}
    BY <1>0, MatchedSteps DEF Follows
  <2> QED
    BY <2>1, <2>2
<1>2. ASSUME NEW n \in Nat, n \in T PROVE n + 1 \in T
  <2> SUFFICES ASSUME n + 1 <= Len(body), NEW later \in Matched(body, choice)[n + 1]
               PROVE  Bound(body, choice, n + 1, later)
    OBVIOUS
  <2>1. n + 1 \in 1 .. Len(body) /\ (n + 1) - 1 = n /\ n <= Len(body)
    BY <1>0
  <2>2. Matched(body, choice)[n + 1] = Advance(body, choice, n + 1, Matched(body, choice)[n])
    BY <1>0, <2>1, MatchedSteps DEF Follows
  <2>3. PICK subst \in Matched(body, choice)[n] :
          later \in Extend(body[n + 1], subst, IF body[n + 1].op = "match"
                                               THEN choice[n + 1] ELSE NoWindow)
    BY <2>2 DEF Advance
  <2>4. Bound(body, choice, n, subst)
    BY <1>2, <2>1
  <2> QED
    BY <1>0, <2>1, <2>3, <2>4, BoundAdvance
<1>3. Nat \subseteq T
  <2> HIDE DEF T
  <2> QED
    BY <1>1, <1>2, Inductive
<1> QED
  BY <1>0, <1>3

(* The substitutions of a body bind all its variables.                     *)
LEMMA SubstitutionsBound ==
  ASSUME NEW rule, IsRule(rule), NEW choice,
         \A i \in Matching(rule.body) : choice[i] \in Pattern /\ Timed(choice[i]),
         NEW subst \in Substitutions(rule.body, choice)
  PROVE  /\ IsSubst(subst)
         /\ \A i \in Slots(rule.body, {"match", "deny"}) :
              Variables(rule.body[i].lit) \subseteq DOMAIN subst
         /\ BodyVars(rule) \subseteq DOMAIN subst
         /\ (\A i \in Matching(rule.body) : Free(choice[i])) =>
              /\ Grounds(subst)
              /\ \A i \in Matching(rule.body) : Fits(rule.body[i].lit, subst, choice[i])
<1> DEFINE body == rule.body
<1>1. DOMAIN body = 1 .. Len(body) /\ Len(body) \in Nat /\ \A i \in DOMAIN body : IsItem(body[i])
  BY RuleParts DEF IsRule
<1>2. /\ subst \in Matched(body, choice)[Len(body)]
      /\ \A i \in Slots(body, {"deny"}) : Variables(Apply(body[i].lit, subst)) = {}
  BY DEF Substitutions
<1>3. \A i \in Matching(body) : choice[i] \in Pattern /\ Timed(choice[i])
  OBVIOUS
<1> HIDE DEF body
<1>4. Bound(body, choice, Len(body), subst)
  BY <1>1, <1>2, <1>3, MatchedBound DEF Matchable
<1>5. \A i \in DOMAIN body : Binds(body[i], subst)
  BY <1>1, <1>4 DEF Bound
<1>6. \A i \in Slots(body, {"match", "deny"}) : Variables(body[i].lit) \subseteq DOMAIN subst
  <2>1. ASSUME NEW i \in Slots(body, {"deny"}) PROVE Variables(body[i].lit) \subseteq DOMAIN subst
    <3>1. body[i].lit \in Pattern
      BY <1>1, <2>1 DEF Slots, IsItem
    <3>2. IsSubst(subst)
      BY <1>4 DEF Bound
    <3> QED
      BY <1>2, <2>1, <3>1, <3>2, AppliedVariables
  <2> QED
    BY <2>1, <1>5 DEF Binds, Slots
<1>7. \A i \in Slots(body, {"bind"}) : body[i].to \in DOMAIN subst
  BY <1>5 DEF Binds, Slots
<1>8. BodyVars(rule) \subseteq DOMAIN subst
  BY <1>6, <1>7 DEF BodyVars, Variables, body
<1>9. \A i \in Matching(body) : i \in 1 .. Len(body) /\ body[i].op = "match"
  BY <1>1 DEF Matching, Slots
<1>10. (\A i \in Matching(body) : Free(choice[i])) =>
         /\ Grounds(subst)
         /\ \A i \in Matching(body) : Fits(body[i].lit, subst, choice[i])
  BY <1>4, <1>9 DEF Bound
<1> QED
  BY <1>4, <1>6, <1>8, <1>10 DEF body, Bound

-----------------------------------------------------------------------------
(* Instances. *)

(* What an instance has of its rule.                                       *)
Made(inst, rule, subst, index) ==
  /\ inst.before = {} /\ Slots(inst.body, {"bind"}) = {}
  /\ Slots(inst.body, {"match", "deny"}) = Slots(rule.body, {"match", "deny"})
  /\ Matching(inst.body) = Matching(rule.body)
  /\ Places(inst) = Places(rule)
  /\ inst.head = Apply(rule.head, subst)
  /\ \A i \in Slots(rule.body, {"match", "deny"}) :
       inst.body[i].lit \in Normal(Apply(Apply(rule.body[i].lit, subst), subst), index)
  /\ \A i \in Places(rule) : LiteralAt(inst, i) \in Pattern

LEMMA InstanceParts ==
  ASSUME NEW rule, IsRule(rule), NEW r, NEW subst, IsSubst(subst),
         NEW index, index \subseteq Pattern, NEW inst \in Instances(r, rule, subst, index)
  PROVE  Made(inst, rule, subst, index)
<1> DEFINE logic == {i \in DOMAIN rule.body : IsLogic(rule.body[i])}
           lits == [i \in logic |-> Normal(Apply(Apply(rule.body[i].lit, subst), subst), index)]
<1>1. PICK p \in [logic -> UNION {lits[i] : i \in logic}] :
        /\ \A i \in logic : p[i] \in lits[i]
        /\ inst = [rule EXCEPT !.template = r,
                               !.body = [i \in logic |-> [op |-> rule.body[i].op, lit |-> p[i]]],
                               !.head = Apply(rule.head, subst),
                               !.before = {}]
  BY Zenon DEF Instances
<1> DEFINE body == [i \in logic |-> [op |-> rule.body[i].op, lit |-> p[i]]]
<1>2. /\ rule = [kind |-> rule.kind, template |-> rule.template, body |-> rule.body,
                 head |-> rule.head, win |-> rule.win, before |-> rule.before]
      /\ DOMAIN rule.body = 1 .. Len(rule.body) /\ Len(rule.body) \in Nat
      /\ \A i \in Places(rule) : LiteralAt(rule, i) \in Pattern
  BY RuleParts
<1>3. logic = Slots(rule.body, {"match", "deny"})
  BY RuleParts DEF Slots, IsLogic
<1>4. \A i \in logic : p[i] \in Normal(Apply(Apply(rule.body[i].lit, subst), subst), index)
  BY <1>1
<1> HIDE DEF logic, lits
<1>5. DOMAIN body = logic /\ \A i \in logic : body[i].op = rule.body[i].op /\ body[i].lit = p[i]
  OBVIOUS
<1>6. inst = [rule EXCEPT !.template = r, !.body = body, !.head = Apply(rule.head, subst),
                          !.before = {}]
  BY <1>1
<1> HIDE DEF body
<1>7. inst.before = {} /\ inst.body = body /\ inst.head = Apply(rule.head, subst)
  BY <1>2, <1>6
<1>8. /\ Slots(inst.body, {"match", "deny"}) = logic
      /\ Slots(inst.body, {"bind"}) = {}
      /\ Matching(inst.body) = Matching(rule.body)
  BY <1>3, <1>5, <1>7 DEF Slots, Matching
<1>9. Places(inst) = Places(rule)
  BY <1>3, <1>8 DEF Places
<1>10. ASSUME NEW i \in logic PROVE inst.body[i].lit \in Pattern
  <2>1. i # 0 /\ rule.body[i].lit \in Pattern
    BY <1>2, <1>3, <1>10 DEF Places, LiteralAt, Slots
  <2>2. Apply(Apply(rule.body[i].lit, subst), subst) \in Pattern
    BY <2>1, Applied
  <2> QED
    BY <1>4, <1>5, <1>7, <1>10, <2>2 DEF Normal
<1>11. inst.head \in Pattern
  <2>1. rule.head \in Pattern
    BY <1>2 DEF Places, LiteralAt
  <2> QED
    BY <1>7, <2>1, Applied
<1>12. \A i \in Places(rule) : LiteralAt(inst, i) \in Pattern
  BY <1>3, <1>10, <1>11 DEF Places, LiteralAt
<1> QED
  BY <1>3, <1>4, <1>5, <1>7, <1>8, <1>9, <1>12, Zenon DEF Made

(* A literal all of whose variables are bound to terms is ground, but for  *)
(* its window.                                                             *)
LEMMA AppliedTerms ==
  ASSUME NEW l \in Pattern, NEW subst, IsSubst(subst), Grounds(subst),
         TermVars(l) \subseteq DOMAIN subst
  PROVE  \A k \in DOMAIN Apply(l, subst).terms : Apply(l, subst).terms[k] \in Term
<1>1. \A k \in DOMAIN l.terms : l.terms[k] \in Term \cup TermVar
  BY PatternParts
<1>2. \A k \in DOMAIN l.terms : l.terms[k] \in TermVar => l.terms[k] \in DOMAIN subst
  BY DEF TermVars
<1>3. \A t \in Term : t \notin DOMAIN subst
  BY SortAssumption DEF IsSubst
<1>4. \A k \in DOMAIN l.terms : Resolve(l.terms[k], subst) \in Term
  BY <1>1, <1>2, <1>3 DEF Resolve, Grounds
<1> DEFINE m == Apply(l, subst)
<1>5. /\ DOMAIN m.terms = DOMAIN l.terms
      /\ \A k \in DOMAIN l.terms : m.terms[k] = Resolve(l.terms[k], subst)
  BY Applied
<1> HIDE DEF m
<1>6. \A k \in DOMAIN m.terms : m.terms[k] \in Term
  BY <1>4, <1>5
<1> QED
  BY <1>6 DEF m

(* Substituting in a literal once more changes nothing, once every         *)
(* variable of it is bound to a term or an instant.                        *)
LEMMA AppliedFree ==
  ASSUME NEW l \in Pattern, Free(l), NEW subst, IsSubst(subst)
  PROVE  Apply(l, subst) = l
<1> DEFINE m == Apply(l, subst)
<1>1. /\ m \in Pattern /\ DOMAIN m.terms = DOMAIN l.terms
      /\ \A k \in DOMAIN l.terms : m.terms[k] = Resolve(l.terms[k], subst)
      /\ l.win = NoWindow => m.win = NoWindow
      /\ l.win # NoWindow =>
           /\ l.win \in Window /\ m.win \in Window
           /\ m.win = Interval(<<Resolve(l.win[1], subst), Resolve(l.win[2], subst)>>)
  BY Applied
<1> HIDE DEF m
<1>2. \A x : x \notin Var => Resolve(x, subst) = x
  BY DEF Resolve, IsSubst
<1>3. m.terms = l.terms
  <2>1. \A k \in DOMAIN l.terms : m.terms[k] = l.terms[k]
    BY <1>1, <1>2 DEF Free
  <2>2. ASSUME NEW S, NEW t \in Seq(S) PROVE t = [k \in DOMAIN t |-> t[k]]
    OBVIOUS
  <2>3. /\ m.terms = [k \in DOMAIN m.terms |-> m.terms[k]]
        /\ l.terms = [k \in DOMAIN l.terms |-> l.terms[k]]
    BY <1>1, <2>2, PatternParts
  <2> QED
    BY <1>1, <2>1, <2>3
<1>4. m.win = l.win
  <2>1. CASE l.win # NoWindow
    <3>1. /\ l.win \in Window /\ l.win = <<l.win[1], l.win[2]>> /\ DOMAIN l.win = {1, 2}
          /\ l.win[1] \in Time \cup TimeVar /\ l.win[2] \in Time \cup TimeVar
      BY <1>1, <2>1, WindowParts
    <3>2. Resolve(l.win[1], subst) = l.win[1] /\ Resolve(l.win[2], subst) = l.win[2]
      BY <1>2, <3>1 DEF Free
    <3>3. m.win = Interval(<<l.win[1], l.win[2]>>)
      BY <1>1, <2>1, <3>2
    <3> QED
      BY <3>1, <3>3, IntervalWindow
  <2> QED
    BY <1>1, <2>1
<1>5. m = [terms |-> m.terms, win |-> m.win] /\ l = [terms |-> l.terms, win |-> l.win]
  BY <1>1, PatternParts
<1> QED
  BY <1>3, <1>4, <1>5 DEF m

LEMMA AppliedTwice ==
  ASSUME NEW l \in Pattern, NEW subst, IsSubst(subst), Grounds(subst),
         Variables(l) \subseteq DOMAIN subst
  PROVE  Apply(Apply(l, subst), subst) = Apply(l, subst)
<1> DEFINE m == Apply(l, subst)
<1>1. /\ m \in Pattern
      /\ l.win = NoWindow => m.win = NoWindow
      /\ l.win # NoWindow =>
           /\ l.win \in Window /\ m.win \in Window
           /\ m.win = Interval(<<Resolve(l.win[1], subst), Resolve(l.win[2], subst)>>)
  BY Applied
<1>2. \A k \in DOMAIN m.terms : m.terms[k] \in Term
  BY AppliedTerms DEF Variables
<1> HIDE DEF m
<1>3. \A k \in DOMAIN m.win : m.win[k] \notin Var
  <2>1. CASE l.win = NoWindow
    BY <1>1, <2>1 DEF NoWindow
  <2>2. CASE l.win # NoWindow
    <3> DEFINE a == Resolve(l.win[1], subst)
               b == Resolve(l.win[2], subst)
    <3>1. /\ DOMAIN l.win = {1, 2} /\ DOMAIN m.win = {1, 2} /\ Len(l.win) = 2
          /\ l.win[1] \in Time \cup TimeVar /\ l.win[2] \in Time \cup TimeVar
      BY <1>1, <2>2, WindowParts
    <3>2. \A k \in {1, 2} : l.win[k] \in TimeVar => l.win[k] \in DOMAIN subst
      BY <3>1 DEF Variables, TimeVars
    <3>3. \A t \in Time : t \notin DOMAIN subst
      BY SortAssumption DEF IsSubst
    <3>4. a \in Time /\ b \in Time
      BY <3>1, <3>2, <3>3 DEF Resolve, IsSubst
    <3> HIDE DEF a, b
    <3>5. m.win \in {<<a, b>>, <<b, a>>}
      BY <1>1, <2>2, <3>4, IntervalWindow DEF a, b
    <3>6. \A k \in {1, 2} : m.win[k] \in Time
      BY <3>4, <3>5
    <3> QED
      BY <3>1, <3>6, SortAssumption
  <2> QED
    BY <2>1, <2>2
<1>4. Free(m)
  BY <1>2, <1>3, SortAssumption DEF Free
<1>5. Apply(m, subst) = m
  BY <1>1, <1>4, AppliedFree
<1> QED
  BY <1>5 DEF m

(* So the body of an instance has the literals of its rule, substituted in *)
(* once.                                                                   *)
LEMMA MadeOnce ==
  ASSUME NEW rule, IsRule(rule), NEW subst, IsSubst(subst), Grounds(subst),
         \A i \in Slots(rule.body, {"match", "deny"}) :
           Variables(rule.body[i].lit) \subseteq DOMAIN subst,
         NEW inst, NEW index, Made(inst, rule, subst, index)
  PROVE  \A i \in Slots(rule.body, {"match", "deny"}) :
           inst.body[i].lit \in Normal(Apply(rule.body[i].lit, subst), index)
<1> SUFFICES ASSUME NEW i \in Slots(rule.body, {"match", "deny"})
             PROVE  inst.body[i].lit \in Normal(Apply(rule.body[i].lit, subst), index)
  OBVIOUS
<1>1. rule.body[i].lit \in Pattern
  BY DEF Slots, IsRule, IsItem
<1>2. Apply(Apply(rule.body[i].lit, subst), subst) = Apply(rule.body[i].lit, subst)
  BY <1>1, AppliedTwice
<1>3. inst.body[i].lit \in Normal(Apply(Apply(rule.body[i].lit, subst), subst), index)
  BY DEF Made
<1> QED
  BY <1>2, <1>3

LEMMA FactOf ==
  ASSUME NEW l \in Pattern
  PROVE  AsFact(l) \in Pattern /\ Timed(AsFact(l)) /\ AsFact(l).terms = l.terms
<1>1. CASE Timed(l)
  BY <1>1 DEF AsFact
<1>2. CASE ~ Timed(l)
  <2>1. l = [terms |-> l.terms, win |-> l.win] /\ l.terms \in Seq(Term \cup TermVar)
    BY PatternParts
  <2>2. AsFact(l) = [l EXCEPT !.win = NoWindow]
    BY <1>2 DEF AsFact
  <2>3. AsFact(l) = [terms |-> l.terms, win |-> NoWindow]
    BY <2>1, <2>2
  <2>4. AsFact(l) \in Pattern
    BY <2>1, <2>3 DEF Pattern
  <2>5. DOMAIN NoWindow = {}
    BY DEF NoWindow
  <2> QED
    BY <2>3, <2>4, <2>5 DEF Timed
<1> QED
  BY <1>1, <1>2

-----------------------------------------------------------------------------
(* Where the instances come from: a choice of facts that were there, and   *)
(* an index of such facts to take equal literals from.                     *)

From(n, index) ==
  LET r == made[n].of
  IN  /\ made[n].rule \in Instances(r, source.rules[r], made[n].subst, index)
      /\ \E choice \in [Matching(Body(r)) -> index] : made[n].subst \in Substitutions(Body(r), choice)

Derived == \A n \in DOMAIN made : \E index \in SUBSET Available(n) : From(n, index)

TimedFacts == {fact \in Pattern : Timed(fact)}

Traced ==
  /\ Formed(source)
  /\ MadeFacts \subseteq TimedFacts
  /\ Derived

LEMMA SeedsTimed ==
  ASSUME NEW th, Formed(th)
  PROVE  \A fact \in Seeds(th) : fact \in TimedFacts /\ Free(fact)
<1> SUFFICES ASSUME NEW r \in GroundRules(th)
             PROVE  th.rules[r].head \in TimedFacts /\ Free(th.rules[r].head)
  BY DEF Seeds
<1>1. IsRule(th.rules[r]) /\ ~ HasVariables(th.rules[r])
  BY DEF GroundRules, VarRules, Formed
<1>2. 0 \in Places(th.rules[r]) /\ LiteralAt(th.rules[r], 0) = th.rules[r].head
  BY DEF Places, LiteralAt
<1>3. th.rules[r].head \in Pattern /\ Free(th.rules[r].head)
  BY <1>1, <1>2, RuleParts, GroundRule
<1> QED
  BY <1>3 DEF TimedFacts, Free, Timed

LEMMA AvailableTimed ==
  ASSUME Traced, NEW n \in DOMAIN made, DOMAIN made = 1 .. Len(made), Len(made) \in Nat
  PROVE  Available(n) \subseteq TimedFacts
<1>1. \A m \in 1 .. n - 1 : m \in DOMAIN made
  OBVIOUS
<1>2. Available(n) \subseteq Seeds(source) \cup MadeFacts
  BY <1>1 DEF Available, MadeFacts, Concluding
<1> QED
  BY <1>2, SeedsTimed DEF Traced

LEMMA TracedInstantiate ==
  ASSUME Typed, Drawn, Traced, NEW item \in pending, Instantiate(item[1], item[2])
  PROVE  Traced'
<1> DEFINE r == item[1]
           subst == item[2]
<1>0. item \in pending /\ r \in VarRules(source) /\ IsRule(source.rules[r])
  BY DEF Typed, Collected, Traced, Formed, VarRules
<1>1. PICK rule \in Instances(r, source.rules[r], subst, facts) :
         /\ made' = Append(made, [of |-> r, subst |-> subst, rule |-> rule])
  BY DEF Instantiate
<1>2. /\ Len(made) \in Nat /\ DOMAIN made = 1 .. Len(made) /\ DOMAIN made' = 1 .. Len(made) + 1
      /\ \A n \in 1 .. Len(made) : made'[n] = made[n]
      /\ made'[Len(made) + 1] = [of |-> r, subst |-> subst, rule |-> rule]
  BY <1>1, Appended DEF Typed, Collected
<1>3. source' = source /\ Seeds(source)' = Seeds(source) /\ \A s : Body(s)' = Body(s)
  BY DEF Instantiate, call, Seeds, GroundRules, VarRules, Labels, Body
<1>4. facts \subseteq Seeds(source) \cup MadeFacts /\ facts \subseteq TimedFacts
  BY SeedsTimed DEF Drawn, Traced
<1>5. PICK choice \in [Matching(Body(r)) -> facts] : subst \in Substitutions(Body(r), choice)
  BY <1>0 DEF Drawn
<1>6. IsSubst(subst)
  <2> DEFINE old == source.rules[r]
  <2>1. IsRule(old) /\ subst \in Substitutions(old.body, choice)
    BY <1>0, <1>5 DEF Body
  <2>2. \A i \in Matching(old.body) : choice[i] \in Pattern /\ Timed(choice[i])
    BY <1>4, <1>5 DEF Body, TimedFacts
  <2> HIDE DEF old
  <2>3. IsSubst(subst)
    BY <2>1, <2>2, SubstitutionsBound, Zenon
  <2> QED
    BY <2>3
<1>7. NewFacts(rule) \subseteq TimedFacts
  <2>1. rule.head \in Pattern
    <3>1. rule.head = Apply(source.rules[r].head, subst)
      <4> DEFINE old == source.rules[r]
      <4>1. IsRule(old) /\ rule \in Instances(r, old, subst, facts) /\ facts \subseteq Pattern
        BY <1>0, <1>4 DEF TimedFacts
      <4> HIDE DEF old
      <4>2. Made(rule, old, subst, facts)
        BY <1>6, <4>1, InstanceParts, Zenon
      <4> QED
        BY <4>2 DEF Made, old
    <3>2. source.rules[r].head \in Pattern
      BY <1>0 DEF IsRule
    <3> QED
      BY <1>6, <3>1, <3>2, Applied
  <2> QED
    BY <2>1, FactOf DEF NewFacts, TimedFacts
<1>8. MadeFacts' \subseteq MadeFacts \cup NewFacts(rule)
  BY <1>2 DEF MadeFacts, Concluding, NewFacts
<1>9. ASSUME NEW n \in 1 .. Len(made) PROVE \E index \in SUBSET Available(n)' : From(n, index)'
  <2>2. Available(n)' = Available(n)
    BY <1>2, <1>3, AvailableKept
  <2>3. PICK index \in SUBSET Available(n) : From(n, index)
    BY <1>2 DEF Traced, Derived
  <2>4. From(n, index)'
    BY <1>2, <1>3, <1>9, <2>3 DEF From
  <2> QED
    BY <2>2, <2>4
<1>10. ASSUME NEW n, n = Len(made) + 1
       PROVE  \E index \in SUBSET Available(n)' : From(n, index)'
  <2>2. Available(n)' = Seeds(source) \cup MadeFacts
    BY <1>2, <1>3, <1>10, AvailableKept
  <2>3. PICK index : index = facts
    OBVIOUS
  <2>4. index \subseteq Available(n)'
    BY <1>4, <2>2, <2>3
  <2>5. made'[n].of = r /\ made'[n].subst = subst /\ made'[n].rule = rule
    BY <1>2, <1>10
  <2>6. rule \in Instances(r, source'.rules[r], subst, index)
    BY <1>3, <2>3
  <2>7. /\ choice \in [Matching(Body(r)') -> index] /\ subst \in Substitutions(Body(r)', choice)
    BY <1>3, <1>5, <2>3
  <2>8. From(n, index)'
    BY <2>5, <2>6, <2>7 DEF From, Body
  <2> QED
    BY <2>4, <2>8
<1>11. Derived'
  <2> SUFFICES ASSUME NEW n \in DOMAIN made' PROVE \E index \in SUBSET Available(n)' : From(n, index)'
    BY DEF Derived
  <2>1. n \in 1 .. Len(made) \/ n = Len(made) + 1
    BY <1>2
  <2> QED
    BY <1>9, <1>10, <2>1
<1>12. Formed(source)'
  BY <1>3 DEF Traced, Formed, Labels
<1> QED
  BY <1>7, <1>8, <1>11, <1>12 DEF Traced

LEMMA TracedKept ==
  ASSUME Asked, Typed, Drawn, Staged, Traced, [PrepareNext]_prepareVars
  PROVE  Traced'
<1>1. ASSUME UNCHANGED <<source, made>> PROVE Traced'
  <2>1. Formed(source)' /\ MadeFacts' = MadeFacts
    BY <1>1 DEF Traced, Formed, Labels, MadeFacts, Concluding
  <2>2. Derived'
    BY <1>1 DEF Traced, Derived, From, Available, Concluding, Body, Seeds, GroundRules, VarRules, Labels
  <2> QED
    BY <2>1, <2>2 DEF Traced
<1>2. ASSUME \E lim \in Limits : Call(theory, lim), stage = "ground" PROVE Traced'
  <2>1. Formed(theory)
    BY <1>2, GivenToGround DEF Staged
  <2>2. made = << >> /\ made' = << >> /\ source' = theory
    BY <1>2 DEF Typed, Placed, Call
  <2>3. DOMAIN made' = {} /\ MadeFacts' = {}
    BY <2>2 DEF MadeFacts, Concluding
  <2>4. Formed(source)'
    BY <2>1, <2>2 DEF Formed, Labels
  <2>5. Derived'
    BY <2>3 DEF Derived
  <2> QED
    BY <2>3, <2>4, <2>5 DEF Traced
<1>3. ASSUME NEW item \in pending, Instantiate(item[1], item[2]) PROVE Traced'
  BY <1>3, TracedInstantiate
<1>4. CASE StartGround
  <2>1. stage = "ground" /\ Call(theory, opts.limits) /\ opts.limits \in Limits
    BY <1>4, PipelineAssumption DEF StartGround, Asked
  <2> QED
    BY <1>2, <2>1
<1>5. CASE Ground
  <2>1. CASE TakeRule \/ HitLimit \/ EndRound \/ Build
    BY <1>1, <2>1 DEF TakeRule, HitLimit, EndRound, Build, call
  <2>2. ASSUME NEW item \in pending, Skip(item[1], item[2]) PROVE Traced'
    BY <1>1, <2>2 DEF Skip, call
  <2> QED
    BY <1>3, <1>5, <2>1, <2>2 DEF Ground, Rounds
<1>6. CASE UNCHANGED vars
  BY <1>1, <1>6 DEF vars
<1> QED
  BY <1>4, <1>5, <1>6 DEF PrepareNext, prepareVars, groundVars, FilterBefore, Validate,
     RewriteWildcards, SkipGround, EndGround, ValidateTimes, FilterAfter

(* What is known of one instance.                                          *)
LEMMA InstanceOf ==
  ASSUME Typed, Traced, NEW n \in DOMAIN made
  PROVE  \E index \in SUBSET Available(n) : \E choice :
           /\ Available(n) \subseteq TimedFacts
           /\ IsRule(source.rules[made[n].of]) /\ made[n].of \in Labels(source)
           /\ choice \in [Matching(Body(made[n].of)) -> index]
           /\ made[n].subst \in Substitutions(Body(made[n].of), choice)
           /\ IsSubst(made[n].subst)
           /\ made[n].rule \in Instances(made[n].of, source.rules[made[n].of], made[n].subst, index)
<1>1. DOMAIN made = 1 .. Len(made) /\ Len(made) \in Nat
  BY Appended DEF Typed, Collected
<1>2. Available(n) \subseteq TimedFacts
  BY <1>1, AvailableTimed
<1> DEFINE r == made[n].of
           old == source.rules[r]
<1>3. r \in Labels(source) /\ IsRule(old)
  BY DEF Typed, Collected, VarRules, Traced, Formed
<1>4. PICK index \in SUBSET Available(n) : From(n, index)
  BY DEF Traced, Derived
<1>5. PICK choice \in [Matching(Body(r)) -> index] : made[n].subst \in Substitutions(Body(r), choice)
  BY <1>4 DEF From
<1>6. IsSubst(made[n].subst)
  <2>1. made[n].subst \in Substitutions(old.body, choice)
    BY <1>5 DEF Body
  <2>2. \A i \in Matching(old.body) : choice[i] \in Pattern /\ Timed(choice[i])
    BY <1>2, <1>5 DEF Body, TimedFacts
  <2> HIDE DEF old
  <2>3. IsSubst(made[n].subst)
    BY <1>3, <2>1, <2>2, SubstitutionsBound, Zenon
  <2> QED
    BY <2>3
<1>7. made[n].rule \in Instances(r, old, made[n].subst, index)
  BY <1>4 DEF From
<1> QED
  BY <1>2, <1>3, <1>4, <1>5, <1>6, <1>7

-----------------------------------------------------------------------------
(* Premises are met. *)

LEMMA PremiseMet ==
  ASSUME NEW lit \in Pattern, NEW subst, IsSubst(subst), NEW index, index \subseteq Pattern,
         NEW fact \in index, Fits(lit, subst, fact), NEW l \in Normal(Apply(lit, subst), index)
  PROVE  \E f \in index : \/ Meets(l, f)
                          \/ /\ l.win = NoWindow /\ f.win # NoWindow
                             /\ Equal(l, [f EXCEPT !.win = NoWindow])
<1> DEFINE m == Apply(lit, subst)
<1>1. CASE {f \in index : Equal(m, f)} # {}
  <2>1. l \in index
    BY <1>1 DEF Normal
  <2>2. Meets(l, l)
    BY DEF Meets
  <2> QED
    BY <2>1, <2>2
<1>2. CASE {f \in index : Equal(m, f)} = {}
  <2>1. l = m
    BY <1>2 DEF Normal
  <2>2. /\ DOMAIN m.terms = DOMAIN lit.terms /\ Len(m.terms) = Len(lit.terms)
        /\ \A k \in DOMAIN lit.terms : m.terms[k] = Resolve(lit.terms[k], subst)
        /\ lit.win = NoWindow => m.win = NoWindow
    BY Applied
  <2>3. /\ DOMAIN lit.terms = DOMAIN fact.terms
        /\ \A k \in DOMAIN lit.terms : Same(Resolve(lit.terms[k], subst), fact.terms[k])
        /\ lit.win # NoWindow => fact.win # NoWindow /\ m.win = fact.win
    BY DEF Fits
  <2> HIDE DEF m
  <2>4. Len(m.terms) = Len(fact.terms)
    <3>1. /\ DOMAIN lit.terms = 1 .. Len(lit.terms) /\ Len(lit.terms) \in Nat
          /\ DOMAIN fact.terms = 1 .. Len(fact.terms) /\ Len(fact.terms) \in Nat
      BY PatternParts
    <3>2. ASSUME NEW a \in Nat, NEW b \in Nat, 1 .. a = 1 .. b PROVE a <= b
      <4>1. a = 0 \/ a \in 1 .. b
        BY <3>2
      <4> QED
        BY <4>1
    <3>3. Len(lit.terms) = Len(fact.terms)
      <4> DEFINE a == Len(lit.terms)
                 b == Len(fact.terms)
      <4>1. a \in Nat /\ b \in Nat /\ 1 .. a = 1 .. b
        BY <2>3, <3>1
      <4> HIDE DEF a, b
      <4>2. a <= b
        BY <3>2, <4>1
      <4>3. b <= a
        BY <3>2, <4>1
      <4>4. a = b
        BY <4>1, <4>2, <4>3
      <4> QED
        BY <4>4 DEF a, b
    <3> QED
      BY <2>2, <3>3
  <2>5. \A k \in DOMAIN m.terms : Same(m.terms[k], fact.terms[k])
    BY <2>2, <2>3
  <2>6. m.win # fact.win
    BY <1>2, <2>4, <2>5 DEF Equal, m
  <2>7. m.win = NoWindow /\ fact.win # NoWindow
    BY <2>2, <2>3, <2>6
  <2>8. /\ [fact EXCEPT !.win = NoWindow].terms = fact.terms
        /\ [fact EXCEPT !.win = NoWindow].win = NoWindow
    <3>1. fact = [terms |-> fact.terms, win |-> fact.win]
      BY PatternParts
    <3> QED
      BY <3>1
  <2>9. Equal(m, [fact EXCEPT !.win = NoWindow])
    BY <2>4, <2>5, <2>7, <2>8 DEF Equal
  <2> QED
    BY <2>1, <2>7, <2>9
<1> QED
  BY <1>1, <1>2

LEMMA TracedMet ==
  ASSUME Typed, Traced
  PROVE  Met
<1> SUFFICES ASSUME NEW n \in DOMAIN made, \A fact \in Available(n) : Variables(fact) = {},
                    NEW i \in Matching(made[n].rule.body)
             PROVE  LET l == made[n].rule.body[i].lit
                    IN  \E fact \in Available(n) :
                          \/ Meets(l, fact)
                          \/ /\ l.win = NoWindow /\ fact.win # NoWindow
                             /\ Equal(l, [fact EXCEPT !.win = NoWindow])
  BY DEF Met
<1> DEFINE old == source.rules[made[n].of]
           new == made[n].rule
           subst == made[n].subst
<1>1. PICK index, choice :
        /\ index \subseteq Available(n) /\ Available(n) \subseteq TimedFacts
        /\ IsRule(old) /\ choice \in [Matching(old.body) -> index]
        /\ subst \in Substitutions(old.body, choice) /\ IsSubst(subst)
        /\ new \in Instances(made[n].of, old, subst, index)
  BY InstanceOf DEF Body
<1>2. index \subseteq Pattern /\ \A fact \in index : fact \in Pattern /\ Timed(fact) /\ Free(fact)
  BY <1>1, FreeVariables DEF TimedFacts
<1>3. i \in Matching(new.body)
  OBVIOUS
<1> HIDE DEF old, new, subst
<1>4. \A k \in Matching(old.body) : choice[k] \in index
  BY <1>1
<1>5. /\ Grounds(subst)
      /\ \A k \in Slots(old.body, {"match", "deny"}) :
           Variables(old.body[k].lit) \subseteq DOMAIN subst
      /\ \A k \in Matching(old.body) : Fits(old.body[k].lit, subst, choice[k])
  <2>1. \A k \in Matching(old.body) : choice[k] \in Pattern /\ Timed(choice[k]) /\ Free(choice[k])
    BY <1>2, <1>4
  <2> QED
    BY <1>1, <2>1, SubstitutionsBound, Zenon
<1>6. /\ Matching(new.body) = Matching(old.body)
      /\ \A k \in Slots(old.body, {"match", "deny"}) :
           new.body[k].lit \in Normal(Apply(old.body[k].lit, subst), index)
  <2>1. Made(new, old, subst, index)
    BY <1>1, <1>2, InstanceParts, Zenon
  <2>2. Matching(new.body) = Matching(old.body)
    BY <2>1 DEF Made
  <2> QED
    BY <1>1, <1>5, <2>1, <2>2, MadeOnce, Zenon
<1>7. /\ i \in Slots(old.body, {"match", "deny"}) /\ i \in Matching(old.body)
      /\ old.body[i].lit \in Pattern
  <2>1. i \in Matching(old.body)
    BY <1>3, <1>6
  <2> QED
    BY <1>1, <2>1 DEF Matching, Slots, IsRule, IsItem
<1>8. \E f \in index : \/ Meets(new.body[i].lit, f)
                       \/ /\ new.body[i].lit.win = NoWindow /\ f.win # NoWindow
                          /\ Equal(new.body[i].lit, [f EXCEPT !.win = NoWindow])
  <2> DEFINE lit == old.body[i].lit
             fact == choice[i]
             l == new.body[i].lit
  <2>1. /\ lit \in Pattern /\ IsSubst(subst) /\ index \subseteq Pattern
        /\ fact \in index /\ Fits(lit, subst, fact) /\ l \in Normal(Apply(lit, subst), index)
    BY <1>1, <1>2, <1>6, <1>4, <1>5, <1>7
  <2> HIDE DEF lit, fact, l
  <2>2. \E f \in index : \/ Meets(l, f)
                          \/ /\ l.win = NoWindow /\ f.win # NoWindow
                             /\ Equal(l, [f EXCEPT !.win = NoWindow])
    BY <2>1, PremiseMet, Zenon
  <2> QED
    BY <2>2 DEF l
<1> QED
  BY <1>1, <1>8 DEF new

LEMMA ProvenanceInit == PrepareInit => Limited /\ Drawn /\ Traced
<1> SUFFICES ASSUME PrepareInit PROVE Limited /\ Drawn /\ Traced
  OBVIOUS
<1>1. Limited
  BY DEF PrepareInit, Init, Limited, LimitMeant
<1>2. /\ made = << >> /\ facts = {} /\ pending = {} /\ DOMAIN made = {}
      /\ source = NoTheory
  BY DEF PrepareInit, Init
<1>3. Drawn
  BY <1>2 DEF Drawn, Supported
<1>4. Formed(source)
  BY <1>2 DEF Formed, NoTheory, Labels
<1>5. Traced
  BY <1>2, <1>4 DEF Traced, Derived, MadeFacts, Concluding
<1> QED
  BY <1>1, <1>3, <1>5

LEMMA ProvenanceKept ==
  ASSUME Asked, Typed, Limited, Named, Result, Staged, Drawn, Traced, [PrepareNext]_prepareVars
  PROVE  /\ Asked' /\ Typed' /\ Limited' /\ Named' /\ Result'
         /\ Staged' /\ Drawn' /\ Traced'
BY StandingKept, StagedKept, DrawnKept, TracedKept

(* Every premise of an instance that was matched can be met, by a fact of  *)
(* the theory or the head of an instance made before: with its terms, at   *)
(* its window or at any if it has none, or else with equal numbers.        *)
THEOREM PrepareMet == PrepareSpec => []Met
BY TracedMet, ProvenanceInit, ProvenanceKept, StagedInit, TypedInit, NamedInit, PTL DEF PrepareSpec

-----------------------------------------------------------------------------
(* What the two validations have passed. *)

AllTimed(th) ==
  \A r \in Labels(th) : \A i \in Places(th.rules[r]) : Timed(LiteralAt(th.rules[r], i))

AllValid == \A r \in Labels(AsOf(input)) : ValidRule(AsOf(input).rules[r])

Judged ==
  /\ stage \in {"rewrite", "ground", "times", "filter again", "ready"} => AllValid
  /\ stage \in {"filter again", "ready"} => AllTimed(theory)

LEMMA JudgedKept ==
  ASSUME Asked, Staged, Judged, [PrepareNext]_prepareVars
  PROVE  Judged'
<1>0. UNCHANGED request => (AllValid' <=> AllValid)
  <2> SUFFICES ASSUME UNCHANGED request PROVE AllValid' <=> AllValid
    OBVIOUS
  <2>1. opts' = opts /\ input' = input
    BY DEF request
  <2> QED
    BY <2>1 DEF AllValid, AsOf, ValidRule, Labels
<1>1. CASE Validate
  <2>1. UNCHANGED request /\ stage' \in {"rewrite", "failed"} /\ theory = AsOf(input)
    BY <1>1 DEF Validate, Staged
  <2>2. stage' = "rewrite" => AllValid
    BY <1>1, <2>1 DEF Validate, AllValid
  <2> QED
    BY <1>0, <2>1, <2>2 DEF Judged
<1>2. CASE ValidateTimes
  <2>1. /\ UNCHANGED request /\ theory' = theory /\ stage = "times"
        /\ stage' \in {"filter again", "failed"}
        /\ stage' = "filter again" => AllTimed(theory)
    BY <1>2 DEF ValidateTimes, AllTimed, Places
  <2>2. AllTimed(theory)' <=> AllTimed(theory)
    BY <2>1 DEF AllTimed, Labels
  <2> QED
    BY <1>0, <2>1, <2>2 DEF Judged
<1>3. CASE FilterAfter
  <2>1. UNCHANGED request /\ theory' = AsOf(theory) /\ stage = "filter again"
    BY <1>3 DEF FilterAfter
  <2>2. /\ Labels(AsOf(theory)) \subseteq Labels(theory)
        /\ \A r \in Labels(AsOf(theory)) : AsOf(theory).rules[r] = theory.rules[r]
    BY AsOfRules
  <2>3. AllTimed(theory)'
    BY <2>1, <2>2 DEF Judged, AllTimed, Labels
  <2> QED
    BY <1>0, <2>1, <2>3 DEF Judged
<1>4. CASE FilterBefore
  BY <1>4 DEF FilterBefore, Judged
<1>5. CASE RewriteWildcards \/ SkipGround \/ StartGround \/ Ground \/ EndGround
  <2>1. /\ UNCHANGED request /\ stage' \in {"ground", "times"}
        /\ stage \in {"rewrite", "ground"}
    BY <1>5 DEF RewriteWildcards, SkipGround, StartGround, Ground, EndGround
  <2> QED
    BY <1>0, <2>1 DEF Judged
<1>6. CASE UNCHANGED prepareVars
  <2>1. UNCHANGED request /\ stage' = stage /\ theory' = theory
    BY <1>6 DEF prepareVars, request
  <2>2. AllTimed(theory)' <=> AllTimed(theory)
    BY <2>1 DEF AllTimed, Labels
  <2> QED
    BY <1>0, <2>1, <2>2 DEF Judged
<1> QED
  BY <1>1, <1>2, <1>3, <1>4, <1>5, <1>6 DEF PrepareNext

(* Literals of what grounding leaves are well formed.                      *)
LEMMA LeftPatterns ==
  ASSUME Typed, Limited, Named, Staged, Traced, NEW th, LeftByGround(th),
         NEW r \in Labels(th), NEW i \in Places(th.rules[r])
  PROVE  LiteralAt(th.rules[r], i) \in Pattern
<1>0. input \in Theories
  BY DEF Staged
<1>1. CASE ReadyToGround(th)
  <2>1. IsRule(th.rules[r])
    BY <1>0, <1>1, GivenToGround DEF Formed
  <2> QED
    BY <2>1, RuleParts
<1>2. CASE th = Assembled
  <2>1. /\ Labels(th) = GroundRules(source) \cup InstanceLabels
        /\ \A n \in DOMAIN made : th.rules[LabelOf(n)] = made[n].rule
        /\ \A l \in GroundRules(source) \ InstanceLabels : th.rules[l] = source.rules[l]
    BY <1>2, AssembledRules
  <2>2. CASE r \in InstanceLabels
    <3>1. PICK n \in DOMAIN made : th.rules[r] = made[n].rule
      BY <2>1, <2>2 DEF InstanceLabels
    <3> DEFINE old == source.rules[made[n].of]
    <3>2. PICK index \in SUBSET Available(n) :
            /\ Available(n) \subseteq TimedFacts /\ IsRule(old) /\ IsSubst(made[n].subst)
            /\ made[n].rule \in Instances(made[n].of, old, made[n].subst, index)
      BY InstanceOf
    <3>3. index \subseteq Pattern
      BY <3>2 DEF TimedFacts
    <3> HIDE DEF old
    <3>4. /\ Places(made[n].rule) = Places(old)
          /\ \A k \in Places(old) : LiteralAt(made[n].rule, k) \in Pattern
      <4>1. Made(made[n].rule, old, made[n].subst, index)
        BY <3>2, <3>3, InstanceParts, Zenon
      <4> QED
        BY <4>1 DEF Made
    <3> QED
      BY <3>1, <3>4
  <2>3. CASE r \notin InstanceLabels
    <3>1. r \in Labels(source) /\ th.rules[r] = source.rules[r]
      BY <2>1, <2>3 DEF GroundRules
    <3> QED
      BY <3>1, RuleParts DEF Traced, Formed
  <2> QED
    BY <2>2, <2>3
<1> QED
  BY <1>1, <1>2 DEF LeftByGround

(* What is ready has instants at both ends of every window, and the        *)
(* earlier one first.                                                      *)
LEMMA ReadyPatterns ==
  ASSUME Typed, Limited, Named, Staged, Traced, Judged, stage = "ready",
         NEW r \in Labels(theory), NEW i \in Places(theory.rules[r])
  PROVE  LiteralAt(theory.rules[r], i) \in TimedFacts
<1>1. PICK th : LeftByGround(th) /\ theory = AsOf(th)
  BY DEF Staged
<1>2. r \in Labels(th) /\ theory.rules[r] = th.rules[r]
  BY <1>1, AsOfRules
<1>3. LiteralAt(theory.rules[r], i) \in Pattern
  BY <1>1, <1>2, LeftPatterns
<1> QED
  BY <1>3 DEF Judged, AllTimed, TimedFacts

(* A window that is put together from instants of several premises never   *)
(* ends before it starts.                                                  *)
THEOREM PrepareWindowsForward == PrepareSpec => []WindowsForward
<1>1. ASSUME Typed, Limited, Named, Staged, Traced, Judged PROVE WindowsForward
  <2> SUFFICES ASSUME stage = "ready", NEW r \in Labels(theory), NEW i \in Places(theory.rules[r])
               PROVE  LET win == LiteralAt(theory.rules[r], i).win
                      IN  win = NoWindow \/ win[1] <= win[2]
    BY DEF WindowsForward, Places
  <2> DEFINE l == LiteralAt(theory.rules[r], i)
  <2>1. l \in Pattern /\ Timed(l)
    BY <1>1, ReadyPatterns DEF TimedFacts
  <2> HIDE DEF l
  <2>2. CASE l.win # NoWindow
    <3>1. l.win \in Window
      BY <2>1, <2>2 DEF Pattern
    <3>2. l.win[1] \in Time /\ l.win[2] \in Time
      BY <2>1, <3>1, WindowParts DEF Timed, Var
    <3> QED
      BY <3>1, <3>2, WindowParts DEF l
  <2> QED
    BY <2>2 DEF l
<1>2. PrepareInit => Judged
  BY DEF PrepareInit, Judged
<1> QED
  BY <1>1, <1>2, JudgedKept, ProvenanceInit, ProvenanceKept, StagedInit, TypedInit, NamedInit,
     PTL DEF PrepareSpec

-----------------------------------------------------------------------------
(* Under range restriction, and with no wildcard in a head, what is made   *)
(* is ground.                                                              *)

HeadsBound(th) == \A r \in Labels(th) : TermVars(th.rules[r].head) \subseteq BodyVars(th.rules[r])

LEMMA HeadsStayBound ==
  ASSUME input \in Theories, AllValid, opts.restrict, opts.wildcards, NEW th, ReadyToGround(th)
  PROVE  HeadsBound(th)
<1> DEFINE early == AsOf(input)
<1>1. /\ Labels(early) \subseteq Labels(input)
      /\ \A l \in Labels(early) : early.rules[l] = input.rules[l]
  BY AsOfRules
<1>2. Formed(early)
  BY <1>1, PipelineAssumption DEF IsTheory, Formed
<1>3. PICK number \in Numbering(Wildcards(early)) : th = Rewritten(early, number)
  BY DEF ReadyToGround
<1>4. Labels(th) = Labels(early) /\ DOMAIN number = Wildcards(early)
  BY <1>2, <1>3, RewrittenFormed DEF Numbering
<1> SUFFICES ASSUME NEW r \in Labels(early)
             PROVE  TermVars(th.rules[r].head) \subseteq BodyVars(th.rules[r])
  BY <1>4 DEF HeadsBound
<1> DEFINE old == early.rules[r]
           new == th.rules[r]
<1>5. Renames(old, new, r, number) /\ IsRule(old)
  BY <1>2, <1>3, RewrittenRule DEF Formed
<1>6. /\ \A k \in DOMAIN old.head.terms : old.head.terms[k] # Wildcard
      /\ TermVars(old.head) \subseteq BodyVars(old)
  BY DEF AllValid, ValidRule
<1>7. \A i, k : <<r, i, k>> \in Wildcards(early) =>
        k \in DOMAIN LiteralAt(old, i).terms /\ LiteralAt(old, i).terms[k] = Wildcard
  BY WildcardAt
<1> HIDE DEF early, old, new
<1>8. \A i \in Places(old) :
        /\ DOMAIN LiteralAt(new, i).terms = DOMAIN LiteralAt(old, i).terms
        /\ \A k \in DOMAIN LiteralAt(old, i).terms :
             LiteralAt(old, i).terms[k] # Wildcard =>
               LiteralAt(new, i).terms[k] = LiteralAt(old, i).terms[k]
  <2> SUFFICES ASSUME NEW i \in Places(old)
               PROVE  /\ DOMAIN LiteralAt(new, i).terms = DOMAIN LiteralAt(old, i).terms
                      /\ \A k \in DOMAIN LiteralAt(old, i).terms :
                           LiteralAt(old, i).terms[k] # Wildcard =>
                             LiteralAt(new, i).terms[k] = LiteralAt(old, i).terms[k]
    OBVIOUS
  <2>1. LiteralAt(new, i).terms =
          [k \in DOMAIN LiteralAt(old, i).terms |->
             IF <<r, i, k>> \in DOMAIN number
             THEN FreshVar(number[<<r, i, k>>])
             ELSE LiteralAt(old, i).terms[k]]
    <3> DEFINE renamed == [k \in DOMAIN LiteralAt(old, i).terms |->
                             IF <<r, i, k>> \in DOMAIN number
                             THEN FreshVar(number[<<r, i, k>>])
                             ELSE LiteralAt(old, i).terms[k]]
    <3>1. LiteralAt(new, i) = [terms |-> renamed, win |-> LiteralAt(old, i).win]
      BY <1>5, Zenon DEF Renames
    <3> HIDE DEF renamed
    <3>2. LiteralAt(new, i).terms = renamed
      BY <3>1
    <3> QED
      BY <3>2 DEF renamed
  <2>2. \A k : LiteralAt(old, i).terms[k] # Wildcard => <<r, i, k>> \notin DOMAIN number
    BY <1>4, <1>7
  <2> QED
    BY <2>1, <2>2
<1>9. \A ops : Slots(new.body, ops) = Slots(old.body, ops)
  BY <1>5 DEF Renames, Slots
<1>10. TermVars(new.head) = TermVars(old.head)
  <2>1. \A rule : LiteralAt(rule, 0) = rule.head
    BY DEF LiteralAt
  <2>2. 0 \in Places(old)
    BY DEF Places
  <2>3. /\ DOMAIN new.head.terms = DOMAIN old.head.terms
        /\ \A k \in DOMAIN old.head.terms : new.head.terms[k] = old.head.terms[k]
    BY <1>6, <1>8, <2>1, <2>2
  <2> QED
    BY <2>3 DEF TermVars
<1>11. \A v \in TermVar : v # Wildcard
  BY PipelineAssumption, SortAssumption DEF Var
<1>12. ASSUME NEW i \in Slots(old.body, {"match", "deny"})
       PROVE  TermVars(old.body[i].lit) \subseteq TermVars(new.body[i].lit)
  <2>1. i # 0 /\ i \in Places(old)
    BY <1>5, RuleParts DEF Places, Slots
  <2>2. LiteralAt(old, i) = old.body[i].lit /\ LiteralAt(new, i) = new.body[i].lit
    BY <2>1 DEF LiteralAt
  <2> QED
    BY <1>8, <1>11, <2>1, <2>2 DEF TermVars
<1>13. \A i \in Slots(old.body, {"bind"}) : new.body[i] = old.body[i]
  BY <1>5 DEF Renames, Slots, IsLogic
<1>14. BodyVars(old) \subseteq BodyVars(new)
  BY <1>9, <1>12, <1>13 DEF BodyVars
<1> QED
  BY <1>6, <1>10, <1>14 DEF new

(* Facts are ground, and what passes range restriction makes ground facts. *)
Grounded == opts.restrict /\ opts.wildcards => \A fact \in MadeFacts : Free(fact)

LEMMA FactsOfGround ==
  ASSUME Typed, Drawn, Traced, HeadsBound(source), \A fact \in MadeFacts : Free(fact),
         NEW item \in pending,
         NEW rule \in Instances(item[1], source.rules[item[1]], item[2], facts)
  PROVE  \A fact \in NewFacts(rule) : Free(fact)
<1> DEFINE old == source.rules[item[1]]
           subst == item[2]
<1>1. item[1] \in Labels(source) /\ IsRule(old)
  BY DEF Typed, Collected, VarRules, Traced, Formed
<1>2. facts \subseteq TimedFacts /\ facts \subseteq Pattern /\ \A fact \in facts : Free(fact)
  BY SeedsTimed DEF Drawn, Traced, TimedFacts
<1>3. PICK choice \in [Matching(old.body) -> facts] : subst \in Substitutions(old.body, choice)
  BY DEF Drawn, Body
<1>4. TermVars(old.head) \subseteq BodyVars(old)
  BY <1>1 DEF HeadsBound
<1> HIDE DEF old, subst
<1>5. \A i \in Matching(old.body) : choice[i] \in Pattern /\ Timed(choice[i]) /\ Free(choice[i])
  BY <1>2, <1>3 DEF TimedFacts
<1>6. IsSubst(subst) /\ BodyVars(old) \subseteq DOMAIN subst /\ Grounds(subst)
  BY <1>1, <1>3, <1>5, SubstitutionsBound, Zenon
<1>7. TermVars(old.head) \subseteq DOMAIN subst
  BY <1>4, <1>6
<1>8. rule \in Instances(item[1], old, subst, facts)
  BY DEF old, subst
<1>9. ASSUME NEW fact \in NewFacts(rule) PROVE Free(fact)
  <2>0. Made(rule, old, subst, facts)
    BY <1>1, <1>2, <1>6, <1>8, InstanceParts, Zenon
  <2>1. rule.head = Apply(old.head, subst)
    BY <2>0 DEF Made
  <2>2. old.head \in Pattern
    BY <1>1 DEF IsRule
  <2>3. rule.head \in Pattern /\ \A k \in DOMAIN rule.head.terms : rule.head.terms[k] \in Term
    BY <1>6, <1>7, <2>1, <2>2, Applied, AppliedTerms
  <2>4. fact = AsFact(rule.head)
    BY <1>9 DEF NewFacts
  <2>5. Timed(fact) /\ fact.terms = rule.head.terms
    BY <2>3, <2>4, FactOf
  <2> QED
    BY <2>3, <2>5, SortAssumption DEF Free, Timed, Var
<1> QED
  BY <1>9

LEMMA GroundedKept ==
  ASSUME Asked, Typed, Drawn, Traced, Staged, Judged, Grounded, [PrepareNext]_prepareVars
  PROVE  Grounded'
<1>0. opts' = opts
  BY DEF PrepareNext, prepareVars, request, FilterBefore, Validate, RewriteWildcards, SkipGround,
     StartGround, Ground, EndGround, ValidateTimes, FilterAfter
<1>1. ASSUME made' = made PROVE Grounded'
  BY <1>0, <1>1 DEF Grounded, MadeFacts, Concluding
<1>2. ASSUME NEW item \in pending, Instantiate(item[1], item[2]), Ground PROVE Grounded'
  <2> SUFFICES ASSUME opts.restrict, opts.wildcards, NEW fact \in MadeFacts' PROVE Free(fact)
    BY <1>0 DEF Grounded
  <2>1. PICK rule \in Instances(item[1], source.rules[item[1]], item[2], facts) :
          made' = Append(made, [of |-> item[1], subst |-> item[2], rule |-> rule])
    BY <1>2 DEF Instantiate
  <2>2. /\ Len(made) \in Nat /\ DOMAIN made = 1 .. Len(made) /\ DOMAIN made' = 1 .. Len(made) + 1
        /\ \A n \in 1 .. Len(made) : made'[n] = made[n]
        /\ made'[Len(made) + 1] = [of |-> item[1], subst |-> item[2], rule |-> rule]
    BY <2>1, Appended DEF Typed, Collected
  <2>3. MadeFacts' \subseteq MadeFacts \cup NewFacts(rule)
    BY <2>2 DEF MadeFacts, Concluding, NewFacts
  <2>4. stage = "ground" /\ phase = "rounds"
    BY <1>2 DEF Ground, Typed, Placed
  <2>5. HeadsBound(source)
    BY <2>4, HeadsStayBound DEF Staged, Judged
  <2>6. \A f \in NewFacts(rule) : Free(f)
    BY <2>5, FactsOfGround DEF Grounded
  <2> QED
    BY <2>3, <2>6 DEF Grounded
<1>3. CASE Ground
  <2>1. CASE TakeRule \/ HitLimit \/ EndRound \/ Build
    BY <1>1, <2>1 DEF TakeRule, HitLimit, EndRound, Build
  <2>2. ASSUME NEW item \in pending, Skip(item[1], item[2]) PROVE Grounded'
    BY <1>1, <2>2 DEF Skip
  <2> QED
    BY <1>2, <1>3, <2>1, <2>2 DEF Ground, Rounds
<1>4. CASE ~ Ground
  <2>1. made' = made
    BY <1>4 DEF PrepareNext, prepareVars, groundVars, vars, FilterBefore, Validate,
       RewriteWildcards, SkipGround, StartGround, Call, EndGround, ValidateTimes, FilterAfter
  <2> QED
    BY <1>1, <2>1
<1> QED
  BY <1>3, <1>4

(* An instance of a theory whose heads are bound has no variable, except   *)
(* in a window.                                                            *)
LEMMA InstanceGround ==
  ASSUME Typed, Traced, HeadsBound(source), \A fact \in MadeFacts : Free(fact),
         NEW n \in DOMAIN made, NEW i \in Places(made[n].rule)
  PROVE  \A k \in DOMAIN LiteralAt(made[n].rule, i).terms :
           LiteralAt(made[n].rule, i).terms[k] \in Term
<1> DEFINE old == source.rules[made[n].of]
           new == made[n].rule
           subst == made[n].subst
<1>1. PICK index, choice :
        /\ index \subseteq Available(n) /\ Available(n) \subseteq TimedFacts
        /\ IsRule(old) /\ made[n].of \in Labels(source)
        /\ choice \in [Matching(old.body) -> index]
        /\ subst \in Substitutions(old.body, choice) /\ IsSubst(subst)
        /\ new \in Instances(made[n].of, old, subst, index)
  BY InstanceOf DEF Body
<1>2. DOMAIN made = 1 .. Len(made) /\ Len(made) \in Nat
  BY Appended DEF Typed, Collected
<1>3. index \subseteq Pattern /\ \A fact \in index : fact \in Pattern /\ Timed(fact) /\ Free(fact)
  <2>1. \A m \in 1 .. n - 1 : m \in DOMAIN made
    BY <1>2
  <2>2. Available(n) \subseteq Seeds(source) \cup MadeFacts
    BY <2>1 DEF Available, MadeFacts, Concluding
  <2>3. \A fact \in Seeds(source) : Free(fact)
    BY SeedsTimed DEF Traced
  <2> QED
    BY <1>1, <2>2, <2>3 DEF TimedFacts
<1>4. TermVars(old.head) \subseteq BodyVars(old)
  BY <1>1 DEF HeadsBound
<1>5. i \in Places(new)
  OBVIOUS
<1> HIDE DEF old, new, subst
<1>6. \A k \in Matching(old.body) : choice[k] \in Pattern /\ Timed(choice[k]) /\ Free(choice[k])
  BY <1>1, <1>3
<1>7. /\ BodyVars(old) \subseteq DOMAIN subst /\ Grounds(subst)
      /\ \A k \in Slots(old.body, {"match", "deny"}) : Variables(old.body[k].lit) \subseteq DOMAIN subst
  BY <1>1, <1>6, SubstitutionsBound, Zenon
<1>8. /\ Places(new) = Places(old) /\ new.head = Apply(old.head, subst)
      /\ \A k \in Slots(old.body, {"match", "deny"}) :
           new.body[k].lit \in Normal(Apply(old.body[k].lit, subst), index)
  <2>1. Made(new, old, subst, index)
    BY <1>1, <1>3, InstanceParts, Zenon
  <2>2. Places(new) = Places(old) /\ new.head = Apply(old.head, subst)
    BY <2>1 DEF Made
  <2> QED
    BY <1>1, <1>7, <2>1, <2>2, MadeOnce, Zenon
<1>9. \A k \in Places(old) : LiteralAt(old, k) \in Pattern
  BY <1>1, RuleParts
<1>10. CASE i = 0
  <2>1. old.head \in Pattern /\ LiteralAt(new, i) = Apply(old.head, subst)
    BY <1>8, <1>9, <1>10 DEF Places, LiteralAt
  <2>2. TermVars(old.head) \subseteq DOMAIN subst
    BY <1>4, <1>7
  <2> QED
    BY <1>1, <1>7, <2>1, <2>2, AppliedTerms DEF new
<1>11. CASE i # 0
  <2>1. i \in Slots(old.body, {"match", "deny"})
    BY <1>5, <1>8, <1>11 DEF Places
  <2>2. old.body[i].lit \in Pattern /\ LiteralAt(new, i) = new.body[i].lit
    <3>1. LiteralAt(old, i) = old.body[i].lit /\ i \in Places(old)
      BY <1>11, <2>1 DEF LiteralAt, Places
    <3>2. LiteralAt(old, i) \in Pattern
      BY <1>9, <3>1
    <3> QED
      BY <1>11, <3>1, <3>2 DEF LiteralAt
  <2>3. TermVars(old.body[i].lit) \subseteq DOMAIN subst
    BY <1>7, <2>1 DEF Variables
  <2>4. \A k \in DOMAIN Apply(old.body[i].lit, subst).terms :
          Apply(old.body[i].lit, subst).terms[k] \in Term
    BY <1>1, <1>7, <2>2, <2>3, AppliedTerms
  <2>5. new.body[i].lit = Apply(old.body[i].lit, subst) \/ new.body[i].lit \in index
    BY <1>8, <2>1 DEF Normal
  <2>6. \A f \in index : \A k \in DOMAIN f.terms : f.terms[k] \in Term
    <3> SUFFICES ASSUME NEW f \in index, NEW k \in DOMAIN f.terms PROVE f.terms[k] \in Term
      OBVIOUS
    <3>1. f \in Pattern /\ Free(f)
      BY <1>3
    <3>2. f.terms[k] \in Term \cup TermVar
      BY <3>1, PatternParts
    <3> QED
      BY <3>1, <3>2 DEF Free, Var
  <2>7. \A k \in DOMAIN new.body[i].lit.terms : new.body[i].lit.terms[k] \in Term
    BY <2>4, <2>5, <2>6
  <2> QED
    BY <2>2, <2>7 DEF new
<1> QED
  BY <1>10, <1>11

LEMMA ReadyGround ==
  ASSUME Typed, Limited, Named, Staged, Traced, Judged, Grounded
  PROVE  FullyGround
<1> SUFFICES ASSUME stage = "ready", opts.ground, opts.restrict, opts.wildcards,
                    NEW r \in Labels(theory)
             PROVE  ~ HasVariables(theory.rules[r])
  BY DEF FullyGround
<1>1. PICK th : LeftByGround(th) /\ theory = AsOf(th)
  BY DEF Staged
<1>2. r \in Labels(th) /\ theory.rules[r] = th.rules[r]
  BY <1>1, AsOfRules
<1>3. CASE VarRules(th) = {}
  BY <1>2, <1>3 DEF VarRules
<1>4. CASE th = Assembled /\ ReadyToGround(source)
  <2>1. /\ Labels(th) = GroundRules(source) \cup InstanceLabels
        /\ \A n \in DOMAIN made : th.rules[LabelOf(n)] = made[n].rule
        /\ \A l \in GroundRules(source) \ InstanceLabels : th.rules[l] = source.rules[l]
    BY <1>4, AssembledRules
  <2>2. CASE r \notin InstanceLabels
    BY <1>2, <2>1, <2>2 DEF GroundRules, VarRules
  <2>3. CASE r \in InstanceLabels
    <3>1. PICK n \in DOMAIN made : theory.rules[r] = made[n].rule
      BY <1>2, <2>1, <2>3 DEF InstanceLabels
    <3> DEFINE new == made[n].rule
               old == source.rules[made[n].of]
    <3>2. HeadsBound(source) /\ \A fact \in MadeFacts : Free(fact)
      BY <1>4, HeadsStayBound DEF Staged, Judged, Grounded
    <3>3. \A i \in Places(new) : \A k \in DOMAIN LiteralAt(new, i).terms :
            LiteralAt(new, i).terms[k] \in Term
      BY <3>2, InstanceGround
    <3>4. \A i \in Places(new) : LiteralAt(new, i) \in Pattern /\ Timed(LiteralAt(new, i))
      BY <3>1, ReadyPatterns DEF TimedFacts
    <3>5. \A i \in Places(new) : Variables(LiteralAt(new, i)) = {}
      <4> HIDE DEF new
      <4>1. \A i \in Places(new) : Free(LiteralAt(new, i))
        BY <3>3, <3>4, SortAssumption DEF Free, Timed, Var
      <4> QED
        BY <3>4, <4>1, FreeVariables
    <3>6. PICK index \in SUBSET Available(n) :
            /\ Available(n) \subseteq TimedFacts /\ IsRule(old) /\ IsSubst(made[n].subst)
            /\ new \in Instances(made[n].of, old, made[n].subst, index)
      BY InstanceOf
    <3>7. index \subseteq Pattern
      BY <3>6 DEF TimedFacts
    <3>8. DOMAIN old.body = 1 .. Len(old.body) /\ Len(old.body) \in Nat
      BY <3>6, RuleParts
    <3> HIDE DEF old, new
    <3>9. /\ new.before = {} /\ Slots(new.body, {"bind"}) = {}
          /\ Slots(new.body, {"match", "deny"}) = Slots(old.body, {"match", "deny"})
      <4>1. Made(new, old, made[n].subst, index)
        BY <3>6, <3>7, InstanceParts, Zenon
      <4> QED
        BY <4>1 DEF Made
    <3>10. \A i \in Slots(new.body, {"match", "deny"}) :
             i \in Places(new) /\ LiteralAt(new, i) = new.body[i].lit
      BY <3>8, <3>9 DEF Places, LiteralAt, Slots
    <3>11. 0 \in Places(new) /\ LiteralAt(new, 0) = new.head
      BY DEF Places, LiteralAt
    <3>12. ~ HasVariables(new)
      BY <3>5, <3>9, <3>10, <3>11 DEF HasVariables
    <3> QED
      BY <3>1, <3>12 DEF new
  <2> QED
    BY <2>2, <2>3
<1> QED
  BY <1>1, <1>3, <1>4 DEF LeftByGround

(* What passes both validations and grounding has no variables left: a     *)
(* rule whose head is bound by its body makes ground instances only.       *)
THEOREM PrepareFullyGround == PrepareSpec => []FullyGround
<1>1. PrepareInit => Judged /\ Grounded
  <2> SUFFICES ASSUME PrepareInit PROVE Judged /\ Grounded
    OBVIOUS
  <2>1. stage = "filter" /\ DOMAIN made = {}
    BY DEF PrepareInit, Init
  <2> QED
    BY <2>1 DEF Judged, Grounded, MadeFacts, Concluding
<1> QED
  BY <1>1, ReadyGround, JudgedKept, GroundedKept, ProvenanceInit, ProvenanceKept, StagedInit,
     TypedInit, NamedInit, PTL DEF PrepareSpec

=============================================================================
