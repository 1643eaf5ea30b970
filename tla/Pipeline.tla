------------------------------ MODULE Pipeline ------------------------------
(***************************************************************************)
(* prepare() of crates/spindle-core/src/pipeline: the stages that make a   *)
(* theory ready for reasoning, each given the theory the one before has    *)
(* returned.  Grounding is not one step but the call of the module it      *)
(* extends; the variables of that module change at no other stage.         *)
(* A theory with folds takes another path, and the extension functions     *)
(* that validation looks up are all known.                                 *)
(***************************************************************************)
EXTENDS Grounding

CONSTANTS
  Wildcard,        \* the term `_`
  FreshVar(_),     \* the variable ?_wN
  NoTime,          \* no reference time is given
  Theories,        \* the theories that may be prepared
  Options          \* the options that may be given

ASSUME PipelineAssumption ==
  /\ Wildcard \in Term
  /\ NoTime \notin Time
  /\ \A th \in Theories : IsTheory(th)
  /\ Options \subseteq [time : Time \cup {NoTime}, ground : BOOLEAN, restrict : BOOLEAN,
                        wildcards : BOOLEAN, limits : Limits]
  /\ \A n \in 1 .. MaxCount :
        FreshVar(n) \in TermVar /\ \A m \in 1 .. MaxCount : m # n => FreshVar(m) # FreshVar(n)

VARIABLES
  input,      \* the theory given
  opts,
  stage,      \* the stage that comes next, "ready" after the last, "failed"
  theory      \* what the stage before has returned

request   == <<input, opts>>
groundVars == vars
prepareVars == <<input, opts, stage, theory, vars>>

PrepareInit ==
  /\ input \in Theories /\ opts \in Options
  /\ stage = "filter"
  /\ theory = input
  /\ Init

(* active_at; a window with variables cannot be judged yet. *)
Active(win, t) ==
  win # NoWindow /\ {win[1], win[2]} \cap Var = {} => win[1] <= t /\ t <= win[2]

RuleActive(rule, t) ==
  /\ Active(rule.win, t) /\ Active(rule.head.win, t)
  /\ \A i \in Slots(rule.body, {"match", "deny"}) : Active(rule.body[i].lit.win, t)

(* Mutant: the new theory has no superiority.                              *)
FilterTemporalUnranked(th, t) ==
  [rules |-> [r \in {l \in Labels(th) : RuleActive(th.rules[l], t)} |-> th.rules[r]],
   sup   |-> {}]

(* filter_temporal: a superiority pair stays when both of its labels do. *)
FilterTemporal(th, t) ==
  LET kept == {r \in Labels(th) : RuleActive(th.rules[r], t)}
  IN  [rules |-> [r \in kept |-> th.rules[r]],
       sup   |-> {pair \in th.sup : {pair[1], pair[2]} \subseteq kept}]

AsOf(th) == IF opts.time = NoTime THEN th ELSE FilterTemporal(th, opts.time)

FilterBefore ==
  /\ stage = "filter"
  /\ theory' = AsOf(theory)
  /\ stage' = "validate"
  /\ UNCHANGED <<request, groundVars>>

(* Range restriction asks for the terms of the head only, and any premise  *)
(* or constraint that mentions a variable is enough.                       *)
BodyVars(rule) ==
  (UNION {TermVars(rule.body[i].lit) : i \in Slots(rule.body, {"match", "deny"})})
    \cup {rule.body[i].to : i \in Slots(rule.body, {"bind"})}

(* Mutant: a variable of the head may be missing in the body.              *)
ValidRuleUnrestricted(rule) ==
  opts.wildcards => \A k \in DOMAIN rule.head.terms : rule.head.terms[k] # Wildcard

ValidRule(rule) ==
  /\ opts.wildcards => \A k \in DOMAIN rule.head.terms : rule.head.terms[k] # Wildcard
  /\ opts.restrict => TermVars(rule.head) \subseteq BodyVars(rule)

Validate ==
  /\ stage = "validate"
  /\ stage' = IF \A r \in Labels(theory) : ValidRule(theory.rules[r])
              THEN "rewrite" ELSE "failed"
  /\ UNCHANGED <<request, theory, groundVars>>

(* Wildcards are numbered by one counter through all the rules, which come *)
(* out of a hash map; the place of the head is 0.                          *)
LiteralAt(rule, i) == IF i = 0 THEN rule.head ELSE rule.body[i].lit

Wildcards(th) ==
  UNION {UNION {{<<r, i, k>> : k \in {h \in DOMAIN LiteralAt(th.rules[r], i).terms :
                                        LiteralAt(th.rules[r], i).terms[h] = Wildcard}} :
                  i \in {0} \cup Slots(th.rules[r].body, {"match", "deny"})} :
           r \in Labels(th)}

Rewritten(th, number) ==
  LET lit(r, i) ==
        LET l == LiteralAt(th.rules[r], i)
        IN  [l EXCEPT !.terms =
               [k \in DOMAIN l.terms |->
                  IF <<r, i, k>> \in DOMAIN number THEN FreshVar(number[<<r, i, k>>])
                                                   ELSE l.terms[k]]]
      body(r) ==
        [i \in DOMAIN th.rules[r].body |->
           IF IsLogic(th.rules[r].body[i]) THEN [th.rules[r].body[i] EXCEPT !.lit = lit(r, i)]
                                           ELSE th.rules[r].body[i]]
  IN  [rules |-> [r \in Labels(th) |-> [th.rules[r] EXCEPT !.body = body(r), !.head = lit(r, 0)]],
       sup   |-> th.sup]

(* Mutant: all the wildcards are one variable.                             *)
NumberingShared(S) == {[x \in S |-> 1]}

Numbering(S) ==
  {number \in [S -> 1 .. MaxCount] :
     /\ \A x, y \in S : x # y => number[x] # number[y]
     /\ \A x \in S : \A n \in 1 .. number[x] : \E y \in S : number[y] = n}

RewriteWildcards ==
  /\ stage = "rewrite"
  /\ \E number \in Numbering(Wildcards(theory)) : theory' = Rewritten(theory, number)
  /\ stage' = "ground"
  /\ UNCHANGED <<request, groundVars>>

(* Mutant: grounding that is disabled is waited for.                       *)
SkipGroundIfEmpty ==
  /\ stage = "ground" /\ phase = "idle"
  /\ VarRules(theory) = {}
  /\ stage' = "times"
  /\ UNCHANGED <<request, theory, groundVars>>

(* Grounding is left out when it is disabled or has nothing to do. *)
SkipGround ==
  /\ stage = "ground" /\ phase = "idle"
  /\ ~ opts.ground \/ VarRules(theory) = {}
  /\ stage' = "times"
  /\ UNCHANGED <<request, theory, groundVars>>

StartGround ==
  /\ stage = "ground"
  /\ opts.ground /\ VarRules(theory) # {}
  /\ Call(theory, opts.limits)
  /\ UNCHANGED <<request, stage, theory>>

Ground ==
  /\ stage = "ground"
  /\ Rounds
  /\ UNCHANGED <<request, stage, theory>>

EndGround ==
  /\ stage = "ground" /\ phase = "done"
  /\ theory' = grounded
  /\ stage' = "times"
  /\ UNCHANGED <<request, groundVars>>

(* What grounding has left without an instant is refused. *)
ValidateTimes ==
  /\ stage = "times"
  /\ stage' = IF \A r \in Labels(theory) :
                   \A i \in {0} \cup Slots(theory.rules[r].body, {"match", "deny"}) :
                      Timed(LiteralAt(theory.rules[r], i))
              THEN "filter again" ELSE "failed"
  /\ UNCHANGED <<request, theory, groundVars>>

(* Mutant: instances that only now have a window are not filtered.         *)
FilterAfterSkipped ==
  /\ stage = "filter again"
  /\ stage' = "ready"
  /\ UNCHANGED <<request, theory, groundVars>>

FilterAfter ==
  /\ stage = "filter again"
  /\ theory' = AsOf(theory)
  /\ stage' = "ready"
  /\ UNCHANGED <<request, groundVars>>

PrepareNext ==
  \/ FilterBefore \/ Validate \/ RewriteWildcards
  \/ SkipGround \/ StartGround \/ Ground \/ EndGround
  \/ ValidateTimes \/ FilterAfter

PrepareSpec == PrepareInit /\ [][PrepareNext]_prepareVars

(* The call is sequential code. *)
FairPrepare == PrepareSpec /\ WF_prepareVars(PrepareNext)

-----------------------------------------------------------------------------
TypeOK ==
  /\ stage \in {"filter", "validate", "rewrite", "ground", "times", "filter again",
               "ready", "failed"}
  /\ phase \in {"idle", "rounds", "build", "done"}
  /\ limits \in Limits
  /\ round \in 0 .. limits.iterations
  /\ limitHit \in BOOLEAN
  /\ delta \subseteq facts /\ fresh \subseteq facts
  /\ queue \subseteq VarRules(source)
  /\ \A item \in pending : item[1] \in VarRules(source) \ queue
  /\ \A n \in DOMAIN made : made[n].of \in VarRules(source)

(* The rules of the input that grounding leaves as they are. *)
Plain == {r \in GroundRules(input) : \A w \in Wildcards(input) : w[1] # r}

(* The as-of contract of the whole pipeline: what is ready has exactly the *)
(* ground rules of the input and the instances that are active at the      *)
(* reference time, except where an instance has taken a rule's label.  The *)
(* first pass cannot judge a window with variables, the second must.       *)
AsOfContract ==
  stage = "ready" =>
    LET asOf(rule) == opts.time # NoTime => RuleActive(rule, opts.time)
    IN  /\ \A n \in DOMAIN made :
              asOf(made[n].rule) <=>
                LabelOf(n) \in Labels(theory) /\ theory.rules[LabelOf(n)] = made[n].rule
        /\ \A r \in Plain \ InstanceLabels : asOf(input.rules[r]) <=> r \in Labels(theory)
        /\ opts.ground => Labels(theory) \subseteq Plain \cup InstanceLabels

(* Superiority is declared between templates and holds between all their   *)
(* instances.  Without a reference time no pair is lost; with one, none    *)
(* between ground rules that are still there under their labels.           *)
Ranked ==
  stage = "ready" =>
    \A pair \in input.sup :
       \/ /\ opts.time # NoTime
          /\ ~ {pair[1], pair[2]} \subseteq (Plain \ InstanceLabels) \cap Labels(theory)
       \/ pair \in theory.sup

(* The guide's words, for any two rules that are ready.  *)
TemplatesRanked ==
  stage = "ready" =>
    \A r, s \in Labels(theory) :
       LET pair == <<theory.rules[r].template, theory.rules[s].template>>
       IN  pair \in input.sup => pair \in theory.sup

(* A wildcard matches anything: the variable that stands for it occurs     *)
(* nowhere else in its rule.                                               *)
WildcardsFree ==
  stage = "ground" =>
    \A r \in Labels(theory) :
       \A x, y \in {0} \cup Slots(theory.rules[r].body, {"match", "deny"}) :
          \A j \in DOMAIN LiteralAt(theory.rules[r], x).terms,
            k \in DOMAIN LiteralAt(theory.rules[r], y).terms :
             /\ LiteralAt(input.rules[r], x).terms[j] = Wildcard
             /\ <<x, j>> # <<y, k>>
             => LiteralAt(theory.rules[r], x).terms[j] # LiteralAt(theory.rules[r], y).terms[k]

(* What passes both validations and grounding has no variables left.  A    *)
(* wildcard in a head would be one that nothing binds.                     *)
FullyGround ==
  stage = "ready" /\ opts.ground /\ opts.restrict /\ opts.wildcards =>
    \A r \in Labels(theory) : ~ HasVariables(theory.rules[r])

(* A window put together from instants of several premises never ends      *)
(* before it starts, so it is active at some time.                         *)
WindowsForward ==
  stage = "ready" =>
    \A r \in Labels(theory) :
       \A i \in {0} \cup Slots(theory.rules[r].body, {"match", "deny"}) :
          LET win == LiteralAt(theory.rules[r], i).win
          IN  win = NoWindow \/ win[1] <= win[2]

(* Every call ends. *)
Terminates == <>(stage \in {"ready", "failed"})
=============================================================================
