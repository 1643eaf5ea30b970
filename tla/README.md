# A formal model of the Spindle reasoner

Spindle is a reasoner for defeasible logic: from facts, strict rules, defeasible
rules, defeaters and a superiority relation it computes which literals are
provable definitely (`+D`), refuted definitely (`-D`), provable defeasibly
(`+d`) and refuted defeasibly (`-d`). Refutation is constructive: a literal that
is neither proved nor refuted is *undecided*, and that is different from both.

This directory holds TLA+ modules for the parts of the program that decide what
is concluded, from a first-order theory to the degree of trust in a conclusion,
the TLC configurations that check them on all small theories of several pools,
and TLAPS proofs that hold for every theory. It also models the string interner
that all threads share.

Paths below are relative to `src/crates/spindle-core/src` unless they start with
`src/`.

## 1. The system

| part | source | state | operations | talks to |
| --- | --- | --- | --- | --- |
| Literals | `literal.rs`, `mode.rs`, `FamilyId` in `projection.rs` | none | complement, outer negation, canonical form, opponents, defense, matching | everything |
| Theory and index | `theory.rs`, `rule.rs`, `superiority.rs`, `index.rs` | rules by label, superiority pairs, interned literals; fixed while reasoning | look-ups by head, body, family; attackers and defenders of a goal | read by the engine |
| Engine | `reason/*.rs` | tag sets, per-rule counters and slot sets, discard flags, family live counts, two worklists, conclusions | one call, three phases | reads the index; its conclusions feed queries, trust, explanations |
| Reference | `src/lean/Spindle/Modal` | the inferred tags | any inferences that are due | the specification the engine is compared with |
| Interner | `intern.rs` | process-wide table behind a `RwLock` | `intern`, `resolve` | every thread |
| Grounding | `grounding.rs`, `body.rs` | facts, delta, known instances, instance counter | semi-naive rounds under two limits | called by the pipeline |
| Pipeline | `pipeline/` | the theory handed from stage to stage | temporal filter, validation, wildcard rewrite, grounding, filter again | calls grounding |
| Trust | `trust.rs`, `pipeline/mod.rs:460-740` | derivation tree per conclusion | weakest link, defeater diminishment | reads conclusions and rules |
| Queries | `query/` | a private copy of the theory | `what_if`, `abduce`, `requires`, `why_not` | call the engine again |
| Aggregation | `aggregation*` | folds over snapshots | lower a theory with folds | calls pipeline and engine |
| Temporal, arithmetic, functions | `temporal.rs`, `arith.rs`, `builtins.rs`, `function_registry.rs`, `term.rs` | none | pure functions | used by grounding |
| Explanation, mining, analysis, claims, vocabulary | `explanation/`, `mining.rs`, `analysis/`, `claims.rs`, `vocabulary/` | none | reports | read theories and traces |
| Parser, CLI, contract types, WASM | other crates | none | conversion and I/O | call the core |
| Documentation site, scripts | `src/docs`, `src/scripts` | none | pages, colouring, a build check | nothing |

What is hard here is not concurrency (a reasoning call is sequential; only the
interner is shared between threads) but **order**. The inference conditions are
about sets of tags, while the engine keeps them up to date incrementally:
counters that say how many premises are still open, flags that say a rule can no
longer apply, counts of the members of a family that can still be proved. Each
is updated by events that arrive in an order given by names and hash maps, and
each is read by handlers that decide one literal after the other. A premise
without a time window is satisfied by any member of its family, and refuted only
by all of them; a premise that denies an obligation is satisfied by a proof, or
by the refutation of every member of another family, which no event announces
and only the sweep between two drains of the queue notices. A counter that is
off by one, a flag set by the first of several events, or a decision taken
before a defender's premises are settled gives a tag that no single-theory test
is likely to notice.

Before the engine, **grounding** has the same kind of difficulty. Its rounds look
only at what was new in the round before, while the index they match against
grows within a round; two limits may stop them; instances get labels that may
already be taken. The **pipeline** around it judges windows twice, before and
after they are known, and throws away what it judges to be over. After the
engine, the **trust** pass works out from the report, by texts of literals, what
the engine had decided by families and counters.

What each part must keep, in short:

* literals and index: opposition is symmetric; a literal that a condition may ask
  about is in the index, or is one that no rule mentions;
* engine: the counters and flags mean what the proof theory says, no rule is
  forgotten, no literal has two tags of a level, opposed literals are not both
  concluded, every inference is one of the proof theory and none is missing, the
  report says what the tags say, and the call returns;
* reference: conditions that hold go on holding and exclude each other, so that
  the result does not depend on the order of inferences;
* interner: one symbol per name whatever the interleaving;
* grounding: every instance supported by derivable facts is produced once, and a
  limit that cut the search is reported;
* pipeline: what is ready is the part of the theory that is in force at the
  reference time, fully ground, with its superiority;
* trust: a conclusion is never trusted more than the weakest link of a proof;
* queries: an answer that is returned has been verified by reasoning again.

## 2. The modules

```
Literals <- Theories <- ProofTheory <- DefeasibleLogic      (reference)
                             ^
                             +------- Reasoner              (engine; Reference == INSTANCE DefeasibleLogic)
MCTheories (small theories)   MCReasoner   MCDefeasibleLogic
ProofTheory_proofs <- DefeasibleLogic_proofs
        ^--- Reasoner_proofs <- ReasonerSound_proofs <- ReasonerComplete_proofs <- Trust_proofs

Templates <- Grounding <- Pipeline <- Pipeline_proofs       (from rules with variables to a ground theory)
MCPipeline (small first-order theories)
Reasoner <- Trust        MCTrust (Trust over the theories of MCTheories)

Symbols <- Registry                                         (what the interner promises)
    ^----- Interner <- Interner_proofs                      (Promise == INSTANCE Registry)
MCInterner (names and threads)
```

An arrow points to a module that is extended.

**Literals.** A literal is a record: a ground atom, an inner negation, a modal
operator with its own outer negation, and a time window. Atoms are abstract
values, since nothing here looks inside functor and arguments. `F p` is an alias
of `O not p` and is removed by `Canonical`, as `deontic_normalized` does.

**Theories.** The constant `Theories` maps names to indexed ground theories:
rules by label (so labels are unique, as in `Theory::add_rule`), declared
superiority pairs over template labels, and the interned literals, which
`Index` computes as `IndexedTheory::try_build` does, the closure of deontic
literals under opposition included. Everything is a function of the theory's
name, because the index does not change while reasoning.

**ProofTheory** and **DefeasibleLogic** translate the executable reference in
`src/lean/Spindle/Modal/Reason.lean`: `applicable`, `discarded`, the four
cases of `infer`, and `step`. A step of the reference adds every pair of a tag and
a literal that is missing and can be inferred; here it adds any part of those of
one tag, which contains every order an implementation could choose. As in the
reference, an inference asks only that the literal does not have that same tag.
Nothing keeps it from having the opposite one: when a rule is *torn*, applicable and
discarded at once, the reference may prove a literal and refute it, and so may
the model.

Literals are those of the theory and their complements (`ClosedSet`). The engine's
index holds fewer: `Unindexed` are the complements of indexed plain literals that no
rule mentions. No rule concludes one and the event loop need not meet it; the
reference refutes it. `Failed` adds them to the engine's `-d` literals, and it is
in this sense that the properties of `Reasoner` speak of the proof theory.

**Reasoner** is one call of `reason_indexed_trace`. Its variables are the fields
of `ReasoningState` and the local variables of `resolve_defeasible`; `phase`
says which loop the call is in.

| action | code |
| --- | --- |
| `SeedFact`, `SeededFacts` | `reason/facts.rs`, `initialize_facts` |
| `PopDefinite`, `Visit`, `ForwardDone` | `reason/definite.rs`, `forward_chain_strict` |
| `DeriveNegative`, `NegativeDone` | `reason/definite.rs`, `derive_negative` |
| `Seed`, `StartRules` | `reason/defeasible.rs:41-115` |
| `PopProved`, `PopDisproved` | one event of the loop, `reason/defeasible.rs:134-418` |
| `DecideProved`, `DecideDisproved` | `try_prove_defeasible`, `try_disprove_defeasible` past their early returns |
| `Sweep` | `reason/defeasible.rs:421-496` |
| `Finish` | `reason/defeasible.rs:497-522` |

A handler makes a list of calls. The calls change only the tag of their own
literal, the queue and the conclusions, while their conditions read the counters,
the flags and the definite tags; so which calls will decide something is known
when the handler has updated the counters. `Agenda` is that set, `todo` what is
left of it, and each decision is a step. The calls for one event are taken in
any order, which includes the order of the code; those of the initial rules and
of the sweep are taken in the order of the literals' names, as in the code. The
steps between two pops have no other effect, so this splits a handler without
adding interleavings the code does not have, except orders, which the property
`Exclusive` shows not to matter.

`Reference` is the proof theory over the engine's tags, where what is refuted is
`FailedInReference`: nothing before the `-D` fixpoint of the engine is complete,
and `Failed` from then on. The unindexed literals are refuted in one step, the
one that ends the fixpoint.

A positive conclusion is spelled as the head of its rule, `F p` or `O not p`, and a
negative one canonically, as in the code; tags are of canonical literals.

Left out of the engine: `projection_labels`, which records rule labels for
explanations and is read by nothing in the call, and the removal of internal
aggregate predicates from the finished list.

**Symbols** has the identifiers of `intern.rs`: a symbol is the place of its name
in the table, cut to 32 bits (`2 * HalfRange`), and a literal identifier is 31
bits of a symbol under a sign.

**Registry** says what the interner promises: `intern`, `resolve` and
`interned_count` each take effect at one moment between call and return, on one
table that only grows and holds no name twice.

**Interner** is `intern.rs` with its lock. Every thread has a place in the code
(`pc`), its call and its local result; `readers` and `writer` are the `RwLock`,
`initialised`, `strings` and `map` the `Option<Interner>` it guards.

| action | code |
| --- | --- |
| `Call` | `intern.rs:189`, `221`, `228` |
| `ReadLock`, `Find`, `ReturnRead` | the fast path, `intern.rs:141-144`, `192-197` |
| `Miss` | the read guard is dropped, `intern.rs:145`, `198` |
| `WriteLock` | `intern.rs:148`, `160` |
| `Recheck` | the table created if it is missing and searched again, `intern.rs:149-152`, `161-164`, `113-115` |
| `Store`, `Record` | `strings.push` and `map.insert`, `intern.rs:117-121` |
| `ReturnWrite` | the write guard is dropped at the return |

The standard library's lock is modelled by what it guarantees: readers and
writers exclude each other. It promises no order among those that wait, so none
is assumed. `symbols` is a history variable that no step reads: which symbol
`intern` returned for which name. The refinement maps the registry's table to
the interner's (the table that `Interner::new` would make, while there is none)
and a call's moment of effect to `Find`, `Recheck` or `Store`. The argument
of `resolve` may be any symbol, since `from_raw` and deserialisation make symbols
that were never handed out.

**Templates** has first-order rules and what matching does with them: a literal
is a sequence of terms and variables under a window. Variables for terms and for
instants are two sorts, as in the two maps of a `Substitution`, and a window with
two known instants has the earlier one first (`Window`), because `Temporal::new`
is the only way to make one. A substitution is a function on the variables it
binds: the first occurrence of a variable binds it (`First`), and numbers that are
equal need not be the same term. A premise that the reasoner is to check is
accepted when nothing in it is left unbound once it is resolved
(`negative_modal_is_bound`), and the literals in the body of an instance are resolved and then
substituted in once more, as in the code. `AsFact` is a literal as the index of facts holds
it: without a window, unless both of its instants are known. And `Substitutions(body, choice)` what the body's items,
taken from left to right, make of a choice of facts. Numbers of different types
are different terms with one `Value`; an arithmetic item computes a term by a
given partial function; Allen constraints and state queries are pairs of instants
that must be in order. `Apply` puts windows together as `Temporal::new` does, which
swaps instants given in the wrong order. Deontic canonical forms are taken for granted: the
functor stands for a name with its negation and mode.

**Grounding** is one call of `ground_theory_with_limit`.

| action | code |
| --- | --- |
| `Call` | up to the loop, `grounding.rs:907-956` |
| `TakeRule` | the substitutions of the next rule, `967-973`, `706-751` |
| `HitLimit`, `Skip`, `Instantiate` | one substitution, `975-1021` |
| `EndRound` | `1024-1033` |
| `Build` | `1035-1047` |

Rules are taken by label, as in the code; the substitutions of one rule in any
order, because which comes first depends on the facts' order in vectors that is
not worth modelling. `made` is the list of instances; the known signatures and
the counter of the code are read off it.

**Pipeline** is `prepare()`: `stage` says which stage is next, `theory` is what
the last one returned.

| action | code |
| --- | --- |
| `FilterBefore`, `FilterAfter` | `pipeline/temporal.rs:27-84`, twice, `pipeline/mod.rs:349-352`, `374-378` |
| `Validate` | `pipeline/validate.rs:36-112` |
| `RewriteWildcards` | `pipeline/wildcard.rs` |
| `SkipGround`, `StartGround`, `EndGround` | `pipeline/ground.rs:36-84`, `pipeline/mod.rs:363-369` |
| `Ground` | any step of the module Grounding |
| `ValidateTimes` | `pipeline/temporal.rs:105-161` |

Numbering of wildcards follows the iteration of a hash map, so any numbering
without gaps is possible.

**Trust** reads a finished call of the engine. A degree is a minimum, and a
minimum is known when it is known of every threshold whether it reaches it; so
sources and policy appear only as the set `trusted` of rules whose own trust
reaches the threshold, over which the properties quantify. `build_trust_tree` is a
recursion over paths; a minimum over its nodes depends only on which literals it
meets and on whether a path comes back. `Below` is the set of literals under the
root: the least one that has the root's premises and is not left by following
premises (`Links`), each through the rule of its best conclusion. `ComesBack` says
that `visited` cuts a path, at the root's literal or on a circle below it, and
`Reaches` is then `weakest_link_trust`. Without recursive operators the module
can be proved about.

## 3. What the runs check

`MCTheories` builds theories from *pools* of rules: every choice of at most
as many rules of a pool as it is listed with, with every set of at most `MaxPairs` superiority
pairs between rules with opposed heads. The initial states are all of these
theories, so a run is exhaustive over the theories of its pools and over all
orders of facts, of strict rules and of calls within an event.

| run | pool, bounds | shows |
| --- | --- | --- |
| `reasoner_plain` | 17 plain rules (facts, chains, loops, defeaters, two premises), 3 rules; 9 rules of one conflict and 6 of a conflict between obligation and permission, 4 rules; 2 pairs | `Coherent`, `Saturated`, `Reported`, `Consistent`, `Exclusive`, `Implements` |
| `reasoner_family` | 15 rules over two windows, 8 over denials of an obligation at two windows, 16 over obligation, permission, prohibition and denial, 3 rules each; 6 rules of which one can be torn, 4 rules; 2 pairs | `TypeOK`, `Consistent`, `CountsSlots`, `FlagsSound`, `FlagsComplete`, `Saturated`, `ApplicableForever`, `Terminates` |
| `proof_theory` | the plain pool, 2 rules; 3 rules about an obligation that the facts state and deny; 2 pairs | `CoherentTags`, `OneWay`, `ConsistentTags`, `Persistent` |
| `interner` | 3 threads, the empty string and 4 names, symbols of 2 bits | `TypeOK`, `OneSymbol`, `Resolves`, `LiteralsDistinct`, `NeverStuck`, `Implements` |
| `pipeline` | 6 sets of facts, 25 rules alone and 21 pairs of them, ranked or not; 6 pairs of limits; no time or time 3; validation and grounding on or off | `TypeOK`, `Supported`, `Once`, `Complete`, `LimitMeant`, `Met`, `Kept`, `AsOfContract`, `Ranked`, `WildcardsFree`, `FullyGround`, `WindowsForward`, `Terminates` |
| `trust` | the plain pool and 9 rules about a prohibition, 3 rules; 2 pairs; every set of trusted rules | `NeverCut`, `WeakestLink`, `ChallengesMet` |

Why the bounds are enough to see something: three rules make a rule, its
attacker and a producer of a premise, or a family of two windows and a rule that
uses both; four rules and two pairs make team defense, where one rule of each
side is beaten by a different rule of the other. In `interner` two threads race for one
name while a third holds the lock or has just released it, and five names are one
more than symbols of two bits can tell apart, so that the run passes the point
where two names share a literal identifier and the one where they share a
symbol. In `pipeline` a pair of rules is a rule and one that makes facts for it
in either order of labels, so that an instance can be found early within a round
and again in the next; limits of 2 and 3 instances cut a round in its middle,
8 are never reached by chance, and one of the ground rules, `r1_1`, has the label the first
instance of `r1` will get. Rules with two windows put instants together in both
orders, and the numbers 8 and 8.0 meet from either side. The names and threads of `interner` are symmetric, and the empty string is not: it
is in every table. Each property is paired in
`PROJECT.json` with a mutated definition (a counter that counts matches, a flag
set by the first refuted member, a condition read the wrong way round, a dropped
guard) and the same run, with the same bounds, finds the property violated.

`Terminates` assumes `WF_vars(Next)`: the call is sequential code that keeps
running, and no step waits for anyone. It says that the loop around the sweep,
which re-enters the event loop whenever the sweep queued something, comes to an
end. `Terminates` of `pipeline` assumes `WF_prepareVars(PrepareNext)` for the
same reason; it shows that every stage can go on, and that the limits end rounds
that would go on producing facts for ever.

Six runs expect a violation. Each states what a comment or guide says and
finds what the engine does instead:

* `undecided_unreported`: the comment on `ReasoningState` says the last phase
  emits `-d` for all unproven literals. A literal that only supports itself gets
  no conclusion: of the two strict rules `p -> q` and `q -> p` alone, neither
  literal is refuted at any level and the report is empty. (The header of `defeasible.rs` agrees with the code: undecided
  literals are not reported.)
* `denial_and_obligation`: the modal guide says an explicit proof satisfies a
  premise that denies an obligation. The sweep discards such a rule as soon as
  the obligation is `+d` at any window, so that whether the explicit proof helps
  depends on whether it comes before the first sweep.
* `permission_and_prohibition`: the comment on `opponents` says an obligation
  conflicts with the opposite permission. Four defaults in a chain of
  superiority conclude `P p` and `F p` together, because the rule that
  defends the permission belongs to a class whose own attackers do not attack
  the permission. The comment describes the conflict and stops short of promising that
  no two such literals are concluded; `src/docs/src/internals/verification.md:33` and
  `src/lean/MODAL.md:99` say that no normative consistency is proved. The
  run shows what that leaves open. `Consistent` and `ConsistentTags` speak of opposed
  literals of one mode.

* `asof_ranks`: the grounding guide says superiority between rule templates holds
  between all their instances. With a reference time the second temporal filter
  runs after grounding, finds no rules with the templates' labels and drops the
  pairs. `Ranked` says what is kept: every pair without a reference time, and the
  pairs between ground rules with one.
* `rounds_unreported`: `limit_hit` is documented to say whether limits stopped
  grounding. The limit on rounds stops it silently. `LimitMeant` and `Complete`
  say what a caller may rely on: without a report, and before the last round, the
  instances are all there.
* `trust_family`: the trust guide says a degree is the minimum over the whole
  derivation. A premise without a window that is met by a literal with one is not
  followed. Nor would be a premise `O not p` met by a rule that concludes `F p`, since both
  are looked up as they are spelled. On plain theories, where every rule that can meet a
  premise spells its head as the premise is spelled (`PlainPremises`),
  `WeakestLink` holds (run `trust`), and so does `NeverCut`; with families a trace can also
  come back to its own literal and take the default trust.

Three properties say less than their names, each because the code does.
`Saturated` promises that no defeasible inference is missing only when no rule is
*torn*, that is applicable and discarded at once (`Untorn` says that there is
none): a denial of an obligation may
hold by an explicit proof and be refuted by an obligation at another window. The
engine calls such a rule discarded, the proof theory calls it both, and what
depends on it may be inferable and yet not inferred. `CoherentTags` and
`ConsistentTags` have the same proviso, since the proof theory gives both tags
of the defeasible level there; the engine never does (`Coherent`). The pool of torn rules reaches
such states, and `denial_and_obligation` is about the same rules. `Met` speaks of
instances whose facts are ground: without range restriction a head may keep a
variable, and a premise that was bound to it names something no fact has. And
`FullyGround` needs the rewriting of wildcards, since a wildcard in a head is
refused by that validation only.

Deadlock is checked in `interner`, where a thread that is outside can always
call, and `NeverStuck` says what that leaves open: among the threads that are
inside, one can go on. That every call returns is not claimed, because a lock
without a policy may let others pass for ever. In the other runs deadlock is not
checked: a finished call, and a saturated reference, stop.

## 4. What is proved

Every safety property of the passing runs is also a theorem, for every value of the
constants; `NeverCut`, `WeakestLink` and `ChallengesMet` of `Trust` for the theories
with plain premises, which are those they hold of.

### Engine and proof theory

The proofs hold for every set of atoms, windows, labels and theories that
satisfies the two assumptions of the model: no window is the absent window
(`WindowAssumption`), and a theory is finite, its facts have no premises and it
is the index of its rules (`TheoriesAssumption`). TLC evaluates both in every
run.

* `TypeCorrect`: `TypeOK` and `CountsSlots` together are inductive. They have to
  be proved together: that the subtraction of the sweep stays in `Nat`, which is
  what `TypeOK` says of the counters, follows only from a counter being the
  number of uncovered slots. `CountsSlotsAlways` is its second half.
* `TagsOriginate`: `Origins`, which says where tags, events and decisions come
  from, and `Coherent`.
* `SoundAlways`: the inductive invariant behind the flags. `FlagsSound` is not
  inductive: that a counter reaches zero is sound only if every slot covered so
  far holds (`CoversMean`), that a flag is sound only if its marks mean a
  premise that cannot hold (`DiscardsMean`), that a family whose live count is
  zero has only refuted members needs the live count to be the number of members
  not yet counted dead (`CountsFamily`), and a decision waiting in `todo` has
  to satisfy the condition of the proof theory until it is taken.
  `FlagsSoundAlways` and `ApplicableAlways` follow from it.
* `ExclusiveAlways`: a literal is never open to a proof and to a refutation. It is
  a fact about one state (`NotBothWays`): the attacker for which the literal is
  refuted would have to be beaten, for its proof, by a superior defender that has
  fired and is not discarded, and the refutation asks that every such defender is
  discarded.
* `FlagsCompleteAlways` and `SaturatedAlways`: the converse of soundness. Its
  invariant says of every tag that it is still announced by an event or has had
  its effect: at the definite level (`DefiniteDrawn`), on counters (`Noticed`), on
  flags (`DeathsNoticed`), and for what no event announces, on the sweep
  (`Swept`: after a sweep that queued nothing there is nothing for another).
  `PhasesDone` keeps what earlier loops have finished. When the queues are empty
  all announcements have had their effect, so the counters and flags are those of
  the proof theory, and an inference that is still possible would be in an agenda
  that the last sweep has looked at. `NeverTorn` says that no rule is
  torn without denials of obligations, so that the exception of `Saturated` does not occur.
* `ReportedAlways`: each tag is pushed with its conclusion (`Pushed`), once, with
  a rule that asserts the literal and is applicable.
* `OutcomeIsLeast`: the tags of a finished call in which no rule is torn are the
  least quadruple closed under the four inference conditions. Least (`Minimal`):
  every new tag is inferred from the tags before it, and the conditions are
  monotone in the tags. Closed: `Saturated`. The refuted ones are `Failed`.
  There is one least quadruple (`OneLeast`), so the result is a function of the
  theory, whatever the hash maps' orders, which is what determinism means here.
* `ConsistentAlways`: opposed literals of one mode are both `+d` only when both
  are `+D`, if superiority has no cycle. In theories with denials the engine's
  order of events is part of the argument: when a literal is concluded, each
  opponent of its mode is refuted, or about to be, or will be when the event of
  the new conclusion is handled, because some attacker of it has fired that nobody
  beats (`RivalsBarred`); and a proof that waits in `todo` stays possible until
  then (`StillProvable`). That there is such an attacker is where `Acyclic` is used:
  if each rule of either side (*camp*) that has fired were beaten by a rule of the
  other, the set of these rules would have no maximal element (`NoAscent`).
* `EngineImplements`: `Spec => Reference!Spec`. Each decision satisfies the
  condition of the reference by `SoundAlways`; each visit of a strict rule is a
  definite inference, and each -D step a definite refutation.
* `ConditionsPersist`, `OneWayAlways`, `CoherentTagsAlways`,
  `ConsistentTagsAlways`: the same questions about the proof theory itself. Its
  inferences have no guard against the opposite tag, so that no literal has both is a
  fact about the conditions. What gave a tag still gives it (`JustifiedAlways`, from
  `ConditionsPersist`), so a literal with both tags of a level would
  have both conditions hold in one state. The definite ones exclude each other in
  every theory, since the first literal with both would need a premise that one with both
  satisfies.
  At the defeasible level a rule in favour of the literal is applicable, so some
  attacker has to overrule it; that attacker is discarded, or beaten by a defender that
  would have to be discarded itself. So they exclude each other while no rule is
  torn (`UntornOneWay`), and none is without denials (`NoDenialsUntorn`).
* `OppositionSymmetric`: opposition is symmetric on canonical literals.

### Trust

`Trust_proofs` rests on a fact about every theory. `FoundedAlways`: among any
concluded literals there is one that was concluded without the others, by a rule
that is applicable by what is concluded outside the set or refuted. It is an
invariant over sets instead of a rank, because the engine keeps no order of
conclusions: a new conclusion is by a rule applicable before it, so no set that
contains it depends on it, and the second conclusion about a definite literal
names the rule of the first. It needs the soundness of the counters (`FlagsSound`,
`DefiniteCoversMean`), and that definite proofs are complete when the defeasible
ones begin (`DefiniteFirst`, `PhasesDone`).

The three theorems about trust have the hypothesis `PlainPremises`: a premise is
no denial of an obligation, and every rule that can meet it spells its head as the
premise is spelled, so that a rule is applicable just when the texts of its premises are
concluded (`PlainMet`). `F p` where rules conclude `F p` is plain; `O not p` is not.
Every theory of the run `trust` has it; with families
`WeakestLink` is false (run `trust_family`).

* `PlainNeverCut`: a circle below the root is a set of conclusions each of which
  depends on another. If a path came back to the root's literal, the literals
  that cannot be kept away from it (`RootNotBelow`) would be such a set.
* `PlainWeakestLink`: of the literals of the tree that trusted rules do not lead to, one
  was concluded without the others; its premises are in the tree and led to, and so
  is it.
* `PlainChallengesMet`: `FlagsSound` and `FlagsComplete` say that the counters of a
  finished call are applicability, and `Justified` that every conclusion is still
  inferable from the final tags, so an applicable defeater is beaten.

### Interner

* `InternerImplements` and the five invariants of `Interner`, for any number of
  threads, any set of names and any width, from two assumptions: the empty
  string is a name and the width is not zero (`SymbolsAssumption`), and the mark
  of a free lock is no thread (`ThreadAssumption`). `OneSymbol` is not
  inductive: it needs that the lock is held by exactly the threads whose code
  says so (`Locked`), that the table holds no name twice and the map is its
  inverse, except for the name a writer has pushed and not yet recorded
  (`Listed`, `InMidst`), and that what was returned is in the map
  (`Remembered`).

### Preparation

For any theories, options, orders of labels and limits, from three assumptions:
variables for terms and for instants are apart and are no terms (`SortAssumption`),
instances with different numbers have different labels (`LabelAssumption`), and
theories and options are well formed, with different variables for different
wildcards (`PipelineAssumption`).

* The rounds: `PrepareTypeOK`, `PrepareLimitMeant`, `PrepareOnce`,
  `PrepareComplete`, `PrepareSupported` and `PrepareKept`. None of them expands
  what `Substitutions` contains: the rounds are right for any notion of matching.
  `Complete` is not inductive. Two facts carry it: choices among facts older than
  the delta have their instances (`OldSettled`), and for a rule already taken in
  this round so have, or will have from `pending`, all choices among facts that
  are not fresh (`TakenSettled`). At the end of a round the second becomes the first,
  which is why facts that were matched early do no harm and facts found in the round
  are not lost. `Supported` needs that every fact is a seed or the head of an
  instance (`Drawn`), `Kept` that the labels of the source are labels through all
  stages up to grounding (`Named`) and that the limit keeps instances countable.
* The stages: `PrepareAsOf`, `PrepareRanked` and `PrepareWildcardsFree`. The
  invariant `Staged` says, for each stage, what the theory is as a function of
  the input: the first filter of it, that with its wildcards renamed, or what
  grounding leaves of that. The contracts are then facts about these functions: a rule with
  unknown windows passes the first filter, its instances are judged by the
  second, and ground rules are judged by both in the same way.
  `PrepareWildcardsFree` has the hypothesis `FreshUnwritten`, that no theory has
  a variable named like a generated one, which the code does not check.
* Matching: `PrepareMet`, `PrepareWindowsForward` and `PrepareFullyGround`. What a
  body's substitutions bind is a recursion over the body. The library's rules for induction take
  an operator, which the provers cannot instantiate; here a set takes its
  place (`Least`, `Inductive`: a set of numbers that has 0 and the successor of
  each of its members has them all), and the recursive function is shown to
  exist and to follow its equation (`MatchedSteps`). From it, by the same
  induction, `SubstitutionsBound`: a substitution binds every variable of the
  items it has passed, each to its sort, and the premise it was made from fits its
  fact, also when a later item had bound the endpoints of its window in the other order.
  Three invariants use it: an instance was made from facts available
  before it (`Traced`), what follows a validation has been validated
  (`Judged`), and the heads of the rules being ground are bound by their
  bodies, so that all facts are ground (`Grounded`). The second substitution in
  the body of an instance changes nothing then (`AppliedTwice`).

### Only model-checked

* Both `Terminates`: liveness under fairness is out of the prover's reach.
* What the six violation runs find: a counterexample is its own proof.

That `Below` and `ComesBack` describe the recursion of `build_trust_tree` is part of
the modelling, not a theorem: every literal that can be reached lies on a path
without repetition, and the recursion takes them all; it is cut just when a
literal of the path is a premise again.

## 5. Plan

Done: literals and index, engine, proof theory, interner, grounding, pipeline,
trust. Left, in this order:

1. *Queries*: `requires` over the reference's fixpoint: budget, duplicates,
   verification; `what_if` with the labels of its hypotheses.
2. *Pipeline and engine together*: the grounded theories of `Pipeline` as the
   `Theories` of `Reasoner`, for the conclusions that grounding preserves.
3. *Aggregation*: the loop of snapshots around both.

## 6. Not modelled

Parsing, command line, serialisation and the WebAssembly binding convert data
and keep no state. Explanation, mining, analysis, claims and vocabulary produce
reports about theories or finished traces. Arithmetic, functions and the
temporal algebra are pure and numeric; grounding takes an expression as a given
partial function and constraints as orders of instants. The JavaScript of the
repository is its documentation site, most of it generated by mdBook, and one script of the build; nothing of the
reasoner is written in it.

Queries search over private copies of a theory and call the engine again for
each candidate; aggregation is a loop of snapshots around pipeline and engine.
Both need the engine's module run many times within one behaviour.

Within what is modelled: grounding leaves out arithmetic inside an argument of a
premise, rules with several heads and instants at infinity; preparation the path for
theories with folds and the validation of extension functions; trust the
arithmetic of diminishment and decay, thresholds by name and the lists of
sources. A user's variable named like a generated one (`?_w1`) is not in
the run's theories, and `FreshUnwritten` excludes it from the proof. The numbering of literals inside an index (`index.rs`, with its limit
on atoms) is not modelled: a literal stands for itself. Of the interner, lock
poisoning is left out: it needs a panic under the lock, and nothing there can
panic but an allocation that fails.
