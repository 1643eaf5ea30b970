------------------------------ MODULE Templates ------------------------------
(***************************************************************************)
(* First-order rules and their matching against ground facts:              *)
(* grounding.rs of crates/spindle-core/src, without its round loop.  A     *)
(* literal is the sequence of its functor and arguments, under a window.   *)
(* The functor stands for a name with its negation and mode; a variable    *)
(* for one is bound to names only.  A window is empty or a pair of         *)
(* instants; an interval variable is the pair of the variables for its     *)
(* endpoints.  Variables for terms and for instants are kept apart, as in  *)
(* the two maps of a Substitution.                                         *)
(***************************************************************************)
EXTENDS Naturals, Sequences, FiniteSets

CONSTANTS
  Term,        \* symbols and typed numbers
  TermVar,     \* variables for terms
  TimeVar,     \* variables for instants
  Value(_),    \* terms with one value are numerically equal
  Label        \* rule labels

Time == Nat
Var  == TermVar \cup TimeVar

ASSUME SortAssumption ==
  /\ TermVar \cap TimeVar = {} /\ Var \cap Term = {}
  /\ \A v \in Var : v \notin Time

NoWindow == << >>

(* Temporal::new has put the earlier of two instants first. *)
Window ==
  {win \in (Time \cup TimeVar) \X (Time \cup TimeVar) :
     {win[1], win[2]} \subseteq Time => win[1] <= win[2]}

Pattern == [terms : Seq(Term \cup TermVar), win : {NoWindow} \cup Window]

(* A premise is matched against facts; an outer-negated deontic one is     *)
(* kept for the reasoner to check ("deny"); an arithmetic constraint       *)
(* computes a term from another, and a comparison is one whose result      *)
(* nobody uses.                                                            *)
IsItem(item) ==
  \/ item \in [op : {"match", "deny"}, lit : Pattern]
  \/ /\ item.op = "bind" /\ item.from \in TermVar \cup Term /\ item.to \in TermVar
     /\ DOMAIN item.fun \subseteq Term
     /\ \A t \in DOMAIN item.fun : item.fun[t] \in Term

(* `before` holds the Allen constraints and state queries, as pairs of     *)
(* instants that must be in this order; `win` is the window of the rule    *)
(* itself.                                                                 *)
IsRule(rule) ==
  /\ rule \in [kind : {"fact", "strict", "defeasible", "defeater"}, template : Label,
               body : Seq({rule.body[i] : i \in DOMAIN rule.body}), head : Pattern,
               win : {NoWindow} \cup (Time \X Time), before : SUBSET (TimeVar \X TimeVar)]
  /\ \A i \in DOMAIN rule.body : IsItem(rule.body[i])

Labels(th) == DOMAIN th.rules

(* A theory maps labels to rules and ranks labels. *)
IsTheory(th) ==
  /\ Labels(th) \subseteq Label
  /\ \A r \in Labels(th) : IsRule(th.rules[r]) /\ th.rules[r].template = r
  /\ th.sup \subseteq Label \X Label

Same(a, b) == a = b \/ ({a, b} \subseteq Term /\ Value(a) = Value(b))

TermVars(l)  == {l.terms[k] : k \in DOMAIN l.terms} \cap TermVar
TimeVars(l)  == {l.win[k] : k \in DOMAIN l.win} \cap TimeVar
Variables(l) == TermVars(l) \cup TimeVars(l)

Timed(l) == \A k \in DOMAIN l.win : l.win[k] \notin Var

(* As a fact, a literal has a window only once it has both of its instants. *)
AsFact(l) == IF Timed(l) THEN l ELSE [l EXCEPT !.win = NoWindow]

Slots(body, ops) == {i \in DOMAIN body : body[i].op \in ops}
Matching(body)   == Slots(body, {"match"})

HasVariables(rule) ==
  \/ Slots(rule.body, {"bind"}) # {}
  \/ \E i \in Slots(rule.body, {"match", "deny"}) : Variables(rule.body[i].lit) # {}
  \/ Variables(rule.head) # {}
  \/ rule.before # {}

VarRules(th)    == {r \in Labels(th) : HasVariables(th.rules[r])}
GroundRules(th) == Labels(th) \ VarRules(th)

-----------------------------------------------------------------------------
(* Substitutions are functions on the variables they bind. *)

Unbound == [v \in {} |-> v]

Resolve(x, subst) == IF x \in DOMAIN subst THEN subst[x] ELSE x

(* Mutant: the instants of a window stay as they were written.             *)
IntervalAsWritten(win) == win

(* Temporal::new: the earlier instant comes first, wherever it was written. *)
Interval(win) ==
  IF win # NoWindow /\ {win[1], win[2]} \subseteq Time /\ win[1] > win[2]
  THEN <<win[2], win[1]>>
  ELSE win

Apply(l, subst) ==
  [terms |-> [k \in DOMAIN l.terms |-> Resolve(l.terms[k], subst)],
   win   |-> Interval([k \in DOMAIN l.win |-> Resolve(l.win[k], subst)])]

(* A pattern without a window matches any window, one with a window only   *)
(* that window; numbers match across types.                                *)
MatchLiteral(l, fact) ==
  /\ Len(l.terms) = Len(fact.terms)
  /\ \A j, k \in DOMAIN l.terms :
        /\ l.terms[k] \in Var \/ Same(l.terms[k], fact.terms[k])
        /\ l.terms[j] \in Var /\ l.terms[j] = l.terms[k] => Same(fact.terms[j], fact.terms[k])
  /\ l.win # NoWindow => fact.win # NoWindow
  /\ \A j, k \in DOMAIN l.win :
        /\ l.win[k] \in Var \/ l.win[k] = fact.win[k]
        /\ l.win[j] \in Var /\ l.win[j] = l.win[k] => fact.win[j] = fact.win[k]

(* The first occurrence of a variable gives its type to the binding. *)
First(s, v) == CHOOSE k \in DOMAIN s : s[k] = v /\ \A j \in 1 .. k - 1 : s[j] # v

Bindings(l, fact) ==
  [v \in Variables(l) |-> IF v \in TermVar THEN fact.terms[First(l.terms, v)]
                                          ELSE fact.win[First(l.win, v)]]

Merge(subst, new) ==
  [v \in DOMAIN subst \cup DOMAIN new |-> IF v \in DOMAIN subst THEN subst[v] ELSE new[v]]

(* A computed term replaces a numerically equal one that was bound before. *)
Extend(item, subst, fact) ==
  CASE item.op = "match" ->
         LET l == Apply(item.lit, subst)
         IN  IF MatchLiteral(l, fact) THEN {Merge(subst, Bindings(l, fact))} ELSE {}
    [] item.op = "bind" ->
         LET term == Resolve(item.from, subst)
         IN  IF /\ term \in DOMAIN item.fun
                /\ item.to \in DOMAIN subst => Same(subst[item.to], item.fun[term])
             THEN {Merge([v \in {item.to} |-> item.fun[term]], subst)}
             ELSE {}
    [] OTHER -> {subst}

(* The substitutions, one or none, under which the facts that `choice`     *)
(* names meet the first premises of a body, by their number.               *)
Matched(body, choice) ==
  LET after[i \in 0 .. Len(body)] ==
        IF i = 0 THEN {Unbound}
        ELSE UNION {Extend(body[i], subst, IF body[i].op = "match" THEN choice[i] ELSE NoWindow) :
                      subst \in after[i - 1]}
  IN  after

(* Those under which they meet all the premises, from left to right, and   *)
(* no variable is left in a denied one.                                    *)
Substitutions(body, choice) ==
  {subst \in Matched(body, choice)[Len(body)] :
     \A i \in Slots(body, {"deny"}) : Variables(Apply(body[i].lit, subst)) = {}}

(* A premise whose functor is a variable that nothing has bound yet is     *)
(* matched against the list of the facts, any other one against the index. *)
BoundBefore(body, i) ==
  UNION {IF body[j].op = "match" THEN Variables(body[j].lit) ELSE {body[j].to} :
           j \in {h \in Slots(body, {"match", "bind"}) : h < i}}

Unnamed(body, i) == body[i].lit.terms[1] \in Var \ BoundBefore(body, i)

Premised(body, index, list) ==
  {choice \in [Matching(body) -> index] :
     \A i \in Matching(body) : Unnamed(body, i) => choice[i] \in list}

Holds(rule, subst) ==
  \A pair \in rule.before :
     /\ {pair[1], pair[2]} \subseteq DOMAIN subst
     /\ subst[pair[1]] < subst[pair[2]]

-----------------------------------------------------------------------------
(* Ground instances. *)

IsLogic(item) == item.op # "bind"

(* A premise is replaced by a fact of the index that differs from it only  *)
(* in the types of its numbers.                                            *)
Equal(l, fact) ==
  /\ l.win = fact.win /\ Len(l.terms) = Len(fact.terms)
  /\ \A k \in DOMAIN l.terms : Same(l.terms[k], fact.terms[k])

(* Mutant: the types of the numbers stay.                                  *)
NormalExact(l, index) == {l}

Normal(l, index) ==
  LET equal == {fact \in index : Equal(l, fact)} IN IF equal = {} THEN {l} ELSE equal

(* The instances of the rule r: the arithmetic is gone, the other premises *)
(* keep their places, and the choice is between equal facts.  A premise is *)
(* resolved and then substituted in, the head substituted in only.         *)
Instances(r, rule, subst, index) ==
  LET logic == {i \in DOMAIN rule.body : IsLogic(rule.body[i])}
      lits  == [i \in logic |-> Normal(Apply(Apply(rule.body[i].lit, subst), subst), index)]
      picks == {p \in [logic -> UNION {lits[i] : i \in logic}] : \A i \in logic : p[i] \in lits[i]}
  IN  {[rule EXCEPT !.template = r,
                    !.body = [i \in logic |-> [op |-> rule.body[i].op, lit |-> p[i]]],
                    !.head = Apply(rule.head, subst),
                    !.before = {}] : p \in picks}
=============================================================================
