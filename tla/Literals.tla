------------------------------ MODULE Literals ------------------------------
(***************************************************************************)
(* The identity of literals and the conflict relation between them, as     *)
(* crates/spindle-core/src/literal.rs defines them and projection.rs and   *)
(* index.rs use them.  A literal is a ground atom (predicate and           *)
(* arguments, abstracted to a value of Atom) under an inner negation, a    *)
(* modal operator with its own outer negation, and a temporal window.      *)
(* "F p" (forbidden) is an alias of "O not p" and never reaches the index. *)
(***************************************************************************)
CONSTANTS
  Atom,       \* ground atoms: functor and typed arguments
  Window,     \* proper temporal windows
  NoWindow    \* the window of an atemporal literal

ASSUME WindowAssumption == NoWindow \notin Window

Mode == {"none", "O", "P", "F", "custom"}

Literal ==
  [atom : Atom, neg : BOOLEAN, mode : Mode, mneg : BOOLEAN,
   win : Window \cup {NoWindow}]

Temporal(l) == l.win # NoWindow

(* Flip the inner negation: O p becomes O not p. *)
Complement(l) == [l EXCEPT !.neg = ~ l.neg]

(* Negate the whole expression: O p becomes not O p. *)
OuterNegation(l) ==
  IF l.mode = "none" THEN [l EXCEPT !.neg = ~ l.neg]
                     ELSE [l EXCEPT !.mneg = ~ l.mneg]

(* Prohibition of p is obligation of not p. *)
Canonical(l) ==
  IF l.mode = "F" THEN [l EXCEPT !.mode = "O", !.neg = ~ l.neg] ELSE l

NegativeModal(l) == l.mneg /\ l.mode \in {"O", "P", "F"}

Deontic(l) == Canonical(l).mode \in {"O", "P"}

(* The modes whose opposite-direction assertion conflicts with mode m:     *)
(* an obligation conflicts with obligations and permissions, a permission  *)
(* with obligations only.                                                  *)
RivalModes(m) == IF m = "O" THEN {"O", "P"} ELSE {"O"}

Opponents(l) ==
  LET c == Canonical(l)
  IN  IF ~ Deontic(l) THEN {Complement(c)}
      ELSE {OuterNegation(c)}
           \cup {[Complement(c) EXCEPT !.mode = m] :
                   m \in IF c.mneg THEN {} ELSE RivalModes(c.mode)}

Opposes(l, other) == Canonical(other) \in Opponents(l)

(* The atemporal identity of a literal: everything but its window. *)
Family(l) == [Canonical(l) EXCEPT !.win = NoWindow]

(* A temporal premise is satisfied by its exact literal only, an atemporal *)
(* one by every member of its family.                                      *)
Satisfies(event, premise) ==
  IF Temporal(premise) THEN Canonical(event) = Canonical(premise)
                       ELSE Family(event) = Family(premise)

(* A head defends a goal when it is the goal, or when it asserts the same  *)
(* content under the other deontic mode and itself opposes the attacker.   *)
HeadDefends(head, goal, attack) ==
  LET h == Canonical(head)
      g == Canonical(goal)
  IN  \/ h = g
      \/ /\ Deontic(g) /\ ~ g.mneg
         /\ Deontic(h) /\ ~ h.mneg
         /\ [h EXCEPT !.mode = g.mode] = g
         /\ Opposes(h, attack)

(* What the index interns for one mentioned literal: a deontic literal     *)
(* pulls in every form of its atom and window that the closure of the      *)
(* opposition relation reaches.                                            *)
OppositionClosure(l) ==
  LET c == Canonical(l)
  IN  IF ~ Deontic(l) THEN {c}
      ELSE [atom : {c.atom}, neg : BOOLEAN, mode : {"O", "P"}, mneg : BOOLEAN,
            win : {c.win}]
=============================================================================
