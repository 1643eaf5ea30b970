----------------------------- MODULE MCTheories -----------------------------
(***************************************************************************)
(* Small theories for the model checker.  A pool is a sequence of rules;   *)
(* a theory is a choice of rules from it, labelled by their place, with    *)
(* superiority pairs among those whose heads are opposed.                  *)
(***************************************************************************)
EXTENDS Theories

CONSTANTS
  Pools,      \* the pools theories are chosen from, each with the most rules to choose
  MaxPairs    \* superiority pairs in a theory

MCAtom == 1 .. 3
MCLabel == 1 .. 40
MCWindow == {1, 2}
MCNoWindow == 0
MCNoLabel == 0

(* Names are ordered by outer negation, mode, atom, negation and window.   *)
ModeRank(m) == CASE m = "none" -> 0 [] m = "O" -> 1 [] m = "P" -> 2 [] OTHER -> 3
Bit(b) == IF b THEN 1 ELSE 0
Rank(l) ==
  l.win + 3 * (Bit(l.neg) + 2 * (l.atom + 4 * (ModeRank(l.mode) + 4 * Bit(l.mneg))))
MCLitBefore(l, m) == Rank(l) < Rank(m)
MCLabelBefore(r, s) == r < s

Lit(a, n, mode, o, w) == [atom |-> a, neg |-> n, mode |-> mode, mneg |-> o, win |-> w]
Pos(a) == Lit(a, FALSE, "none", FALSE, 0)
Neg(a) == Lit(a, TRUE, "none", FALSE, 0)
At(l, w) == [l EXCEPT !.win = w]
Modal(mode, l) == [l EXCEPT !.mode = mode]
Not(l) == OuterNegation(l)

R(kind, body, head) == [kind |-> kind, body |-> body, head |-> head]

Labelled(pool, S) ==
  [i \in S |-> [kind |-> pool[i].kind, template |-> i,
                body |-> pool[i].body, head |-> pool[i].head]]

Rivals(pool, S) ==
  {<<i, j>> \in S \X S : Opposes(pool[i].head, pool[j].head)}

UpTo(n, S) == {{f[i] : i \in 1 .. n} : f \in [1 .. n -> S]}

Orders(pool, S) == {{}} \cup UpTo(MaxPairs, Rivals(pool, S))

FromPool(pool, MaxRules) ==
  UNION {{Index(Labelled(pool, S), sup) : sup \in Orders(pool, S)} :
           S \in UpTo(MaxRules, DOMAIN pool)}

(* The theories are numbered, so that the checker looks one up in constant *)
(* time: those with the rule n come before those without, for each n down  *)
(* to 1, and those with the same rules in any order.                       *)
RECURSIVE Listed(_, _)
Listed(S, n) ==
  IF S = {} THEN << >>
  ELSE IF n = 0 THEN LET x == CHOOSE y \in S : TRUE IN <<x>> \o Listed(S \ {x}, 0)
  ELSE Listed({t \in S : n \in DOMAIN t.rules}, n - 1)
         \o Listed({t \in S : n \notin DOMAIN t.rules}, n - 1)

LargestPool == 17

p == Pos(1)
q == Pos(2)
np == Neg(1)
nq == Neg(2)

p1 == At(p, 1)
p2 == At(p, 2)
np1 == At(np, 1)
Op == Modal("O", p)
Onp == Modal("O", np)
Pp == Modal("P", p)
Pnp == Modal("P", np)
Fp == Modal("F", p)

(* Facts, strict and defeasible chains, cycles, defeaters and rules with   *)
(* two premises.                                                           *)
PlainPool ==
  << R("fact", << >>, p), R("fact", << >>, nq),
     R("strict", <<p>>, q), R("strict", <<q>>, np), R("strict", <<q>>, p),
     R("defeasible", << >>, p), R("defeasible", << >>, np), R("defeasible", << >>, q),
     R("defeasible", <<p>>, q), R("defeasible", <<q>>, p), R("defeasible", <<np>>, q),
     R("defeasible", <<q>>, np), R("defeasible", <<p, q>>, np), R("defeasible", <<p>>, p),
     R("defeater", << >>, np), R("defeater", <<q>>, np), R("defeater", <<np>>, nq) >>

(* Two sides of a conflict, with premises decided early, late or never.    *)
TeamPool ==
  << R("defeasible", << >>, p), R("defeasible", <<q>>, p), R("strict", <<q>>, p),
     R("defeasible", << >>, np), R("defeasible", <<q>>, np), R("defeater", <<q>>, np),
     R("defeasible", << >>, q), R("defeasible", << >>, nq), R("defeasible", <<q>>, q) >>

(* The same between an obligation, a permission and their opposites.       *)
DeonticPool ==
  << R("defeasible", << >>, Pp), R("defeasible", << >>, Fp), R("defeasible", << >>, Op),
     R("defeasible", << >>, Pnp), R("defeater", << >>, Onp), R("defeater", << >>, Op) >>

(* Four rules, each of which can be ranked above the one before.           *)
PermissionPool ==
  << R("defeasible", << >>, Pp), R("defeasible", << >>, Fp), R("defeasible", << >>, Op),
     R("defeasible", << >>, Pnp) >>

(* One family with two windows, as head and as premise.                    *)
TemporalPool ==
  << R("fact", << >>, p1), R("strict", <<p>>, q), R("strict", <<p, p2>>, q),
     R("defeasible", << >>, p1), R("defeasible", << >>, p2), R("defeasible", << >>, p),
     R("defeasible", << >>, np1), R("defeater", << >>, np1), R("defeasible", <<p>>, q),
     R("defeasible", <<p1>>, q), R("defeasible", <<p, p2>>, q), R("defeasible", <<p>>, nq),
     R("defeasible", <<q>>, p2), R("defeasible", <<np>>, nq), R("defeasible", <<q>>, np1) >>

(* Obligations, permissions and their explicit denials.                    *)
ModalPool ==
  << R("fact", << >>, Op), R("fact", << >>, Not(Op)), R("strict", <<q>>, Onp),
     R("fact", << >>, q),
     R("defeasible", << >>, Op), R("defeasible", << >>, Fp), R("defeasible", << >>, Pp),
     R("defeasible", << >>, Pnp), R("defeasible", << >>, Not(Op)),
     R("defeasible", <<Pp>>, q), R("defeasible", <<Not(Op)>>, q),
     R("defeasible", <<Not(Pp)>>, q), R("defeasible", <<q>>, Op),
     R("defeater", << >>, Op), R("defeater", << >>, Pnp), R("defeasible", <<Op>>, nq) >>

(* Denials of an obligation at one window while another is in force.       *)
Op1 == At(Op, 1)
Op2 == At(Op, 2)
DenialPool ==
  << R("defeasible", << >>, Op2), R("defeasible", <<q>>, Op2),
     R("defeasible", << >>, Not(Op1)), R("defeasible", <<Not(Modal("P", q))>>, Not(Op1)),
     R("defeasible", <<Not(Op)>>, q), R("defeasible", <<Not(Op1)>>, q),
     R("defeasible", << >>, nq), R("defeater", <<Op>>, nq) >>

(* The same, with a denial that is proven late and a head that the strict  *)
(* loop keeps from being refuted: its rule can be torn.                    *)
TornPool ==
  << R("defeasible", << >>, Op2), R("defeasible", <<Not(Modal("P", q))>>, Not(Op1)),
     R("defeasible", <<Not(Op)>>, q), R("defeasible", <<Not(Op1)>>, q),
     R("defeasible", << >>, nq), R("strict", <<q>>, q) >>

(* An obligation that the facts both state and deny.                       *)
DeniedPool ==
  << R("fact", << >>, Op), R("fact", << >>, Not(Op)), R("defeasible", <<Not(Op)>>, Pp) >>

(* A prohibition, spelled "F p" by the rules that conclude it and by those *)
(* that depend on it.                                                      *)
ForbiddenPool ==
  << R("defeasible", << >>, Fp), R("defeasible", <<q>>, Fp), R("fact", << >>, Fp),
     R("defeasible", <<Fp>>, q), R("strict", <<Fp>>, q), R("defeasible", << >>, q),
     R("defeasible", << >>, Op), R("defeater", <<q>>, Op), R("defeater", <<Fp>>, nq) >>

SmallPlainPools == {<<PlainPool, 2>>}
ReferencePools  == {<<PlainPool, 2>>, <<DeniedPool, 3>>}
PlainPools      == {<<PlainPool, 3>>}
TracedPools     == {<<PlainPool, 3>>, <<ForbiddenPool, 3>>}
ConflictPools   == {<<PlainPool, 3>>, <<TeamPool, 4>>, <<DeonticPool, 4>>}
FamilyPools     == {<<TemporalPool, 3>>, <<DenialPool, 3>>, <<TornPool, 4>>, <<ModalPool, 3>>}
TemporalPools   == {<<TemporalPool, 3>>}
DenialPools     == {<<DenialPool, 3>>}
PermissionPools == {<<PermissionPool, 4>>}

(* The checker keeps the value of a definition without parameters; what a  *)
(* configuration gives to the constant is a second name for it.            *)
SmallTheories ==
  Listed(UNION {FromPool(pool[1], pool[2]) : pool \in Pools}, LargestPool)
MCTheory == SmallTheories
=============================================================================
