------------------------------ MODULE Symbols ------------------------------
(***************************************************************************)
(* Symbols and literal identifiers of crates/spindle-core/src/intern.rs:   *)
(* a SymbolId is a number of 32 bits, a LiteralId a symbol of 31 bits      *)
(* under a sign bit.                                                       *)
(***************************************************************************)
EXTENDS Naturals, Sequences

CONSTANTS
  Name,        \* strings
  Empty,       \* the empty string
  HalfRange    \* 2^31

ASSUME SymbolsAssumption == Empty \in Name /\ HalfRange \in Nat \ {0}

IdLimit  == 2 * HalfRange
SymbolId == 0 .. IdLimit - 1

(* The calls a thread may make: symbols may come from anywhere (from_raw,  *)
(* a deserialised value).                                                  *)
Count   == <<"count", 0>>
Request == ({"intern"} \X Name) \cup ({"resolve"} \X SymbolId) \cup {Count}

(* Mutants: the symbol is taken after the name is pushed, or not cut.      *)
SymbolAfterPush(tab) == (Len(tab) + 1) % IdLimit
SymbolUncut(tab)     == Len(tab)

(* The name at place i + 1 of a table has the symbol i, cut to its width.  *)
NextSymbol(tab) == Len(tab) % IdLimit

(* A symbol without a name resolves to the empty string. *)
Resolve(tab, id) == IF id + 1 \in DOMAIN tab THEN tab[id + 1] ELSE Empty

SignBit(negated) == IF negated THEN HalfRange ELSE 0

(* Mutant: the high bit of the symbol is not masked. *)
LiteralIdUnmasked(id, negated) == (id + SignBit(negated)) % IdLimit

LiteralId(id, negated) == (id % HalfRange) + SignBit(negated)

SymbolOf(lit)  == lit % HalfRange
IsNegated(lit) == lit >= HalfRange
Flipped(lit)   == (lit + HalfRange) % IdLimit
=============================================================================
