------------------------------ MODULE Interner ------------------------------
(***************************************************************************)
(* The global string interner of crates/spindle-core/src/intern.rs: a      *)
(* read-write lock around an optional table, filled on first use, with a   *)
(* fast path under the read lock.                                          *)
(*                                                                         *)
(* A thread is at                                                          *)
(*   "idle"      outside the interner                                      *)
(*   "toRead"    waiting for the read lock      "toWrite"   for the write  *)
(*   "reading"   under the read lock            "writing"   lock           *)
(*   "found"     about to drop the read guard   "recording" name pushed    *)
(*                                              "stored"    about to drop  *)
(* Names are never removed.  `symbols` remembers what intern has answered. *)
(***************************************************************************)
EXTENDS Symbols

CONSTANTS Thread, NoThread

ASSUME ThreadAssumption == NoThread \notin Thread

VARIABLES
  readers,      \* threads that hold the read lock
  writer,       \* the thread that holds the write lock, or NoThread
  initialised,  \* the option holds an interner
  strings,      \* Interner::strings
  map,          \* Interner::map
  pc,           \* where each thread is
  request,      \* the call it makes
  answer,       \* its local result
  symbols       \* pairs of a name and the symbol intern returned for it

vars == <<readers, writer, initialised, strings, map, pc, request, answer, symbols>>

Init ==
  /\ readers = {} /\ writer = NoThread
  /\ initialised = FALSE
  /\ strings = << >>
  /\ map = << >>
  /\ pc = [t \in Thread |-> "idle"]
  /\ request = [t \in Thread |-> Count]
  /\ answer = [t \in Thread |-> 0]
  /\ symbols = {}

Moves(t, from, to) == pc[t] = from /\ pc' = [pc EXCEPT ![t] = to]
Sets(t, a) == answer' = [answer EXCEPT ![t] = a]

Call(t, r) ==
  /\ Moves(t, "idle", "toRead")
  /\ request' = [request EXCEPT ![t] = r]
  /\ UNCHANGED <<readers, writer, initialised, strings, map, answer, symbols>>

ReadLock(t) ==
  /\ writer = NoThread
  /\ Moves(t, "toRead", "reading")
  /\ readers' = readers \cup {t}
  /\ UNCHANGED <<writer, initialised, strings, map, request, answer, symbols>>

(* What a call that adds no name answers, on the given table. *)
Lookup(t, tab, m) ==
  \/ request[t][1] = "intern" /\ request[t][2] \in DOMAIN m /\ Sets(t, m[request[t][2]])
  \/ request[t][1] = "resolve" /\ Sets(t, Resolve(tab, request[t][2]))
  \/ request[t][1] = "count" /\ Sets(t, Len(tab))

Find(t) ==
  /\ Moves(t, "reading", "found")
  /\ initialised
  /\ Lookup(t, strings, map)
  /\ UNCHANGED <<readers, writer, initialised, strings, map, request, symbols>>

(* Mutant: the guard outlives the fast path.                               *)
KeepGuard(t) == readers

(* The name is not there, or nothing is: the read guard is dropped before  *)
(* the write lock is asked for, and anything may happen in between.        *)
DropGuard(t) == readers \ {t}

Miss(t) ==
  /\ Moves(t, "reading", "toWrite")
  /\ initialised => request[t][1] = "intern" /\ request[t][2] \notin DOMAIN map
  /\ readers' = DropGuard(t)
  /\ UNCHANGED <<writer, initialised, strings, map, request, answer, symbols>>

Returns(t) ==
  /\ symbols' = IF request[t][1] = "intern"
                 THEN symbols \cup {<<request[t][2], answer[t]>>} ELSE symbols
  /\ request' = [request EXCEPT ![t] = Count]
  /\ answer' = [answer EXCEPT ![t] = 0]

ReturnRead(t) ==
  /\ Moves(t, "found", "idle")
  /\ readers' = readers \ {t}
  /\ Returns(t)
  /\ UNCHANGED <<writer, initialised, strings, map>>

(* Mutant: writers are not kept apart.                                      *)
WriteLockShared(t) ==
  /\ readers = {}
  /\ Moves(t, "toWrite", "writing")
  /\ writer' = t
  /\ UNCHANGED <<readers, initialised, strings, map, request, answer, symbols>>

WriteLock(t) ==
  /\ readers = {} /\ writer = NoThread
  /\ Moves(t, "toWrite", "writing")
  /\ writer' = t
  /\ UNCHANGED <<readers, initialised, strings, map, request, answer, symbols>>

(* Interner::new: the empty string has the first symbol. *)
Table  == IF initialised THEN strings ELSE <<Empty>>
Map    == IF initialised THEN map ELSE [n \in {Empty} |-> 0]

(* Under the write lock the table is created if it is still missing and    *)
(* searched once more.                                                     *)
Recheck(t) ==
  /\ Moves(t, "writing", "stored")
  /\ initialised' = TRUE
  /\ strings' = Table
  /\ map' = Map
  /\ Lookup(t, Table, Map)
  /\ UNCHANGED <<readers, writer, request, symbols>>

(* Mutant: the name is stored without looking again.                        *)
StoreBlindly(t) ==
  /\ Moves(t, "writing", "recording")
  /\ request[t][1] = "intern"
  /\ Sets(t, NextSymbol(Table))
  /\ initialised' = TRUE
  /\ strings' = Append(Table, request[t][2])
  /\ map' = Map
  /\ UNCHANGED <<readers, writer, request, symbols>>

(* A new name gets the length of the table, cut to the width of a symbol.  *)
Store(t) ==
  /\ Moves(t, "writing", "recording")
  /\ request[t][1] = "intern" /\ request[t][2] \notin DOMAIN Map
  /\ Sets(t, NextSymbol(Table))
  /\ initialised' = TRUE
  /\ strings' = Append(Table, request[t][2])
  /\ map' = Map
  /\ UNCHANGED <<readers, writer, request, symbols>>

Record(t) ==
  /\ Moves(t, "recording", "stored")
  /\ map' = [n \in DOMAIN map \cup {request[t][2]} |->
               IF n = request[t][2] THEN answer[t] ELSE map[n]]
  /\ UNCHANGED <<readers, writer, initialised, strings, request, answer, symbols>>

ReturnWrite(t) ==
  /\ Moves(t, "stored", "idle")
  /\ writer' = NoThread
  /\ Returns(t)
  /\ UNCHANGED <<readers, initialised, strings, map>>

Step(t) ==
  \/ \E r \in Request : Call(t, r)
  \/ ReadLock(t)
  \/ Find(t)
  \/ Miss(t)
  \/ ReturnRead(t)
  \/ WriteLock(t)
  \/ Recheck(t)
  \/ Store(t)
  \/ Record(t)
  \/ ReturnWrite(t)

Next == \E t \in Thread : Step(t)

Spec == Init /\ [][Next]_vars

-----------------------------------------------------------------------------
(* What the interner must keep. *)

TypeOK ==
  /\ readers \subseteq Thread
  /\ writer \in Thread \cup {NoThread}
  /\ initialised \in BOOLEAN
  /\ strings \in Seq(Name)
  /\ DOMAIN map \subseteq Name
  /\ \A n \in DOMAIN map : map[n] \in SymbolId
  /\ pc \in [Thread -> {"idle", "toRead", "reading", "found", "toWrite", "writing",
                        "recording", "stored"}]
  /\ request \in [Thread -> Request]
  /\ answer \in [Thread -> Name \cup Nat]
  /\ symbols \subseteq Name \X SymbolId

(* "Two SymbolIds are equal if and only if they refer to the same interned *)
(* string" (SymbolId): whichever threads interned them and whatever path   *)
(* they took, one name has one symbol, and one symbol one name as long as  *)
(* the table has not outgrown the width of a symbol.                       *)
OneSymbol ==
  \A x \in symbols : \A y \in symbols :
     /\ x[1] = y[1] => x[2] = y[2]
     /\ Len(strings) <= IdLimit /\ x[2] = y[2] => x[1] = y[1]

(* A symbol that intern has returned resolves to its name from then on.    *)
Resolves ==
  Len(strings) <= IdLimit =>
    \A x \in symbols : Resolve(strings, x[2]) = x[1]

(* The identifier of a literal keeps its sign, and the complement of a     *)
(* literal differs from it in the sign only, whatever the table holds;     *)
(* while one bit is left for the sign, different names have different      *)
(* identifiers that resolve to them.                                       *)
LiteralsDistinct ==
  \A x \in symbols : \A b \in BOOLEAN :
     LET lit == LiteralId(x[2], b)
     IN  /\ IsNegated(lit) = b
         /\ Flipped(lit) = LiteralId(x[2], ~ b)
         /\ Len(strings) <= HalfRange =>
              /\ Resolve(strings, SymbolOf(lit)) = x[1]
              /\ \A y \in symbols : SymbolOf(lit) = y[2] => x[1] = y[1]

(* No thread waits for what it holds: while any call is under way, some    *)
(* thread inside the interner can take its next step.                      *)
CanMove(t) ==
  /\ pc[t] # "idle"
  /\ pc[t] = "toRead" => writer = NoThread
  /\ pc[t] = "toWrite" => writer = NoThread /\ readers = {}

NeverStuck ==
  (\E t \in Thread : pc[t] # "idle") => \E t \in Thread : CanMove(t)

(* intern, resolve and interned_count are atomic to their callers: the     *)
(* lazily created table and the two paths to it cannot be told from one    *)
(* table of names that was always there.                                   *)
Status(t) ==
  IF pc[t] \in {"found", "recording", "stored"} THEN "done"
  ELSE IF pc[t] = "idle" THEN "idle" ELSE "pending"

Promise == INSTANCE Registry WITH
  table <- Table, status <- [t \in Thread |-> Status(t)]

Implements == Promise!Spec
=============================================================================
