------------------------------ MODULE Registry ------------------------------
(***************************************************************************)
(* What crates/spindle-core/src/intern.rs promises its callers: intern,    *)
(* resolve and interned_count behave as if each took effect at one moment  *)
(* between its call and its return, on one table of names that only grows  *)
(* and holds no name twice.                                                *)
(***************************************************************************)
EXTENDS Symbols

CONSTANT Thread      \* the callers

VARIABLES
  table,       \* the names interned so far
  status,      \* per thread: "idle", "pending" or "done"
  request,     \* the last call of a thread
  answer       \* its answer, once there is one

vars == <<table, status, request, answer>>

Names(tab) == {tab[i] : i \in DOMAIN tab}

(* The symbol of a name is its place, in the width of a symbol. *)
Symbol(i) == (i - 1) % IdLimit

Init ==
  /\ table = <<Empty>>
  /\ status = [t \in Thread |-> "idle"]
  /\ request = [t \in Thread |-> Count]
  /\ answer = [t \in Thread |-> 0]

Call(t, r) ==
  /\ status[t] = "idle"
  /\ status' = [status EXCEPT ![t] = "pending"]
  /\ request' = [request EXCEPT ![t] = r]
  /\ UNCHANGED <<table, answer>>

Answers(t, a) ==
  /\ status[t] = "pending"
  /\ status' = [status EXCEPT ![t] = "done"]
  /\ answer' = [answer EXCEPT ![t] = a]
  /\ UNCHANGED request

Intern(t) ==
  /\ request[t][1] = "intern"
  /\ table' = IF request[t][2] \in Names(table) THEN table
                                               ELSE Append(table, request[t][2])
  /\ \E i \in DOMAIN table' :
        /\ table'[i] = request[t][2]
        /\ Answers(t, Symbol(i))

Read(t) ==
  /\ \/ /\ request[t][1] = "resolve"
        /\ Answers(t, Resolve(table, request[t][2]))
     \/ /\ request[t][1] = "count"
        /\ Answers(t, Len(table))
  /\ UNCHANGED table

Return(t) ==
  /\ status[t] = "done"
  /\ status' = [status EXCEPT ![t] = "idle"]
  /\ request' = [request EXCEPT ![t] = Count]
  /\ answer' = [answer EXCEPT ![t] = 0]
  /\ UNCHANGED table

Next ==
  \E t \in Thread :
     \/ \E r \in Request : Call(t, r)
     \/ Intern(t)
     \/ Read(t)
     \/ Return(t)

Spec == Init /\ [][Next]_vars
=============================================================================
