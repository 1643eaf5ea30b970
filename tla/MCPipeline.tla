----------------------------- MODULE MCPipeline -----------------------------
(***************************************************************************)
(* Small theories to prepare: some facts, and a choice of rules from a     *)
(* pool.  Variables are model values, terms are strings, instants numbers. *)
(***************************************************************************)
EXTENDS Pipeline, TLC

CONSTANTS
  x, y, z, s, e, u, v,     \* variables of the rules
  w1, w2, w3, w4, w5, w6, w7, w8,   \* and of the wildcards
  n8f,                     \* the number 8, a float
  Bases,                   \* the sets of labels of facts
  Chosen,                  \* the sets of labels of rules
  Limited                  \* the limits of a call

MCTermVar == {x, y, z, w1, w2, w3, w4, w5, w6, w7, w8}
MCTimeVar == {s, e, u, v}
MCTerm == {"p", "q", "r", "edge", "n", "m", "Op", "a", "b", "c", "8", n8f, "9", "_"}
MCValue(t) == IF t = n8f THEN "8" ELSE t
MCFreshVar(i) == <<w1, w2, w3, w4, w5, w6, w7, w8>>[i]
MCInstanceLabel(l, n) == l \o "_" \o ToString(n)

L(terms) == [terms |-> terms, win |-> NoWindow]
At(terms, i, j) == [terms |-> terms, win |-> <<i, j>>]
If(l) == [op |-> "match", lit |-> l]
Unless(l) == [op |-> "deny", lit |-> l]
Succ == [t \in {"8", n8f} |-> IF t = "8" THEN "9" ELSE "8"]
Bind(i, j) == [op |-> "bind", from |-> i, to |-> j, fun |-> Succ]

R(kind, body, head) ==
  [kind |-> kind, body |-> body, head |-> head, win |-> NoWindow, before |-> {}]
Given(head) == R("fact", << >>, head)
Normally(body, head) == R("defeasible", body, head)

Facts ==
  [f1 |-> Given(L(<<"p", "a">>)),          f2 |-> Given(L(<<"q", "b">>)),
   f3 |-> Given(At(<<"p", "a">>, 1, 3)),   f4 |-> Given(At(<<"q", "a">>, 2, 4)),
   f5 |-> Given(L(<<"n", "8">>)),          f6 |-> Given(L(<<"m", n8f>>)),
   f7 |-> Given(At(<<"m", n8f>>, 1, 3)), f8 |-> Given(L(<<"edge", "a", "b">>)),
   f9 |-> Given(L(<<"edge", "b", "c">>)),  f10 |-> Given(At(<<"q", "a">>, 4, 5)),
   r1_1 |-> Given(L(<<"r", "a">>))]

Pool ==
  [r1  |-> Normally(<<If(L(<<"p", x>>))>>, L(<<"q", x>>)),
   r2  |-> Normally(<<If(L(<<"q", x>>))>>, L(<<"p", x>>)),
   r3  |-> R("strict", <<If(L(<<"p", x>>)), If(L(<<"q", x>>))>>, L(<<"r", x>>)),
   r4  |-> Normally(<<If(L(<<"n", x>>)), If(L(<<"m", x>>))>>, L(<<"q", x>>)),
   r5  |-> Normally(<<If(L(<<"n", x>>)), Bind(x, y)>>, L(<<"m", y>>)),
   r6  |-> Normally(<<If(L(<<"m", x>>)), Bind(x, y), If(L(<<"n", y>>))>>, L(<<"r", y>>)),
   r7  |-> Normally(<<If(L(<<"edge", x, y>>)), If(L(<<"edge", y, z>>))>>, L(<<"edge", x, z>>)),
   r8  |-> R("defeater", <<If(L(<<"q", x>>))>>, L(<<"p", x>>)),
   r9  |-> Normally(<<If(At(<<"p", x>>, s, e)), If(At(<<"q", x>>, u, v))>>, At(<<"r", x>>, s, u)),
   r10 |-> [Normally(<<If(At(<<"p", x>>, s, e)), If(At(<<"q", x>>, u, v))>>, At(<<"r", x>>, u, e))
              EXCEPT !.before = {<<u, e>>}],
   r11 |-> Normally(<<Unless(L(<<"Op", x>>)), If(L(<<"p", x>>))>>, L(<<"r", x>>)),
   r12 |-> Normally(<<Unless(L(<<"Op", "a">>)), Bind("8", y)>>, L(<<"n", y>>)),
   r13 |-> Normally(<<Bind(n8f, y)>>, L(<<"n", y>>)),
   r14 |-> Normally(<<If(L(<<x, "a">>)), If(L(<<x, y>>))>>, L(<<"edge", x, y>>)),
   r15 |-> Normally(<<If(L(<<"edge", "_", x>>)), If(L(<<"edge", x, "_">>))>>, L(<<"p", x>>)),
   r16 |-> Normally(<<If(L(<<"edge", "_", "_">>))>>, L(<<"r", "c">>)),
   r17 |-> Normally(<<If(L(<<"p", "a">>))>>, L(<<"q", "_">>)),
   r18 |-> Normally(<<If(L(<<"p", x>>))>>, L(<<"q", y>>)),
   r19 |-> Normally(<<If(L(<<"p", x>>))>>, At(<<"q", x>>, s, s)),
   r20 |-> [Normally(<<If(L(<<"q", x>>))>>, L(<<"r", x>>)) EXCEPT !.win = <<1, 2>>],
   r21 |-> Normally(<<If(L(<<"p", "a">>))>>, L(<<"q", "c">>)),
   r22 |-> Normally(<<If(At(<<"q", "a">>, 2, 4))>>, L(<<"p", "c">>)),
   r23 |-> Normally(<<If(At(<<"p", x>>, s, e)), If(At(<<"q", x>>, u, v))>>, At(<<"r", x>>, e, u)),
   r24 |-> Normally(<<If(At(<<"p", x>>, s, e)), If(At(<<"p", x>>, e, s))>>, L(<<"r", x>>)),
   r25 |-> Normally(<<If(L(<<"q", x>>)), If(L(<<"p", x>>))>>, L(<<"r", x>>))]

Ordered ==
  <<"f1", "f2", "f3", "f4", "f5", "f6", "f7", "f8", "f9", "f10",
    "r1", "r1_1", "r2", "r3", "r4", "r5", "r6", "r7", "r8", "r9", "r10", "r11", "r12", "r13",
    "r14", "r15", "r16", "r17", "r18", "r19", "r20", "r21", "r22",
    "r23", "r24", "r25">>
MCLabel == {Ordered[i] : i \in DOMAIN Ordered}
Place == [l \in MCLabel |-> CHOOSE i \in DOMAIN Ordered : Ordered[i] = l]
MCLabelBefore(l, m) == Place[l] < Place[m]

(* Of two rules the later one is ranked above the earlier, or neither is. *)
Ranks(S) ==
  {{}, {<<l, m>> \in S \X S : MCLabelBefore(m, l)}}

(* The rules by label, each with its own label as its template. *)
Rules == [l \in MCLabel |-> (Facts @@ Pool)[l] @@ [template |-> l]]

MCTheories ==
  UNION {{[rules |-> [l \in base \cup chosen |-> Rules[l]], sup |-> sup] : sup \in Ranks(chosen)} :
           <<base, chosen>> \in Bases \X Chosen}

MCBases ==
  {{"f1", "f2", "r1_1"}, {"f3", "f4", "f10"}, {"f1", "f3", "f4"}, {"f5", "f6"}, {"f5", "f7"},
   {"f1", "f8", "f9"}}

Single == {{l} : l \in DOMAIN Pool}
(* Two rules of which one makes facts for the other, or is ranked over it. *)
Pairs ==
  {{"r1", "r2"}, {"r1", "r3"}, {"r2", "r3"}, {"r1", "r8"}, {"r1", "r20"}, {"r1", "r21"},
   {"r2", "r11"}, {"r2", "r14"}, {"r4", "r5"}, {"r5", "r6"}, {"r6", "r13"}, {"r7", "r15"},
   {"r9", "r22"}, {"r10", "r20"}, {"r12", "r5"}, {"r15", "r16"}, {"r17", "r1"}, {"r18", "r25"}, {"r19", "r2"},
   {"r19", "r9"}, {"r21", "r22"}}
SingleAndPairs == Single \cup Pairs

MCLimits == Limited
Lim(i, n) == [iterations |-> i, instances |-> n]
FewRounds == {Lim(1, 8)}
ManyLimits == {Lim(8, 8), Lim(8, 2), Lim(1, 8), Lim(2, 3), Lim(0, 8), Lim(8, 0)}

Opt(t, g, r, lim) == [time |-> t, ground |-> g, restrict |-> r, wildcards |-> r, limits |-> lim]
MCOptions ==
  {Opt(t, TRUE, TRUE, lim) : t \in {NoTime, 3}, lim \in Limited}
    \cup {Opt(3, FALSE, TRUE, Lim(8, 8)), Opt(3, TRUE, FALSE, Lim(8, 8))}
=============================================================================
