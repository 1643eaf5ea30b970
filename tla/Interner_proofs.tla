--------------------------- MODULE Interner_proofs ---------------------------
(***************************************************************************)
(* The interner keeps one symbol per name whatever its callers do, no      *)
(* thread waits for itself, and the lock makes it a Registry.              *)
(***************************************************************************)
EXTENDS Interner, TLAPS

(* The lock: who holds it is where the program counters say.               *)
Locked ==
  /\ \A t \in Thread : t \in readers <=> pc[t] \in {"reading", "found"}
  /\ \A t \in Thread : writer = t <=> pc[t] \in {"writing", "recording", "stored"}
  /\ writer # NoThread => readers = {}

(* The name a thread has pushed and not yet put in the map.                *)
Pushed(t, n) ==
  /\ pc[t] = "recording"
  /\ request[t] = <<"intern", n>>
  /\ n \notin DOMAIN map
  /\ strings[Len(strings)] = n
  /\ answer[t] = (Len(strings) - 1) % IdLimit

(* The table and the map agree, but for a pushed name.                     *)
Fresh ==
  ~ initialised => strings = << >> /\ DOMAIN map = {} /\ symbols = {}

Listed ==
  initialised =>
    /\ Len(strings) > 0
    /\ \A n \in DOMAIN map : \E i \in DOMAIN strings :
          strings[i] = n /\ map[n] = (i - 1) % IdLimit
    /\ \A i \in DOMAIN strings :
          strings[i] \in DOMAIN map \/ \E t \in Thread : Pushed(t, strings[i])
    /\ \A i, j \in DOMAIN strings : strings[i] = strings[j] => i = j

InMidst ==
  \A t \in Thread :
     /\ pc[t] = "recording" => initialised /\ \E n \in Name : Pushed(t, n)
     /\ pc[t] \in {"found", "stored"} =>
          /\ initialised
          /\ request[t][1] = "intern" =>
               request[t][2] \in DOMAIN map /\ answer[t] = map[request[t][2]]

Remembered ==
  \A x \in symbols : x[1] \in DOMAIN map /\ x[2] = map[x[1]]

Inv == TypeOK /\ Locked /\ Fresh /\ Listed /\ InMidst /\ Remembered

-----------------------------------------------------------------------------
(* Requests and remainders. *)

(* A request is a pair whose second part its first part tells the type of. *)
LEMMA RequestShape ==
  ASSUME NEW r \in Request
  PROVE  /\ r = <<r[1], r[2]>>
         /\ r[1] = "intern" => r[2] \in Name
         /\ r[1] = "resolve" => r[2] \in SymbolId
         /\ r[1] \in {"intern", "resolve", "count"}
BY DEF Request, Count

(* The width of a symbol, and the symbols of places.                       *)
LEMMA Width ==
  /\ IdLimit \in Nat /\ IdLimit > 0
  /\ SymbolId \subseteq Nat
  /\ \A n \in Nat : n % IdLimit \in SymbolId
  /\ \A n \in Nat : n < IdLimit => n % IdLimit = n
<1>1. IdLimit \in Nat /\ IdLimit > 0
  BY SymbolsAssumption DEF IdLimit
<1>2. SymbolId = 0 .. IdLimit - 1
  BY DEF SymbolId
<1> QED
  BY <1>1, <1>2, SMT

-----------------------------------------------------------------------------
(* The invariant holds at the start and is kept by every step. *)

(* Nothing is held, stored or promised at the start.                       *)
LEMMA InvInit == Init => Inv
<1> SUFFICES ASSUME Init PROVE Inv
  OBVIOUS
<1>1. DOMAIN map = {}
  BY DEF Init
<1>2. Count \in Request
  BY DEF Request
<1>3. TypeOK
  <2>1. pc \in [Thread -> {"idle", "toRead", "reading", "found", "toWrite", "writing",
                          "recording", "stored"}]
    BY DEF Init
  <2>2. request \in [Thread -> Request] /\ answer \in [Thread -> Name \cup Nat]
    BY <1>2 DEF Init
  <2>3. strings \in Seq(Name) /\ symbols \subseteq Name \X SymbolId
    BY DEF Init
  <2> QED
    BY <1>1, <2>1, <2>2, <2>3 DEF Init, TypeOK
<1>4. Locked
  BY ThreadAssumption DEF Init, Locked
<1>5. Fresh /\ Listed /\ InMidst /\ Remembered
  BY <1>1 DEF Init, Fresh, Listed, InMidst, Remembered
<1> QED
  BY <1>3, <1>4, <1>5 DEF Inv

(* A step of a thread that neither pushes nor records leaves the table and *)
(* every other thread's pushed name as they are.                           *)
LEMMA TableKept ==
  ASSUME Inv, NEW t \in Thread, UNCHANGED <<initialised, strings, map>>,
         \A u \in Thread \ {t} : /\ pc'[u] = pc[u] /\ request'[u] = request[u]
                                  /\ answer'[u] = answer[u],
         pc[t] # "recording", pc'[t] # "recording"
  PROVE  /\ Listed'
         /\ \A u \in Thread \ {t} :
               /\ pc[u] = "recording" => initialised' /\ \E n \in Name : Pushed(u, n)'
               /\ pc[u] \in {"found", "stored"} =>
                    /\ initialised'
                    /\ request'[u][1] = "intern" =>
                         /\ request'[u][2] \in DOMAIN map'
                         /\ answer'[u] = map'[request'[u][2]]
<1>1. \A u \in Thread : \A n : Pushed(u, n) => Pushed(u, n)'
  BY DEF Pushed
<1>2. Listed'
  BY <1>1 DEF Inv, Listed
<1>3. ASSUME NEW u \in Thread \ {t}, pc[u] = "recording"
      PROVE  initialised' /\ \E n \in Name : Pushed(u, n)'
  BY <1>1, <1>3 DEF Inv, InMidst
<1> QED
  BY <1>2, <1>3 DEF Inv, InMidst

(* Entering, and moving on without an answer.                              *)
LEMMA Waiting ==
  ASSUME Inv, NEW t \in Thread,
         \/ \E r \in Request : Call(t, r)
         \/ ReadLock(t)
         \/ Miss(t)
         \/ WriteLock(t)
  PROVE  Inv'
<1> USE DEF Moves
<1>1. TypeOK'
  BY DEF Inv, TypeOK, Call, ReadLock, Miss, WriteLock, DropGuard
<1>2. Locked'
  BY ThreadAssumption
     DEF Inv, TypeOK, Locked, Call, ReadLock, Miss, WriteLock, DropGuard
<1>3. /\ UNCHANGED <<initialised, strings, map, answer, symbols>>
      /\ pc[t] \notin {"recording", "found", "stored"}
      /\ pc'[t] \notin {"recording", "found", "stored"}
      /\ \A u \in Thread \ {t} : pc'[u] = pc[u] /\ request'[u] = request[u]
  BY DEF Inv, TypeOK, Call, ReadLock, Miss, WriteLock
<1>4. /\ Listed'
      /\ InMidst'
  BY <1>3, TableKept DEF InMidst
<1> QED
  BY <1>1, <1>2, <1>3, <1>4 DEF Inv, Fresh, Remembered

(* Finding the answer under the read lock.                                 *)
LEMMA Finding ==
  ASSUME Inv, NEW t \in Thread, Find(t)
  PROVE  Inv'
<1> USE DEF Moves
<1>1. /\ pc[t] = "reading" /\ pc' = [pc EXCEPT ![t] = "found"]
      /\ initialised
      /\ Lookup(t, strings, map)
      /\ UNCHANGED <<readers, writer, initialised, strings, map, request, symbols>>
  BY DEF Find
<1>2. request[t] \in Request
  BY DEF Inv, TypeOK
<1>3. PICK a \in Name \cup Nat :
        /\ answer' = [answer EXCEPT ![t] = a]
        /\ request[t][1] = "intern" =>
             request[t][2] \in DOMAIN map /\ a = map[request[t][2]]
  <2>1. CASE request[t][1] = "intern"
    BY <2>1, <1>1, Width DEF Lookup, Sets, Inv, TypeOK
  <2>2. CASE request[t][1] = "resolve"
    <3>1. request[t][2] \in Nat
      BY <2>2, <1>2, RequestShape, Width
    <3>2. Resolve(strings, request[t][2]) \in Name
      BY <3>1, SymbolsAssumption DEF Resolve, Inv, TypeOK
    <3> QED
      BY <2>2, <3>2, <1>1 DEF Lookup, Sets
  <2>3. CASE request[t][1] = "count"
    BY <2>3, <1>1 DEF Lookup, Sets, Inv, TypeOK
  <2> QED
    BY <2>1, <2>2, <2>3, <1>2, RequestShape
<1>4. TypeOK'
  BY <1>1, <1>3 DEF Inv, TypeOK
<1>5. Locked'
  BY <1>1 DEF Inv, TypeOK, Locked
<1>6. /\ pc'[t] = "found" /\ answer'[t] = a
      /\ \A u \in Thread \ {t} : pc'[u] = pc[u] /\ answer'[u] = answer[u]
  BY <1>1, <1>3 DEF Inv, TypeOK
<1>7. Listed' /\ InMidst'
  BY <1>1, <1>3, <1>6, TableKept DEF InMidst
<1> QED
  BY <1>1, <1>4, <1>5, <1>7 DEF Inv, Fresh, Remembered

(* Returning from under either lock.                                       *)
LEMMA Returning ==
  ASSUME Inv, NEW t \in Thread, ReturnRead(t) \/ ReturnWrite(t)
  PROVE  Inv'
<1> USE DEF Moves
<1>1. /\ pc[t] \in {"found", "stored"} /\ pc' = [pc EXCEPT ![t] = "idle"]
      /\ Returns(t)
      /\ UNCHANGED <<initialised, strings, map>>
  BY DEF ReturnRead, ReturnWrite
<1>2. \A x \in symbols' :
        x[1] \in DOMAIN map /\ x[2] = map[x[1]] /\ x \in Name \X SymbolId
  <2>1. CASE request[t][1] = "intern"
    <3>1. symbols' = symbols \cup {<<request[t][2], map[request[t][2]]>>}
      BY <2>1, <1>1 DEF Returns, Inv, InMidst
    <3>2. request[t][2] \in DOMAIN map
      BY <2>1, <1>1 DEF Inv, InMidst
    <3> QED
      BY <3>1, <3>2 DEF Inv, TypeOK, Remembered
  <2>2. CASE request[t][1] # "intern"
    BY <2>2, <1>1 DEF Returns, Inv, TypeOK, Remembered
  <2> QED
    BY <2>1, <2>2
<1>3. TypeOK'
  <2>1. symbols' \subseteq Name \X SymbolId
    BY <1>2
  <2>2. request' \in [Thread -> Request] /\ answer' \in [Thread -> Name \cup Nat]
    BY <1>1 DEF Inv, TypeOK, Returns, Request
  <2>3. readers' \subseteq Thread /\ writer' \in Thread \cup {NoThread}
    BY DEF Inv, TypeOK, ReturnRead, ReturnWrite
  <2> QED
    BY <1>1, <2>1, <2>2, <2>3 DEF Inv, TypeOK
<1>4. Locked'
  BY ThreadAssumption DEF Inv, TypeOK, Locked, ReturnRead, ReturnWrite
<1>5. \A u \in Thread \ {t} : /\ pc'[u] = pc[u] /\ request'[u] = request[u]
                               /\ answer'[u] = answer[u]
  BY <1>1 DEF Inv, TypeOK, Returns
<1>6. pc'[t] = "idle"
  BY <1>1 DEF Inv, TypeOK
<1>7. Listed' /\ InMidst'
  BY <1>1, <1>5, <1>6, TableKept DEF InMidst
<1>8. Fresh'
  BY <1>1 DEF Inv, InMidst, Fresh
<1> QED
  BY <1>2, <1>3, <1>4, <1>7, <1>8, <1>1 DEF Inv, Remembered

(* Creating the table, or looking a name up again.                         *)
LEMMA Creating ==
  ASSUME Inv
  PROVE  /\ Table \in Seq(Name) /\ Len(Table) > 0
         /\ DOMAIN Map \subseteq Name
         /\ \A n \in DOMAIN Map : Map[n] \in SymbolId
         /\ \A n \in DOMAIN Map : \E i \in DOMAIN Table :
               Table[i] = n /\ Map[n] = (i - 1) % IdLimit
         /\ \A i, j \in DOMAIN Table : Table[i] = Table[j] => i = j
         /\ (\A t \in Thread : pc[t] # "recording") =>
               \A i \in DOMAIN Table : Table[i] \in DOMAIN Map
         /\ Remembered => \A x \in symbols : x[1] \in DOMAIN Map /\ x[2] = Map[x[1]]
<1>1. CASE initialised
  <2>1. Table = strings /\ Map = map
    BY <1>1 DEF Table, Map
  <2>2. (\A t \in Thread : pc[t] # "recording") =>
           \A i \in DOMAIN strings : strings[i] \in DOMAIN map
    BY <1>1 DEF Inv, Listed, Pushed
  <2> QED
    BY <1>1, <2>1, <2>2 DEF Inv, TypeOK, Listed, Remembered
<1>2. CASE ~ initialised
  <2>1. Table = <<Empty>> /\ Map = [n \in {Empty} |-> 0]
    BY <1>2 DEF Table, Map
  <2>2. 0 \in SymbolId /\ (1 - 1) % IdLimit = 0
    BY Width
  <2>3. DOMAIN Table = {1} /\ Table[1] = Empty /\ Len(Table) = 1 /\ Table \in Seq(Name)
    BY <2>1, SymbolsAssumption
  <2>4. DOMAIN Map = {Empty} /\ Map[Empty] = 0
    BY <2>1
  <2>5. \A n \in DOMAIN Map : \E i \in DOMAIN Table :
           Table[i] = n /\ Map[n] = (i - 1) % IdLimit
    BY <2>2, <2>3, <2>4
  <2>6. symbols = {}
    BY <1>2 DEF Inv, Fresh
  <2> QED
    BY <2>2, <2>3, <2>4, <2>5, <2>6, SymbolsAssumption
<1> QED
  BY <1>1, <1>2

(* While a thread holds the write lock no other is past its own lock.      *)
LEMMA Alone ==
  ASSUME Inv, NEW t \in Thread, pc[t] \in {"writing", "recording", "stored"}
  PROVE  \A u \in Thread \ {t} :
            pc[u] \notin {"reading", "found", "writing", "recording", "stored"}
BY ThreadAssumption DEF Inv, Locked

(* Answering under the write lock.                                         *)
LEMMA Rechecking ==
  ASSUME Inv, NEW t \in Thread, Recheck(t)
  PROVE  Inv'
<1> USE DEF Moves
<1>1. /\ pc[t] = "writing" /\ pc' = [pc EXCEPT ![t] = "stored"]
      /\ initialised' /\ initialised' \in BOOLEAN
      /\ strings' = Table /\ map' = Map
      /\ Lookup(t, Table, Map)
      /\ UNCHANGED <<readers, writer, request, symbols>>
  BY DEF Recheck
<1>2. request[t] \in Request
  BY DEF Inv, TypeOK
<1>3. PICK a \in Name \cup Nat :
        /\ answer' = [answer EXCEPT ![t] = a]
        /\ request[t][1] = "intern" =>
             request[t][2] \in DOMAIN Map /\ a = Map[request[t][2]]
  <2>1. CASE request[t][1] = "intern"
    BY <2>1, <1>1, Width, Creating DEF Lookup, Sets
  <2>2. CASE request[t][1] = "resolve"
    <3>1. request[t][2] \in Nat
      BY <2>2, <1>2, RequestShape, Width
    <3>2. Resolve(Table, request[t][2]) \in Name
      BY <3>1, SymbolsAssumption, Creating DEF Resolve
    <3> QED
      BY <2>2, <3>2, <1>1 DEF Lookup, Sets
  <2>3. CASE request[t][1] = "count"
    BY <2>3, <1>1, Creating DEF Lookup, Sets
  <2> QED
    BY <2>1, <2>2, <2>3, <1>2, RequestShape
<1>4. \A u \in Thread : u # t => pc'[u] \notin {"found", "recording", "stored"}
  BY <1>1, Alone DEF Inv, TypeOK
<1>5. pc'[t] = "stored" /\ answer'[t] = a
  BY <1>1, <1>3 DEF Inv, TypeOK
<1>6. TypeOK'
  BY <1>1, <1>3, Creating DEF Inv, TypeOK
<1>7. Locked'
  BY <1>1 DEF Inv, TypeOK, Locked
<1>8. Listed'
  BY <1>1, <1>4, Creating, Alone DEF Listed
<1>9. InMidst'
  BY <1>1, <1>3, <1>4, <1>5 DEF InMidst
<1> QED
  BY <1>1, <1>6, <1>7, <1>8, <1>9, Creating DEF Inv, Fresh, Remembered

(* Pushing a new name.                                                     *)
LEMMA Storing ==
  ASSUME Inv, NEW t \in Thread, Store(t)
  PROVE  Inv'
<1> USE DEF Moves
<1>0. PICK n \in Name : request[t] = <<"intern", n>>
  BY RequestShape DEF Store, Inv, TypeOK
<1>1. /\ pc[t] = "writing" /\ pc' = [pc EXCEPT ![t] = "recording"]
      /\ initialised' /\ initialised' \in BOOLEAN
      /\ strings' = Append(Table, n) /\ map' = Map
      /\ answer' = [answer EXCEPT ![t] = Len(Table) % IdLimit]
      /\ request[t][1] = "intern" /\ n \notin DOMAIN Map
      /\ UNCHANGED <<readers, writer, request, symbols>>
  BY <1>0 DEF Store, Sets, NextSymbol
<1>3. Len(Table) \in Nat /\ Len(Table) % IdLimit \in Nat
  BY Creating, Width
<1>4. \A u \in Thread : u # t => pc'[u] \notin {"found", "recording", "stored"}
  BY <1>1, Alone DEF Inv, TypeOK
<1>5. pc'[t] = "recording" /\ answer'[t] = Len(Table) % IdLimit
  BY <1>1 DEF Inv, TypeOK
<1>6. /\ strings' \in Seq(Name) /\ Len(strings') = Len(Table) + 1
      /\ DOMAIN strings' = 1 .. Len(Table) + 1
      /\ DOMAIN Table = 1 .. Len(Table)
      /\ \A i \in DOMAIN Table : strings'[i] = Table[i]
      /\ strings'[Len(Table) + 1] = n
  BY <1>1, Creating
<1>7. Pushed(t, n)'
  <2>1. answer'[t] = (Len(strings') - 1) % IdLimit
    BY <1>3, <1>5, <1>6
  <2> QED
    BY <1>0, <1>1, <1>5, <1>6, <2>1 DEF Pushed
<1>8. TypeOK'
  BY <1>1, <1>3, <1>6, Creating DEF Inv, TypeOK
<1>9. Locked'
  BY <1>1 DEF Inv, TypeOK, Locked
<1>10. Listed'
  <2>1. \A i \in DOMAIN Table : Table[i] \in DOMAIN Map
    BY <1>1, Creating, Alone
  <2>2. \A i \in DOMAIN strings' : i \in DOMAIN Table \/ i = Len(Table) + 1
    BY <1>6, <1>3
  <2>3. \A i, j \in DOMAIN strings' : strings'[i] = strings'[j] => i = j
    BY <2>1, <2>2, <1>1, <1>6, Creating
  <2>4. \A i \in DOMAIN strings' :
           strings'[i] \in DOMAIN map' \/ \E u \in Thread : Pushed(u, strings[i])'
    <3>1. ASSUME NEW i \in DOMAIN strings'
          PROVE  strings'[i] \in DOMAIN map' \/ strings'[i] = n
      BY <2>1, <2>2, <1>1, <1>6
    <3>2. ASSUME NEW i \in DOMAIN strings', strings'[i] = n
          PROVE  Pushed(t, strings[i])'
      BY <3>2, <1>7 DEF Pushed
    <3> QED
      BY <3>1, <3>2
  <2>5. \A m \in DOMAIN map' : \E i \in DOMAIN strings' :
           strings'[i] = m /\ map'[m] = (i - 1) % IdLimit
    <3>1. DOMAIN Table \subseteq DOMAIN strings'
      BY <1>3, <1>6
    <3> QED
      BY <3>1, <1>1, <1>6, Creating
  <2>6. Len(strings') > 0
    BY <1>3, <1>6
  <2> QED
    BY <2>3, <2>4, <2>5, <2>6 DEF Listed
<1>11. InMidst'
  BY <1>0, <1>1, <1>4, <1>5, <1>7 DEF InMidst
<1> QED
  BY <1>1, <1>8, <1>9, <1>10, <1>11, Creating DEF Inv, Fresh, Remembered

(* Putting the pushed name in the map.                                     *)
LEMMA Recording ==
  ASSUME Inv, NEW t \in Thread, Record(t)
  PROVE  Inv'
<1> USE DEF Moves
<1> DEFINE n == request[t][2]
<1>1. /\ pc[t] = "recording" /\ pc' = [pc EXCEPT ![t] = "stored"]
      /\ map' = [m \in DOMAIN map \cup {n} |-> IF m = n THEN answer[t] ELSE map[m]]
      /\ UNCHANGED <<readers, writer, initialised, strings, request, answer, symbols>>
  BY DEF Record
<1>2. /\ initialised
      /\ n \in Name /\ n \notin DOMAIN map
      /\ request[t][1] = "intern"
      /\ strings[Len(strings)] = n
      /\ answer[t] = (Len(strings) - 1) % IdLimit
  <2>1. PICK m \in Name : initialised /\ Pushed(t, m)
    BY <1>1 DEF Inv, InMidst
  <2>2. m = n
    BY <2>1 DEF Pushed
  <2> QED
    BY <2>1, <2>2 DEF Pushed
<1>3. Len(strings) \in Nat /\ Len(strings) > 0 /\ DOMAIN strings = 1 .. Len(strings)
  BY <1>2 DEF Inv, TypeOK, Listed
<1>4. answer[t] \in SymbolId
  <2>1. Len(strings) - 1 \in Nat
    BY <1>3
  <2> QED
    BY <2>1, <1>2, Width
<1>5. /\ DOMAIN map' = DOMAIN map \cup {n} /\ map'[n] = answer[t]
      /\ \A m \in DOMAIN map : map'[m] = map[m]
  BY <1>1, <1>2
<1>6. \A u \in Thread : u # t => pc'[u] \notin {"found", "recording", "stored"}
  BY <1>1, Alone DEF Inv, TypeOK
<1>7. pc'[t] = "stored"
  BY <1>1 DEF Inv, TypeOK
<1>8. TypeOK'
  BY <1>1, <1>2, <1>4, <1>5 DEF Inv, TypeOK
<1>9. Locked'
  BY <1>1 DEF Inv, TypeOK, Locked
<1>10. Listed'
  <2>1. \A i \in DOMAIN strings : strings[i] \in DOMAIN map'
    <3>1. \A i \in DOMAIN strings : \A u \in Thread :
             Pushed(u, strings[i]) => strings[i] = n
      BY <1>1, Alone DEF Pushed
    <3> QED
      BY <3>1, <1>2, <1>5 DEF Inv, Listed
  <2>2. \A m \in DOMAIN map' : \E i \in DOMAIN strings :
           strings[i] = m /\ map'[m] = (i - 1) % IdLimit
    <3>1. Len(strings) \in DOMAIN strings
      BY <1>3
    <3>2. \E i \in DOMAIN strings : strings[i] = n /\ map'[n] = (i - 1) % IdLimit
      BY <3>1, <1>2, <1>5
    <3> QED
      BY <3>2, <1>2, <1>5 DEF Inv, Listed
  <2> QED
    BY <2>1, <2>2, <1>1, <1>2, <1>3 DEF Inv, Listed
<1>11. InMidst'
  BY <1>1, <1>2, <1>5, <1>6, <1>7 DEF InMidst
<1> QED
  BY <1>1, <1>2, <1>5, <1>8, <1>9, <1>10, <1>11 DEF Inv, Fresh, Remembered

(* Every step keeps the invariant.                                         *)
LEMMA InvNext == Inv /\ [Next]_vars => Inv'
<1> SUFFICES ASSUME Inv, [Next]_vars PROVE Inv'
  OBVIOUS
<1>1. CASE UNCHANGED vars
  BY <1>1 DEF vars, Inv, TypeOK, Locked, Fresh, Listed, InMidst, Pushed, Remembered
<1>2. CASE Next
  <2>1. PICK t \in Thread : Step(t)
    BY <1>2 DEF Next
  <2>2. CASE (\E r \in Request : Call(t, r)) \/ ReadLock(t) \/ Miss(t) \/ WriteLock(t)
    BY <2>2, Waiting
  <2>3. CASE Find(t)
    BY <2>3, Finding
  <2>4. CASE ReturnRead(t) \/ ReturnWrite(t)
    BY <2>4, Returning
  <2>5. CASE Recheck(t)
    BY <2>5, Rechecking
  <2>6. CASE Store(t)
    BY <2>6, Storing
  <2>7. CASE Record(t)
    BY <2>7, Recording
  <2> QED
    BY <2>1, <2>2, <2>3, <2>4, <2>5, <2>6, <2>7 DEF Step
<1> QED
  BY <1>1, <1>2

(* The invariant holds of every reachable state.                           *)
THEOREM InvAlways == Spec => []Inv
BY InvInit, InvNext, PTL DEF Spec

-----------------------------------------------------------------------------
(* What follows from the invariant. *)

(* A remembered name is in the table, at the place its symbol names.       *)
LEMMA Places ==
  ASSUME Inv, NEW x \in symbols
  PROVE  /\ \E i \in DOMAIN strings : strings[i] = x[1] /\ x[2] = (i - 1) % IdLimit
         /\ DOMAIN strings = 1 .. Len(strings) /\ Len(strings) \in Nat
<1>1. initialised
  BY DEF Inv, Fresh
<1>2. x[1] \in DOMAIN map /\ x[2] = map[x[1]]
  BY DEF Inv, Remembered
<1> QED
  BY <1>1, <1>2 DEF Inv, Listed, TypeOK

(* While the table fits a width, the symbol is the place.                  *)
LEMMA Exact ==
  ASSUME Inv, NEW x \in symbols, Len(strings) <= IdLimit
  PROVE  /\ x[2] + 1 \in DOMAIN strings
         /\ strings[x[2] + 1] = x[1]
<1>1. PICK i \in DOMAIN strings : strings[i] = x[1] /\ x[2] = (i - 1) % IdLimit
  BY Places
<1>2. i - 1 \in Nat /\ i - 1 < IdLimit
  BY <1>1, Places, Width
<1>3. x[2] = i - 1
  BY <1>1, <1>2, Width
<1> QED
  BY <1>1, <1>2, <1>3

(* The identifier of a literal gives back its symbol and its sign.         *)
LEMMA Signed ==
  ASSUME NEW id \in SymbolId, NEW b \in BOOLEAN
  PROVE  /\ IsNegated(LiteralId(id, b)) = b
         /\ Flipped(LiteralId(id, b)) = LiteralId(id, ~ b)
         /\ id < HalfRange => SymbolOf(LiteralId(id, b)) = id
<1> DEFINE m == id % HalfRange
<1>1. /\ HalfRange \in Nat /\ HalfRange > 0
      /\ id \in Nat
  BY SymbolsAssumption, Width
<1>2. m \in Nat /\ m < HalfRange /\ (id < HalfRange => m = id)
  BY <1>1, SMT
<1>3. LiteralId(id, b) = m + (IF b THEN HalfRange ELSE 0)
  BY DEF LiteralId, SignBit
<1>4. LiteralId(id, ~ b) = m + (IF b THEN 0 ELSE HalfRange)
  BY DEF LiteralId, SignBit
<1> HIDE DEF m
<1>5. (m + HalfRange) % (2 * HalfRange) = m + HalfRange
  BY <1>1, <1>2, SMT
<1>6. (m + HalfRange + HalfRange) % (2 * HalfRange) = m
  BY <1>1, <1>2, SMT
<1>7. m % HalfRange = m /\ (m + HalfRange) % HalfRange = m
  BY <1>1, <1>2, SMT
<1> QED
  <2>1. CASE b
    <3>1. LiteralId(id, b) = m + HalfRange
      BY <2>1, <1>3, Zenon
    <3>2. LiteralId(id, ~ b) = m + 0
      BY <2>1, <1>4, Zenon
    <3>3. LiteralId(id, ~ b) = m
      BY <3>2, <1>2
    <3>4. IsNegated(LiteralId(id, b))
      BY <3>1, <1>1, <1>2 DEF IsNegated
    <3>5. Flipped(LiteralId(id, b)) = LiteralId(id, ~ b)
      BY <3>1, <3>3, <1>6 DEF Flipped, IdLimit
    <3>6. id < HalfRange => SymbolOf(LiteralId(id, b)) = id
      BY <3>1, <1>2, <1>7 DEF SymbolOf
    <3> QED
      BY <2>1, <3>4, <3>5, <3>6
  <2>2. CASE ~ b
    BY <2>2, <1>1, <1>2, <1>3, <1>4, <1>5, <1>7
       DEF IsNegated, Flipped, SymbolOf, IdLimit
  <2> QED
    BY <2>1, <2>2

(* Every variable has its type.                                            *)
THEOREM TypeCorrect == Spec => []TypeOK
<1>1. Inv => TypeOK
  BY DEF Inv
<1> QED
  BY <1>1, InvAlways, PTL

(* One name has one symbol, and one symbol one name until the table        *)
(* outgrows the width: the doc comment of SymbolId.                        *)
THEOREM OneSymbolAlways == Spec => []OneSymbol
<1>1. Inv => OneSymbol
  <2> SUFFICES ASSUME Inv, NEW x \in symbols, NEW y \in symbols
               PROVE  /\ x[1] = y[1] => x[2] = y[2]
                      /\ Len(strings) <= IdLimit /\ x[2] = y[2] => x[1] = y[1]
    BY DEF OneSymbol
  <2>1. x[1] = y[1] => x[2] = y[2]
    BY DEF Inv, Remembered
  <2>2. ASSUME Len(strings) <= IdLimit, x[2] = y[2]
        PROVE  x[1] = y[1]
    BY <2>2, Exact
  <2> QED
    BY <2>1, <2>2
<1> QED
  BY <1>1, InvAlways, PTL

(* A symbol that intern has returned resolves to its name.                 *)
THEOREM ResolvesAlways == Spec => []Resolves
<1>1. Inv => Resolves
  BY Exact DEF Resolves, Resolve
<1> QED
  BY <1>1, InvAlways, PTL

(* Literal identifiers keep sign and name apart.                           *)
THEOREM LiteralsDistinctAlways == Spec => []LiteralsDistinct
<1>1. Inv => LiteralsDistinct
  <2> SUFFICES ASSUME Inv, NEW x \in symbols, NEW b \in BOOLEAN
               PROVE  LET lit == LiteralId(x[2], b)
                      IN  /\ IsNegated(lit) = b
                          /\ Flipped(lit) = LiteralId(x[2], ~ b)
                          /\ Len(strings) <= HalfRange =>
                               /\ Resolve(strings, SymbolOf(lit)) = x[1]
                               /\ \A y \in symbols : SymbolOf(lit) = y[2] => x[1] = y[1]
    BY DEF LiteralsDistinct
  <2>1. x[2] \in SymbolId
    BY DEF Inv, TypeOK
  <2>2. ASSUME Len(strings) <= HalfRange
        PROVE  /\ Resolve(strings, SymbolOf(LiteralId(x[2], b))) = x[1]
               /\ \A y \in symbols : SymbolOf(LiteralId(x[2], b)) = y[2] => x[1] = y[1]
    <3>1. Len(strings) <= IdLimit
      BY <2>2, Places, SymbolsAssumption DEF IdLimit
    <3>2. x[2] < HalfRange
      BY <2>1, <2>2, <3>1, Exact, Places, Width, SymbolsAssumption
    <3>3. SymbolOf(LiteralId(x[2], b)) = x[2]
      BY <2>1, <3>2, Signed
    <3> QED
      BY <3>1, <3>3, Exact DEF Resolve
  <2> QED
    BY <2>1, <2>2, Signed
<1> QED
  BY <1>1, InvAlways, PTL

(* No thread waits for itself: some thread inside the interner can move.   *)
THEOREM NeverStuckAlways == Spec => []NeverStuck
<1>1. Inv => NeverStuck
  <2> SUFFICES ASSUME Inv, NEW t \in Thread, pc[t] # "idle"
               PROVE  \E u \in Thread : CanMove(u)
    BY DEF NeverStuck
  <2>1. CASE writer # NoThread
    <3>1. writer \in Thread /\ pc[writer] \in {"writing", "recording", "stored"}
      BY <2>1 DEF Inv, TypeOK, Locked
    <3> QED
      BY <3>1 DEF CanMove
  <2>2. CASE writer = NoThread /\ readers # {}
    <3>1. PICK u \in Thread : pc[u] \in {"reading", "found"}
      BY <2>2 DEF Inv, TypeOK, Locked
    <3> QED
      BY <3>1 DEF CanMove
  <2>3. CASE writer = NoThread /\ readers = {}
    BY <2>3 DEF CanMove, Inv, TypeOK
  <2> QED
    BY <2>1, <2>2, <2>3
<1> QED
  BY <1>1, InvAlways, PTL

-----------------------------------------------------------------------------
(* The refinement. *)

StatusMap == [t \in Thread |-> Status(t)]

(* What the status of a thread does when its program counter moves.        *)
LEMMA StatusMoves ==
  ASSUME TypeOK, NEW t \in Thread, NEW to, pc' = [pc EXCEPT ![t] = to]
  PROVE  /\ \A u \in Thread \ {t} : Status(u)' = Status(u)
         /\ Status(t)' = IF to \in {"found", "recording", "stored"} THEN "done"
                         ELSE IF to = "idle" THEN "idle" ELSE "pending"
BY DEF TypeOK, Status

(* A thread whose status does not change leaves all of them alone.         *)
LEMMA StatusStutter ==
  ASSUME TypeOK, NEW t \in Thread, NEW from, NEW to, Moves(t, from, to),
         \/ {from, to} \subseteq {"toRead", "reading", "toWrite", "writing"}
         \/ {from, to} \subseteq {"found", "recording", "stored"}
  PROVE  StatusMap' = StatusMap
<1>1. Status(t)' = Status(t)
  BY StatusMoves DEF Moves, Status
<1>2. \A u \in Thread : Status(u)' = Status(u)
  BY <1>1, StatusMoves DEF Moves
<1> QED
  BY <1>2 DEF StatusMap

(* The status of the moving thread is all that changes.                    *)
LEMMA StatusChange ==
  ASSUME TypeOK, NEW t \in Thread, NEW to, pc' = [pc EXCEPT ![t] = to],
         NEW s, Status(t)' = s
  PROVE  StatusMap' = [StatusMap EXCEPT ![t] = s]
<1>1. \A u \in Thread \ {t} : Status(u)' = Status(u)
  BY StatusMoves
<1> QED
  BY <1>1 DEF StatusMap

(* A lookup under either lock gives the answer of the one table: a name    *)
(* that is in the map is in the table, at the place of its symbol.         *)
LEMMA LookupAnswers ==
  ASSUME Inv, NEW t \in Thread, Lookup(t, Table, Map),
         pc[t] \in {"reading", "writing"},
         StatusMap' = [StatusMap EXCEPT ![t] = "done"],
         Table' = Table, UNCHANGED request
  PROVE  Promise!Intern(t) \/ Promise!Read(t)
<1>1. StatusMap[t] = "pending"
  BY DEF StatusMap, Status
<1>2. CASE request[t][1] = "intern"
  <2>1. request[t][2] \in DOMAIN Map /\ Sets(t, Map[request[t][2]])
    BY <1>2 DEF Lookup
  <2>2. PICK i \in DOMAIN Table :
           Table[i] = request[t][2] /\ Map[request[t][2]] = (i - 1) % IdLimit
    BY <2>1, Creating
  <2>3. Promise!Answers(t, Promise!Symbol(i))
    BY <1>1, <2>1, <2>2 DEF Promise!Answers, Promise!Symbol, Sets, StatusMap,
       Promise!IdLimit, IdLimit
  <2> QED
    BY <1>2, <2>2, <2>3 DEF Promise!Intern, Promise!Names
<1>3. CASE request[t][1] = "resolve"
  BY <1>1, <1>3 DEF Lookup, Promise!Read, Promise!Answers, Sets, Resolve,
     Promise!Resolve, StatusMap
<1>4. CASE request[t][1] = "count"
  BY <1>1, <1>4 DEF Lookup, Promise!Read, Promise!Answers, Sets, StatusMap
<1> QED
  BY <1>2, <1>3, <1>4, RequestShape DEF Inv, TypeOK

(* Pushing a new name is the moment intern takes effect.                   *)
LEMMA StoreInterns ==
  ASSUME Inv, NEW t \in Thread, Store(t)
  PROVE  Promise!Intern(t)
<1>1. /\ pc[t] = "writing" /\ pc' = [pc EXCEPT ![t] = "recording"]
      /\ request[t][1] = "intern" /\ request[t][2] \notin DOMAIN Map
      /\ answer' = [answer EXCEPT ![t] = Len(Table) % IdLimit]
      /\ initialised' /\ strings' = Append(Table, request[t][2])
      /\ UNCHANGED request
  BY DEF Store, Moves, Sets, NextSymbol
<1>2. StatusMap' = [StatusMap EXCEPT ![t] = "done"] /\ StatusMap[t] = "pending"
  <2>1. StatusMap' = [StatusMap EXCEPT ![t] = "done"]
    BY <1>1, StatusMoves, StatusChange DEF Inv
  <2>2. StatusMap[t] = "pending"
    BY <1>1 DEF StatusMap, Status
  <2> QED
    BY <2>1, <2>2
<1>3. Table' = Append(Table, request[t][2])
  BY <1>1 DEF Table
<1>4. \A i \in DOMAIN Table : Table[i] \in DOMAIN Map
  BY <1>1, Creating, Alone
<1>5. request[t][2] \notin Promise!Names(Table)
  BY <1>1, <1>4 DEF Promise!Names
<1>6. /\ Len(Table) + 1 \in DOMAIN Table' /\ Table'[Len(Table) + 1] = request[t][2]
      /\ (Len(Table) + 1) - 1 = Len(Table)
  BY <1>3, Creating
<1>7. Promise!Answers(t, Promise!Symbol(Len(Table) + 1))
  BY <1>1, <1>2, <1>6 DEF Promise!Answers, Promise!Symbol, Promise!IdLimit, IdLimit,
     StatusMap
<1> QED
  BY <1>1, <1>3, <1>5, <1>6, <1>7 DEF Promise!Intern

(* Every step of the interner is one of the registry, or none.             *)
LEMMA StepImplements ==
  ASSUME Inv, NEW t \in Thread, Step(t)
  PROVE  [Promise!Next]_(Promise!vars)
<1> USE DEF Inv
<1>1. ASSUME NEW r \in Request, Call(t, r)
      PROVE  Promise!Call(t, r)
  <2>1. pc' = [pc EXCEPT ![t] = "toRead"] /\ pc[t] = "idle"
    BY <1>1 DEF Call, Moves
  <2>2. StatusMap' = [StatusMap EXCEPT ![t] = "pending"] /\ StatusMap[t] = "idle"
    <3>0. Status(t)' = "pending"
      BY <2>1 DEF Status, TypeOK
    <3>1. StatusMap' = [StatusMap EXCEPT ![t] = "pending"]
      BY <2>1, <3>0, StatusChange
    <3>2. StatusMap[t] = "idle"
      BY <2>1 DEF StatusMap, Status
    <3> QED
      BY <3>1, <3>2
  <2>3. Table' = Table
    BY <1>1 DEF Call, Table
  <2> QED
    BY <1>1, <2>2, <2>3 DEF Call, Promise!Call, StatusMap
<1>2. CASE ReadLock(t) \/ Miss(t) \/ WriteLock(t) \/ Record(t)
  <2>1. StatusMap' = StatusMap
    BY <1>2, StatusStutter DEF ReadLock, Miss, WriteLock, Record
  <2>2. Table' = Table /\ UNCHANGED request
    BY <1>2 DEF ReadLock, Miss, WriteLock, Record, Table
  <2>3. UNCHANGED answer
    BY <1>2 DEF ReadLock, Miss, WriteLock, Record
  <2> QED
    BY <2>1, <2>2, <2>3 DEF Promise!vars, StatusMap
<1>3. ASSUME Find(t) \/ Recheck(t)
      PROVE  Promise!Intern(t) \/ Promise!Read(t)
  <2>1. PICK to \in {"found", "stored"} : pc' = [pc EXCEPT ![t] = to]
    BY <1>3 DEF Find, Recheck, Moves
  <2>2. StatusMap' = [StatusMap EXCEPT ![t] = "done"]
    BY <2>1, StatusMoves, StatusChange
  <2>3. Lookup(t, Table, Map) /\ Table' = Table /\ UNCHANGED request
    BY <1>3 DEF Find, Recheck, Table, Map
  <2>4. pc[t] \in {"reading", "writing"}
    BY <1>3 DEF Find, Recheck, Moves
  <2> QED
    BY <2>2, <2>3, <2>4, LookupAnswers
<1>4. ASSUME ReturnRead(t) \/ ReturnWrite(t)
      PROVE  Promise!Return(t)
  <2>1. pc' = [pc EXCEPT ![t] = "idle"] /\ pc[t] \in {"found", "stored"}
    BY <1>4 DEF ReturnRead, ReturnWrite, Moves
  <2>2. StatusMap' = [StatusMap EXCEPT ![t] = "idle"] /\ StatusMap[t] = "done"
    <3>0. Status(t)' = "idle"
      BY <2>1, StatusMoves
    <3>1. StatusMap' = [StatusMap EXCEPT ![t] = "idle"]
      BY <2>1, <3>0, StatusChange
    <3>2. StatusMap[t] = "done"
      BY <2>1 DEF StatusMap, Status
    <3> QED
      BY <3>1, <3>2
  <2>3. Table' = Table /\ Returns(t)
    BY <1>4 DEF ReturnRead, ReturnWrite, Table
  <2> QED
    BY <2>2, <2>3 DEF Returns, Promise!Return, StatusMap, Promise!Count, Count
<1> QED
  BY <1>1, <1>2, <1>3, <1>4, StoreInterns
     DEF Step, Promise!Next, Promise!Request, Request, Promise!SymbolId, SymbolId,
         Promise!Count, Count, Promise!IdLimit, IdLimit

(* intern, resolve and interned_count are atomic to their callers.         *)
THEOREM InternerImplements == Spec => Implements
<1>1. Init => Promise!Init
  BY DEF Init, Promise!Init, Table, Status, Promise!Count, Count
<1>2. Inv /\ [Next]_vars => [Promise!Next]_(Promise!vars)
  <2>1. CASE UNCHANGED vars
    BY <2>1 DEF vars, Promise!vars, Table, Status
  <2>2. CASE Next
    BY <2>2, StepImplements DEF Next
  <2> QED
    BY <2>1, <2>2
<1> QED
  BY <1>1, <1>2, InvAlways, PTL DEF Spec, Promise!Spec, Implements
=============================================================================
