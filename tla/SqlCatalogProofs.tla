---------------------------- MODULE SqlCatalogProofs ---------------------------
(***************************************************************************)
(* Theorems about SqlCatalog, for every number of callers, names, frames   *)
(* and tables in a request: type correctness with the discipline of the    *)
(* mutex, and that every step is one of Catalog or changes nothing there.  *)
(***************************************************************************)
EXTENDS SqlCatalog, TLAPS

--------------------------------------------------------------------------------
(* The inductive invariant *)

Stages == {"resolving", "looking", "waiting", "locked", "inserting", "returning"}

Call == [pc : Stages, request : Requests, next : 1..MaxTables, told : SUBSET Names]

Changes(r) == r.op \in {"register", "unregister"}

\* How many tables or names a request has, and what the k-th comes to.
size(r) == IF r.op = "register" THEN Len(r.tables) ELSE Len(r.names)

change(r, k) == IF r.op = "register" THEN r.tables[k]
                ELSE [name |-> r.names[k], frame |-> NoTable]

\* A call is at one of the tables of its request, at the first when it comes
\* to the lock, and has been told nothing before it is through the context.
CallOK(call) ==
    /\ call \in Call
    /\ Changes(call.request) => call.next <= size(call.request)
    /\ call.pc = "resolving" => call.request.op = "register"
    /\ call.pc \in {"looking", "waiting"} => call.next = 1
    /\ call.pc \in {"resolving", "looking", "waiting", "locked"} => call.told = {}

CallsOK ==
    /\ calls \in [Threads -> Call \cup {Idle}]
    /\ \A t \in Threads : calls[t] = Idle \/ CallOK(calls[t])

Rest ==
    /\ live \subseteq Handles
    /\ context \in BOOLEAN
    /\ catalog \in [Names -> Handles \cup {Made, NoTable}]
    /\ lock \in Threads \cup {Free}

Mutex == \A t \in Threads : At(t, "locked") <=> lock = t

IInv == CallsOK /\ Rest /\ Mutex

--------------------------------------------------------------------------------
(* Requests *)

\* The length of a list of a request.
LEMMA ListLength ==
  ASSUME NEW S, NEW list \in Lists(S)
  PROVE  /\ Len(list) \in 1..MaxTables /\ DOMAIN list = 1..Len(list)
         /\ \A k \in 1..Len(list) : list[k] \in S
<1>1. PICK n \in 1..MaxTables : list \in [1..n -> S]
  BY DEF Lists
<1>2. n \in Nat /\ list \in Seq(S)
  BY <1>1, SqlCatalogAssumption
<1>3. Len(list) = n
  BY <1>1, <1>2
<1>4. QED
  BY <1>1, <1>3

\* The tables or names of a request are distinct, and as many as a request may
\* have.
LEMMA RequestParts ==
  ASSUME NEW r \in Requests, Changes(r)
  PROVE  /\ size(r) \in 1..MaxTables
         /\ r.op = "register" => DOMAIN r.tables = 1..size(r)
         /\ r.op = "unregister" => DOMAIN r.names = 1..size(r)
         /\ \A k \in 1..size(r) : change(r, k).name \in Names /\ change(r, k).frame \in Handles \cup {NoTable}
         /\ \A k, l \in 1..size(r) : change(r, k).name = change(r, l).name => k = l
<1>1. CASE r.op = "register"
  <2>1. r.tables \in Tables
    BY <1>1 DEF Requests
  <2>2. /\ r.tables \in Lists([name : Names, frame : Handles])
        /\ Distinct([k \in DOMAIN r.tables |-> r.tables[k].name])
    BY <2>1 DEF Tables
  <2>3. /\ Len(r.tables) \in 1..MaxTables /\ DOMAIN r.tables = 1..Len(r.tables)
        /\ \A k \in 1..Len(r.tables) : r.tables[k] \in [name : Names, frame : Handles]
    BY <2>2, ListLength
  <2>4. \A k, l \in 1..Len(r.tables) : r.tables[k].name = r.tables[l].name => k = l
    BY <2>2, <2>3 DEF Distinct
  <2>5. QED
    BY <1>1, <2>3, <2>4 DEF size, change
<1>2. CASE r.op = "unregister"
  <2>1. r.names \in Lists(Names) /\ Distinct(r.names)
    BY <1>2 DEF Requests
  <2>2. /\ Len(r.names) \in 1..MaxTables /\ DOMAIN r.names = 1..Len(r.names)
        /\ \A k \in 1..Len(r.names) : r.names[k] \in Names
    BY <2>1, ListLength
  <2>3. \A k, l \in 1..Len(r.names) : r.names[k] = r.names[l] => k = l
    BY <2>1, <2>2 DEF Distinct
  <2>4. QED
    BY <1>2, <2>2, <2>3 DEF size, change
<1>3. QED
  BY <1>1, <1>2 DEF Changes

--------------------------------------------------------------------------------
(* Every step keeps the invariant *)

\* The call of one thread, and only that, changes.
Becomes(t, call) ==
    /\ calls'[t] = call
    /\ \A u \in Threads : u # t => calls'[u] = calls[u]

\* An update of one call.
LEMMA CallsKept ==
  ASSUME CallsOK, NEW t \in Threads, NEW call, calls' = [calls EXCEPT ![t] = call],
         call = Idle \/ CallOK(call)
  PROVE  CallsOK' /\ Becomes(t, call)
<1>1. call \in Call \cup {Idle}
  BY DEF CallOK
<1>2. calls' \in [Threads -> Call \cup {Idle}]
  BY <1>1 DEF CallsOK
<1>3. calls'[t] = call /\ \A u \in Threads : u # t => calls'[u] = calls[u]
  BY DEF CallsOK
<1>4. \A u \in Threads : calls'[u] = Idle \/ CallOK(calls'[u])
  BY <1>3 DEF CallsOK
<1>5. QED
  BY <1>2, <1>3, <1>4 DEF CallsOK, Becomes

\* A call at a stage is a call in order.
LEMMA CallIs ==
  ASSUME CallsOK, NEW t \in Threads, NEW pc \in Stages, At(t, pc)
  PROVE  calls[t] # Idle /\ CallOK(calls[t]) /\ calls[t].pc = pc /\ calls[t] \in Call
<1>1. calls[t].pc = pc /\ pc # "idle"
  BY DEF At, Stages
<1>2. calls[t] # Idle
  BY <1>1 DEF Idle
<1>3. QED
  BY <1>1, <1>2 DEF CallsOK, CallOK

\* A step of a thread that neither takes nor gives up the lock.
LEMMA MutexKept ==
  ASSUME Mutex, NEW t \in Threads, NEW call, Becomes(t, call), lock' = lock,
         call.pc = "locked" <=> At(t, "locked")
  PROVE  Mutex'
  BY DEF Mutex, Becomes, At

\* A step that gives it up.
LEMMA MutexUnlocked ==
  ASSUME Mutex, NEW t \in Threads, NEW call, Becomes(t, call), At(t, "locked"),
         lock' = Free, call.pc # "locked"
  PROVE  Mutex'
  BY SqlCatalogAssumption DEF Mutex, Becomes, At

\* Begin starts a call.
LEMMA BeginStep ==
  ASSUME IInv, NEW t \in Threads, Begin(t)
  PROVE  IInv' /\ \E call : Becomes(t, call) /\ calls[t] = Idle /\ CallOK(call)
                              /\ call.pc \in {"resolving", "looking"}
<1>1. CallsOK /\ Rest /\ Mutex
  BY DEF IInv
<1>2. PICK r \in Requests :
         calls' = [calls EXCEPT ![t] =
                      [pc |-> IF r.op = "register" THEN "resolving" ELSE "looking",
                       request |-> r, next |-> 1, told |-> {}]]
  BY DEF Begin
<1>3. PICK call : call = [pc |-> IF r.op = "register" THEN "resolving" ELSE "looking",
                          request |-> r, next |-> 1, told |-> {}]
  OBVIOUS
<1>4. 1 \in 1..MaxTables
  BY SqlCatalogAssumption
<1>5. Changes(r) => 1 <= size(r)
  BY RequestParts
<1>6. call \in Call
  BY <1>3, <1>4 DEF Call, Stages
<1>7. CallOK(call) /\ call.pc \in {"resolving", "looking"}
  BY <1>3, <1>5, <1>6 DEF CallOK
<1>8. CallsOK' /\ Becomes(t, call)
  BY <1>1, <1>2, <1>3, <1>7, CallsKept
<1>9. calls[t] = Idle /\ ~At(t, "locked") /\ UNCHANGED <<live, context, lock, catalog>>
  BY DEF Begin, At, Idle
<1>10. Mutex'
  BY <1>1, <1>7, <1>8, <1>9, MutexKept
<1>11. Rest'
  BY <1>1, <1>9 DEF Rest
<1>12. QED
  BY <1>7, <1>8, <1>9, <1>10, <1>11 DEF IInv

\* What a step before the lock does to the call, and after it.
Asking(t, call) ==
    /\ calls[t].pc \in {"resolving", "looking", "waiting"}
    /\ \/ call = Idle
       \/ /\ CallOK(call)
          /\ call.pc \in {"resolving", "looking", "waiting"}
          /\ call.request = calls[t].request

\* Resolve and Lookup keep the invariant.
LEMMA AskingStep ==
  ASSUME IInv, NEW t \in Threads, Resolve(t) \/ Lookup(t)
  PROVE  IInv' /\ \E call : Becomes(t, call) /\ Asking(t, call)
<1>1. CallsOK /\ Rest /\ Mutex
  BY DEF IInv
<1> DEFINE c == calls[t]
<1>2. UNCHANGED <<live, context, lock, catalog>> /\ ~At(t, "locked")
      /\ c.pc \in {"resolving", "looking", "waiting"}
  BY DEF Resolve, Lookup, At
<1>3. CallOK(c) /\ c \in Call
  BY <1>1, <1>2, CallIs DEF At, Stages
<1>4. \E call : calls' = [calls EXCEPT ![t] = call] /\ Asking(t, call)
  <2>1. CASE calls' = [calls EXCEPT ![t] = Idle]
    BY <1>2, <2>1 DEF Asking
  <2>2. CASE Resolve(t) /\ calls' = [calls EXCEPT ![t].next = c.next + 1] /\ c.next < Len(c.request.tables)
    <3>1. PICK call : call = [c EXCEPT !.next = c.next + 1]
      OBVIOUS
    <3>2. c.request \in Requests /\ c.next \in 1..MaxTables /\ c.pc = "resolving"
          /\ c.request.op = "register"
      BY <1>3, <2>2 DEF Call, CallOK, Resolve, At
    <3>3. size(c.request) \in 1..MaxTables /\ c.next < size(c.request)
      BY <2>2, <3>2, RequestParts DEF size, Changes
    <3>4. c.next + 1 \in 1..MaxTables /\ c.next + 1 <= size(c.request)
      BY <3>2, <3>3, SqlCatalogAssumption
    <3>5. call \in Call /\ call.pc = c.pc /\ call.request = c.request
          /\ call.next = c.next + 1 /\ call.told = c.told
      BY <3>1, <3>4, <1>3 DEF Call
    <3>6. CallOK(call)
      BY <3>2, <3>4, <3>5, <1>3 DEF CallOK
    <3>7. calls' = [calls EXCEPT ![t] = call]
      BY <2>2, <3>1
    <3>8. QED
      BY <1>2, <3>5, <3>6, <3>7 DEF Asking
  <2>3. CASE Resolve(t) /\ calls' = [calls EXCEPT ![t].next = 1, ![t].pc = "looking"]
    <3>1. PICK call : call = [c EXCEPT !.next = 1, !.pc = "looking"]
      OBVIOUS
    <3>2. c.request \in Requests /\ c.pc = "resolving"
      BY <1>3, <2>3 DEF Call, Resolve, At
    <3>3. Changes(c.request) => 1 <= size(c.request)
      BY <3>2, RequestParts
    <3>0. 1 \in 1..MaxTables
      BY SqlCatalogAssumption
    <3>4. call \in Call /\ call.pc = "looking" /\ call.request = c.request
          /\ call.next = 1 /\ call.told = c.told
      BY <3>0, <3>1, <1>3 DEF Call, Stages
    <3>5. CallOK(call)
      BY <3>2, <3>3, <3>4, <1>3 DEF CallOK
    <3>6. calls' = [calls EXCEPT ![t] = call]
      BY <1>1, <2>3, <3>1 DEF CallsOK
    <3>7. QED
      BY <1>2, <3>4, <3>5, <3>6 DEF Asking
  <2>4. CASE Lookup(t) /\ Goto(t, "waiting")
    <3>1. PICK call : call = [c EXCEPT !.pc = "waiting"]
      OBVIOUS
    <3>2. call \in Call /\ call.pc = "waiting" /\ call.request = c.request
          /\ call.next = c.next /\ call.told = c.told /\ c.pc = "looking"
      BY <3>1, <1>3, <2>4 DEF Call, Stages, Lookup, At
    <3>3. CallOK(call)
      BY <3>2, <1>3 DEF CallOK
    <3>4. calls' = [calls EXCEPT ![t] = call]
      BY <2>4, <3>1 DEF Goto
    <3>5. QED
      BY <1>2, <3>2, <3>3, <3>4 DEF Asking
  <2>5. CASE Resolve(t)
    BY <2>1, <2>2, <2>3, <2>5 DEF Resolve
  <2>6. CASE Lookup(t)
    BY <2>1, <2>4, <2>6 DEF Lookup
  <2>7. QED
    BY <2>5, <2>6
<1>5. PICK call : calls' = [calls EXCEPT ![t] = call] /\ Asking(t, call)
  BY <1>4
<1>6. CallsOK' /\ Becomes(t, call)
  BY <1>1, <1>5, CallsKept DEF Asking
<1>7. call.pc # "locked"
  BY <1>5 DEF Asking, Idle
<1>8. Mutex'
  BY <1>1, <1>2, <1>6, <1>7, MutexKept
<1>9. Rest'
  BY <1>1, <1>2 DEF Rest
<1>10. QED
  BY <1>5, <1>6, <1>8, <1>9 DEF IInv

\* Acquire keeps the invariant.
LEMMA AcquireStep ==
  ASSUME IInv, NEW t \in Threads, Acquire(t)
  PROVE  IInv' /\ Becomes(t, [calls[t] EXCEPT !.pc = "locked"])
<1>1. CallsOK /\ Rest /\ Mutex
  BY DEF IInv
<1> DEFINE c == calls[t]
<1>2. CallOK(c) /\ c \in Call /\ c.pc = "waiting"
  BY <1>1, CallIs DEF Acquire, Stages
<1>3. PICK call : call = [c EXCEPT !.pc = "locked"]
  OBVIOUS
<1>4. call \in Call /\ call.pc = "locked" /\ call.request = c.request
      /\ call.next = c.next /\ call.told = c.told
  BY <1>3, <1>2 DEF Call, Stages
<1>5. CallOK(call)
  BY <1>2, <1>4 DEF CallOK
<1>6. calls' = [calls EXCEPT ![t] = call] /\ lock = Free /\ lock' = t
      /\ UNCHANGED <<live, context, catalog>>
  BY <1>3 DEF Acquire, Goto
<1>7. CallsOK' /\ Becomes(t, call)
  BY <1>1, <1>5, <1>6, CallsKept
<1>8. Mutex'
  BY <1>1, <1>4, <1>6, <1>7, SqlCatalogAssumption DEF Mutex, Becomes, At
<1>9. Rest'
  BY <1>1, <1>6 DEF Rest
<1>10. QED
  BY <1>3, <1>7, <1>8, <1>9 DEF IInv

\* What Register and Unregister do.
Changed(t, r, k) ==
    /\ Changes(r) /\ k \in 1..size(r) /\ At(t, "locked")
    /\ catalog' = [catalog EXCEPT ![change(r, k).name] = change(r, k).frame]
    /\ \/ /\ k < size(r)
          /\ lock' = lock
          /\ calls' = [calls EXCEPT ![t] = [calls[t] EXCEPT !.next = k + 1]]
       \/ /\ k = size(r)
          /\ lock' = Free
          /\ calls' = [calls EXCEPT ![t] = [calls[t] EXCEPT !.pc = "returning"]]

\* Register and Unregister change the table or name that the call is at.
LEMMA ChangeIs ==
  ASSUME IInv, NEW t \in Threads, Register(t) \/ Unregister(t)
  PROVE  Changed(t, calls[t].request, calls[t].next) /\ UNCHANGED <<live, context>>
<1> DEFINE c == calls[t]
           r == c.request
           k == c.next
<1>1. CallOK(c) /\ c \in Call /\ c.pc = "locked"
  BY CallIs DEF IInv, Register, Unregister, Stages
<1>2. r \in Requests /\ Changes(r) /\ k \in 1..MaxTables
  BY <1>1 DEF Call, Register, Unregister, Changes
<1>3. size(r) \in 1..MaxTables /\ k <= size(r)
  BY <1>1, <1>2, RequestParts DEF CallOK
<1>4. k \in 1..size(r)
  BY <1>2, <1>3, SqlCatalogAssumption
<1>5. /\ At(t, "locked")
      /\ catalog' = [catalog EXCEPT ![change(r, k).name] = change(r, k).frame]
      /\ Advance(t, size(r)) /\ UNCHANGED <<live, context>>
  BY DEF Register, Unregister, change, size
<1>6. \/ /\ k < size(r)
         /\ lock' = lock
         /\ calls' = [calls EXCEPT ![t] = [c EXCEPT !.next = k + 1]]
      \/ /\ ~(k < size(r))
         /\ lock' = Free
         /\ calls' = [calls EXCEPT ![t] = [c EXCEPT !.pc = "returning"]]
  BY <1>5 DEF Advance, Unlock, Goto
<1>7. ~(k < size(r)) => k = size(r)
  BY <1>3, <1>4
<1>8. QED
  BY <1>2, <1>4, <1>5, <1>6, <1>7 DEF Changed

\* They keep the invariant.
LEMMA ChangeStep ==
  ASSUME IInv, NEW t \in Threads, Register(t) \/ Unregister(t)
  PROVE  IInv'
<1> DEFINE c == calls[t]
           r == c.request
           k == c.next
<1>1. CallsOK /\ Rest /\ Mutex
  BY DEF IInv
<1>2. Changed(t, r, k) /\ UNCHANGED <<live, context>>
  BY ChangeIs
<1>3. CallOK(c) /\ c \in Call /\ c.pc = "locked" /\ r \in Requests
  BY <1>1, <1>2, CallIs DEF Changed, Stages, Call
<1>4. /\ size(r) \in 1..MaxTables
      /\ change(r, k).name \in Names /\ change(r, k).frame \in Handles \cup {NoTable}
  BY <1>2, <1>3, RequestParts DEF Changed
<1>5. Rest'
  BY <1>1, <1>2, <1>4 DEF Rest, Changed
<1>6. CASE k < size(r)
  <2>1. PICK call : call = [c EXCEPT !.next = k + 1]
    OBVIOUS
  <2>2. k + 1 \in 1..MaxTables /\ k + 1 <= size(r)
    BY <1>2, <1>4, <1>6, SqlCatalogAssumption DEF Changed
  <2>3. call \in Call /\ call.pc = "locked" /\ call.request = r
        /\ call.next = k + 1 /\ call.told = c.told
    BY <2>1, <2>2, <1>3 DEF Call
  <2>4. CallOK(call)
    BY <2>2, <2>3, <1>3 DEF CallOK
  <2>5. calls' = [calls EXCEPT ![t] = call] /\ lock' = lock /\ At(t, "locked")
    BY <1>2, <1>6, <2>1 DEF Changed
  <2>6. CallsOK' /\ Becomes(t, call)
    BY <1>1, <2>4, <2>5, CallsKept
  <2>7. Mutex'
    BY <1>1, <2>3, <2>5, <2>6, MutexKept
  <2>8. QED
    BY <1>5, <2>6, <2>7 DEF IInv
<1>7. CASE k = size(r)
  <2>1. PICK call : call = [c EXCEPT !.pc = "returning"]
    OBVIOUS
  <2>2. call \in Call /\ call.pc = "returning" /\ call.request = r
        /\ call.next = k /\ call.told = c.told
    BY <2>1, <1>3 DEF Call, Stages
  <2>3. CallOK(call)
    BY <2>2, <1>3 DEF CallOK
  <2>4. calls' = [calls EXCEPT ![t] = call] /\ lock' = Free /\ At(t, "locked")
    BY <1>2, <1>4, <1>7, <2>1 DEF Changed
  <2>5. CallsOK' /\ Becomes(t, call)
    BY <1>1, <2>3, <2>4, CallsKept
  <2>6. Mutex'
    BY <1>1, <2>2, <2>4, <2>5, MutexUnlocked
  <2>7. QED
    BY <1>5, <2>5, <2>6 DEF IInv
<1>8. QED
  BY <1>2, <1>6, <1>7 DEF Changed

\* A command that is carried out at one moment, or fails: what it leaves.
Carried(t, call) ==
    /\ At(t, "locked") /\ ~Changes(calls[t].request) /\ lock' = Free
    /\ calls' = [calls EXCEPT ![t] = call]
    /\ \/ call = Idle
       \/ /\ CallOK(call) /\ call.pc \in {"inserting", "returning"}
          /\ call.request = calls[t].request

\* A list of the tables is carried out at one moment.
LEMMA ListIs ==
  ASSUME IInv, NEW t \in Threads, ListTables(t)
  PROVE  \E call : /\ Carried(t, call) /\ call # Idle
                   /\ call.told = {n \in Names : catalog[n] # NoTable}
<1> DEFINE c == calls[t]
           tables == {n \in Names : catalog[n] # NoTable}
<1>1. CallOK(c) /\ c \in Call /\ c.pc = "locked"
  BY CallIs DEF IInv, ListTables, Stages
<1>2. PICK call : call = [c EXCEPT !.pc = "returning", !.told = tables]
  OBVIOUS
<1>3. tables \in SUBSET Names
  OBVIOUS
<1>4. call \in Call /\ call.pc = "returning" /\ call.request = c.request
      /\ call.next = c.next /\ call.told = tables
  BY <1>1, <1>2, <1>3 DEF Call, Stages
<1>5. CallOK(call)
  BY <1>1, <1>4 DEF CallOK
<1>6. calls' = [calls EXCEPT ![t] = call]
  BY <1>2 DEF ListTables, IInv, CallsOK
<1>7. At(t, "locked") /\ c.request.op = "tables" /\ lock' = Free
  BY DEF ListTables
<1>8. call # Idle
  BY <1>4 DEF Idle
<1>9. QED
  BY <1>4, <1>5, <1>6, <1>7, <1>8 DEF Carried, Changes

\* So is a statement.
LEMMA ExecuteIs ==
  ASSUME IInv, NEW t \in Threads, Execute(t)
  PROVE  \E call : Carried(t, call) /\ call # Idle /\ call.told = {}
<1> DEFINE c == calls[t]
<1>1. CallOK(c) /\ c \in Call /\ c.pc = "locked"
  BY CallIs DEF IInv, Execute, Stages
<1>2. PICK call : call = [c EXCEPT !.pc = "inserting"]
  OBVIOUS
<1>3. call \in Call /\ call.pc = "inserting" /\ call.request = c.request
      /\ call.next = c.next /\ call.told = c.told
  BY <1>1, <1>2 DEF Call, Stages
<1>4. CallOK(call) /\ call.told = {}
  BY <1>1, <1>3 DEF CallOK
<1>5. calls' = [calls EXCEPT ![t] = call] /\ lock' = Free /\ At(t, "locked")
      /\ c.request.op \in {"select", "create", "drop"}
  BY <1>2 DEF Execute, Unlock, Goto
<1>6. call # Idle
  BY <1>3 DEF Idle
<1>7. QED
  BY <1>3, <1>4, <1>5, <1>6 DEF Carried, Changes

\* A statement that fails leaves no call.
LEMMA FailureIs ==
  ASSUME NEW t \in Threads, ExecuteFails(t)
  PROVE  Carried(t, Idle)
  BY DEF ExecuteFails, Carried, Changes

\* A command that is carried out at one moment keeps the invariant.
LEMMA CarriedStep ==
  ASSUME IInv, NEW t \in Threads, NEW call, Carried(t, call), Rest'
  PROVE  IInv' /\ Becomes(t, call)
<1>1. CallsOK /\ Mutex
  BY DEF IInv
<1>2. CallsOK' /\ Becomes(t, call)
  BY <1>1, CallsKept DEF Carried
<1>3. call.pc # "locked"
  BY DEF Carried, Idle
<1>4. Mutex'
  BY <1>1, <1>2, <1>3, MutexUnlocked DEF Carried
<1>5. QED
  BY <1>2, <1>4 DEF IInv

\* It keeps the types.
LEMMA CarriedRest ==
  ASSUME IInv, NEW t \in Threads, ListTables(t) \/ Execute(t) \/ ExecuteFails(t)
  PROVE  Rest'
<1>1. Rest
  BY DEF IInv
<1>2. CASE ListTables(t) \/ ExecuteFails(t)
  BY <1>1, <1>2 DEF Rest, ListTables, ExecuteFails
<1>3. CASE Execute(t)
  BY <1>1, <1>3 DEF Rest, Execute, Unlock
<1>4. QED
  BY <1>2, <1>3

\* What a step after the lock does to the call.
Ending(t, call) ==
    /\ calls[t].pc \in {"inserting", "returning"}
    /\ \/ call = Idle /\ calls[t].pc = "returning"
       \/ /\ CallOK(call) /\ call.pc = "returning"
          /\ call.told = calls[t].told

\* InsertResult and Return keep the invariant.
LEMMA EndingStep ==
  ASSUME IInv, NEW t \in Threads, InsertResult(t) \/ Return(t)
  PROVE  IInv' /\ \E call : Becomes(t, call) /\ Ending(t, call)
<1>1. CallsOK /\ Rest /\ Mutex
  BY DEF IInv
<1> DEFINE c == calls[t]
<1>2. UNCHANGED <<live, context, lock, catalog>> /\ ~At(t, "locked")
      /\ c.pc \in {"inserting", "returning"}
  BY DEF InsertResult, Return, At
<1>3. CallOK(c) /\ c \in Call
  BY <1>1, <1>2, CallIs DEF At, Stages
<1>4. \E call : calls' = [calls EXCEPT ![t] = call] /\ Ending(t, call)
  <2>1. CASE Return(t)
    BY <2>1 DEF Return, Ending, At
  <2>2. CASE InsertResult(t)
    <3>1. PICK call : call = [c EXCEPT !.pc = "returning"]
      OBVIOUS
    <3>2. call \in Call /\ call.pc = "returning" /\ call.request = c.request
          /\ call.next = c.next /\ call.told = c.told
      BY <3>1, <1>3 DEF Call, Stages
    <3>3. CallOK(call)
      BY <3>2, <1>3 DEF CallOK
    <3>4. calls' = [calls EXCEPT ![t] = call]
      BY <2>2, <3>1 DEF InsertResult, Goto
    <3>5. QED
      BY <1>2, <3>2, <3>3, <3>4 DEF Ending
  <2>3. QED
    BY <2>1, <2>2
<1>5. PICK call : calls' = [calls EXCEPT ![t] = call] /\ Ending(t, call)
  BY <1>4
<1>6. CallsOK' /\ Becomes(t, call)
  BY <1>1, <1>5, CallsKept DEF Ending
<1>7. call.pc # "locked"
  BY <1>5 DEF Ending, Idle
<1>8. Mutex'
  BY <1>1, <1>2, <1>6, <1>7, MutexKept
<1>9. Rest'
  BY <1>1, <1>2 DEF Rest
<1>10. QED
  BY <1>5, <1>6, <1>8, <1>9 DEF IInv

\* The variables of the context and of its callers stay.
LEMMA QuietStep ==
  ASSUME IInv, \/ ReleaseFrame
               \/ ReleaseContext
               \/ UNCHANGED vars
  PROVE  IInv' /\ UNCHANGED <<lock, catalog, calls>>
<1>1. UNCHANGED <<lock, catalog, calls>>
  BY DEF ReleaseFrame, ReleaseContext, vars
<1>2. live' \subseteq Handles /\ context' \in BOOLEAN
  BY DEF IInv, Rest, ReleaseFrame, ReleaseContext, vars
<1>3. QED
  BY <1>1, <1>2 DEF IInv, CallsOK, Rest, Mutex, At

\* Every step keeps the invariant.
LEMMA InvNext ==
  ASSUME IInv, [Next]_vars
  PROVE  IInv'
<1>1. ASSUME NEW t \in Threads, Begin(t) \/ Acquire(t) \/ Proceed(t)
      PROVE  IInv'
  <2>1. CASE ListTables(t)
    BY <2>1, ListIs, CarriedRest, CarriedStep
  <2>2. CASE Execute(t)
    BY <2>2, ExecuteIs, CarriedRest, CarriedStep
  <2>3. CASE ExecuteFails(t)
    BY <2>3, FailureIs, CarriedRest, CarriedStep
  <2>4. QED
    BY <1>1, <2>1, <2>2, <2>3, BeginStep, AskingStep, AcquireStep, ChangeStep,
       EndingStep DEF Proceed
<1>2. QED
  BY <1>1, QuietStep DEF Next

\* The invariant holds initially.
LEMMA InvInit ==
  ASSUME Init
  PROVE  IInv
  BY SqlCatalogAssumption DEF Init, IInv, CallsOK, Rest, Mutex, At, Idle

\* The invariant holds always.
LEMMA Invariant == FairSpec => []IInv
<1>1. Init => IInv
  BY InvInit
<1>2. IInv /\ [Next]_vars => IInv'
  BY InvNext
<1>3. FairSpec => Init /\ [][Next]_vars
  BY PTL DEF FairSpec
<1>4. QED
  BY <1>1, <1>2, <1>3, PTL

\* Types, and the discipline of the mutex: it is held exactly while a command is
\* in the context, on every way out of it (sql.rs; the catch_unwind of
\* df_invoke).
THEOREM TypeCorrect == FairSpec => []TypeOK
<1>1. IInv => TypeOK
  BY DEF IInv, TypeOK, Rest, Mutex, CallsOK, CallOK, Call, Stages
<1>2. QED
  BY <1>1, Invariant, PTL

--------------------------------------------------------------------------------
(* What the callers see, as functions of the catalog and of the calls *)

ChangingCall(c) == c.pc = "locked" /\ Changes(c.request)

RemainingOf(c) ==
    IF c.request.op = "register"
    THEN {c.request.tables[k] : k \in c.next..Len(c.request.tables)}
    ELSE {[name |-> c.request.names[k], frame |-> NoTable] :
             k \in c.next..Len(c.request.names)}

LeftOf(cs) == UNION {RemainingOf(cs[t]) : t \in {u \in Threads : ChangingCall(cs[u])}}

Overlaid(cat, left) ==
    [n \in Names |->
        IF \E ch \in left : ch.name = n
        THEN (CHOOSE ch \in left : ch.name = n).frame
        ELSE cat[n]]

AnswerOf(c) ==
    CASE c = Idle -> [stage |-> "idle"]
      [] c # Idle /\ (ChangingCall(c) \/ c.pc \in {"inserting", "returning"}) ->
            [stage |-> "done", told |-> c.told]
      [] OTHER -> [stage |-> "asked", request |-> c.request]

\* What is to be seen of the catalog.
LEMMA VisibleIs == visible = Overlaid(catalog, LeftOf(calls))
  BY DEF visible, Overlaid, LeftOf, changing, remaining, ChangingCall, RemainingOf, Changes, At

\* The same after a step.
LEMMA VisibleIsNext == visible' = Overlaid(catalog', LeftOf(calls'))
  BY DEF visible, Overlaid, LeftOf, changing, remaining, ChangingCall, RemainingOf, Changes, At

\* What the callers know.
LEMMA AnswersAre ==
  /\ answers = [t \in Threads |-> AnswerOf(calls[t])]
  /\ answers' = [t \in Threads |-> AnswerOf(calls'[t])]
  BY DEF answers, AnswerOf, changing, ChangingCall, Changes, At

\* A catalog in which the tables of a request, but for the first, are changed.
Reached(cat, r, from, after) ==
    /\ after = [n \in Names |-> after[n]]
    /\ \A k \in from..size(r) : after[change(r, k).name] = change(r, k).frame
    /\ \A n \in Names :
          (\A k \in from..size(r) : change(r, k).name # n) => after[n] = cat[n]

\* The changes of a request lead to one catalog.
LEMMA ReachedOne ==
  ASSUME NEW cat, NEW r \in Requests, Changes(r), NEW from \in 1..(size(r) + 1),
         NEW c1, NEW c2, Reached(cat, r, from, c1), Reached(cat, r, from, c2)
  PROVE  c1 = c2
<1>1. \A n \in Names : c1[n] = c2[n]
  BY DEF Reached
<1>2. c1 = [n \in Names |-> c1[n]] /\ c2 = [n \in Names |-> c2[n]]
  BY DEF Reached
<1>3. [n \in Names |-> c1[n]] = [n \in Names |-> c2[n]]
  BY <1>1
<1>4. QED
  BY <1>2, <1>3

\* A change that is made is not one of those left.
LEMMA ReachedNext ==
  ASSUME NEW cat, NEW r \in Requests, Changes(r), NEW k \in 1..size(r), NEW after,
         cat = [n \in Names |-> cat[n]],
         Reached(cat, r, k, after)
  PROVE  Reached([cat EXCEPT ![change(r, k).name] = change(r, k).frame], r, k + 1, after)
<1> DEFINE then == [cat EXCEPT ![change(r, k).name] = change(r, k).frame]
<1>1. size(r) \in Nat /\ change(r, k).name \in Names
  BY RequestParts, SqlCatalogAssumption
<1>2. \A l \in (k + 1)..size(r) : l \in k..size(r)
  BY <1>1
<1>3. \A n \in Names : then[n] = IF n = change(r, k).name THEN change(r, k).frame ELSE cat[n]
  BY <1>1
<1>4. \A l \in k..size(r) : l = k \/ l \in (k + 1)..size(r)
  BY <1>1
<1>5. k \in k..size(r)
  BY <1>1
<1> HIDE DEF then
<1>6. ASSUME NEW n \in Names, \A l \in (k + 1)..size(r) : change(r, l).name # n
      PROVE  after[n] = then[n]
  <2>1. CASE n = change(r, k).name
    BY <1>3, <1>5, <2>1 DEF Reached
  <2>2. CASE n # change(r, k).name
    <3>1. \A l \in k..size(r) : change(r, l).name # n
      BY <1>4, <1>6, <2>2
    <3>2. QED
      BY <1>3, <2>2, <3>1 DEF Reached
  <2>3. QED
    BY <2>1, <2>2
<1>7. Reached(then, r, k + 1, after)
  BY <1>2, <1>6 DEF Reached
<1>8. QED
  BY <1>7 DEF then

\* When no change is left the catalog is reached.
LEMMA ReachedAll ==
  ASSUME NEW cat, NEW r \in Requests, Changes(r), NEW after,
         cat = [n \in Names |-> cat[n]],
         Reached(cat, r, size(r) + 1, after)
  PROVE  after = cat
<1>1. size(r) \in Nat
  BY RequestParts, SqlCatalogAssumption
<1>2. \A n \in Names : after[n] = cat[n]
  BY <1>1 DEF Reached
<1>3. after = [n \in Names |-> after[n]]
  BY DEF Reached
<1>4. [n \in Names |-> after[n]] = [n \in Names |-> cat[n]]
  BY <1>2
<1>5. QED
  BY <1>3, <1>4

\* What a call has still to change.
LEMMA RemainingIs ==
  ASSUME NEW c, Changes(c.request)
  PROVE  RemainingOf(c) = {change(c.request, k) : k \in c.next..size(c.request)}
<1>1. CASE c.request.op = "register"
  BY <1>1 DEF RemainingOf, change, size
<1>2. CASE c.request.op # "register"
  BY <1>2 DEF RemainingOf, change, size
<1>3. QED
  BY <1>1, <1>2

\* While one call changes the catalog, all its changes are to be seen.
LEMMA OverlaidReached ==
  ASSUME NEW cat, NEW cs, NEW t \in Threads, CallOK(cs[t]), ChangingCall(cs[t]),
         \A u \in Threads : ChangingCall(cs[u]) => u = t
  PROVE  Reached(cat, cs[t].request, cs[t].next, Overlaid(cat, LeftOf(cs)))
<1> DEFINE r == cs[t].request
           from == cs[t].next
           left == LeftOf(cs)
           after == Overlaid(cat, left)
<1>1. r \in Requests /\ Changes(r) /\ from \in Nat /\ from >= 1 /\ size(r) \in Nat
  BY RequestParts, SqlCatalogAssumption DEF CallOK, Call, ChangingCall
<1>2. left = RemainingOf(cs[t])
  <2>1. {u \in Threads : ChangingCall(cs[u])} = {t}
    OBVIOUS
  <2>2. {RemainingOf(cs[u]) : u \in {t}} = {RemainingOf(cs[t])}
    OBVIOUS
  <2>3. LeftOf(cs) = UNION {RemainingOf(cs[t])}
    BY <2>1, <2>2 DEF LeftOf
  <2>4. QED
    BY <2>3
<1>3. left = {change(r, k) : k \in from..size(r)}
  BY <1>1, <1>2, RemainingIs
<1>4. \A k, l \in from..size(r) : change(r, k).name = change(r, l).name => k = l
  BY <1>1, RequestParts
<1>5. \A k \in from..size(r) : change(r, k).name \in Names
  BY <1>1, RequestParts
<1> HIDE DEF left
<1>6. after = [n \in Names |-> after[n]]
  BY DEF Overlaid
<1>7. ASSUME NEW k \in from..size(r)
      PROVE  after[change(r, k).name] = change(r, k).frame
  <2>1. PICK n : n = change(r, k).name
    OBVIOUS
  <2>2. n \in Names /\ change(r, k) \in left
    BY <2>1, <1>3, <1>5
  <2>3. \A ch \in left : ch.name = n => ch = change(r, k)
    BY <2>1, <1>3, <1>4
  <2>4. (CHOOSE ch \in left : ch.name = n) = change(r, k)
    BY <2>1, <2>2, <2>3
  <2>5. after[n] = (CHOOSE ch \in left : ch.name = n).frame
    BY <2>1, <2>2 DEF Overlaid
  <2>6. QED
    BY <2>1, <2>4, <2>5
<1>8. ASSUME NEW n \in Names, \A k \in from..size(r) : change(r, k).name # n
      PROVE  after[n] = cat[n]
  BY <1>3, <1>8 DEF Overlaid
<1> HIDE DEF after
<1>9. Reached(cat, r, from, after)
  BY <1>6, <1>7, <1>8 DEF Reached
<1>10. QED
  BY <1>9 DEF after, left

\* While none does, the catalog is.
LEMMA OverlaidNothing ==
  ASSUME NEW cat, NEW cs, \A u \in Threads : ~ChangingCall(cs[u]),
         cat = [n \in Names |-> cat[n]]
  PROVE  Overlaid(cat, LeftOf(cs)) = cat
<1>1. LeftOf(cs) = {}
  BY DEF LeftOf
<1>2. Overlaid(cat, {}) = [n \in Names |-> cat[n]]
  BY DEF Overlaid
<1>3. QED
  BY <1>1, <1>2

\* Calls that change nothing have no part in what is to be seen.
LEMMA LeftSame ==
  ASSUME NEW cs, NEW ds, \A u \in Threads : ChangingCall(cs[u]) <=> ChangingCall(ds[u]),
         \A u \in Threads : ChangingCall(cs[u]) => cs[u] = ds[u]
  PROVE  LeftOf(cs) = LeftOf(ds)
<1>1. {u \in Threads : ChangingCall(cs[u])} = {u \in Threads : ChangingCall(ds[u])}
  OBVIOUS
<1> DEFINE A == {u \in Threads : ChangingCall(cs[u])}
<1>2. \A u \in A : RemainingOf(cs[u]) = RemainingOf(ds[u])
  OBVIOUS
<1> HIDE DEF A
<1>3. {RemainingOf(cs[u]) : u \in A} = {RemainingOf(ds[u]) : u \in A}
  BY <1>2
<1>4. QED
  BY <1>1, <1>3 DEF LeftOf, A

--------------------------------------------------------------------------------
(* Every step is one of Catalog, or changes nothing there *)

Unseen == visible' = visible /\ answers' = answers

Kept == catalog = [n \in Names |-> catalog[n]]

\* The catalog is a function of the names.
LEMMA KeptAlways ==
  ASSUME IInv
  PROVE  Kept
  BY DEF IInv, Rest, Kept

\* A step of a call changes what its caller knows.
LEMMA AnswersStep ==
  ASSUME NEW t \in Threads, NEW call, Becomes(t, call)
  PROVE  /\ answers[t] = AnswerOf(calls[t])
         /\ answers' = [answers EXCEPT ![t] = AnswerOf(call)]
<1>1. answers = [u \in Threads |-> AnswerOf(calls[u])]
  BY AnswersAre
<1>2. answers' = [u \in Threads |-> AnswerOf(calls'[u])]
  BY AnswersAre
<1>3. \A u \in Threads : AnswerOf(calls'[u]) = IF u = t THEN AnswerOf(call) ELSE AnswerOf(calls[u])
  BY DEF Becomes
<1>4. QED
  BY <1>1, <1>2, <1>3

\* Unless it comes to the same.
LEMMA AnswersStay ==
  ASSUME NEW t \in Threads, NEW call, Becomes(t, call), AnswerOf(call) = AnswerOf(calls[t])
  PROVE  answers' = answers
<1>1. answers = [u \in Threads |-> AnswerOf(calls[u])]
  BY AnswersAre
<1>2. answers' = [u \in Threads |-> AnswerOf(calls'[u])]
  BY AnswersAre
<1>3. \A u \in Threads : AnswerOf(calls'[u]) = AnswerOf(calls[u])
  BY DEF Becomes
<1>4. QED
  BY <1>1, <1>2, <1>3

\* A step outside the context is not to be seen in the catalog.
LEMMA VisibleStays ==
  ASSUME NEW t \in Threads, NEW call, Becomes(t, call), catalog' = catalog,
         ~ChangingCall(calls[t]), ~ChangingCall(call)
  PROVE  visible' = visible
<1>1. /\ \A u \in Threads : ChangingCall(calls[u]) <=> ChangingCall(calls'[u])
      /\ \A u \in Threads : ChangingCall(calls[u]) => calls[u] = calls'[u]
  BY DEF Becomes
<1>2. PICK ds : ds = calls'
  OBVIOUS
<1>3. LeftOf(calls) = LeftOf(ds)
  BY <1>1, <1>2, LeftSame
<1>4. QED
  BY <1>2, <1>3, VisibleIs, VisibleIsNext

\* When no call changes the catalog, it is to be seen as it is.
LEMMA VisibleIsCatalog ==
  ASSUME IInv, \A u \in Threads : ~ChangingCall(calls[u])
  PROVE  visible = catalog
  BY VisibleIs, OverlaidNothing, KeptAlways DEF Kept

\* The same after a step.
LEMMA VisibleIsCatalogNext ==
  ASSUME IInv', \A u \in Threads : ~ChangingCall(calls'[u])
  PROVE  visible' = catalog'
<1>1. PICK cat : cat = catalog'
  OBVIOUS
<1>2. PICK cs : cs = calls'
  OBVIOUS
<1>3. cat = [n \in Names |-> cat[n]]
  BY <1>1 DEF IInv, Rest
<1>4. Overlaid(cat, LeftOf(cs)) = cat
  BY <1>2, <1>3, OverlaidNothing
<1>5. QED
  BY <1>1, <1>2, <1>4, VisibleIsNext

\* Only the call in the context changes the catalog.
LEMMA OneChanges ==
  ASSUME IInv, NEW t \in Threads, At(t, "locked") \/ lock = Free
  PROVE  \A u \in Threads : u # t \/ lock = Free => ~ChangingCall(calls[u])
  BY SqlCatalogAssumption DEF IInv, Mutex, At, ChangingCall

\* A call before its effect.
LEMMA Asked ==
  ASSUME NEW c, CallOK(c), ~ChangingCall(c),
         c.pc \in {"resolving", "looking", "waiting", "locked"}
  PROVE  AnswerOf(c) = [stage |-> "asked", request |-> c.request]
  BY DEF AnswerOf, Idle

\* A call after its effect.
LEMMA Answered ==
  ASSUME NEW c, CallOK(c), ChangingCall(c) \/ c.pc \in {"inserting", "returning"}
  PROVE  AnswerOf(c) = [stage |-> "done", told |-> c.told]
  BY DEF AnswerOf, Idle, ChangingCall

\* No call.
LEMMA NotAsked == AnswerOf(Idle) = [stage |-> "idle"]
  BY DEF AnswerOf

\* A call at any stage is in order.
LEMMA CallsIn ==
  ASSUME IInv, NEW t \in Threads, calls[t].pc \in Stages
  PROVE  CallOK(calls[t]) /\ calls[t] \in Call
  BY CallIs DEF IInv, At

\* Begin asks.
LEMMA BeginRefines ==
  ASSUME IInv, NEW t \in Threads, Begin(t)
  PROVE  Promise!Ask(t)
<1>1. PICK call : Becomes(t, call) /\ calls[t] = Idle /\ CallOK(call)
                  /\ call.pc \in {"resolving", "looking"}
  BY BeginStep
<1>2. ~ChangingCall(calls[t]) /\ ~ChangingCall(call)
  BY <1>1 DEF ChangingCall, Idle
<1>3. AnswerOf(call) = [stage |-> "asked", request |-> call.request]
  BY <1>1, <1>2, Asked
<1>4. answers[t] = [stage |-> "idle"] /\ answers' = [answers EXCEPT ![t] = AnswerOf(call)]
  BY <1>1, NotAsked, AnswersStep
<1>5. answers'[t] = AnswerOf(call)
  BY <1>4, AnswersAre
<1>6. visible' = visible
  BY <1>1, <1>2, VisibleStays DEF Begin
<1>6a. answers'[t].stage = "asked"
  BY <1>3, <1>5
<1>7. answers' = [answers EXCEPT ![t] = answers'[t]]
  BY <1>4, <1>5
<1>8. QED
  BY <1>4, <1>6, <1>6a, <1>7 DEF Promise!Ask, Promise!NotCalling

\* A frame or context that was released refuses the request.
LEMMA AskingRefines ==
  ASSUME IInv, NEW t \in Threads, Resolve(t) \/ Lookup(t)
  PROVE  Promise!Refuse(t) \/ Unseen
<1>1. PICK call : Becomes(t, call) /\ Asking(t, call)
  BY AskingStep
<1>2. CallOK(calls[t]) /\ ~ChangingCall(calls[t]) /\ ~ChangingCall(call)
  BY <1>1, CallsIn DEF Asking, ChangingCall, Idle, Stages
<1>3. AnswerOf(calls[t]) = [stage |-> "asked", request |-> calls[t].request]
  BY <1>1, <1>2, Asked DEF Asking
<1>4. visible' = visible
  BY <1>1, <1>2, VisibleStays DEF Resolve, Lookup
<1>5. CASE call = Idle
  <2>1. answers[t].stage = "asked" /\ answers' = [answers EXCEPT ![t] = [stage |-> "idle"]]
    BY <1>1, <1>3, <1>5, NotAsked, AnswersStep
  <2>2. QED
    BY <2>1, <1>4 DEF Promise!Refuse, Promise!NotCalling
<1>6. CASE call # Idle
  <2>1. AnswerOf(call) = AnswerOf(calls[t])
    BY <1>1, <1>2, <1>3, <1>6, Asked DEF Asking
  <2>2. QED
    BY <2>1, <1>1, <1>4, AnswersStay DEF Unseen
<1>7. QED
  BY <1>5, <1>6

\* What Catalog makes of a list of changes is what the loop ends in.
LEMMA EffectReached ==
  ASSUME NEW r \in Requests, Changes(r)
  PROVE  Reached(visible, r, 1, Promise!Effect(r))
<1> DEFINE after == Promise!Effect(r)
<1>1. /\ \A k \in 1..size(r) : change(r, k).name \in Names
      /\ \A k, l \in 1..size(r) : change(r, k).name = change(r, l).name => k = l
  BY RequestParts
<1>2. CASE r.op = "register"
  <2>1. after = Promise!Registered(visible, r.tables) /\ DOMAIN r.tables = 1..size(r)
    BY <1>2, RequestParts DEF Promise!Effect
  <2>2. \A k \in 1..size(r) : change(r, k) = r.tables[k]
    BY <1>2 DEF change
  <2>3. after = [n \in Names |->
           IF \E k \in 1..size(r) : r.tables[k].name = n
           THEN r.tables[CHOOSE k \in 1..size(r) : r.tables[k].name = n].frame
           ELSE visible[n]]
    BY <2>1 DEF Promise!Registered
  <2> HIDE DEF after
  <2>4. ASSUME NEW k \in 1..size(r)
        PROVE  after[change(r, k).name] = change(r, k).frame
    <3>1. PICK n : n = change(r, k).name
      OBVIOUS
    <3>2. n \in Names /\ r.tables[k].name = n
      BY <3>1, <1>1, <2>2
    <3>3. \A l \in 1..size(r) : r.tables[l].name = n => l = k
      BY <3>1, <1>1, <2>2
    <3>4. (CHOOSE l \in 1..size(r) : r.tables[l].name = n) = k
      BY <3>2, <3>3
    <3>5. after[n] = r.tables[CHOOSE l \in 1..size(r) : r.tables[l].name = n].frame
      BY <2>3, <3>2
    <3>6. QED
      BY <3>1, <3>4, <3>5, <2>2
  <2>5. ASSUME NEW n \in Names, \A k \in 1..size(r) : change(r, k).name # n
        PROVE  after[n] = visible[n]
    BY <2>2, <2>3, <2>5
  <2>6. after = [n \in Names |-> after[n]]
    BY <2>3
  <2>7. Reached(visible, r, 1, after)
    BY <2>4, <2>5, <2>6 DEF Reached
  <2>8. QED
    BY <2>7 DEF after
<1>3. CASE r.op = "unregister"
  <2>1. after = Promise!Unregistered(visible, r.names) /\ DOMAIN r.names = 1..size(r)
    BY <1>3, RequestParts DEF Promise!Effect
  <2>2. \A k \in 1..size(r) : change(r, k) = [name |-> r.names[k], frame |-> NoTable]
    BY <1>3 DEF change
  <2>3. after = [n \in Names |->
           IF \E k \in 1..size(r) : r.names[k] = n THEN NoTable ELSE visible[n]]
    BY <2>1 DEF Promise!Unregistered
  <2> HIDE DEF after
  <2>4. ASSUME NEW k \in 1..size(r)
        PROVE  after[change(r, k).name] = change(r, k).frame
    BY <1>1, <2>2, <2>3
  <2>5. ASSUME NEW n \in Names, \A k \in 1..size(r) : change(r, k).name # n
        PROVE  after[n] = visible[n]
    BY <2>2, <2>3, <2>5
  <2>6. after = [n \in Names |-> after[n]]
    BY <2>3
  <2>7. Reached(visible, r, 1, after)
    BY <2>4, <2>5, <2>6 DEF Reached
  <2>8. QED
    BY <2>7 DEF after
<1>4. QED
  BY <1>2, <1>3 DEF Changes

\* The catalog after all changes is the effect of the request.
LEMMA EffectIs ==
  ASSUME NEW r \in Requests, Changes(r), NEW after, Reached(visible, r, 1, after)
  PROVE  after = Promise!Effect(r)
<1>1. PICK effect : effect = Promise!Effect(r)
  OBVIOUS
<1>2. PICK before : before = visible
  OBVIOUS
<1>3. Reached(before, r, 1, effect) /\ Reached(before, r, 1, after)
  BY <1>1, <1>2, EffectReached
<1>4. 1 \in 1..(size(r) + 1)
  BY RequestParts, SqlCatalogAssumption
<1>5. after = effect
  BY <1>3, <1>4, ReachedOne
<1>6. QED
  BY <1>1, <1>5

\* The lock is taken: a list of changes takes effect.
LEMMA AcquireRefines ==
  ASSUME IInv, NEW t \in Threads, Acquire(t)
  PROVE  Promise!Act(t) \/ Unseen
<1> DEFINE c == calls[t]
           r == c.request
<1>1. At(t, "waiting") /\ lock = Free /\ catalog' = catalog
  BY DEF Acquire
<1>2. PICK call : call = [c EXCEPT !.pc = "locked"]
  OBVIOUS
<1>3. IInv' /\ Becomes(t, call)
  BY <1>2, AcquireStep
<1>4. CallOK(c) /\ c \in Call /\ r \in Requests /\ c.next = 1 /\ c.pc = "waiting" /\ c.told = {}
  BY <1>1, CallsIn DEF At, Stages, CallOK, Call
<1>5. call.pc = "locked" /\ call.request = r /\ call.next = 1 /\ call.told = {}
  BY <1>2, <1>4 DEF Call
<1>6. call # Idle /\ CallOK(call)
  BY <1>3, <1>5 DEF IInv, CallsOK, Becomes, Idle
<1>7. \A u \in Threads : ~ChangingCall(calls[u])
  BY <1>1, OneChanges
<1>8. visible = catalog
  BY <1>7, VisibleIsCatalog
<1>9. AnswerOf(c) = [stage |-> "asked", request |-> r]
  BY <1>4, <1>7, Asked
<1>10. CASE ~Changes(r)
  <2>1. ~ChangingCall(call)
    BY <1>5, <1>10 DEF ChangingCall
  <2>2. AnswerOf(call) = AnswerOf(c)
    BY <2>1, <1>5, <1>6, <1>9, Asked
  <2>3. QED
    BY <2>1, <2>2, <1>1, <1>3, <1>7, AnswersStay, VisibleStays DEF Unseen
<1>11. CASE Changes(r)
  <2>1. ChangingCall(call)
    BY <1>5, <1>11 DEF ChangingCall
  <2>2. PICK cs : cs = calls'
    OBVIOUS
  <2>3. cs[t] = call /\ \A u \in Threads : ChangingCall(cs[u]) => u = t
    BY <2>2, <1>3, <1>7 DEF Becomes
  <2>4. Reached(catalog, cs[t].request, cs[t].next, Overlaid(catalog, LeftOf(cs)))
    BY <2>1, <2>3, <1>6, OverlaidReached
  <2>5. visible' = Overlaid(catalog, LeftOf(cs))
    BY <2>2, <1>1, VisibleIsNext
  <2>6. Reached(visible, r, 1, Overlaid(catalog, LeftOf(cs)))
    BY <2>3, <2>4, <1>5, <1>8
  <2>7. Overlaid(catalog, LeftOf(cs)) = Promise!Effect(r)
    BY <2>6, <1>4, <1>11, EffectIs
  <2>8. AnswerOf(call) = [stage |-> "done", told |-> {}]
    BY <2>1, <1>5, <1>6, Answered
  <2>9. answers[t] = [stage |-> "asked", request |-> r]
        /\ answers' = [answers EXCEPT ![t] = [stage |-> "done", told |-> {}]]
    BY <2>8, <1>3, <1>9, AnswersStep
  <2>10. r.op # "tables"
    BY <1>11 DEF Changes
  <2>11. answers' = [answers EXCEPT ![t] =
            Promise!Done(IF @.request.op = "tables" THEN Promise!TablesOf(visible) ELSE {})]
    BY <2>9, <2>10 DEF Promise!Done
  <2>12. visible' = Promise!Effect(answers[t].request) /\ answers[t].stage = "asked"
    BY <2>5, <2>7, <2>9
  <2>13. QED
    BY <2>11, <2>12 DEF Promise!Act
<1>12. QED
  BY <1>10, <1>11

\* The changes that the thread in the context makes one by one were to be seen
\* since it came in.
LEMMA ChangeRefines ==
  ASSUME IInv, NEW t \in Threads, Register(t) \/ Unregister(t)
  PROVE  Unseen
<1> DEFINE c == calls[t]
           r == c.request
           k == c.next
<1>1. Changed(t, r, k) /\ IInv'
  BY ChangeIs, ChangeStep
<1>2. CallOK(c) /\ c \in Call /\ c.pc = "locked" /\ r \in Requests /\ ChangingCall(c)
  BY <1>1, CallsIn DEF Changed, At, Stages, Call, ChangingCall
<1>3. size(r) \in Nat /\ k \in 1..size(r) /\ Changes(r)
  BY <1>1, <1>2, RequestParts, SqlCatalogAssumption DEF Changed
<1>4. \A u \in Threads : ChangingCall(calls[u]) => u = t
  BY <1>1, OneChanges DEF Changed
<1>5. Reached(catalog, r, k, visible)
  BY <1>2, <1>4, OverlaidReached, VisibleIs
<1>6. PICK cat : cat = catalog'
  OBVIOUS
<1>7. PICK seen : seen = visible
  OBVIOUS
<1>8. Reached(cat, r, k + 1, seen)
  <2>1. Reached([catalog EXCEPT ![change(r, k).name] = change(r, k).frame], r, k + 1, seen)
    BY <1>2, <1>3, <1>5, <1>7, ReachedNext, KeptAlways DEF Kept
  <2>2. QED
    BY <2>1, <1>1, <1>6 DEF Changed
<1>9. cat = [n \in Names |-> cat[n]]
  BY <1>1, <1>6 DEF IInv, Rest
<1>10. AnswerOf(c) = [stage |-> "done", told |-> c.told]
  BY <1>2, Answered
<1>11. CASE k < size(r)
  <2>1. PICK call : call = [c EXCEPT !.next = k + 1]
    OBVIOUS
  <2>2. calls' = [calls EXCEPT ![t] = call]
    BY <1>1, <1>11, <2>1 DEF Changed
  <2>3. Becomes(t, call)
    BY <2>2 DEF IInv, CallsOK, Becomes
  <2>4. call.pc = "locked" /\ call.request = r /\ call.next = k + 1 /\ call.told = c.told
    BY <2>1, <1>2 DEF Call
  <2>5. call # Idle /\ CallOK(call) /\ ChangingCall(call)
    BY <2>3, <2>4, <1>1, <1>3 DEF IInv, CallsOK, Becomes, Idle, ChangingCall
  <2>6. AnswerOf(call) = AnswerOf(c)
    BY <2>4, <2>5, <1>10, Answered
  <2>7. PICK cs : cs = calls'
    OBVIOUS
  <2>8. cs[t] = call /\ \A u \in Threads : ChangingCall(cs[u]) => u = t
    BY <2>3, <2>7, <1>4 DEF Becomes
  <2>9. Reached(cat, r, k + 1, Overlaid(cat, LeftOf(cs)))
    BY <2>4, <2>5, <2>8, OverlaidReached
  <2>10. k + 1 \in 1..(size(r) + 1)
    BY <1>3
  <2>11. Overlaid(cat, LeftOf(cs)) = seen
    BY <2>9, <2>10, <1>2, <1>3, <1>8, ReachedOne
  <2>12. visible' = visible
    BY <2>7, <2>11, <1>6, <1>7, VisibleIsNext
  <2>13. QED
    BY <2>3, <2>6, <2>12, AnswersStay DEF Unseen
<1>12. CASE k = size(r)
  <2>1. PICK call : call = [c EXCEPT !.pc = "returning"]
    OBVIOUS
  <2>2. calls' = [calls EXCEPT ![t] = call]
    BY <1>1, <1>3, <1>12, <2>1 DEF Changed
  <2>3. Becomes(t, call)
    BY <2>2 DEF IInv, CallsOK, Becomes
  <2>4. call.pc = "returning" /\ call.told = c.told
    BY <2>1, <1>2 DEF Call
  <2>5. call # Idle /\ CallOK(call) /\ ~ChangingCall(call)
    BY <2>3, <2>4, <1>1 DEF IInv, CallsOK, Becomes, Idle, ChangingCall
  <2>6. AnswerOf(call) = AnswerOf(c)
    BY <2>4, <2>5, <1>10, Answered
  <2>7. \A u \in Threads : ~ChangingCall(calls'[u])
    BY <2>3, <2>5, <1>4 DEF Becomes
  <2>8. visible' = catalog'
    BY <2>7, <1>1, VisibleIsCatalogNext
  <2>9. seen = cat
    BY <1>2, <1>3, <1>8, <1>9, <1>12, ReachedAll
  <2>10. visible' = visible
    BY <2>8, <2>9, <1>6, <1>7
  <2>11. QED
    BY <2>3, <2>6, <2>10, AnswersStay DEF Unseen
<1>13. QED
  BY <1>1, <1>11, <1>12 DEF Changed

\* Of a command that is carried out at one moment Catalog sees that moment.
LEMMA CarriedSeen ==
  ASSUME IInv, NEW t \in Threads, NEW call, Carried(t, call), Rest'
  PROVE  /\ answers[t] = [stage |-> "asked", request |-> calls[t].request]
         /\ answers' = [answers EXCEPT ![t] = AnswerOf(call)]
         /\ visible = catalog /\ visible' = catalog'
         /\ call # Idle => AnswerOf(call) = [stage |-> "done", told |-> call.told]
<1>1. At(t, "locked") /\ ~Changes(calls[t].request) /\ IInv' /\ Becomes(t, call)
  BY CarriedStep DEF Carried
<1>2. CallOK(calls[t]) /\ ~ChangingCall(calls[t]) /\ calls[t].pc = "locked"
  BY <1>1, CallsIn DEF At, Stages, ChangingCall
<1>3. answers[t] = AnswerOf(calls[t]) /\ answers' = [answers EXCEPT ![t] = AnswerOf(call)]
  BY <1>1, AnswersStep
<1>4. AnswerOf(calls[t]) = [stage |-> "asked", request |-> calls[t].request]
  BY <1>2, Asked
<1>5. call # Idle => AnswerOf(call) = [stage |-> "done", told |-> call.told]
  BY Answered DEF Carried
<1>6. ~ChangingCall(call)
  BY DEF Carried, ChangingCall, Idle
<1>7. \A u \in Threads : ~ChangingCall(calls[u]) /\ ~ChangingCall(calls'[u])
  BY <1>1, <1>2, <1>6, OneChanges DEF Becomes
<1>8. visible = catalog /\ visible' = catalog'
  BY <1>1, <1>7, VisibleIsCatalog, VisibleIsCatalogNext
<1>9. QED
  BY <1>3, <1>4, <1>5, <1>8

\* A list of the tables shows the catalog of one moment.
LEMMA ListRefines ==
  ASSUME IInv, NEW t \in Threads, ListTables(t)
  PROVE  Promise!Act(t)
<1>1. PICK call : /\ Carried(t, call) /\ call # Idle
                  /\ call.told = {n \in Names : catalog[n] # NoTable}
  BY ListIs
<1>2. calls[t].request.op = "tables" /\ catalog' = catalog
  BY DEF ListTables
<1>3. /\ answers[t] = [stage |-> "asked", request |-> calls[t].request]
      /\ answers' = [answers EXCEPT ![t] = [stage |-> "done", told |-> call.told]]
      /\ visible = catalog /\ visible' = catalog'
  BY <1>1, CarriedRest, CarriedSeen
<1>4. call.told = Promise!TablesOf(visible)
  BY <1>1, <1>3 DEF Promise!TablesOf
<1>5. answers[t].stage = "asked" /\ answers[t].request.op = "tables"
  BY <1>2, <1>3
<1>6. [stage |-> "done", told |-> call.told] = Promise!Done(
         IF answers[t].request.op = "tables" THEN Promise!TablesOf(visible) ELSE {})
  BY <1>4, <1>5 DEF Promise!Done
<1>7. answers' = [answers EXCEPT ![t] =
         Promise!Done(IF @.request.op = "tables" THEN Promise!TablesOf(visible) ELSE {})]
  BY <1>3, <1>6
<1>8. visible' = Promise!Effect(answers[t].request)
  BY <1>2, <1>3, <1>5 DEF Promise!Effect
<1>9. QED
  BY <1>5, <1>7, <1>8 DEF Promise!Act

\* A statement takes effect at one moment.
LEMMA ExecuteRefines ==
  ASSUME IInv, NEW t \in Threads, Execute(t)
  PROVE  Promise!Act(t)
<1> DEFINE r == calls[t].request
<1>1. PICK call : Carried(t, call) /\ call # Idle /\ call.told = {}
  BY ExecuteIs
<1>2. /\ answers[t] = [stage |-> "asked", request |-> r]
      /\ answers' = [answers EXCEPT ![t] = [stage |-> "done", told |-> {}]]
      /\ visible = catalog /\ visible' = catalog'
  BY <1>1, CarriedRest, CarriedSeen
<1>3. /\ r.op \in {"select", "create", "drop"}
      /\ r.op = "select" => catalog' = catalog
      /\ r.op = "create" => catalog' = [catalog EXCEPT ![r.name] = Made]
      /\ r.op = "drop" => catalog' = [catalog EXCEPT ![r.name] = NoTable]
  BY DEF Execute
<1>4. answers[t].stage = "asked" /\ answers[t].request = r /\ r.op # "tables"
  BY <1>2, <1>3
<1>5. [stage |-> "done", told |-> {}] = Promise!Done(
         IF answers[t].request.op = "tables" THEN Promise!TablesOf(visible) ELSE {})
  BY <1>4 DEF Promise!Done
<1>6. answers' = [answers EXCEPT ![t] =
         Promise!Done(IF @.request.op = "tables" THEN Promise!TablesOf(visible) ELSE {})]
  BY <1>2, <1>5
<1>7. visible' = Promise!Effect(r)
  BY <1>2, <1>3 DEF Promise!Effect
<1>8. QED
  BY <1>4, <1>6, <1>7 DEF Promise!Act

\* A statement that fails is refused.
LEMMA FailureRefines ==
  ASSUME IInv, NEW t \in Threads, ExecuteFails(t)
  PROVE  Promise!Refuse(t)
<1>1. /\ answers[t] = [stage |-> "asked", request |-> calls[t].request]
      /\ answers' = [answers EXCEPT ![t] = [stage |-> "idle"]]
      /\ visible = catalog /\ visible' = catalog'
  BY FailureIs, CarriedRest, CarriedSeen, NotAsked
<1>2. catalog' = catalog
  BY DEF ExecuteFails
<1>3. QED
  BY <1>1, <1>2 DEF Promise!Refuse, Promise!NotCalling

\* The end of a call is its return.
LEMMA EndingRefines ==
  ASSUME IInv, NEW t \in Threads, InsertResult(t) \/ Return(t)
  PROVE  Promise!Return(t) \/ Unseen
<1>1. PICK call : Becomes(t, call) /\ Ending(t, call)
  BY EndingStep
<1>2. CallOK(calls[t]) /\ ~ChangingCall(calls[t]) /\ ~ChangingCall(call)
  BY <1>1, CallsIn DEF Ending, ChangingCall, Idle, Stages
<1>3. AnswerOf(calls[t]) = [stage |-> "done", told |-> calls[t].told]
  BY <1>1, <1>2, Answered DEF Ending
<1>4. visible' = visible
  BY <1>1, <1>2, VisibleStays DEF InsertResult, Return
<1>5. CASE call = Idle
  <2>1. answers[t].stage = "done" /\ answers' = [answers EXCEPT ![t] = [stage |-> "idle"]]
    BY <1>1, <1>3, <1>5, NotAsked, AnswersStep
  <2>2. QED
    BY <2>1, <1>4 DEF Promise!Return, Promise!NotCalling
<1>6. CASE call # Idle
  <2>1. AnswerOf(call) = AnswerOf(calls[t])
    BY <1>1, <1>3, <1>6, Answered DEF Ending
  <2>2. QED
    BY <2>1, <1>1, <1>4, AnswersStay DEF Unseen
<1>7. QED
  BY <1>5, <1>6

\* Releases are not to be seen.
LEMMA QuietRefines ==
  ASSUME IInv, \/ ReleaseFrame
               \/ ReleaseContext
               \/ UNCHANGED vars
  PROVE  Unseen
<1>1. catalog' = catalog /\ calls' = calls
  BY QuietStep
<1>2. QED
  BY <1>1, VisibleIs, VisibleIsNext, AnswersAre DEF Unseen

\* Every step is a step of Catalog or changes nothing there.
LEMMA StepRefines ==
  ASSUME IInv, [Next]_vars
  PROVE  [Promise!CatalogNext]_<<visible, answers>>
<1>1. ASSUME NEW t \in Threads, Begin(t) \/ Acquire(t) \/ Proceed(t)
      PROVE  \/ Promise!Ask(t) \/ Promise!Act(t) \/ Promise!Refuse(t)
             \/ Promise!Return(t) \/ Unseen
  BY <1>1, BeginRefines, AskingRefines, AcquireRefines, ChangeRefines, ListRefines,
     ExecuteRefines, FailureRefines, EndingRefines DEF Proceed
<1>2. Promise!CatalogNext \/ Unseen
  BY <1>1, QuietRefines DEF Next, Promise!CatalogNext
<1>3. QED
  BY <1>2 DEF Unseen

\* The initial states are initial states of Catalog.
LEMMA InitRefines ==
  ASSUME Init
  PROVE  Promise!CatalogInit
<1>1. \A t \in Threads : ~ChangingCall(calls[t])
  BY DEF Init, ChangingCall, Idle
<1>2. visible = catalog
  BY <1>1, InvInit, VisibleIsCatalog
<1>3. answers = [t \in Threads |-> [stage |-> "idle"]]
  BY AnswersAre, NotAsked DEF Init
<1>4. QED
  BY <1>2, <1>3 DEF Init, Promise!CatalogInit, Promise!NotCalling

\* The safety part of ImplementsCatalog: a batch of registrations appears whole
\* or not at all, a list of tables is the catalog of one moment, and a frame or
\* a context released in the middle of a request spoils all of it or nothing
\* (sql.rs: "Resolve every frame before mutating the context").
THEOREM StepsOfCatalog ==
  FairSpec => Promise!CatalogInit /\ [][Promise!CatalogNext]_<<visible, answers>>
<1>1. Init => Promise!CatalogInit
  BY InitRefines
<1>2. IInv /\ [Next]_vars => [Promise!CatalogNext]_<<visible, answers>>
  BY StepRefines
<1>3. FairSpec => Init /\ [][Next]_vars
  BY PTL DEF FairSpec
<1>4. QED
  BY <1>1, <1>2, <1>3, Invariant, PTL

================================================================================
