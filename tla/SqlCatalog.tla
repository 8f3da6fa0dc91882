------------------------------- MODULE SqlCatalog ------------------------------
(***************************************************************************)
(* The catalog of an SqlContext: native/polars_ffi/src/sql.rs.  A context  *)
(* is a Polars SQLContext behind a mutex and an Arc.  Synchronous commands *)
(* and those of worker isolates share it: each resolves the frames of its  *)
(* request in the registry one by one, then the context, then locks it and *)
(* changes it table by table.  Meanwhile any thread may release a frame or *)
(* the context.  A handle stands for one frame for ever (HandleTable.tla), *)
(* so a table is named here by the handle it was registered from.          *)
(***************************************************************************)
EXTENDS Integers, Sequences

CONSTANTS Threads,     \* callers of df_invoke
          Names,       \* table names
          Handles,     \* handles of lazy frames
          Made,        \* a table that a statement made
          NoTable,     \* the mark of a name that is not registered
          Free,        \* the mark of an unlocked mutex
          MaxTables    \* bound: tables or names in one request

ASSUME SqlCatalogAssumption ==
    /\ MaxTables \in Nat \ {0}
    /\ Free \notin Threads
    /\ {Made, NoTable} \cap Handles = {}
    /\ Made # NoTable

VARIABLES live,      \* handles not released yet
          context,   \* whether the handle of the context is live
          lock,      \* the thread in the context, or Free
          catalog,   \* the tables of the context
          calls      \* where each caller is in its command

vars == <<live, context, lock, catalog, calls>>

\* Bound: the names of a request are distinct, as in the Map of registerAll.
Lists(S) == UNION {[1..n -> S] : n \in 1..MaxTables}

Distinct(list) == \A k, l \in DOMAIN list : list[k] = list[l] => k = l

Tables == {list \in Lists([name : Names, frame : Handles]) :
              Distinct([k \in DOMAIN list |-> list[k].name])}

\* The commands; a statement selects, or creates or drops a table.
Requests ==
    [op : {"register"}, tables : Tables]
      \cup [op : {"unregister"}, names : {list \in Lists(Names) : Distinct(list)}]
      \cup [op : {"tables", "select"}]
      \cup [op : {"create", "drop"}, name : Names]

Idle == [pc |-> "idle"]

At(t, pc) == calls[t].pc = pc

Goto(t, pc) == calls' = [calls EXCEPT ![t].pc = pc]

Init ==
    /\ live = Handles
    /\ context = TRUE
    /\ lock = Free
    /\ catalog = [n \in Names |-> NoTable]
    /\ calls = [t \in Threads |-> Idle]

--------------------------------------------------------------------------------
(* Before the lock *)

\* df_invoke receives a request.  next is the table or name it is at; told
\* the list of tables it will return.
Begin(t) ==
    /\ calls[t] = Idle
    /\ \E request \in Requests :
          calls' = [calls EXCEPT ![t] =
                       [pc |-> IF request.op = "register" THEN "resolving"
                                                          ELSE "looking",
                        request |-> request, next |-> 1, told |-> {}]]
    /\ UNCHANGED <<live, context, lock, catalog>>

\* One registry::lazy_frame; a handle released meanwhile fails the command
\* before it has changed anything.
Resolve(t) ==
    /\ At(t, "resolving")
    /\ LET tables == calls[t].request.tables
           k == calls[t].next
       IN  CASE tables[k].frame \notin live -> calls' = [calls EXCEPT ![t] = Idle]
             [] tables[k].frame \in live /\ k < Len(tables) ->
                   calls' = [calls EXCEPT ![t].next = k + 1]
             [] OTHER -> calls' = [calls EXCEPT ![t].next = 1,
                                                ![t].pc = "looking"]
    /\ UNCHANGED <<live, context, lock, catalog>>

\* registry::sql_context clones the Arc.
Lookup(t) ==
    /\ At(t, "looking")
    /\ IF context THEN Goto(t, "waiting")
                  ELSE calls' = [calls EXCEPT ![t] = Idle]
    /\ UNCHANGED <<live, context, lock, catalog>>

Acquire(t) ==
    /\ At(t, "waiting")
    /\ lock = Free
    /\ lock' = t
    /\ Goto(t, "locked")
    /\ UNCHANGED <<live, context, catalog>>

--------------------------------------------------------------------------------
(* Under the lock *)

Unlock(t, pc) ==
    /\ lock' = Free
    /\ Goto(t, pc)

\* One table or name done: on to the next, or out of the block.
Advance(t, n) ==
    IF calls[t].next < n
    THEN /\ calls' = [calls EXCEPT ![t].next = @ + 1]
         /\ UNCHANGED lock
    ELSE Unlock(t, "returning")

\* Mutant of Register: the context is locked for each table by itself.
RegisterOneByOne(t) ==
    /\ At(t, "locked") /\ calls[t].request.op = "register"
    /\ LET tables == calls[t].request.tables
           k == calls[t].next
       IN  /\ catalog' = [catalog EXCEPT ![tables[k].name] = tables[k].frame]
           /\ lock' = Free
           /\ calls' = [calls EXCEPT
                           ![t].next = IF k < Len(tables) THEN k + 1 ELSE k,
                           ![t].pc = IF k < Len(tables) THEN "waiting"
                                                        ELSE "returning"]
    /\ UNCHANGED <<live, context>>

\* sqlContextRegister and sqlContextRegisterAll.
Register(t) ==
    /\ At(t, "locked") /\ calls[t].request.op = "register"
    /\ LET tables == calls[t].request.tables
           k == calls[t].next
       IN  /\ catalog' = [catalog EXCEPT ![tables[k].name] = tables[k].frame]
           /\ Advance(t, Len(tables))
    /\ UNCHANGED <<live, context>>

Unregister(t) ==
    /\ At(t, "locked") /\ calls[t].request.op = "unregister"
    /\ LET names == calls[t].request.names
       IN  /\ catalog' = [catalog EXCEPT ![names[calls[t].next]] = NoTable]
           /\ Advance(t, Len(names))
    /\ UNCHANGED <<live, context>>

ListTables(t) ==
    /\ At(t, "locked") /\ calls[t].request.op = "tables"
    /\ lock' = Free
    /\ calls' = [calls EXCEPT ![t].pc = "returning",
                              ![t].told = {n \in Names : catalog[n] # NoTable}]
    /\ UNCHANGED <<live, context, catalog>>

\* Polars runs the statement; the guard goes at the end of it.
Execute(t) ==
    /\ At(t, "locked")
    /\ LET op == calls[t].request.op
       IN  /\ op \in {"select", "create", "drop"}
           /\ catalog' = CASE op = "select" -> catalog
                           [] op = "create" ->
                                 [catalog EXCEPT ![calls[t].request.name] = Made]
                           [] op = "drop" ->
                                 [catalog EXCEPT ![calls[t].request.name] = NoTable]
    /\ Unlock(t, "inserting")
    /\ UNCHANGED <<live, context>>

\* Mutant of ExecuteFails: the lock outlives a panic.
ExecuteFailsLocked(t) ==
    /\ At(t, "locked") /\ calls[t].request.op \in {"select", "create", "drop"}
    /\ calls' = [calls EXCEPT ![t] = Idle]
    /\ UNCHANGED <<live, context, lock, catalog>>

\* A statement that fails, or panics: unwinding to the catch_unwind of
\* df_invoke unlocks the context too.
ExecuteFails(t) ==
    /\ At(t, "locked") /\ calls[t].request.op \in {"select", "create", "drop"}
    /\ lock' = Free
    /\ calls' = [calls EXCEPT ![t] = Idle]
    /\ UNCHANGED <<live, context, catalog>>

--------------------------------------------------------------------------------
(* After the lock *)

\* registry::insert of the result of a statement; whether there is room for
\* it or not, the statement has been carried out.
InsertResult(t) ==
    /\ At(t, "inserting")
    /\ Goto(t, "returning")
    /\ UNCHANGED <<live, context, lock, catalog>>

Return(t) ==
    /\ At(t, "returning")
    /\ calls' = [calls EXCEPT ![t] = Idle]
    /\ UNCHANGED <<live, context, lock, catalog>>

--------------------------------------------------------------------------------
(* Releases, by any thread *)

ReleaseFrame ==
    /\ \E h \in live : live' = live \ {h}
    /\ UNCHANGED <<context, lock, catalog, calls>>

ReleaseContext ==
    /\ context
    /\ context' = FALSE
    /\ UNCHANGED <<live, lock, catalog, calls>>

Proceed(t) ==
    \/ Resolve(t) \/ Lookup(t) \/ Register(t) \/ Unregister(t) \/ ListTables(t)
    \/ Execute(t) \/ ExecuteFails(t) \/ InsertResult(t) \/ Return(t)

Next ==
    \/ \E t \in Threads : Begin(t) \/ Acquire(t) \/ Proceed(t)
    \/ ReleaseFrame
    \/ ReleaseContext

\* Threads run, and the mutex of parking_lot is eventually fair: who waits for
\* it is not passed over for ever.
FairSpec ==
    /\ Init /\ [][Next]_vars
    /\ \A t \in Threads : WF_vars(Proceed(t)) /\ SF_vars(Acquire(t))

--------------------------------------------------------------------------------
(* Properties *)

\* Types.  The mutex is held exactly while a command is in the context, on
\* every way out of it (sql.rs; the catch_unwind of df_invoke).
TypeOK ==
    /\ live \subseteq Handles
    /\ context \in BOOLEAN
    /\ catalog \in [Names -> Handles \cup {Made, NoTable}]
    /\ \A t \in Threads :
          \/ calls[t] = Idle
          \/ /\ calls[t].pc \in {"resolving", "looking", "waiting", "locked",
                                 "inserting", "returning"}
             /\ calls[t].request \in Requests
             /\ calls[t].next \in 1..MaxTables
             /\ calls[t].told \subseteq Names
    /\ lock \in Threads \cup {Free}
    /\ \A t \in Threads : At(t, "locked") <=> lock = t

\* Whoever is in the context changing tables has, to everybody else, changed
\* them all.
changing(t) == At(t, "locked") /\ calls[t].request.op \in {"register", "unregister"}

\* What it has still to do, as names and what they will stand for.
remaining(t) ==
    LET request == calls[t].request
        next == calls[t].next
    IN  IF request.op = "register"
        THEN {request.tables[k] : k \in next..Len(request.tables)}
        ELSE {[name |-> request.names[k], frame |-> NoTable] :
                 k \in next..Len(request.names)}

visible ==
    LET left == UNION {remaining(t) : t \in {u \in Threads : changing(u)}}
    IN  [n \in Names |->
            IF \E change \in left : change.name = n
            THEN (CHOOSE change \in left : change.name = n).frame
            ELSE catalog[n]]

answers ==
    [t \in Threads |->
        CASE calls[t] = Idle -> [stage |-> "idle"]
          [] calls[t] # Idle /\ (changing(t) \/ calls[t].pc \in
                                 {"inserting", "returning"}) ->
                [stage |-> "done", told |-> calls[t].told]
          [] OTHER -> [stage |-> "asked", request |-> calls[t].request]]

\* The context implements Catalog: batches appear whole or not at all, a list
\* of tables never shows half of one, a frame released in the middle of a
\* request spoils all of it or nothing, and every call returns (sql.rs:
\* "Resolve every frame before mutating the context").
Promise == INSTANCE Catalog WITH Clients <- Threads, catalog <- visible

ImplementsCatalog == Promise!CatalogSpec

================================================================================
