-------------------------------- MODULE Catalog --------------------------------
(***************************************************************************)
(* What an SQL context promises the callers who share it: each command     *)
(* takes effect at one moment between its call and its return, whole or    *)
(* not at all.  A batch of registrations appears in the catalog together,  *)
(* a list of tables is the catalog of one moment, and every call returns.  *)
(* SqlCatalog.tla implements this with lookups, a mutex and a loop.        *)
(***************************************************************************)

CONSTANTS Clients,   \* callers that share the context
          Names,     \* table names
          Made,      \* a table that a statement made
          NoTable    \* the mark of a name that is not registered

VARIABLES catalog,   \* the table each name stands for
          answers    \* where each call is, and the tables it was told of

NotCalling == [stage |-> "idle"]
Asked(request) == [stage |-> "asked", request |-> request]
Done(told) == [stage |-> "done", told |-> told]

CatalogInit ==
    /\ catalog = [n \in Names |-> NoTable]
    /\ answers = [c \in Clients |-> NotCalling]

\* The catalog after registering some tables; their names are distinct.
Registered(before, tables) ==
    [n \in Names |->
        IF \E k \in DOMAIN tables : tables[k].name = n
        THEN tables[CHOOSE k \in DOMAIN tables : tables[k].name = n].frame
        ELSE before[n]]

Unregistered(before, names) ==
    [n \in Names |->
        IF \E k \in DOMAIN names : names[k] = n THEN NoTable ELSE before[n]]

TablesOf(c) == {n \in Names : c[n] # NoTable}

\* What a request makes of the catalog when it succeeds.
Effect(request) ==
    CASE request.op = "register" -> Registered(catalog, request.tables)
      [] request.op = "unregister" -> Unregistered(catalog, request.names)
      [] request.op \in {"tables", "select"} -> catalog
      [] request.op = "create" -> [catalog EXCEPT ![request.name] = Made]
      [] request.op = "drop" -> [catalog EXCEPT ![request.name] = NoTable]

Ask(c) ==
    /\ answers[c] = NotCalling
    /\ answers'[c].stage = "asked"
    /\ answers' = [answers EXCEPT ![c] = answers'[c]]
    /\ UNCHANGED catalog

Act(c) ==
    /\ answers[c].stage = "asked"
    /\ catalog' = Effect(answers[c].request)
    /\ answers' = [answers EXCEPT ![c] =
                      Done(IF @.request.op = "tables" THEN TablesOf(catalog) ELSE {})]

\* The request is refused, or fails, and has no effect.
Refuse(c) ==
    /\ answers[c].stage = "asked"
    /\ answers' = [answers EXCEPT ![c] = NotCalling]
    /\ UNCHANGED catalog

Return(c) ==
    /\ answers[c].stage = "done"
    /\ answers' = [answers EXCEPT ![c] = NotCalling]
    /\ UNCHANGED catalog

CatalogNext == \E c \in Clients : Ask(c) \/ Act(c) \/ Refuse(c) \/ Return(c)

CallsReturn ==
    \A c \in Clients : answers[c] # NotCalling ~> answers[c] = NotCalling

CatalogSpec == CatalogInit /\ [][CatalogNext]_<<catalog, answers>> /\ CallsReturn

================================================================================
