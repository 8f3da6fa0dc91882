--------------------------------- MODULE ArrowC --------------------------------
(***************************************************************************)
(* Interchange over the Arrow C Data and C Stream interfaces:              *)
(* native/polars_ffi/src/arrow_c.rs, the Dart objects of arrow_c.dart that *)
(* hold the C structs, and the calls of native.dart between them.          *)
(*                                                                         *)
(* A C struct with a release callback (an array, a schema or a stream) is  *)
(* moved from place to place and its callback must run once: from the heap *)
(* struct of a Dart object into the locals of an import, from there into a *)
(* registered frame, from a frame into a new struct by an export, out of a *)
(* Dart object into a foreign consumer.  A struct not yet imported has one *)
(* owner, whose drop runs the callback; an imported array is shared by all *)
(* the frames and exports made of it and released by the last of them.     *)
(*                                                                         *)
(* Left out: the schema a stream reader asks for and drops at once, and    *)
(* null pointers, which the Dart objects never pass.                       *)
(***************************************************************************)
EXTENDS Integers, FiniteSets

CONSTANTS Structs,   \* bound: C structs ever filled with a release callback
          Objects,   \* bound: ArrowCData and ArrowCStream objects ever allocated
          Handles,   \* the room of the registry
          Unmade,    \* the mark of a struct not filled yet
          Empty,     \* a C struct whose release callback is null
          Unborn,    \* the mark of a Dart object not allocated yet
          Gone,      \* an object closed or finalized: its structs are freed
          NoCall,    \* no import of an object is running
          Absent     \* a handle that stands for nothing

VARIABLES made,      \* the structs filled, each with the arrays it shares
          releases,  \* how often the release callback of each has run
          objects,   \* the Dart objects and what their C structs hold
          calls,     \* the import running on an object, with its locals
          entries,   \* the registered frames, each with the arrays it shares
          foreign    \* structs a foreign consumer has moved out of an object

vars == <<made, releases, objects, calls, entries, foreign>>

Slot == Structs \cup {Empty}

\* head is the array of an ArrowCData and the stream of an ArrowCStream.
Object == [form : {"data", "stream"}, head : Slot, schema : Slot,
           consumed : BOOLEAN]

Locals == [head : Slot, schema : Slot, arrays : SUBSET Structs]

\* The marks stand for themselves.
ASSUME ArrowCAssumption ==
    /\ IsFiniteSet(Structs)
    /\ Empty \notin Structs
    /\ Unmade \notin [shares : SUBSET Structs]
    /\ {Unborn, Gone} \cap Object = {} /\ Unborn # Gone
    /\ NoCall \notin Locals
    /\ \A arrays \in SUBSET Structs : arrays # Absent

Open(o) == objects[o] \notin {Unborn, Gone}

Running(o) == calls[o] # NoCall

--------------------------------------------------------------------------------
(* Ownership *)

\* The structs of an object, or of the locals of a call, with a callback.
Filled(holder) == {holder.head, holder.schema} \ {Empty}

\* Structs that have one owner: it will run their callback when it goes.
Owned == foreign \cup (UNION {Filled(objects[o]) : o \in {x \in Objects : Open(x)}})
                 \cup (UNION {Filled(calls[o]) : o \in {x \in Objects : Running(x)}})

\* Imported arrays, shared by reference counts: what frames and imports under
\* way are made of, and what a struct exported from a frame keeps alive.
Direct == (UNION {entries[h] : h \in {x \in Handles : entries[x] # Absent}})
             \cup (UNION {calls[o].arrays : o \in {x \in Objects : Running(x)}})

Shared == Direct \cup UNION {made[r].shares : r \in Owned \cup Direct}

\* What sharing the arrays of a set keeps alive.
Sharing(arrays) == arrays \cup UNION {made[r].shares : r \in arrays}

\* A step drops the owners of the structs given, and with them perhaps the
\* last reference to an imported array: each callback runs in this step.
Dropping(structs) ==
    releases' = [r \in Structs |->
                    releases[r] + (IF r \in structs THEN 1 ELSE 0)
                      + (IF r \in Shared \ Shared' THEN 1 ELSE 0)]

Make(structs, shares) ==
    /\ \A r \in structs : made[r] = Unmade
    /\ made' = [r \in Structs |-> IF r \in structs THEN [shares |-> shares]
                                                   ELSE made[r]]

--------------------------------------------------------------------------------
(* Allocating, filling and closing *)

Init ==
    /\ made = [r \in Structs |-> Unmade]
    /\ releases = [r \in Structs |-> 0]
    /\ objects = [o \in Objects |-> Unborn]
    /\ calls = [o \in Objects |-> NoCall]
    /\ entries = [h \in Handles |-> Absent]
    /\ foreign = {}

Born(o, form, head, schema) ==
    /\ objects[o] = Unborn
    /\ objects' = [objects EXCEPT ![o] =
                      [form |-> form, head |-> head, schema |-> schema,
                       consumed |-> FALSE]]

\* allocateData and allocateStream: empty structs with finalizers.
Allocate(o) ==
    /\ \E form \in {"data", "stream"} : Born(o, form, Empty, Empty)
    /\ UNCHANGED <<made, releases, calls, entries, foreign>>

\* A foreign producer fills the structs of an object.
Produce(o) ==
    /\ Open(o) /\ ~objects[o].consumed /\ Filled(objects[o]) = {}
    /\ \E head, schema \in Structs :
          /\ head # schema
          /\ IF objects[o].form = "data"
             THEN /\ Make({head, schema}, {})
                  /\ objects' = [objects EXCEPT ![o].head = head,
                                                ![o].schema = schema]
             ELSE /\ Make({head}, {})
                  /\ objects' = [objects EXCEPT ![o].head = head]
    /\ UNCHANGED <<releases, calls, entries, foreign>>

\* A foreign consumer moves the structs out, and releases each when it likes.
ForeignTake(o) ==
    /\ Open(o) /\ ~objects[o].consumed /\ Filled(objects[o]) # {}
    /\ foreign' = foreign \cup Filled(objects[o])
    /\ objects' = [objects EXCEPT ![o].head = Empty, ![o].schema = Empty]
    /\ UNCHANGED <<made, releases, calls, entries>>

ForeignRelease(r) ==
    /\ r \in foreign
    /\ foreign' = foreign \ {r}
    /\ UNCHANGED <<made, objects, calls, entries>>
    /\ Dropping({r})

\* Mutant of Close: the finalizers stay attached to the freed structs.
CloseAttached(o) ==
    /\ Open(o) /\ ~Running(o)
    /\ UNCHANGED <<made, objects, calls, entries, foreign>>
    /\ Dropping(Filled(objects[o]))

\* close, or the finalizers of an unreachable object: whatever the structs
\* still hold is released.  Not during an import, which keeps the object alive
\* and returns before its isolate does anything else.
Close(o) ==
    /\ Open(o) /\ ~Running(o)
    /\ objects' = [objects EXCEPT ![o] = Gone]
    /\ UNCHANGED <<made, calls, entries, foreign>>
    /\ Dropping(Filled(objects[o]))

--------------------------------------------------------------------------------
(* Exports *)

\* df_series_export_arrow, df_frame_export_arrow: an array that shares the
\* buffers of the entry, and a schema of its own.
ExportData(o, h) ==
    /\ entries[h] # Absent
    /\ \E head, schema \in Structs :
          /\ head # schema /\ made[schema] = Unmade /\ made[head] = Unmade
          /\ Born(o, "data", head, schema)
          /\ made' = [made EXCEPT ![head] = [shares |-> Sharing(entries[h])],
                                  ![schema] = [shares |-> {}]]
    /\ UNCHANGED <<releases, calls, entries, foreign>>

\* df_frame_export_arrow_stream: the stream owns a clone of the frame, which
\* it slices as it is read.
ExportStream(o, h) ==
    /\ entries[h] # Absent
    /\ \E head \in Structs :
          /\ Make({head}, Sharing(entries[h]))
          /\ Born(o, "stream", head, Empty)
    /\ UNCHANGED <<releases, calls, entries, foreign>>

\* A stale handle, a nested type, a NUL in a name or max_rows 0: nothing was
\* written, and Dart closes the object it has allocated.
ExportFails(o) ==
    /\ objects[o] = Unborn
    /\ objects' = [objects EXCEPT ![o] = Gone]
    /\ UNCHANGED <<made, releases, calls, entries, foreign>>

--------------------------------------------------------------------------------
(* Imports *)

\* Mutant of Import: the schema is read where it is instead of being taken.
ImportReadsSchema(o) ==
    /\ Open(o) /\ ~objects[o].consumed
    /\ calls' = [calls EXCEPT ![o] = [head |-> objects[o].head,
                                      schema |-> Empty, arrays |-> {}]]
    /\ objects' = [objects EXCEPT ![o].consumed = TRUE, ![o].head = Empty]
    /\ UNCHANGED <<made, releases, entries, foreign>>

\* markConsumed, then take_array and take_schema, or take_stream, which leave
\* empty structs behind.
Import(o) ==
    /\ Open(o) /\ ~objects[o].consumed
    /\ calls' = [calls EXCEPT ![o] = [head |-> objects[o].head,
                                      schema |-> objects[o].schema,
                                      arrays |-> {}]]
    /\ objects' = [objects EXCEPT ![o].consumed = TRUE, ![o].head = Empty,
                                  ![o].schema = Empty]
    /\ UNCHANGED <<made, releases, entries, foreign>>

\* The schema is readable and of a type that is imported, the null counts are
\* in range: import_array_from_c takes the array over.
ImportArray(o) ==
    /\ Running(o) /\ objects[o].form = "data"
    /\ calls[o].head # Empty /\ calls[o].schema # Empty
    /\ calls' = [calls EXCEPT ![o].head = Empty, ![o].arrays = {calls[o].head}]
    /\ UNCHANGED <<made, releases, objects, entries, foreign>>

\* The producer hands out another batch.  One that is then refused (its null
\* counts, its type, too many batches or rows) is dropped with the rest.
NextBatch(o) ==
    /\ Running(o) /\ objects[o].form = "stream" /\ calls[o].head # Empty
    /\ \E array \in Structs :
          /\ Make({array}, made[calls[o].head].shares)
          /\ calls' = [calls EXCEPT ![o].arrays = @ \cup {array}]
    /\ UNCHANGED <<releases, objects, entries, foreign>>

\* The import is complete: an array was imported, or the stream has ended.
Built(o) ==
    IF objects[o].form = "data" THEN calls[o].arrays # {}
                                ELSE calls[o].head # Empty

\* The frame or series is registered; the schema, or the stream, is dropped.
Insert(o) ==
    /\ Running(o) /\ Built(o)
    /\ \E h \in Handles :
          /\ entries[h] = Absent
          /\ entries' = [entries EXCEPT ![h] = calls[o].arrays]
    /\ calls' = [calls EXCEPT ![o] = NoCall]
    /\ UNCHANGED <<made, objects, foreign>>
    /\ Dropping(Filled(calls[o]))

\* Mutant of Fail: an array taken and not imported is forgotten.
FailForgets(o) ==
    /\ Running(o)
    /\ calls' = [calls EXCEPT ![o] = NoCall]
    /\ UNCHANGED <<made, objects, entries, foreign>>
    /\ Dropping({calls[o].schema} \ {Empty})

\* Anything goes wrong, at any point: a struct was empty, a check fails, the
\* producer reports an error, polars panics, the registry has no room.  Every
\* local is dropped on the way out.
Fail(o) ==
    /\ Running(o)
    /\ calls' = [calls EXCEPT ![o] = NoCall]
    /\ UNCHANGED <<made, objects, entries, foreign>>
    /\ Dropping(Filled(calls[o]))

--------------------------------------------------------------------------------
(* Other commands, from any thread *)

\* A command registers something that shares the buffers of its input.
Derive(h, new) ==
    /\ entries[h] # Absent /\ entries[new] = Absent
    /\ entries' = [entries EXCEPT ![new] = entries[h]]
    /\ UNCHANGED <<made, releases, objects, calls, foreign>>

\* release: the entry is dropped, and the callbacks it was the last to hold
\* back run before the registry is unlocked.
Release(h) ==
    /\ entries[h] # Absent
    /\ entries' = [entries EXCEPT ![h] = Absent]
    /\ UNCHANGED <<made, objects, calls, foreign>>
    /\ Dropping({})

Next ==
    \/ \E o \in Objects :
          \/ Allocate(o) \/ Produce(o) \/ ForeignTake(o) \/ Close(o)
          \/ ExportFails(o)
          \/ \E h \in Handles : ExportData(o, h) \/ ExportStream(o, h)
          \/ Import(o) \/ ImportArray(o) \/ NextBatch(o) \/ Insert(o) \/ Fail(o)
    \/ \E h \in Handles : Release(h) \/ \E new \in Handles : Derive(h, new)
    \/ \E r \in Structs : ForeignRelease(r)

Spec == Init /\ [][Next]_vars

--------------------------------------------------------------------------------
(* Properties *)

\* Types.  No release callback runs twice (arrow_c.rs and arrow_c.dart).
TypeOK ==
    /\ made \in [Structs -> [shares : SUBSET Structs] \cup {Unmade}]
    /\ releases \in [Structs -> 0..1]
    /\ objects \in [Objects -> Object \cup {Unborn, Gone}]
    /\ calls \in [Objects -> Locals \cup {NoCall}]
    /\ entries \in [Handles -> (SUBSET Structs) \cup {Absent}]
    /\ foreign \subseteq Structs

\* The callback of a struct has run exactly when nothing needs the struct any
\* more: it is neither released under a frame, an export or a consumer that
\* still reads its buffers, nor left behind by an import that failed half-way
\* (arrow_c.dart: "release each live callback exactly once"; arrow_c.rs:
\* "Exports are independent of registry handle lifetime").
ReleasedExactlyOnce ==
    \A r \in Structs :
        releases[r] = IF made[r] # Unmade /\ r \notin Owned \cup Shared THEN 1 ELSE 0

\* An import leaves both structs empty from the moment it begins, whatever
\* becomes of it, so that closing the Dart object afterwards releases nothing
\* (arrow_c.rs: "Imports always consume the top-level C structs, on success
\* and failure").
ImportsConsume ==
    \A o \in Objects : Open(o) /\ objects[o].consumed => Filled(objects[o]) = {}

================================================================================
