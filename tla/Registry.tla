------------------------------- MODULE Registry --------------------------------
(***************************************************************************)
(* The process-global handle registry of native/polars_ffi/src/registry.rs *)
(* and the way a protocol command uses it: engine.rs resolves the input    *)
(* handles of a command one at a time, each under its own lock, computes   *)
(* on the clones, and registers the results under one more lock.  Between  *)
(* any two of those steps another isolate, or the garbage collector's      *)
(* finalizer thread, may release handles and reuse their slots.            *)
(*                                                                         *)
(* A slot is found by the low half of a handle; slot i here is slot i - 1  *)
(* of the Rust vector, so that the low half of a handle is i itself.       *)
(***************************************************************************)
EXTENDS Integers, Sequences, FiniteSets

CONSTANTS Threads,        \* callers of df_invoke
          Kinds,          \* kinds of registered objects (expr, frame, job, ...)
          Payloads,       \* what tells two objects of one kind apart
          NoValue,        \* Option::None of a slot
          Unissued,       \* marks of the handle table: a handle not issued yet,
          Spent,          \* and a handle issued and released
          HandleBase,     \* 2^32: the weight of the generation in a handle
          MaxSlots,       \* u32::MAX as the limit on slots
          MaxGeneration,  \* u32::MAX as the last generation
          MaxInputs,      \* bound: handles one command resolves
          MaxOutputs      \* bound: results one command registers

Entry == [kind : Kinds, payload : Payloads]

ASSUME RegistryAssumption ==
    /\ MaxSlots \in Nat \ {0}
    /\ MaxGeneration \in Nat \ {0}
    /\ MaxInputs \in Nat
    /\ MaxOutputs \in Nat \ {0}
    /\ HandleBase \in Nat
    /\ MaxSlots < HandleBase
    /\ NoValue \notin Entry
    /\ {Unissued, Spent} \cap Entry = {}
    /\ Unissued # Spent

VARIABLES slots,     \* the slots, each with its generation and value
          free,      \* indices of reusable slots, a LIFO stack
          calls,     \* the command each thread is executing
          issued,    \* history: the entry each handle was returned for
          released   \* history: handles whose release returned Ok

vars == <<slots, free, calls, issued, released>>

--------------------------------------------------------------------------------
(* Handles *)

encode(index, generation) == generation * HandleBase + index

Handles == {encode(i, g) : i \in 1..MaxSlots, g \in 1..MaxGeneration}

\* Handles a caller may pass: any it was ever given, released or not, and
\* the zero handle, which decode refuses.
Arguments == {h \in Handles : issued[h] # NoValue} \cup {0}

low(handle) == handle % HandleBase
high(handle) == handle \div HandleBase

\* Mutant of matching: the generation is decoded but never compared.
MatchingBySlot(handle) ==
    {i \in DOMAIN slots : low(handle) = i /\ high(handle) # 0}

\* The slot a handle names, if decode accepts it and the generations agree.
matching(handle) ==
    {i \in DOMAIN slots : /\ low(handle) = i
                          /\ high(handle) # 0
                          /\ slots[i].generation = high(handle)}

\* get: the entry under a handle, if it is of the wanted kind.
found(handle, kind) ==
    {e \in {slots[i].value : i \in matching(handle)} :
        e # NoValue /\ e.kind = kind}

--------------------------------------------------------------------------------
(* insert_many *)

Lesser(a, b) == IF a < b THEN a ELSE b

\* Slots taken from the free stack, and slots pushed, for n values.
reused(n) == Lesser(n, Len(free))
additional(n) == n - reused(n)

HasRoom(n) == Len(slots) + additional(n) <= MaxSlots

\* The slot the k-th value goes to: the stack from its top, then new slots.
target(k) == IF k <= Len(free) THEN free[Len(free) + 1 - k]
                               ELSE Len(slots) + k - Len(free)

generationOf(i) == IF i \in DOMAIN slots THEN slots[i].generation ELSE 1

handleOf(k) == encode(target(k), generationOf(target(k)))

\* The slots once the values are in place.
filled(values) ==
    [i \in 1..(Len(slots) + additional(Len(values))) |->
        IF \E k \in DOMAIN values : target(k) = i
        THEN [generation |-> generationOf(i),
              value |-> values[CHOOSE k \in DOMAIN values : target(k) = i]]
        ELSE slots[i]]

\* Mutant of insert_many: the stack is read from its top but cut at its bottom.
InsertCutsBottom(values) ==
    /\ HasRoom(Len(values))
    /\ slots' = filled(values)
    /\ free' = SubSeq(free, 1 + reused(Len(values)), Len(free))
    /\ issued' = [h \in Handles |->
                    IF \E k \in DOMAIN values : handleOf(k) = h
                    THEN values[CHOOSE k \in DOMAIN values : handleOf(k) = h]
                    ELSE issued[h]]

insert_many(values) ==
    /\ HasRoom(Len(values))
    /\ slots' = filled(values)
    /\ free' = SubSeq(free, 1, Len(free) - reused(Len(values)))
    /\ issued' = [h \in Handles |->
                    IF \E k \in DOMAIN values : handleOf(k) = h
                    THEN values[CHOOSE k \in DOMAIN values : handleOf(k) = h]
                    ELSE issued[h]]

--------------------------------------------------------------------------------
(* release *)

\* Mutants of vacate: the last generation is not special; it wraps around to
\* the first; it is left as it is, value included.
VacateNeverRetires(i) ==
    /\ slots' = [slots EXCEPT ![i] = [generation |-> @.generation + 1,
                                      value |-> NoValue]]
    /\ free' = Append(free, i)

VacateWraps(i) ==
    /\ slots' = [slots EXCEPT ![i] =
                    [generation |-> (@.generation % MaxGeneration) + 1,
                     value |-> NoValue]]
    /\ free' = Append(free, i)

VacateKeepsRetired(i) ==
    IF slots[i].generation # MaxGeneration
    THEN VacateNeverRetires(i)
    ELSE UNCHANGED <<slots, free>>

\* The slot's value is taken; its generation moves on and the slot becomes
\* reusable, unless the generation was the last, which retires the slot.
vacate(i) ==
    IF slots[i].generation # MaxGeneration
    THEN /\ slots' = [slots EXCEPT ![i] = [generation |-> @.generation + 1,
                                           value |-> NoValue]]
         /\ free' = Append(free, i)
    ELSE /\ slots' = [slots EXCEPT ![i].value = NoValue]
         /\ UNCHANGED free

release(handle) ==
    \E i \in matching(handle) :
        /\ slots[i].value # NoValue
        /\ vacate(i)
        /\ released' = released \cup {handle}
        /\ UNCHANGED <<calls, issued>>

--------------------------------------------------------------------------------
(* Commands *)

Idle == [phase |-> "idle", inputs |-> <<>>]

Input == [handle : Handles, entry : Entry]

\* df_invoke receives a request.
Begin(t) ==
    /\ calls[t] = Idle
    /\ calls' = [calls EXCEPT ![t].phase = "running"]
    /\ UNCHANGED <<slots, free, issued, released>>

\* One registry lookup.  The request names the handle; since a handle the
\* caller knows stays known, choosing it here loses no interleaving.
Resolve(t) ==
    /\ calls[t].phase = "running"
    /\ Len(calls[t].inputs) < MaxInputs
    /\ \E h \in Arguments, kind \in Kinds : \E e \in found(h, kind) :
          calls' = [calls EXCEPT ![t].inputs =
                        Append(@, [handle |-> h, entry |-> e])]
    /\ UNCHANGED <<slots, free, issued, released>>

\* The results are registered together and their handles returned.
Register(t) ==
    /\ calls[t].phase = "running"
    /\ \E n \in 1..MaxOutputs : \E values \in [1..n -> Entry] :
          insert_many(values)
    /\ calls' = [calls EXCEPT ![t] = Idle]
    /\ UNCHANGED released

\* A lookup finds no such entry, the computation fails, the command has no
\* handles to return, or the registry has no room for them: nothing is
\* registered and the thread is free for its next command.
Answer(t) ==
    /\ calls[t].phase = "running"
    /\ calls' = [calls EXCEPT ![t] = Idle]
    /\ UNCHANGED <<slots, free, issued, released>>

\* df_handle_release, or a finalizer token, from any thread at any time.
Release == \E h \in Arguments : release(h)

Init ==
    /\ slots = <<>>
    /\ free = <<>>
    /\ calls = [t \in Threads |-> Idle]
    /\ issued = [h \in Handles |-> NoValue]
    /\ released = {}

Next ==
    \/ \E t \in Threads : Begin(t) \/ Resolve(t) \/ Register(t) \/ Answer(t)
    \/ Release

Spec == Init /\ [][Next]_vars

--------------------------------------------------------------------------------
(* Properties *)

\* Types.  The slots never outgrow the u32 index space and no generation
\* leaves the u32 range (registry.rs retires a slot instead).
Slot == [generation : 1..MaxGeneration, value : Entry \cup {NoValue}]

Call == [phase : {"idle", "running"}, inputs : Seq(Input)]

TypeOK ==
    /\ slots \in Seq(Slot)
    /\ Len(slots) <= MaxSlots
    /\ free \in Seq(1..MaxSlots)
    /\ calls \in [Threads -> Call]
    /\ issued \in [Handles -> Entry \cup {NoValue}]
    /\ released \subseteq Handles

\* Free-list exactness: the free stack holds every reusable slot once, no
\* occupied slot, and leaves out only the slots retired at the last
\* generation (registry.rs: insert_many pops it, release pushes it).
FreeListExact ==
    /\ \A p \in DOMAIN free : /\ free[p] \in DOMAIN slots
                              /\ slots[free[p]].value = NoValue
    /\ \A p, q \in DOMAIN free : free[p] = free[q] => p = q
    /\ \A i \in DOMAIN slots :
          slots[i].value = NoValue =>
              \/ \E p \in DOMAIN free : free[p] = i
              \/ slots[i].generation = MaxGeneration

liveIn(s) == {encode(i, s[i].generation) :
                 i \in {j \in DOMAIN s : s[j].value # NoValue}}

liveHandles == liveIn(slots)

\* No orphan and no theft: the handles that stand for something are exactly
\* those a caller was given and has not released, so a failed registration
\* leaves nothing behind and a stale release takes nothing away.
HandlesAccounted ==
    liveHandles = {h \in Handles : issued[h] # NoValue} \ released

\* No aliasing: whatever a command resolved from a handle is the object that
\* handle was returned for, even if the handle was released and its slot
\* reused between the caller obtaining it and this lookup.
NoAliasing ==
    \A t \in Threads : \A k \in DOMAIN calls[t].inputs :
        calls[t].inputs[k].entry = issued[calls[t].inputs[k].handle]

\* The registry implements the handle table.
tableOf == [h \in Handles |->
              CASE h \in liveHandles -> slots[low(h)].value
                [] h \notin liveHandles /\ issued[h] = NoValue -> Unissued
                [] OTHER -> Spent]

Table == INSTANCE HandleTable WITH table <- tableOf

ImplementsTable == Table!TableSpec

================================================================================
