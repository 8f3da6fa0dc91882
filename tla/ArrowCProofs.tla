------------------------------ MODULE ArrowCProofs -----------------------------
(***************************************************************************)
(* Theorems about ArrowC, for every set of structs, objects and handles:   *)
(* each release callback runs exactly once, when nothing needs its struct  *)
(* any more, and an import consumes what it is given.                      *)
(***************************************************************************)
EXTENDS ArrowC, TLAPS

--------------------------------------------------------------------------------
(* The inductive invariant *)

\* What the places of an object hold: its structs, the locals of its import,
\* and the arrays imported so far; and what a handle stands for.
In(o) == IF Open(o) THEN Filled(objects[o]) ELSE {}
Taken(o) == IF Running(o) THEN Filled(calls[o]) ELSE {}
Arrays(o) == IF Running(o) THEN calls[o].arrays ELSE {}
Entry(h) == IF entries[h] # Absent THEN entries[h] ELSE {}

\* TypeOK without the releases, which the accounts bound.
Types ==
    /\ made \in [Structs -> [shares : SUBSET Structs] \cup {Unmade}]
    /\ releases \in [Structs -> Nat]
    /\ objects \in [Objects -> Object \cup {Unborn, Gone}]
    /\ calls \in [Objects -> Locals \cup {NoCall}]
    /\ entries \in [Handles -> (SUBSET Structs) \cup {Absent}]
    /\ foreign \subseteq Structs

\* The two structs of a holder are not one.
Apart(holder) == holder.head # Empty => holder.head # holder.schema

\* A struct with a callback is in one place.
Unique ==
    /\ \A o, p \in Objects : In(o) \cap Taken(p) = {}
    /\ \A o, p \in Objects : o # p => In(o) \cap In(p) = {}
    /\ \A o, p \in Objects : o # p => Taken(o) \cap Taken(p) = {}
    /\ \A o \in Objects : foreign \cap In(o) = {} /\ foreign \cap Taken(o) = {}
    /\ \A o \in Objects : Open(o) => Apart(objects[o])
    /\ \A o \in Objects : Running(o) => Apart(calls[o])

\* An import runs on an open object whose structs it has taken; it has no
\* array yet while it holds the one to import.
Consumed(o) ==
    /\ Running(o) => Open(o) /\ objects[o].consumed
    /\ Open(o) /\ objects[o].consumed => Filled(objects[o]) = {}
    /\ Running(o) /\ objects[o].form = "data" /\ calls[o].head # Empty =>
          calls[o].arrays = {}

Importing == \A o \in Objects : Consumed(o)

\* Owned and shared structs are made, and no struct is both.
Accounts ==
    /\ ReleasedExactlyOnce
    /\ Owned \cap Shared = {}
    /\ \A r \in Owned \cup Shared : made[r] # Unmade

IInv == Types /\ Unique /\ Importing /\ Accounts

--------------------------------------------------------------------------------
(* The places of a struct *)

\* Only the places of object o change.
Elsewhere(o) ==
    \A p \in Objects \ {o} : objects'[p] = objects[p] /\ calls'[p] = calls[p]

\* What the objects hold, what the imports have taken, what the handles stand
\* for and what the imports have brought in.
AllIn == UNION {Filled(objects[o]) : o \in {x \in Objects : Open(x)}}
AllTaken == UNION {Filled(calls[o]) : o \in {x \in Objects : Running(x)}}
AllEntries == UNION {entries[h] : h \in {x \in Handles : entries[x] # Absent}}
AllArrays == UNION {calls[o].arrays : o \in {x \in Objects : Running(x)}}

\* The owned and the directly shared structs by the places they are in, before
\* and after a step.
LEMMA Places ==
    /\ Owned = foreign \cup AllIn \cup AllTaken
    /\ Owned' = foreign' \cup AllIn' \cup AllTaken'
    /\ Direct = AllEntries \cup AllArrays
    /\ Direct' = AllEntries' \cup AllArrays'
<1>1. Owned = foreign \cup AllIn \cup AllTaken
  BY Zenon DEF Owned, AllIn, AllTaken
<1>2. Owned' = foreign' \cup AllIn' \cup AllTaken'
  BY Zenon DEF Owned, AllIn, AllTaken
<1>3. Direct = AllEntries \cup AllArrays
  BY Zenon DEF Direct, AllEntries, AllArrays
<1>4. Direct' = AllEntries' \cup AllArrays'
  BY Zenon DEF Direct, AllEntries, AllArrays
<1>5. QED
  BY <1>1, <1>2, <1>3, <1>4

\* A struct is owned when the consumer, an object or the locals of an import
\* hold it.
LEMMA OwnedMembers ==
    \A r : r \in Owned <=> \/ r \in foreign
                           \/ \E o \in Objects : r \in In(o) \/ r \in Taken(o)
<1>1. \A r, o : /\ r \in In(o) <=> Open(o) /\ r \in Filled(objects[o])
                /\ r \in Taken(o) <=> Running(o) /\ r \in Filled(calls[o])
  BY DEF In, Taken
<1>2. \A r : r \in AllIn <=>
                \E o \in Objects : Open(o) /\ r \in Filled(objects[o])
  BY DEF AllIn
<1>3. \A r : r \in AllTaken <=>
                \E o \in Objects : Running(o) /\ r \in Filled(calls[o])
  BY DEF AllTaken
<1>4. QED
  BY <1>1, <1>2, <1>3, Places

\* The same after a step.
LEMMA OwnedMembersNext ==
    \A r : r \in Owned' <=> \/ r \in foreign'
                            \/ \E o \in Objects : r \in In(o)' \/ r \in Taken(o)'
<1>1. \A r, o : /\ r \in In(o)' <=> Open(o)' /\ r \in Filled(objects'[o])
                /\ r \in Taken(o)' <=> Running(o)' /\ r \in Filled(calls'[o])
  BY DEF In, Taken, Filled
<1>2. \A r : r \in AllIn' <=>
                \E o \in Objects : Open(o)' /\ r \in Filled(objects'[o])
  BY DEF AllIn
<1>3. \A r : r \in AllTaken' <=>
                \E o \in Objects : Running(o)' /\ r \in Filled(calls'[o])
  BY DEF AllTaken
<1>4. QED
  BY <1>1, <1>2, <1>3, Places

\* A struct is directly shared when a handle stands for it or an import has
\* brought it in.
LEMMA DirectMembers ==
    \A r : r \in Direct <=> \/ \E h \in Handles : r \in Entry(h)
                            \/ \E o \in Objects : r \in Arrays(o)
<1>1. \A r, h : r \in Entry(h) <=> entries[h] # Absent /\ r \in entries[h]
  BY DEF Entry
<1>2. \A r, o : r \in Arrays(o) <=> Running(o) /\ r \in calls[o].arrays
  BY DEF Arrays
<1>3. \A r : r \in AllEntries <=>
                \E h \in Handles : entries[h] # Absent /\ r \in entries[h]
  BY DEF AllEntries
<1>4. \A r : r \in AllArrays <=>
                \E o \in Objects : Running(o) /\ r \in calls[o].arrays
  BY DEF AllArrays
<1>5. QED
  BY <1>1, <1>2, <1>3, <1>4, Places

\* The same after a step.
LEMMA DirectMembersNext ==
    \A r : r \in Direct' <=> \/ \E h \in Handles : r \in Entry(h)'
                             \/ \E o \in Objects : r \in Arrays(o)'
<1>1. \A r, h : r \in Entry(h)' <=> entries'[h] # Absent /\ r \in entries'[h]
  BY DEF Entry
<1>2. \A r, o : r \in Arrays(o)' <=> Running(o)' /\ r \in calls'[o].arrays
  BY DEF Arrays
<1>3. \A r : r \in AllEntries' <=>
                \E h \in Handles : entries'[h] # Absent /\ r \in entries'[h]
  BY DEF AllEntries
<1>4. \A r : r \in AllArrays' <=>
                \E o \in Objects : Running(o)' /\ r \in calls'[o].arrays
  BY DEF AllArrays
<1>5. QED
  BY <1>1, <1>2, <1>3, <1>4, Places

\* A struct is shared when it is directly, or kept alive by one that is owned or
\* directly shared.
LEMMA SharedMembers ==
    /\ \A r : r \in Shared <=> \/ r \in Direct
                               \/ \E s \in Owned \cup Direct : r \in made[s].shares
    /\ \A r : r \in Shared' <=> \/ r \in Direct'
                                \/ \E s \in Owned' \cup Direct' : r \in made'[s].shares
  BY DEF Shared

\* A step on object o leaves the places of the others as they are.
LEMMA OthersKeep ==
  ASSUME NEW o \in Objects, Elsewhere(o), NEW p \in Objects, p # o
  PROVE  /\ In(p)' = In(p) /\ Taken(p)' = Taken(p) /\ Arrays(p)' = Arrays(p)
         /\ Consumed(p)' = Consumed(p)
         /\ Open(p)' = Open(p) /\ objects'[p] = objects[p]
         /\ Running(p)' = Running(p) /\ calls'[p] = calls[p]
  BY DEF Elsewhere, In, Taken, Arrays, Consumed, Open, Running, Filled

\* What a holder holds.
LEMMA FilledIs ==
  ASSUME NEW holder
  PROVE  \A r : r \in Filled(holder) <=>
                   r # Empty /\ (r = holder.head \/ r = holder.schema)
  BY DEF Filled

\* The places of an object hold structs.
LEMMA PlacesAreStructs ==
  ASSUME Types, NEW o \in Objects
  PROVE  In(o) \subseteq Structs /\ Taken(o) \subseteq Structs
                                 /\ Arrays(o) \subseteq Structs
<1>1. Open(o) => objects[o] \in Object
  BY DEF Types, Open
<1>2. Running(o) => calls[o] \in Locals
  BY DEF Types, Running
<1>3. QED
  BY <1>1, <1>2 DEF In, Taken, Arrays, Object, Locals, Slot, Filled

\* What is owned is a struct.
LEMMA OwnedAreStructs ==
  ASSUME Types
  PROVE  Owned \subseteq Structs
  BY OwnedMembers, PlacesAreStructs DEF Types

\* What is directly shared is a struct.
LEMMA DirectAreStructs ==
  ASSUME Types
  PROVE  Direct \subseteq Structs
<1>1. \A h \in Handles : Entry(h) \subseteq Structs
  <2>1. SUFFICES ASSUME NEW h \in Handles, entries[h] # Absent
                 PROVE  entries[h] \subseteq Structs
    BY DEF Entry
  <2>2. entries \in [Handles -> (SUBSET Structs) \cup {Absent}]
    BY DEF Types
  <2>3. QED
    BY <2>1, <2>2
<1>2. QED
  BY <1>1, DirectMembers, PlacesAreStructs

\* What a struct that was filled shares are structs.
LEMMA MadeShares ==
  ASSUME Types, NEW r \in Structs, made[r] # Unmade
  PROVE  made[r].shares \subseteq Structs
  BY DEF Types

\* What is shared is a struct.
LEMMA SharedAreStructs ==
  ASSUME Types, Accounts
  PROVE  Shared \subseteq Structs
<1>1. \A r \in Owned \cup Direct : made[r] # Unmade /\ r \in Structs
  BY OwnedAreStructs, DirectAreStructs, SharedMembers DEF Accounts
<1>2. \A r \in Owned \cup Direct : made[r].shares \subseteq Structs
  BY <1>1, MadeShares
<1>3. QED
  BY <1>2, DirectAreStructs, SharedMembers

--------------------------------------------------------------------------------
(* How a step on one object changes what is owned and what is shared *)

\* A step on object o changes what is owned by what it changes near o.
LEMMA OwnedStep ==
  ASSUME Unique, NEW o \in Objects, Elsewhere(o)
  PROVE  Owned' = (Owned \ (In(o) \cup Taken(o) \cup foreign))
                     \cup In(o)' \cup Taken(o)' \cup foreign'
<1>1. \A p \in Objects : p # o =>
         /\ In(p)' = In(p) /\ Taken(p)' = Taken(p)
         /\ In(p) \cap In(o) = {} /\ In(p) \cap Taken(o) = {}
         /\ Taken(p) \cap In(o) = {} /\ Taken(p) \cap Taken(o) = {}
         /\ foreign \cap In(p) = {} /\ foreign \cap Taken(p) = {}
  BY OthersKeep DEF Unique
<1>2. QED
  BY <1>1, OwnedMembers, OwnedMembersNext

\* An import that brings in the structs of M makes them directly shared.
LEMMA DirectStep ==
  ASSUME NEW o \in Objects, Elsewhere(o), entries' = entries,
         NEW M, Arrays(o)' = Arrays(o) \cup M
  PROVE  Direct' = Direct \cup M
<1>1. \A p \in Objects : p # o => Arrays(p)' = Arrays(p)
  BY OthersKeep
<1>2. \A h \in Handles : Entry(h)' = Entry(h)
  BY DEF Entry
<1>3. QED
  BY <1>1, <1>2, DirectMembers, DirectMembersNext

\* What a step on object o may leave: a struct stays in one place, and one
\* that comes in, of N, was in none.
Fits(o, N) ==
    /\ Elsewhere(o) /\ N \cap Owned = {}
    /\ In(o)' \cup Taken(o)' \cup foreign'
          \subseteq In(o) \cup Taken(o) \cup foreign \cup N
    /\ In(o)' \cap Taken(o)' = {} /\ In(o)' \cap foreign' = {}
    /\ Taken(o)' \cap foreign' = {}
    /\ Open(o)' => Apart(objects'[o])
    /\ Running(o)' => Apart(calls'[o])

\* A step that fits leaves every struct in one place.
LEMMA UniqueStep ==
  ASSUME Unique, NEW o \in Objects, NEW N, Fits(o, N)
  PROVE  Unique'
<1>0. /\ Elsewhere(o) /\ N \cap Owned = {}
      /\ In(o)' \cup Taken(o)' \cup foreign'
            \subseteq In(o) \cup Taken(o) \cup foreign \cup N
      /\ In(o)' \cap Taken(o)' = {} /\ In(o)' \cap foreign' = {}
      /\ Taken(o)' \cap foreign' = {}
      /\ Open(o)' => Apart(objects'[o])
      /\ Running(o)' => Apart(calls'[o])
  BY DEF Fits
<1>1. \A p \in Objects : p # o =>
         /\ In(p)' = In(p) /\ Taken(p)' = Taken(p)
         /\ Open(p)' = Open(p) /\ objects'[p] = objects[p]
         /\ Running(p)' = Running(p) /\ calls'[p] = calls[p]
  BY OthersKeep, <1>0
<1>2. \A p \in Objects : p # o => \A r \in In(p) \cup Taken(p) :
         r \notin In(o)' /\ r \notin Taken(o)' /\ r \notin foreign'
  <2>1. \A p \in Objects : p # o => \A r \in In(p) \cup Taken(p) :
           r \notin In(o) /\ r \notin Taken(o) /\ r \notin foreign /\ r \in Owned
    BY OwnedMembers DEF Unique
  <2>2. QED
    BY <2>1, <1>0
<1>3. (\A p, q \in Objects : In(p) \cap Taken(q) = {})'
  <2>1. SUFFICES ASSUME NEW p \in Objects, NEW q \in Objects
                 PROVE  In(p)' \cap Taken(q)' = {}
    OBVIOUS
  <2>2. CASE p # o /\ q # o
    BY <2>2, <1>1 DEF Unique
  <2>3. CASE p = o /\ q = o
    BY <2>3, <1>0
  <2>4. CASE p # o /\ q = o
    BY <2>4, <1>1, <1>2
  <2>5. CASE p = o /\ q # o
    BY <2>5, <1>1, <1>2
  <2>6. QED
    BY <2>2, <2>3, <2>4, <2>5
<1>4. (\A p, q \in Objects : p # q => In(p) \cap In(q) = {})'
  BY <1>1, <1>2 DEF Unique
<1>5. (\A p, q \in Objects : p # q => Taken(p) \cap Taken(q) = {})'
  BY <1>1, <1>2 DEF Unique
<1>6. (\A p \in Objects : foreign \cap In(p) = {} /\ foreign \cap Taken(p) = {})'
  BY <1>0, <1>1, <1>2 DEF Unique
<1>7. (\A p \in Objects : Open(p) => Apart(objects[p]))'
  <2>1. SUFFICES ASSUME NEW p \in Objects, Open(p)' PROVE Apart(objects'[p])
    BY DEF Apart
  <2>2. CASE p = o
    BY <2>1, <2>2, <1>0
  <2>3. CASE p # o
    BY <2>1, <2>3, <1>1 DEF Unique
  <2>4. QED
    BY <2>2, <2>3
<1>8. (\A p \in Objects : Running(p) => Apart(calls[p]))'
  <2>1. SUFFICES ASSUME NEW p \in Objects, Running(p)' PROVE Apart(calls'[p])
    BY DEF Apart
  <2>2. CASE p = o
    BY <2>1, <2>2, <1>0
  <2>3. CASE p # o
    BY <2>1, <2>3, <1>1 DEF Unique
  <2>4. QED
    BY <2>2, <2>3
<1>9. QED
  BY <1>3, <1>4, <1>5, <1>6, <1>7, <1>8 DEF Unique

\* A step on object o keeps the imports of the others consistent.
LEMMA ImportingStep ==
  ASSUME Importing, NEW o \in Objects, Elsewhere(o), Consumed(o)'
  PROVE  Importing'
<1>1. \A p \in Objects : p # o => Consumed(p)' = Consumed(p)
  BY OthersKeep
<1>2. QED
  BY <1>1 DEF Importing
--------------------------------------------------------------------------------
(* How a step changes the accounts *)

\* A step that changes neither what is owned nor what is shared keeps the
\* accounts.
LEMMA AccountsMove ==
  ASSUME Accounts, Owned' = Owned, Direct' = Direct, made' = made,
         releases' = releases
  PROVE  Accounts'
<1>1. Shared' = Shared
  BY SharedMembers
<1>2. QED
  BY <1>1 DEF Accounts, ReleasedExactlyOnce

\* Structs that are filled, and share only what is shared already, were never
\* needed before and are needed now.
LEMMA AccountsMake ==
  ASSUME Types, Accounts, releases' = releases, NEW N, NEW M,
         N \cap M = {}, N \cup M \subseteq Structs,
         \A r \in N \cup M : made[r] = Unmade,
         Owned' = Owned \cup N, Direct' = Direct \cup M,
         \A r \in Structs \ (N \cup M) : made'[r] = made[r],
         \A r \in N \cup M : made'[r] # Unmade /\ made'[r].shares \subseteq Shared
  PROVE  Accounts'
<1>1. \A r \in N \cup M : r \notin Owned /\ r \notin Shared
  BY DEF Accounts
<1>2. \A r \in Owned \cup Direct : r \in Structs \ (N \cup M)
  BY <1>1, OwnedAreStructs, DirectAreStructs, SharedMembers
<1>3. \A r \in Owned \cup Direct : made'[r] = made[r]
  BY <1>2
<1>4. \A r : r \in Shared' <=> r \in Shared \/ r \in M
  <2>1. ASSUME NEW r, r \in Shared'
        PROVE  r \in Shared \/ r \in M
    <3>1. CASE r \in Direct'
      BY <3>1, SharedMembers
    <3>2. ASSUME NEW s \in Owned' \cup Direct', r \in made'[s].shares
          PROVE  r \in Shared
      <4>1. CASE s \in N \cup M
        BY <3>2, <4>1
      <4>2. CASE s \in Owned \cup Direct
        BY <3>2, <4>2, <1>3, SharedMembers
      <4>3. QED
        BY <3>2, <4>1, <4>2
    <3>3. QED
      BY <2>1, <3>1, <3>2, SharedMembers
  <2>2. ASSUME NEW r, r \in Shared
        PROVE  r \in Shared'
    <3>1. CASE r \in Direct
      BY <3>1, SharedMembers
    <3>2. ASSUME NEW s \in Owned \cup Direct, r \in made[s].shares
          PROVE  r \in Shared'
      <4>1. s \in Owned' \cup Direct' /\ r \in made'[s].shares
        BY <3>2, <1>3
      <4>2. QED
        BY <4>1, SharedMembers
    <3>3. QED
      BY <2>2, <3>1, <3>2, SharedMembers
  <2>3. \A r \in M : r \in Shared'
    BY SharedMembers
  <2>4. QED
    BY <2>1, <2>2, <2>3
<1>5. (Owned \cap Shared = {})'
  BY <1>1, <1>4 DEF Accounts
<1>6. (\A r \in Owned \cup Shared : made[r] # Unmade)'
  <2>1. SUFFICES ASSUME NEW r, r \in Owned' \cup Shared'
                 PROVE  made'[r] # Unmade
    OBVIOUS
  <2>2. CASE r \in N \cup M
    BY <2>2
  <2>3. CASE r \notin N \cup M
    <3>1. r \in Owned \cup Shared
      BY <2>1, <2>3, <1>4
    <3>2. r \in Structs
      BY <3>1, OwnedAreStructs, SharedAreStructs
    <3>3. QED
      BY <3>1, <3>2, <2>3 DEF Accounts
  <2>4. QED
    BY <2>2, <2>3
<1>7. ReleasedExactlyOnce'
  <2>1. SUFFICES ASSUME NEW r \in Structs
                 PROVE  releases'[r] = IF made'[r] # Unmade /\ r \notin Owned' \cup Shared'
                                       THEN 1 ELSE 0
    BY DEF ReleasedExactlyOnce
  <2>2. releases[r] = IF made[r] # Unmade /\ r \notin Owned \cup Shared THEN 1 ELSE 0
    BY DEF Accounts, ReleasedExactlyOnce
  <2>3. CASE r \in N \cup M
    BY <2>2, <2>3, <1>4
  <2>4. CASE r \notin N \cup M
    BY <2>2, <2>4, <1>4
  <2>5. QED
    BY <2>3, <2>4
<1>8. QED
  BY <1>5, <1>6, <1>7 DEF Accounts

\* An owned array that is imported is needed as before: it is shared instead,
\* and what it shares stays shared.
LEMMA AccountsImport ==
  ASSUME Types, Accounts, releases' = releases, made' = made, NEW x \in Owned,
         Owned' = Owned \ {x}, Direct' = Direct \cup {x}
  PROVE  Accounts'
<1>1. Owned' \cup Direct' = Owned \cup Direct
  OBVIOUS
<1>2. \A r : r \in Shared' <=> r \in Shared \/ r = x
  BY <1>1, SharedMembers
<1>3. Owned' \cup Shared' = Owned \cup Shared
  BY <1>2
<1>4. (Owned \cap Shared = {})'
  BY <1>2 DEF Accounts
<1>5. QED
  BY <1>3, <1>4 DEF Accounts, ReleasedExactlyOnce

\* When the owners of the structs of D go, the callbacks that run are those of D
\* and of what is not shared any more: each of them for the first time.
LEMMA AccountsDrop ==
  ASSUME Types, Accounts, made' = made, NEW D, D \subseteq Owned,
         Owned' = Owned \ D, Direct' \subseteq Direct, Dropping(D)
  PROVE  Accounts'
<1>1. \A r : r \in Shared' => r \in Shared
  BY SharedMembers
<1>2. (Owned \cap Shared = {})'
  BY <1>1 DEF Accounts
<1>3. (\A r \in Owned \cup Shared : made[r] # Unmade)'
  BY <1>1 DEF Accounts
<1>4. ReleasedExactlyOnce'
  <2>1. SUFFICES ASSUME NEW r \in Structs
                 PROVE  releases'[r] = IF made[r] # Unmade /\ r \notin Owned' \cup Shared'
                                       THEN 1 ELSE 0
    BY DEF ReleasedExactlyOnce
  <2>2. /\ releases[r] = IF made[r] # Unmade /\ r \notin Owned \cup Shared
                         THEN 1 ELSE 0
        /\ r \notin Owned \cap Shared
        /\ r \in Owned \cup Shared => made[r] # Unmade
    BY DEF Accounts, ReleasedExactlyOnce
  <2>3. releases'[r] = releases[r] + (IF r \in D THEN 1 ELSE 0)
                         + (IF r \in Shared \ Shared' THEN 1 ELSE 0)
    BY DEF Dropping
  <2>4. CASE r \in D
    <3>1. r \in Owned /\ r \notin Shared /\ r \notin Owned' /\ r \notin Shared'
      BY <2>2, <2>4, <1>1
    <3>2. releases[r] = 0 /\ made[r] # Unmade
      BY <3>1, <2>2
    <3>3. QED
      BY <3>1, <3>2, <2>3, <2>4
  <2>5. CASE r \notin D /\ r \in Shared \ Shared'
    <3>1. r \notin Owned /\ r \notin Owned' /\ r \notin Shared'
      BY <2>2, <2>5
    <3>2. releases[r] = 0 /\ made[r] # Unmade
      BY <2>5, <2>2
    <3>3. QED
      BY <3>1, <3>2, <2>3, <2>5
  <2>6. CASE r \notin D /\ r \notin Shared \ Shared'
    <3>1. (r \in Owned' \cup Shared') <=> (r \in Owned \cup Shared)
      BY <2>6, <1>1
    <3>2. releases'[r] = releases[r]
      BY <2>2, <2>3, <2>6
    <3>3. QED
      BY <3>1, <3>2, <2>2
  <2>7. QED
    BY <2>4, <2>5, <2>6
<1>5. QED
  BY <1>2, <1>3, <1>4 DEF Accounts

--------------------------------------------------------------------------------
(* How a step changes an object or its call *)

\* The marks are none of the values they stand beside.
LEMMA Marks ==
    /\ Empty \notin Structs
    /\ Unborn # Gone /\ \A x \in Object : x # Unborn /\ x # Gone
    /\ \A l \in Locals : l # NoCall
    /\ \A arrays \in SUBSET Structs : arrays # Absent
    /\ \A arrays \in SUBSET Structs : [shares |-> arrays] # Unmade
  BY ArrowCAssumption

\* An object is given the value x.
LEMMA SetObject ==
  ASSUME Types, NEW o \in Objects, NEW x \in Object,
         objects' = [objects EXCEPT ![o] = x]
  PROVE  /\ objects' \in [Objects -> Object \cup {Unborn, Gone}]
         /\ \A p \in Objects \ {o} : objects'[p] = objects[p]
         /\ objects'[o] = x /\ Open(o)' /\ In(o)' = Filled(x)
<1>1. /\ objects' \in [Objects -> Object \cup {Unborn, Gone}]
      /\ \A p \in Objects \ {o} : objects'[p] = objects[p]
      /\ objects'[o] = x
  BY DEF Types
<1>2. Open(o)'
  BY <1>1, Marks DEF Open
<1>3. In(o)' = Filled(x)
  BY <1>1, <1>2 DEF In, Filled
<1>4. QED
  BY <1>1, <1>2, <1>3

\* An object is gone: it holds nothing.
LEMMA LoseObject ==
  ASSUME Types, NEW o \in Objects, objects' = [objects EXCEPT ![o] = Gone]
  PROVE  /\ objects' \in [Objects -> Object \cup {Unborn, Gone}]
         /\ \A p \in Objects \ {o} : objects'[p] = objects[p]
         /\ ~Open(o)' /\ In(o)' = {}
  BY DEF Types, Open, In

\* An import is given the locals l.
LEMMA SetCall ==
  ASSUME Types, NEW o \in Objects, NEW l \in Locals,
         calls' = [calls EXCEPT ![o] = l]
  PROVE  /\ calls' \in [Objects -> Locals \cup {NoCall}]
         /\ \A p \in Objects \ {o} : calls'[p] = calls[p]
         /\ calls'[o] = l /\ Running(o)' /\ Taken(o)' = Filled(l)
         /\ Arrays(o)' = l.arrays
<1>1. /\ calls' \in [Objects -> Locals \cup {NoCall}]
      /\ \A p \in Objects \ {o} : calls'[p] = calls[p]
      /\ calls'[o] = l
  BY DEF Types
<1>2. Running(o)'
  BY <1>1, Marks DEF Running
<1>3. Taken(o)' = Filled(l) /\ Arrays(o)' = l.arrays
  BY <1>1, <1>2 DEF Taken, Arrays, Filled
<1>4. QED
  BY <1>1, <1>2, <1>3

\* An import ends: it holds nothing.
LEMMA EndCall ==
  ASSUME Types, NEW o \in Objects, calls' = [calls EXCEPT ![o] = NoCall]
  PROVE  /\ calls' \in [Objects -> Locals \cup {NoCall}]
         /\ \A p \in Objects \ {o} : calls'[p] = calls[p]
         /\ ~Running(o)' /\ Taken(o)' = {} /\ Arrays(o)' = {}
  BY DEF Types, Running, Taken, Arrays

\* Objects that do not change hold what they held.
LEMMA SameObjects ==
  ASSUME NEW o, objects' = objects
  PROVE  In(o)' = In(o) /\ Open(o)' = Open(o)
  BY DEF In, Open, Filled

\* Imports that do not change hold what they held.
LEMMA SameCalls ==
  ASSUME NEW o, calls' = calls
  PROVE  Taken(o)' = Taken(o) /\ Arrays(o)' = Arrays(o) /\ Running(o)' = Running(o)
  BY DEF Taken, Arrays, Running, Filled

\* An open object has a value, and holds its structs.
LEMMA OpenObject ==
  ASSUME Types, NEW o \in Objects, Open(o)
  PROVE  objects[o] \in Object /\ In(o) = Filled(objects[o])
  BY DEF Types, Open, In

\* A running import has locals, and holds them.
LEMMA RunningCall ==
  ASSUME Types, NEW o \in Objects, Running(o)
  PROVE  /\ calls[o] \in Locals /\ Taken(o) = Filled(calls[o])
         /\ Arrays(o) = calls[o].arrays
  BY DEF Types, Running, Taken, Arrays

\* An object that is not open holds nothing.
LEMMA NotOpen ==
  ASSUME NEW o, ~Open(o)
  PROVE  In(o) = {}
  BY DEF In

\* An import that does not run holds nothing.
LEMMA NotRunning ==
  ASSUME NEW o, ~Running(o)
  PROVE  Taken(o) = {} /\ Arrays(o) = {}
  BY DEF Taken, Arrays

\* What is near an object is owned.
LEMMA OwnsItsPlaces ==
  ASSUME NEW o \in Objects
  PROVE  In(o) \cup Taken(o) \cup foreign \subseteq Owned
  BY OwnedMembers

\* Structs being filled were needed by nobody, and share what they are given.
LEMMA MakeStep ==
  ASSUME Types, Accounts, NEW structs \in SUBSET Structs,
         NEW shares \in SUBSET Structs, Make(structs, shares)
  PROVE  /\ made' \in [Structs -> [shares : SUBSET Structs] \cup {Unmade}]
         /\ structs \cap Owned = {} /\ structs \cap Shared = {}
         /\ \A r \in structs : /\ made[r] = Unmade /\ made'[r] # Unmade
                               /\ made'[r].shares = shares
         /\ \A r \in Structs \ structs : made'[r] = made[r]
<1>1. \A r \in Structs :
         made'[r] = IF r \in structs THEN [shares |-> shares] ELSE made[r]
  BY DEF Make
<1>2. \A r \in structs : made'[r] = [shares |-> shares]
  BY <1>1
<1>3. \A r \in structs : made'[r] # Unmade /\ made'[r].shares = shares
  BY <1>2, Marks
<1>4. made' \in [Structs -> [shares : SUBSET Structs] \cup {Unmade}]
  BY DEF Make, Types
<1>5. \A r \in structs : made[r] = Unmade
  BY DEF Make
<1>6. QED
  BY <1>1, <1>3, <1>4, <1>5 DEF Accounts

\* Dropping keeps the counts of releases numbers.
LEMMA DroppingStep ==
  ASSUME Types, NEW D, Dropping(D)
  PROVE  releases' \in [Structs -> Nat]
  BY DEF Types, Dropping

--------------------------------------------------------------------------------
(* The kinds of steps *)

\* What object o, its import and the consumer own.
Near(o) == In(o) \cup Taken(o) \cup foreign

\* Structs change places, or none does.
LEMMA MoveKeeps ==
  ASSUME IInv, NEW o \in Objects, Types', Fits(o, {}), Consumed(o)',
         Near(o)' = Near(o), Arrays(o)' = Arrays(o),
         UNCHANGED <<made, releases, entries>>
  PROVE  IInv'
<1>1. Elsewhere(o) /\ Types /\ Unique /\ Importing /\ Accounts
  BY DEF Fits, IInv
<1>2. Owned' = Owned
  BY <1>1, OwnedStep, OwnsItsPlaces DEF Near
<1>3. Arrays(o)' = Arrays(o) \cup {} /\ entries' = entries
  OBVIOUS
<1>4. Direct' = Direct
  BY <1>1, <1>3, DirectStep
<1>5. made' = made /\ releases' = releases
  OBVIOUS
<1>6. Accounts'
  BY <1>1, <1>2, <1>4, <1>5, AccountsMove
<1>7. Unique' /\ Importing'
  BY <1>1, UniqueStep, ImportingStep
<1>8. QED
  BY <1>6, <1>7 DEF IInv

\* Structs are filled: those of N have an owner, those of M are imported.
Fills(o, N, M) ==
    /\ N \cap M = {} /\ N \cup M \subseteq Structs
    /\ \A r \in N \cup M : made[r] = Unmade
    /\ Near(o)' = Near(o) \cup N /\ Arrays(o)' = Arrays(o) \cup M
    /\ \A r \in Structs \ (N \cup M) : made'[r] = made[r]
    /\ \A r \in N \cup M : made'[r] # Unmade /\ made'[r].shares \subseteq Shared
    /\ UNCHANGED <<releases, entries>>

\* A step that fills structs keeps the invariant.
LEMMA FillKeeps ==
  ASSUME IInv, NEW o \in Objects, NEW N, NEW M, Types', Fits(o, N), Consumed(o)',
         Fills(o, N, M)
  PROVE  IInv'
<1>1. Elsewhere(o) /\ Types /\ Unique /\ Importing /\ Accounts
  BY DEF Fits, IInv
<1>2. Owned' = Owned \cup N
  <2>1. Near(o)' = Near(o) \cup N
    BY DEF Fills
  <2>2. Owned' = (Owned \ Near(o)) \cup Near(o)'
    BY <1>1, OwnedStep DEF Near
  <2>3. Near(o) \subseteq Owned
    BY OwnsItsPlaces DEF Near
  <2>4. QED
    BY <2>1, <2>2, <2>3
<1>3. Arrays(o)' = Arrays(o) \cup M /\ entries' = entries
  BY DEF Fills
<1>4. Direct' = Direct \cup M
  BY <1>1, <1>3, DirectStep
<1>5. /\ releases' = releases
      /\ N \cap M = {} /\ N \cup M \subseteq Structs
      /\ \A r \in N \cup M : made[r] = Unmade
      /\ \A r \in Structs \ (N \cup M) : made'[r] = made[r]
      /\ \A r \in N \cup M : made'[r] # Unmade /\ made'[r].shares \subseteq Shared
  BY DEF Fills
<1>6. Accounts'
  BY <1>1, <1>2, <1>4, <1>5, AccountsMake
<1>7. Unique' /\ Importing'
  BY <1>1, UniqueStep, ImportingStep
<1>8. QED
  BY <1>6, <1>7 DEF IInv

\* The owners of the structs of D go.
LEMMA DropKeeps ==
  ASSUME IInv, NEW o \in Objects, NEW D, Types', Fits(o, {}), Consumed(o)',
         made' = made, D \subseteq Near(o), Near(o)' = Near(o) \ D,
         Direct' \subseteq Direct, Dropping(D)
  PROVE  IInv'
<1>1. Elsewhere(o) /\ Types /\ Unique /\ Importing /\ Accounts
  BY DEF Fits, IInv
<1>2. D \subseteq Owned /\ Owned' = Owned \ D
  <2>1. Owned' = (Owned \ Near(o)) \cup Near(o)'
    BY <1>1, OwnedStep DEF Near
  <2>2. Near(o) \subseteq Owned
    BY OwnsItsPlaces DEF Near
  <2>3. QED
    BY <2>1, <2>2
<1>3. Accounts'
  BY <1>1, <1>2, AccountsDrop
<1>4. Unique' /\ Importing'
  BY <1>1, UniqueStep, ImportingStep
<1>5. QED
  BY <1>3, <1>4 DEF IInv

--------------------------------------------------------------------------------
(* Each action keeps the inductive invariant *)

\* Allocate keeps the invariant.
LEMMA AllocateKeeps ==
  ASSUME IInv, NEW o \in Objects, Allocate(o)
  PROVE  IInv'
<1>1. PICK form \in {"data", "stream"} : Born(o, form, Empty, Empty)
  BY DEF Allocate
<1>2. PICK x : x = [form |-> form, head |-> Empty, schema |-> Empty,
                    consumed |-> FALSE]
  OBVIOUS
<1>3. /\ x \in Object /\ objects[o] = Unborn
      /\ objects' = [objects EXCEPT ![o] = x]
      /\ UNCHANGED <<made, releases, calls, entries, foreign>>
  BY <1>1, <1>2 DEF Allocate, Born, Object, Slot
<1>4. Filled(x) = {} /\ ~x.consumed /\ Apart(x)
  BY <1>2 DEF Filled, Apart
<1>5. Types /\ Unique /\ Importing /\ Accounts
  BY DEF IInv
<1>6. /\ objects' \in [Objects -> Object \cup {Unborn, Gone}]
      /\ Elsewhere(o) /\ objects'[o] = x /\ In(o)' = {}
  BY <1>3, <1>4, <1>5, SetObject DEF Elsewhere
<1>7. /\ Taken(o)' = Taken(o) /\ Arrays(o)' = Arrays(o)
      /\ Running(o)' = Running(o) /\ calls'[o] = calls[o]
  BY <1>3, SameCalls
<1>8. In(o) = {} /\ ~Open(o) /\ ~Running(o)
  BY <1>3, <1>5, NotOpen DEF Open, Importing, Consumed
<1>9. Types'
  BY <1>3, <1>5, <1>6 DEF Types
<1>10. Fits(o, {})
  BY <1>4, <1>5, <1>6, <1>7, <1>8, <1>3 DEF Fits, Unique
<1>11. Consumed(o)'
  BY <1>4, <1>6, <1>7, <1>8 DEF Consumed
<1>12. Near(o)' = Near(o)
  BY <1>3, <1>6, <1>7, <1>8 DEF Near
<1>13. QED
  BY <1>3, <1>7, <1>9, <1>10, <1>11, <1>12, MoveKeeps

\* Produce keeps the invariant: the structs filled were in no place.
LEMMA ProduceKeeps ==
  ASSUME IInv, NEW o \in Objects, Produce(o)
  PROVE  IInv'
<1>1. Types /\ Unique /\ Importing /\ Accounts
  BY DEF IInv
<1>2. PICK head \in Structs, schema \in Structs :
         /\ head # schema
         /\ IF objects[o].form = "data"
            THEN /\ Make({head, schema}, {})
                 /\ objects' = [objects EXCEPT ![o].head = head,
                                               ![o].schema = schema]
            ELSE /\ Make({head}, {})
                 /\ objects' = [objects EXCEPT ![o].head = head]
  BY DEF Produce
<1>3. /\ Open(o) /\ ~objects[o].consumed /\ Filled(objects[o]) = {}
      /\ UNCHANGED <<releases, calls, entries, foreign>>
  BY DEF Produce
<1>4. /\ objects[o] \in Object /\ In(o) = {} /\ ~Running(o)
      /\ objects[o].head = Empty /\ objects[o].schema = Empty
  BY <1>1, <1>3, OpenObject, FilledIs DEF Importing, Consumed
<1>5. PICK N \in SUBSET Structs, x \in Object :
         /\ Make(N, {}) /\ objects' = [objects EXCEPT ![o] = x]
         /\ Filled(x) = N /\ ~x.consumed /\ Apart(x)
  <2>1. CASE objects[o].form = "data"
    <3>1. PICK x : x = [objects[o] EXCEPT !.head = head, !.schema = schema]
      OBVIOUS
    <3>2. /\ x \in Object /\ x.head = head /\ x.schema = schema
          /\ x.consumed = objects[o].consumed
      BY <1>4, <3>1 DEF Object, Slot
    <3>3. Make({head, schema}, {}) /\ objects' = [objects EXCEPT ![o] = x]
      BY <1>2, <2>1, <3>1
    <3>4. Filled(x) = {head, schema} /\ Apart(x)
      BY <1>2, <3>2, Marks DEF Filled, Apart
    <3>5. QED
      BY <1>3, <3>2, <3>3, <3>4
  <2>2. CASE objects[o].form # "data"
    <3>1. PICK x : x = [objects[o] EXCEPT !.head = head]
      OBVIOUS
    <3>2. /\ x \in Object /\ x.head = head /\ x.schema = Empty
          /\ x.consumed = objects[o].consumed
      BY <1>4, <3>1 DEF Object, Slot
    <3>3. Make({head}, {}) /\ objects' = [objects EXCEPT ![o] = x]
      BY <1>2, <2>2, <3>1
    <3>4. Filled(x) = {head} /\ Apart(x)
      BY <3>2, Marks DEF Filled, Apart
    <3>5. QED
      BY <1>3, <3>2, <3>3, <3>4
  <2>3. QED
    BY <2>1, <2>2
<1>6. /\ objects' \in [Objects -> Object \cup {Unborn, Gone}]
      /\ Elsewhere(o) /\ objects'[o] = x /\ Open(o)' /\ In(o)' = N
  BY <1>1, <1>3, <1>5, SetObject DEF Elsewhere
<1>7. /\ Taken(o)' = {} /\ Taken(o) = {} /\ Arrays(o)' = Arrays(o)
      /\ ~Running(o)'
  BY <1>3, <1>4, SameCalls, NotRunning
<1>8. /\ made' \in [Structs -> [shares : SUBSET Structs] \cup {Unmade}]
      /\ N \cap Owned = {}
      /\ \A r \in N : made[r] = Unmade /\ made'[r] # Unmade /\ made'[r].shares = {}
      /\ \A r \in Structs \ N : made'[r] = made[r]
  BY <1>1, <1>5, MakeStep
<1>9. Types'
  BY <1>1, <1>3, <1>6, <1>8 DEF Types
<1>10. Fits(o, N)
  BY <1>3, <1>4, <1>5, <1>6, <1>7, <1>8, OwnsItsPlaces DEF Fits
<1>11. Consumed(o)'
  BY <1>5, <1>6, <1>7 DEF Consumed
<1>12. Fills(o, N, {})
  BY <1>3, <1>4, <1>6, <1>7, <1>8 DEF Fills, Near
<1>13. QED
  BY <1>9, <1>10, <1>11, <1>12, FillKeeps

\* ForeignTake keeps the invariant: the structs change places.
LEMMA ForeignTakeKeeps ==
  ASSUME IInv, NEW o \in Objects, ForeignTake(o)
  PROVE  IInv'
<1>1. Types /\ Unique /\ Importing /\ Accounts
  BY DEF IInv
<1>2. /\ Open(o) /\ ~objects[o].consumed
      /\ foreign' = foreign \cup Filled(objects[o])
      /\ objects' = [objects EXCEPT ![o].head = Empty, ![o].schema = Empty]
      /\ UNCHANGED <<made, releases, calls, entries>>
  BY DEF ForeignTake
<1>3. objects[o] \in Object /\ In(o) = Filled(objects[o]) /\ ~Running(o)
  BY <1>1, <1>2, OpenObject DEF Importing, Consumed
<1>4. PICK x : x = [objects[o] EXCEPT !.head = Empty, !.schema = Empty]
  OBVIOUS
<1>5. /\ x \in Object /\ x.head = Empty /\ x.schema = Empty /\ ~x.consumed
      /\ objects' = [objects EXCEPT ![o] = x]
  BY <1>2, <1>3, <1>4 DEF Object, Slot
<1>6. Filled(x) = {} /\ Apart(x)
  BY <1>5 DEF Filled, Apart
<1>7. /\ objects' \in [Objects -> Object \cup {Unborn, Gone}]
      /\ Elsewhere(o) /\ objects'[o] = x /\ In(o)' = {}
  BY <1>1, <1>2, <1>5, <1>6, SetObject DEF Elsewhere
<1>8. /\ Taken(o)' = {} /\ Taken(o) = {} /\ Arrays(o)' = Arrays(o)
      /\ ~Running(o)'
  BY <1>2, <1>3, SameCalls, NotRunning
<1>9. Types'
  BY <1>1, <1>2, <1>3, <1>7, PlacesAreStructs DEF Types
<1>10. Fits(o, {})
  BY <1>2, <1>3, <1>6, <1>7, <1>8 DEF Fits
<1>11. Consumed(o)'
  BY <1>5, <1>7, <1>8 DEF Consumed
<1>12. Near(o)' = Near(o)
  BY <1>2, <1>3, <1>7, <1>8 DEF Near
<1>13. QED
  BY <1>2, <1>8, <1>9, <1>10, <1>11, <1>12, MoveKeeps

\* ForeignRelease keeps the invariant.
LEMMA ForeignReleaseKeeps ==
  ASSUME IInv, NEW r \in Structs, ForeignRelease(r)
  PROVE  IInv'
<1>1. Types /\ Unique /\ Importing /\ Accounts
  BY DEF IInv
<1>2. /\ r \in foreign /\ foreign' = foreign \ {r}
      /\ UNCHANGED <<made, objects, calls, entries>> /\ Dropping({r})
  BY DEF ForeignRelease
<1>3. \A p \in Objects :
         /\ In(p)' = In(p) /\ Taken(p)' = Taken(p) /\ Arrays(p)' = Arrays(p)
         /\ Open(p)' = Open(p) /\ Running(p)' = Running(p)
         /\ Consumed(p)' = Consumed(p)
  BY <1>2, SameObjects, SameCalls DEF Consumed, Open, Running, Filled
<1>4. \A h \in Handles : Entry(h)' = Entry(h)
  BY <1>2 DEF Entry
<1>5. Types'
  BY <1>1, <1>2, DroppingStep DEF Types
<1>6. Unique'
  BY <1>1, <1>2, <1>3 DEF Unique, Apart
<1>7. Importing'
  BY <1>1, <1>3 DEF Importing
<1>8. Owned' = Owned \ {r}
  BY <1>1, <1>2, <1>3, OwnedMembers, OwnedMembersNext DEF Unique
<1>9. Direct' \subseteq Direct
  BY <1>3, <1>4, DirectMembers, DirectMembersNext
<1>10. {r} \subseteq Owned /\ made' = made
  BY <1>2, OwnedMembers
<1>11. Accounts'
  BY <1>1, <1>2, <1>8, <1>9, <1>10, AccountsDrop
<1>12. QED
  BY <1>5, <1>6, <1>7, <1>11 DEF IInv

\* Close keeps the invariant: no import runs on the object.
LEMMA CloseKeeps ==
  ASSUME IInv, NEW o \in Objects, Close(o)
  PROVE  IInv'
<1>1. Types /\ Unique /\ Importing /\ Accounts
  BY DEF IInv
<1>2. /\ Open(o) /\ ~Running(o) /\ objects' = [objects EXCEPT ![o] = Gone]
      /\ UNCHANGED <<made, calls, entries, foreign>>
      /\ Dropping(Filled(objects[o]))
  BY DEF Close
<1>3. In(o) = Filled(objects[o])
  BY <1>1, <1>2, OpenObject
<1>4. /\ objects' \in [Objects -> Object \cup {Unborn, Gone}]
      /\ Elsewhere(o) /\ ~Open(o)' /\ In(o)' = {}
  BY <1>1, <1>2, LoseObject DEF Elsewhere
<1>5. /\ Taken(o)' = {} /\ Taken(o) = {} /\ Arrays(o)' = Arrays(o)
      /\ ~Running(o)'
  BY <1>2, SameCalls, NotRunning
<1>6. Types'
  BY <1>1, <1>2, <1>4, DroppingStep DEF Types
<1>7. Fits(o, {})
  BY <1>2, <1>4, <1>5 DEF Fits
<1>8. Consumed(o)'
  BY <1>4, <1>5 DEF Consumed
<1>9. In(o) \subseteq Near(o) /\ Near(o)' = Near(o) \ In(o)
  BY <1>1, <1>2, <1>4, <1>5 DEF Near, Unique
<1>10. Arrays(o)' = Arrays(o) \cup {} /\ entries' = entries
  BY <1>2, <1>5
<1>11. Direct' \subseteq Direct
  BY <1>4, <1>10, DirectStep
<1>12. QED
  BY <1>2, <1>3, <1>6, <1>7, <1>8, <1>9, <1>11, DropKeeps

\* ExportFails keeps the invariant.
LEMMA ExportFailsKeeps ==
  ASSUME IInv, NEW o \in Objects, ExportFails(o)
  PROVE  IInv'
<1>1. Types /\ Unique /\ Importing /\ Accounts
  BY DEF IInv
<1>2. /\ objects[o] = Unborn /\ objects' = [objects EXCEPT ![o] = Gone]
      /\ UNCHANGED <<made, releases, calls, entries, foreign>>
  BY DEF ExportFails
<1>3. In(o) = {} /\ ~Running(o)
  BY <1>1, <1>2, NotOpen DEF Importing, Consumed, Open
<1>4. /\ objects' \in [Objects -> Object \cup {Unborn, Gone}]
      /\ Elsewhere(o) /\ ~Open(o)' /\ In(o)' = {}
  BY <1>1, <1>2, LoseObject DEF Elsewhere
<1>5. /\ Taken(o)' = {} /\ Taken(o) = {} /\ Arrays(o)' = Arrays(o)
      /\ ~Running(o)'
  BY <1>2, <1>3, SameCalls, NotRunning
<1>6. Types'
  BY <1>1, <1>2, <1>4 DEF Types
<1>7. Fits(o, {})
  BY <1>2, <1>4, <1>5 DEF Fits
<1>8. Consumed(o)'
  BY <1>4, <1>5 DEF Consumed
<1>9. Near(o)' = Near(o)
  BY <1>2, <1>3, <1>4, <1>5 DEF Near
<1>10. QED
  BY <1>2, <1>5, <1>6, <1>7, <1>8, <1>9, MoveKeeps

\* What an export shares is shared already, by the entry it is made from.
LEMMA SharingIsShared ==
  ASSUME Types, Accounts, NEW h \in Handles, entries[h] # Absent
  PROVE  /\ Sharing(entries[h]) \in SUBSET Structs
         /\ Sharing(entries[h]) \subseteq Shared
<1>1. entries[h] \subseteq Direct
  BY DirectMembers DEF Entry
<1>2. \A r \in entries[h] : made[r].shares \subseteq Shared
  BY <1>1, SharedMembers
<1>3. Sharing(entries[h]) \subseteq Shared
  BY <1>1, <1>2, SharedMembers DEF Sharing
<1>4. QED
  BY <1>3, SharedAreStructs

\* An export fills the structs of N and gives them to a new object x.
LEMMA ExportKeeps ==
  ASSUME IInv, NEW o \in Objects, NEW x \in Object, NEW N \in SUBSET Structs,
         objects[o] = Unborn, objects' = [objects EXCEPT ![o] = x],
         Filled(x) = N, ~x.consumed, Apart(x),
         \A r \in N : /\ made[r] = Unmade /\ made'[r] # Unmade
                      /\ made'[r].shares \subseteq Shared,
         \A r \in Structs \ N : made'[r] = made[r],
         made' \in [Structs -> [shares : SUBSET Structs] \cup {Unmade}],
         UNCHANGED <<releases, calls, entries, foreign>>
  PROVE  IInv'
<1>1. Types /\ Unique /\ Importing /\ Accounts
  BY DEF IInv
<1>2. In(o) = {} /\ ~Running(o)
  BY <1>1, NotOpen DEF Importing, Consumed, Open
<1>3. /\ objects' \in [Objects -> Object \cup {Unborn, Gone}]
      /\ Elsewhere(o) /\ objects'[o] = x /\ Open(o)' /\ In(o)' = N
  BY <1>1, SetObject DEF Elsewhere
<1>4. /\ Taken(o)' = {} /\ Taken(o) = {} /\ Arrays(o)' = Arrays(o)
      /\ ~Running(o)'
  BY <1>2, SameCalls, NotRunning
<1>5. N \cap Owned = {}
  BY <1>1 DEF Accounts
<1>6. Types'
  BY <1>1, <1>3 DEF Types
<1>7. Fits(o, N)
  BY <1>2, <1>3, <1>4, <1>5, OwnsItsPlaces DEF Fits
<1>8. Consumed(o)'
  BY <1>3, <1>4 DEF Consumed
<1>9. Fills(o, N, {})
  BY <1>2, <1>3, <1>4 DEF Fills, Near
<1>10. QED
  BY <1>6, <1>7, <1>8, <1>9, FillKeeps

\* ExportData keeps the invariant.
LEMMA ExportDataKeeps ==
  ASSUME IInv, NEW o \in Objects, NEW h \in Handles, ExportData(o, h)
  PROVE  IInv'
<1>1. Types /\ Accounts
  BY DEF IInv
<1>2. PICK head \in Structs, schema \in Structs :
         /\ head # schema /\ made[schema] = Unmade /\ made[head] = Unmade
         /\ Born(o, "data", head, schema)
         /\ made' = [made EXCEPT ![head] = [shares |-> Sharing(entries[h])],
                                 ![schema] = [shares |-> {}]]
  BY DEF ExportData
<1>3. entries[h] # Absent /\ UNCHANGED <<releases, calls, entries, foreign>>
  BY DEF ExportData
<1>4. PICK x : x = [form |-> "data", head |-> head, schema |-> schema,
                    consumed |-> FALSE]
  OBVIOUS
<1>5. /\ x \in Object /\ x.head = head /\ x.schema = schema /\ ~x.consumed
      /\ objects[o] = Unborn /\ objects' = [objects EXCEPT ![o] = x]
  BY <1>2, <1>4 DEF Born, Object, Slot
<1>6. PICK N : N = {head, schema}
  OBVIOUS
<1>7. N \in SUBSET Structs /\ Filled(x) = N /\ Apart(x)
  BY <1>2, <1>5, <1>6, Marks DEF Filled, Apart
<1>8. PICK shares : shares = Sharing(entries[h])
  OBVIOUS
<1>9. shares \in SUBSET Structs /\ shares \subseteq Shared
  BY <1>1, <1>3, <1>8, SharingIsShared
<1>10. /\ made'[head] = [shares |-> shares] /\ made'[schema] = [shares |-> {}]
       /\ \A r \in Structs \ N : made'[r] = made[r]
       /\ made' \in [Structs -> [shares : SUBSET Structs] \cup {Unmade}]
  BY <1>1, <1>2, <1>6, <1>8, <1>9 DEF Types
<1>11. \A r \in N : /\ made[r] = Unmade /\ made'[r] # Unmade
                    /\ made'[r].shares \subseteq Shared
  BY <1>2, <1>6, <1>9, <1>10, Marks
<1>12. QED
  BY <1>3, <1>5, <1>7, <1>10, <1>11, ExportKeeps

\* ExportStream keeps the invariant.
LEMMA ExportStreamKeeps ==
  ASSUME IInv, NEW o \in Objects, NEW h \in Handles, ExportStream(o, h)
  PROVE  IInv'
<1>1. Types /\ Accounts
  BY DEF IInv
<1>2. PICK head \in Structs : /\ Make({head}, Sharing(entries[h]))
                              /\ Born(o, "stream", head, Empty)
  BY DEF ExportStream
<1>3. entries[h] # Absent /\ UNCHANGED <<releases, calls, entries, foreign>>
  BY DEF ExportStream
<1>4. PICK x : x = [form |-> "stream", head |-> head, schema |-> Empty,
                    consumed |-> FALSE]
  OBVIOUS
<1>5. /\ x \in Object /\ x.head = head /\ x.schema = Empty /\ ~x.consumed
      /\ objects[o] = Unborn /\ objects' = [objects EXCEPT ![o] = x]
  BY <1>2, <1>4 DEF Born, Object, Slot
<1>6. PICK N : N = {head}
  OBVIOUS
<1>7. N \in SUBSET Structs /\ Filled(x) = N /\ Apart(x)
  BY <1>5, <1>6, Marks DEF Filled, Apart
<1>8. PICK shares : shares = Sharing(entries[h])
  OBVIOUS
<1>9. shares \in SUBSET Structs /\ shares \subseteq Shared /\ Make(N, shares)
  BY <1>1, <1>2, <1>3, <1>6, <1>8, SharingIsShared
<1>10. /\ made' \in [Structs -> [shares : SUBSET Structs] \cup {Unmade}]
       /\ \A r \in N : /\ made[r] = Unmade /\ made'[r] # Unmade
                       /\ made'[r].shares = shares
       /\ \A r \in Structs \ N : made'[r] = made[r]
  BY <1>1, <1>7, <1>9, MakeStep
<1>11. QED
  BY <1>3, <1>5, <1>7, <1>9, <1>10, ExportKeeps

\* Import keeps the invariant: the structs move into the locals.
LEMMA ImportKeeps ==
  ASSUME IInv, NEW o \in Objects, Import(o)
  PROVE  IInv'
<1>1. Types /\ Unique /\ Importing /\ Accounts
  BY DEF IInv
<1>2. /\ Open(o) /\ ~objects[o].consumed
      /\ calls' = [calls EXCEPT ![o] = [head |-> objects[o].head,
                                        schema |-> objects[o].schema,
                                        arrays |-> {}]]
      /\ objects' = [objects EXCEPT ![o].consumed = TRUE, ![o].head = Empty,
                                    ![o].schema = Empty]
      /\ UNCHANGED <<made, releases, entries, foreign>>
  BY DEF Import
<1>3. /\ objects[o] \in Object /\ In(o) = Filled(objects[o]) /\ ~Running(o)
      /\ Apart(objects[o])
  BY <1>1, <1>2, OpenObject DEF Importing, Consumed, Unique
<1>4. PICK x : x = [objects[o] EXCEPT !.consumed = TRUE, !.head = Empty,
                                      !.schema = Empty]
  OBVIOUS
<1>5. /\ x \in Object /\ x.head = Empty /\ x.schema = Empty
      /\ objects' = [objects EXCEPT ![o] = x]
  BY <1>2, <1>3, <1>4 DEF Object, Slot
<1>6. PICK l : l = [head |-> objects[o].head, schema |-> objects[o].schema,
                    arrays |-> {}]
  OBVIOUS
<1>7. /\ l \in Locals /\ l.head = objects[o].head
      /\ l.schema = objects[o].schema /\ l.arrays = {}
      /\ calls' = [calls EXCEPT ![o] = l]
  BY <1>2, <1>3, <1>6 DEF Object, Locals
<1>8. /\ Filled(x) = {} /\ Apart(x) /\ Filled(l) = Filled(objects[o]) /\ Apart(l)
      /\ x.consumed
  BY <1>3, <1>4, <1>5, <1>7 DEF Filled, Apart, Object
<1>9. /\ objects' \in [Objects -> Object \cup {Unborn, Gone}]
      /\ \A p \in Objects \ {o} : objects'[p] = objects[p]
      /\ objects'[o] = x /\ Open(o)' /\ In(o)' = {}
  BY <1>1, <1>5, <1>8, SetObject
<1>10. /\ calls' \in [Objects -> Locals \cup {NoCall}]
       /\ \A p \in Objects \ {o} : calls'[p] = calls[p]
       /\ calls'[o] = l /\ Running(o)' /\ Taken(o)' = In(o) /\ Arrays(o)' = {}
  BY <1>1, <1>3, <1>7, <1>8, SetCall
<1>11. Taken(o) = {} /\ Arrays(o) = {}
  BY <1>3, NotRunning
<1>12. Types'
  BY <1>1, <1>2, <1>9, <1>10 DEF Types
<1>13. Fits(o, {})
  <2>1. Elsewhere(o)
    BY <1>9, <1>10 DEF Elsewhere
  <2>2. foreign' = foreign /\ foreign \cap In(o) = {}
    BY <1>1, <1>2 DEF Unique
  <2>3. QED
    BY <2>1, <2>2, <1>8, <1>9, <1>10, <1>11 DEF Fits
<1>14. Consumed(o)'
  BY <1>7, <1>8, <1>9, <1>10 DEF Consumed
<1>15. Near(o)' = Near(o)
  BY <1>2, <1>9, <1>10, <1>11 DEF Near
<1>16. QED
  BY <1>2, <1>10, <1>11, <1>12, <1>13, <1>14, <1>15, MoveKeeps

\* ImportArray keeps the invariant: the array turns from owned to shared.
LEMMA ImportArrayKeeps ==
  ASSUME IInv, NEW o \in Objects, ImportArray(o)
  PROVE  IInv'
<1>1. Types /\ Unique /\ Importing /\ Accounts
  BY DEF IInv
<1>2. /\ Running(o) /\ objects[o].form = "data"
      /\ calls[o].head # Empty /\ calls[o].schema # Empty
      /\ calls' = [calls EXCEPT ![o].head = Empty, ![o].arrays = {calls[o].head}]
      /\ UNCHANGED <<made, releases, objects, entries, foreign>>
  BY DEF ImportArray
<1>3. PICK x : x = calls[o].head
  OBVIOUS
<1>4. /\ calls[o] \in Locals /\ Taken(o) = Filled(calls[o])
      /\ Arrays(o) = {} /\ Apart(calls[o]) /\ x \in Structs
      /\ Open(o) /\ objects[o].consumed /\ In(o) = {}
  BY <1>1, <1>2, <1>3, RunningCall, OpenObject
     DEF Importing, Consumed, Unique, Locals, Slot
<1>5. PICK l : l = [calls[o] EXCEPT !.head = Empty, !.arrays = {x}]
  OBVIOUS
<1>6. /\ l \in Locals /\ l.head = Empty /\ l.schema = calls[o].schema
      /\ l.arrays = {x} /\ calls' = [calls EXCEPT ![o] = l]
  BY <1>2, <1>3, <1>4, <1>5 DEF Locals, Slot
<1>7. /\ Filled(l) = Filled(calls[o]) \ {x} /\ x \in Filled(calls[o]) /\ Apart(l)
  BY <1>2, <1>3, <1>4, <1>6 DEF Filled, Apart
<1>8. /\ calls' \in [Objects -> Locals \cup {NoCall}]
      /\ Elsewhere(o) /\ calls'[o] = l /\ Running(o)'
      /\ Taken(o)' = Taken(o) \ {x} /\ Arrays(o)' = {x}
  BY <1>1, <1>2, <1>4, <1>6, <1>7, SetCall DEF Elsewhere
<1>9. In(o)' = {} /\ Open(o)' /\ objects'[o] = objects[o] /\ foreign' = foreign
  BY <1>2, <1>4, SameObjects
<1>10. Types'
  BY <1>1, <1>2, <1>8 DEF Types
<1>11. Fits(o, {})
  <2>1. foreign \cap Taken(o) = {} /\ Apart(objects[o])
    BY <1>1, <1>4 DEF Unique
  <2>2. QED
    BY <2>1, <1>4, <1>7, <1>8, <1>9 DEF Fits
<1>12. Unique'
  BY <1>1, <1>11, UniqueStep
<1>13. Importing'
  <2>1. Filled(objects[o])' = {}
    BY <1>2, <1>4, <1>1, OpenObject DEF Filled
  <2>2. Consumed(o)'
    BY <2>1, <1>4, <1>6, <1>8, <1>9 DEF Consumed
  <2>3. QED
    BY <2>2, <1>1, <1>8, ImportingStep
<1>14. Accounts'
  <2>1. x \in Owned /\ Near(o) \subseteq Owned /\ x \in Taken(o) /\ x \in Near(o)
    BY <1>4, <1>7, OwnsItsPlaces DEF Near
  <2>2. foreign \cap Taken(o) = {}
    BY <1>1 DEF Unique
  <2>3. Owned' = (Owned \ Near(o)) \cup Near(o)'
    BY <1>1, <1>8, OwnedStep DEF Near
  <2>4. Near(o)' = Near(o) \ {x}
    BY <1>4, <1>8, <1>9, <2>1, <2>2 DEF Near
  <2>5. Owned' = Owned \ {x}
    BY <2>1, <2>3, <2>4
  <2>6. Arrays(o)' = Arrays(o) \cup {x} /\ entries' = entries
    BY <1>2, <1>4, <1>8
  <2>7. Direct' = Direct \cup {x}
    BY <1>8, <2>6, DirectStep
  <2>8. QED
    BY <2>1, <2>5, <2>7, <1>1, <1>2, AccountsImport
<1>15. QED
  BY <1>10, <1>12, <1>13, <1>14 DEF IInv

\* NextBatch keeps the invariant: the batch shares what its stream shares.
LEMMA NextBatchKeeps ==
  ASSUME IInv, NEW o \in Objects, NextBatch(o)
  PROVE  IInv'
<1>1. Types /\ Unique /\ Importing /\ Accounts
  BY DEF IInv
<1>2. PICK array \in Structs :
         /\ Make({array}, made[calls[o].head].shares)
         /\ calls' = [calls EXCEPT ![o].arrays = @ \cup {array}]
  BY DEF NextBatch
<1>3. /\ Running(o) /\ objects[o].form = "stream" /\ calls[o].head # Empty
      /\ UNCHANGED <<releases, objects, entries, foreign>>
  BY DEF NextBatch
<1>4. /\ calls[o] \in Locals /\ Taken(o) = Filled(calls[o])
      /\ Arrays(o) = calls[o].arrays /\ Apart(calls[o])
      /\ Open(o) /\ objects[o].consumed /\ In(o) = {}
  BY <1>1, <1>3, RunningCall, OpenObject DEF Importing, Consumed, Unique
<1>5. PICK shares : shares = made[calls[o].head].shares
  OBVIOUS
<1>6. shares \in SUBSET Structs /\ shares \subseteq Shared
  <2>1. calls[o].head \in Owned
    BY <1>3, <1>4, OwnsItsPlaces DEF Filled
  <2>2. made[calls[o].head] # Unmade /\ calls[o].head \in Structs
    BY <2>1, <1>1, OwnedAreStructs DEF Accounts
  <2>3. QED
    BY <2>1, <2>2, <1>1, <1>5, MadeShares, SharedMembers
<1>7. PICK l : l = [calls[o] EXCEPT !.arrays = @ \cup {array}]
  OBVIOUS
<1>8. /\ l \in Locals /\ l.head = calls[o].head /\ l.schema = calls[o].schema
      /\ l.arrays = calls[o].arrays \cup {array}
      /\ calls' = [calls EXCEPT ![o] = l]
  BY <1>2, <1>4, <1>7 DEF Locals
<1>9. Filled(l) = Filled(calls[o]) /\ Apart(l)
  BY <1>4, <1>8 DEF Filled, Apart
<1>10. /\ calls' \in [Objects -> Locals \cup {NoCall}]
       /\ Elsewhere(o) /\ calls'[o] = l /\ Running(o)'
       /\ Taken(o)' = Taken(o) /\ Arrays(o)' = Arrays(o) \cup {array}
  BY <1>1, <1>3, <1>4, <1>8, <1>9, SetCall DEF Elsewhere
<1>11. In(o)' = {} /\ Open(o)' /\ objects'[o] = objects[o] /\ foreign' = foreign
  BY <1>3, <1>4, SameObjects
<1>12. PICK M : M = {array}
  OBVIOUS
<1>13. /\ made' \in [Structs -> [shares : SUBSET Structs] \cup {Unmade}]
       /\ \A r \in M : /\ made[r] = Unmade /\ made'[r] # Unmade
                       /\ made'[r].shares = shares
       /\ \A r \in Structs \ M : made'[r] = made[r]
  <2>1. M \in SUBSET Structs /\ Make(M, shares)
    BY <1>2, <1>5, <1>12
  <2>2. QED
    BY <2>1, <1>1, <1>6, MakeStep
<1>14. Types'
  BY <1>1, <1>3, <1>10, <1>13 DEF Types
<1>15. Fits(o, {})
  <2>1. foreign \cap Taken(o) = {} /\ Apart(objects[o])
    BY <1>1, <1>4 DEF Unique
  <2>2. QED
    BY <2>1, <1>4, <1>9, <1>10, <1>11 DEF Fits
<1>16. Consumed(o)'
  <2>1. Filled(objects[o])' = {} /\ objects'[o].form # "data"
    BY <1>1, <1>3, <1>4, OpenObject DEF Filled
  <2>2. QED
    BY <2>1, <1>4, <1>11 DEF Consumed
<1>17. Fills(o, {}, M)
  <2>1. Near(o)' = Near(o)
    BY <1>4, <1>10, <1>11 DEF Near
  <2>2. QED
    BY <2>1, <1>3, <1>6, <1>10, <1>12, <1>13 DEF Fills
<1>18. QED
  BY <1>14, <1>15, <1>16, <1>17, FillKeeps

\* The import of o ends: what it had taken is dropped.
LEMMA EndKeeps ==
  ASSUME IInv, NEW o \in Objects, Running(o), Types',
         calls' = [calls EXCEPT ![o] = NoCall], UNCHANGED <<made, objects, foreign>>,
         Direct' \subseteq Direct, Dropping(Filled(calls[o]))
  PROVE  IInv'
<1>1. Types /\ Unique /\ Importing /\ Accounts
  BY DEF IInv
<1>2. /\ Taken(o) = Filled(calls[o]) /\ Open(o) /\ In(o) = {}
      /\ objects[o].consumed /\ Filled(objects[o]) = {}
  BY <1>1, RunningCall, OpenObject DEF Importing, Consumed
<1>3. Elsewhere(o) /\ ~Running(o)' /\ Taken(o)' = {}
  BY <1>1, EndCall DEF Elsewhere
<1>4. In(o)' = {} /\ Open(o)' /\ objects'[o] = objects[o] /\ foreign' = foreign
  BY <1>2, SameObjects
<1>5. Fits(o, {})
  <2>1. Apart(objects[o])
    BY <1>1, <1>2 DEF Unique
  <2>2. QED
    BY <2>1, <1>2, <1>3, <1>4 DEF Fits
<1>6. Consumed(o)'
  <2>1. Filled(objects[o])' = {}
    BY <1>2 DEF Filled
  <2>2. QED
    BY <2>1, <1>3 DEF Consumed
<1>7. Taken(o) \subseteq Near(o) /\ Near(o)' = Near(o) \ Taken(o)
  BY <1>1, <1>2, <1>3, <1>4 DEF Near, Unique
<1>8. QED
  BY <1>2, <1>5, <1>6, <1>7, DropKeeps

\* Insert keeps the invariant: the arrays pass from the import to the handle.
LEMMA InsertKeeps ==
  ASSUME IInv, NEW o \in Objects, Insert(o)
  PROVE  IInv'
<1>1. Types
  BY DEF IInv
<1>2. /\ Running(o) /\ calls' = [calls EXCEPT ![o] = NoCall]
      /\ UNCHANGED <<made, objects, foreign>> /\ Dropping(Filled(calls[o]))
  BY DEF Insert
<1>3. PICK h \in Handles :
         entries[h] = Absent /\ entries' = [entries EXCEPT ![h] = calls[o].arrays]
  BY DEF Insert
<1>4. calls[o].arrays = Arrays(o) /\ Arrays(o) \subseteq Structs
  BY <1>1, <1>2, RunningCall, PlacesAreStructs
<1>5. /\ calls' \in [Objects -> Locals \cup {NoCall}]
      /\ \A p \in Objects \ {o} : calls'[p] = calls[p]
      /\ Arrays(o)' = {}
  BY <1>1, <1>2, EndCall
<1>6. Types'
  BY <1>1, <1>2, <1>3, <1>4, <1>5, DroppingStep DEF Types
<1>7. Elsewhere(o)
  BY <1>2, <1>5 DEF Elsewhere
<1>8. \A p \in Objects : p # o => Arrays(p)' = Arrays(p)
  BY <1>7, OthersKeep
<1>9. \A r, g : g \in Handles /\ r \in Entry(g)' => r \in Entry(g) \/ r \in Arrays(o)
  BY <1>1, <1>3, <1>4 DEF Types, Entry
<1>10. Direct' \subseteq Direct
  BY <1>5, <1>8, <1>9, DirectMembers, DirectMembersNext
<1>11. QED
  BY <1>2, <1>6, <1>10, EndKeeps

\* Fail keeps the invariant: everything the import has taken goes.
LEMMA FailKeeps ==
  ASSUME IInv, NEW o \in Objects, Fail(o)
  PROVE  IInv'
<1>1. Types
  BY DEF IInv
<1>2. /\ Running(o) /\ calls' = [calls EXCEPT ![o] = NoCall]
      /\ UNCHANGED <<made, objects, entries, foreign>>
      /\ Dropping(Filled(calls[o]))
  BY DEF Fail
<1>3. /\ calls' \in [Objects -> Locals \cup {NoCall}]
      /\ \A p \in Objects \ {o} : calls'[p] = calls[p]
      /\ Arrays(o)' = {}
  BY <1>1, <1>2, EndCall
<1>4. Types'
  BY <1>1, <1>2, <1>3, DroppingStep DEF Types
<1>5. Elsewhere(o)
  BY <1>2, <1>3 DEF Elsewhere
<1>6. \A p \in Objects : p # o => Arrays(p)' = Arrays(p)
  BY <1>5, OthersKeep
<1>7. \A h \in Handles : Entry(h)' = Entry(h)
  BY <1>2 DEF Entry
<1>8. Direct' \subseteq Direct
  BY <1>3, <1>6, <1>7, DirectMembers, DirectMembersNext
<1>9. QED
  BY <1>2, <1>4, <1>8, EndKeeps

\* A step that changes the entries only.
LEMMA EntriesOnly ==
  ASSUME Unique, Importing, UNCHANGED <<objects, calls, foreign>>
  PROVE  /\ Unique' /\ Importing' /\ Owned' = Owned
         /\ \A p \in Objects : Arrays(p)' = Arrays(p)
<1>1. \A p \in Objects :
         /\ In(p)' = In(p) /\ Taken(p)' = Taken(p) /\ Arrays(p)' = Arrays(p)
         /\ Open(p)' = Open(p) /\ Running(p)' = Running(p)
         /\ Consumed(p)' = Consumed(p)
  BY SameObjects, SameCalls DEF Consumed, Open, Running, Filled
<1>2. Unique'
  BY <1>1 DEF Unique, Apart
<1>3. Importing'
  BY <1>1 DEF Importing
<1>4. Owned' = Owned
  BY <1>1, OwnedMembers, OwnedMembersNext
<1>5. QED
  BY <1>1, <1>2, <1>3, <1>4

\* Derive keeps the invariant.
LEMMA DeriveKeeps ==
  ASSUME IInv, NEW h \in Handles, NEW new \in Handles, Derive(h, new)
  PROVE  IInv'
<1>1. Types /\ Unique /\ Importing /\ Accounts
  BY DEF IInv
<1>2. /\ entries[h] # Absent /\ entries[new] = Absent
      /\ entries' = [entries EXCEPT ![new] = entries[h]]
      /\ UNCHANGED <<made, releases, objects, calls, foreign>>
  BY DEF Derive
<1>3. Types'
  BY <1>1, <1>2 DEF Types
<1>4. /\ Unique' /\ Importing' /\ Owned' = Owned
      /\ \A p \in Objects : Arrays(p)' = Arrays(p)
  BY <1>1, <1>2, EntriesOnly
<1>5. /\ \A g \in Handles : g # new => Entry(g)' = Entry(g)
      /\ Entry(new)' = Entry(h) /\ Entry(new) = {}
  BY <1>1, <1>2 DEF Types, Entry
<1>6. Direct' = Direct
  BY <1>4, <1>5, DirectMembers, DirectMembersNext
<1>7. Accounts'
  BY <1>1, <1>2, <1>4, <1>6, AccountsMove
<1>8. QED
  BY <1>3, <1>4, <1>7 DEF IInv

\* Release keeps the invariant.
LEMMA ReleaseKeeps ==
  ASSUME IInv, NEW h \in Handles, Release(h)
  PROVE  IInv'
<1>1. Types /\ Unique /\ Importing /\ Accounts
  BY DEF IInv
<1>2. /\ entries' = [entries EXCEPT ![h] = Absent]
      /\ UNCHANGED <<made, objects, calls, foreign>> /\ Dropping({})
  BY DEF Release
<1>3. Types'
  BY <1>1, <1>2, DroppingStep DEF Types
<1>4. /\ Unique' /\ Importing' /\ Owned' = Owned
      /\ \A p \in Objects : Arrays(p)' = Arrays(p)
  BY <1>1, <1>2, EntriesOnly
<1>5. \A g \in Handles : Entry(g)' \subseteq Entry(g)
  BY <1>1, <1>2 DEF Types, Entry
<1>6. Direct' \subseteq Direct
  BY <1>4, <1>5, DirectMembers, DirectMembersNext
<1>7. {} \subseteq Owned /\ Owned' = Owned \ {} /\ made' = made
  BY <1>2, <1>4
<1>8. Accounts'
  BY <1>1, <1>2, <1>6, <1>7, AccountsDrop
<1>9. QED
  BY <1>3, <1>4, <1>8 DEF IInv

--------------------------------------------------------------------------------
(* Theorems *)

\* Nothing is made at first.
LEMMA InitHolds ==
  ASSUME Init
  PROVE  IInv
<1>1. \A o \in Objects : /\ ~Open(o) /\ ~Running(o) /\ In(o) = {}
                         /\ Taken(o) = {} /\ Arrays(o) = {}
  BY DEF Init, Open, Running, In, Taken, Arrays
<1>2. \A h \in Handles : Entry(h) = {}
  BY DEF Init, Entry
<1>3. Owned = {} /\ Direct = {}
  BY <1>1, <1>2, OwnedMembers, DirectMembers DEF Init
<1>4. Shared = {}
  BY <1>3, SharedMembers
<1>5. Types
  BY DEF Init, Types
<1>6. Unique
  BY <1>1 DEF Unique, Init
<1>7. Importing
  BY <1>1 DEF Importing, Consumed
<1>8. Accounts
  BY <1>3, <1>4 DEF Accounts, ReleasedExactlyOnce, Init
<1>9. QED
  BY <1>5, <1>6, <1>7, <1>8 DEF IInv

\* A step that changes nothing keeps the invariant.
LEMMA StutterKeeps ==
  ASSUME IInv, UNCHANGED vars
  PROVE  IInv'
<1>1. /\ UNCHANGED <<objects, calls, foreign>>
      /\ made' = made /\ releases' = releases /\ entries' = entries
  BY DEF vars
<1>2. Types /\ Unique /\ Importing /\ Accounts
  BY DEF IInv
<1>3. /\ Unique' /\ Importing' /\ Owned' = Owned
      /\ \A p \in Objects : Arrays(p)' = Arrays(p)
  BY <1>1, <1>2, EntriesOnly
<1>4. Direct' = Direct
  BY <1>1, <1>3, DirectMembers, DirectMembersNext DEF Entry
<1>5. Accounts'
  BY <1>1, <1>2, <1>3, <1>4, AccountsMove
<1>6. Types'
  BY <1>1, <1>2 DEF Types
<1>7. QED
  BY <1>3, <1>5, <1>6 DEF IInv

\* Every step keeps the invariant.
LEMMA StepKeeps ==
  ASSUME IInv, [Next]_vars
  PROVE  IInv'
<1>1. ASSUME NEW o \in Objects,
             \/ Allocate(o) \/ Produce(o) \/ ForeignTake(o) \/ Close(o)
             \/ ExportFails(o)
      PROVE  IInv'
  BY <1>1, AllocateKeeps, ProduceKeeps, ForeignTakeKeeps, CloseKeeps,
     ExportFailsKeeps
<1>2. ASSUME NEW o \in Objects, NEW h \in Handles,
             ExportData(o, h) \/ ExportStream(o, h)
      PROVE  IInv'
  BY <1>2, ExportDataKeeps, ExportStreamKeeps
<1>3. ASSUME NEW o \in Objects,
             \/ Import(o) \/ ImportArray(o) \/ NextBatch(o) \/ Insert(o) \/ Fail(o)
      PROVE  IInv'
  BY <1>3, ImportKeeps, ImportArrayKeeps, NextBatchKeeps, InsertKeeps, FailKeeps
<1>4. ASSUME NEW h \in Handles, Release(h) \/ \E new \in Handles : Derive(h, new)
      PROVE  IInv'
  BY <1>4, ReleaseKeeps, DeriveKeeps
<1>5. ASSUME NEW r \in Structs, ForeignRelease(r)
      PROVE  IInv'
  BY <1>5, ForeignReleaseKeeps
<1>6. QED
  BY <1>1, <1>2, <1>3, <1>4, <1>5, StutterKeeps DEF Next

\* IInv holds in every state.
LEMMA Invariant == Spec => []IInv
<1>1. Init => IInv
  BY InitHolds
<1>2. IInv /\ [Next]_vars => IInv'
  BY StepKeeps
<1>3. QED
  BY <1>1, <1>2, PTL DEF Spec

\* Types, and no release callback runs twice, for every number of structs,
\* objects and handles.
THEOREM TypeCorrect == Spec => []TypeOK
<1>1. IInv => TypeOK
  <2>1. SUFFICES ASSUME Types, ReleasedExactlyOnce PROVE TypeOK
    BY DEF IInv, Accounts
  <2>2. \A r \in Structs : releases[r] \in 0..1
    BY <2>1 DEF ReleasedExactlyOnce
  <2>3. releases \in [Structs -> 0..1]
    BY <2>1, <2>2 DEF Types
  <2>4. QED
    BY <2>1, <2>3 DEF Types, TypeOK
<1>2. QED
  BY <1>1, Invariant, PTL

\* The callback of a struct has run exactly when no object, import, frame,
\* export or consumer needs the struct any more: it is never released under a
\* reader, never twice, and never forgotten by an import that fails half-way
\* (arrow_c.rs, arrow_c.dart).
THEOREM ReleasesExact == Spec => []ReleasedExactlyOnce
<1>1. IInv => ReleasedExactlyOnce
  BY DEF IInv, Accounts
<1>2. QED
  BY <1>1, Invariant, PTL

\* An import leaves the structs of its object empty from the moment it begins,
\* whatever becomes of it (take_array, take_schema and take_stream of
\* arrow_c.rs).
THEOREM ImportsEmpty == Spec => []ImportsConsume
<1>1. IInv => ImportsConsume
  BY DEF IInv, Importing, Consumed, ImportsConsume
<1>2. QED
  BY <1>1, Invariant, PTL

\* A struct whose callback has run stays released, and no step puts it back
\* into an object, an import, a frame, an export or a consumer.
ReleasedForGood ==
    [][\A r \in Structs : releases[r] = 1 =>
           releases'[r] = 1 /\ r \notin (Owned \cup Shared)']_vars

\* No step takes back the run of a callback.
LEMMA ReleasesGrow ==
  ASSUME IInv, [Next]_vars, NEW r \in Structs, releases[r] = 1
  PROVE  releases'[r] # 0
<1>1. CASE releases' = releases
  BY <1>1
<1>2. ASSUME NEW structs, Dropping(structs) PROVE releases'[r] # 0
  <2>1. PICK n \in Int : releases'[r] = releases[r] + n /\ n >= 0
    <3>1. releases'[r] = releases[r] + (IF r \in structs THEN 1 ELSE 0)
                            + (IF r \in Shared \ Shared' THEN 1 ELSE 0)
      BY <1>2 DEF Dropping
    <3>2. QED
      BY <3>1
  <2>2. QED
    BY <2>1
<1>3. ASSUME NEW o \in Objects,
             \/ Allocate(o) \/ Produce(o) \/ ForeignTake(o) \/ ExportFails(o)
             \/ Import(o) \/ ImportArray(o) \/ NextBatch(o)
             \/ \E h \in Handles : ExportData(o, h) \/ ExportStream(o, h)
      PROVE  releases' = releases
  BY <1>3 DEF Allocate, Produce, ForeignTake, ExportFails, Import, ImportArray,
              NextBatch, ExportData, ExportStream
<1>4. ASSUME NEW o \in Objects, Close(o) PROVE Dropping(Filled(objects[o]))
  BY <1>4 DEF Close
<1>5. ASSUME NEW o \in Objects, Insert(o) \/ Fail(o)
      PROVE  Dropping(Filled(calls[o]))
  BY <1>5 DEF Insert, Fail
<1>6. ASSUME NEW h \in Handles, Release(h) PROVE Dropping({})
  BY <1>6 DEF Release
<1>7. ASSUME NEW h \in Handles, NEW new \in Handles, Derive(h, new)
      PROVE  releases' = releases
  BY <1>7 DEF Derive
<1>8. ASSUME NEW s \in Structs, ForeignRelease(s) PROVE Dropping({s})
  BY <1>8 DEF ForeignRelease
<1>9. CASE UNCHANGED vars
  BY <1>1, <1>9 DEF vars
<1>10. CASE Next
  BY <1>1, <1>2, <1>3, <1>4, <1>5, <1>6, <1>7, <1>8, <1>10 DEF Next
<1>11. QED
  BY <1>9, <1>10

\* A released struct is never touched again: no clone of a frame, no export and
\* no import brings an array back whose callback has run, whatever still holds
\* a handle or an object (arrow_c.rs: the reference counts of imported arrays;
\* arrow_c.dart: consumed and closed objects).
THEOREM NeverTouchedAgain == Spec => ReleasedForGood
<1>1. IInv /\ IInv' /\ [Next]_vars =>
         \A r \in Structs : releases[r] = 1 =>
             releases'[r] = 1 /\ r \notin (Owned \cup Shared)'
  <2>1. SUFFICES ASSUME IInv, IInv', [Next]_vars, NEW r \in Structs, releases[r] = 1
                 PROVE  releases'[r] = 1 /\ r \notin (Owned \cup Shared)'
    OBVIOUS
  <2>2. releases'[r] # 0
    BY <2>1, ReleasesGrow
  <2>3. ReleasedExactlyOnce'
    BY <2>1 DEF IInv, Accounts
  <2>4. releases'[r] = IF made'[r] # Unmade /\ r \notin (Owned \cup Shared)'
                       THEN 1 ELSE 0
    BY <2>3 DEF ReleasedExactlyOnce
  <2>5. QED
    BY <2>2, <2>4
<1>2. Spec => [][Next]_vars
  BY DEF Spec
<1>3. QED
  BY <1>1, <1>2, Invariant, PTL DEF ReleasedForGood

================================================================================
