--------------------------- MODULE HandleOwnerProofs ---------------------------
(***************************************************************************)
(* Proofs about HandleOwner for any number of handles and of commands side *)
(* by side.                                                                *)
(*                                                                         *)
(* The properties lean on each other, so one invariant carries them all.   *)
(* The leases of a handle are counted (Leased), a handle with leases has   *)
(* an owner that is neither released nor garbage (LeaseKeeps), and what is *)
(* in somebody's hands is live and in nobody else's (HeldLive, OneHolder): *)
(* hence every input of a command under way is live, and every release     *)
(* asked for is of a live handle.  That nothing live is out of all hands   *)
(* is the one part that needs every handle to be representable in Dart.    *)
(*                                                                         *)
(* From the same invariant follows the life of a handle: which steps of    *)
(* its owner and of the registry come together, and in which order, and    *)
(* that each handle taken alone is an entry of the abstract handle table.  *)
(*                                                                         *)
(* The last section is about the same wrappers one level up: Session, the  *)
(* methods of the package and the commands they send.  Its theorems rest   *)
(* on TablesAgree, a fact about the two finite tables that TLC evaluates.  *)
(***************************************************************************)
EXTENDS HandleOwner, Session, FiniteSetTheorems, SequenceTheorems, TLAPS

\* A command, as TypeOK has it.
Command == [phase : {"idle", "sent", "answered"}, inputs : Inputs,
            results : SUBSET Handles]

\* TypeOK, with the domain of the commands, and no release refused.
Shape ==
    /\ TableType
    /\ owners \in [Handles -> Owner]
    /\ commands \in [Commands -> Command]
    /\ failures = {}

\* LeasesExact: the leases of a handle are finitely many and counted.
Leased == \A h \in Handles : IsFiniteSet(held(h)) /\ owners[h].leases = Cardinality(held(h))

\* An owner with leases is neither released nor garbage, and only leases keep
\* a closed one from being released.
LeaseKeeps(o) ==
    /\ o.leases > 0 => o.phase \in {"open", "closing"} /\ o.reachable
    /\ o.phase = "closing" => o.leases > 0

\* What a command has at each of its stages.
Staged(k) ==
    /\ k.phase = "idle" => k = Idle
    /\ k.phase # "answered" => k.results = {}

results(c) == commands[c].results

\* Nothing is in two hands: a handle is an owner's or in one answer.
OneHolder ==
    /\ \A c \in Commands : owned \cap results(c) = {}
    /\ \A c, d \in Commands : c # d => results(c) \cap results(d) = {}

\* What is in somebody's hands is live.
HeldLive == owned \subseteq live /\ \A c \in Commands : results(c) \subseteq live

\* With readable handles, nothing live is out of everybody's hands.
NothingLeaks ==
    Representable = Handles =>
        live \subseteq owned \cup UNION {results(c) : c \in Commands}

\* The inductive invariant.
IInv ==
    /\ Shape
    /\ Leased
    /\ \A h \in Handles : LeaseKeeps(owners[h])
    /\ \A c \in Commands : Staged(commands[c])
    /\ OneHolder
    /\ HeldLive
    /\ NothingLeaks

--------------------------------------------------------------------------------
(* Counting leases *)

\* Where h stands among some inputs.
places(inputs, h) == {k \in DOMAIN inputs : inputs[k] = h}

\* A handle stands at most at two places of a command's inputs, which is how
\* often the command leases it.
LEMMA Places ==
    ASSUME NEW inputs \in Inputs, NEW h
    PROVE  /\ places(inputs, h) \in SUBSET (1..2)
           /\ uses(inputs, h) = Cardinality(places(inputs, h))
           /\ \A k \in DOMAIN inputs : inputs[k] \in Handles /\ k \in 1..2
<1>1. PICK n \in 0..2 : inputs \in [1..n -> Handles]
  BY DEF Inputs
<1>2. QED
  BY <1>1 DEF places, uses

pairs(c, U) == {<<c, k>> : k \in U}

\* Leases of one command join those of the others without overlap, so their
\* numbers add up.
LEMMA Join ==
    ASSUME NEW A, IsFiniteSet(A), NEW c, NEW U \in SUBSET (1..2),
           \A k : <<c, k>> \notin A,
           NEW J, J = A \cup pairs(c, U)
    PROVE  /\ IsFiniteSet(J)
           /\ Cardinality(A) \in Nat /\ Cardinality(U) \in 0..2
           /\ Cardinality(J) = Cardinality(A) + Cardinality(U)
<1>1. U = {} \/ U = {1} \/ U = {2} \/ U = {1} \cup {2}
  <2>1. \A k \in U : k = 1 \/ k = 2
    OBVIOUS
  <2>2. CASE 1 \in U /\ 2 \in U
    BY <2>1, <2>2
  <2>3. CASE 1 \in U /\ 2 \notin U
    BY <2>1, <2>3
  <2>4. CASE 1 \notin U
    BY <2>1, <2>4
  <2>5. QED
    BY <2>2, <2>3, <2>4
<1>2. Cardinality(A) \in Nat
  BY FS_CardinalityType
<1>3. ASSUME NEW k
      PROVE  /\ IsFiniteSet(A \cup {<<c, k>>})
             /\ Cardinality(A \cup {<<c, k>>}) = Cardinality(A) + 1
  BY FS_AddElement
<1>4. CASE U = {}
  <2>1. J = A
    BY <1>4 DEF pairs
  <2>2. Cardinality(U) = 0
    BY <1>4, FS_EmptySet
  <2>3. QED
    BY <1>2, <2>1, <2>2
<1>5. ASSUME NEW i \in 1..2, U = {i}
      PROVE  /\ IsFiniteSet(J)
             /\ Cardinality(U) \in 0..2
             /\ Cardinality(J) = Cardinality(A) + Cardinality(U)
  <2>1. J = A \cup {<<c, i>>}
    BY <1>5 DEF pairs
  <2>2. Cardinality(U) = 1
    BY <1>5, FS_Singleton
  <2>3. IsFiniteSet(J) /\ Cardinality(J) = Cardinality(A) + 1
    BY <1>3, <2>1
  <2>4. QED
    BY <2>2, <2>3
<1>6. CASE U = {1} \cup {2}
  <2>1. J = (A \cup {<<c, 1>>}) \cup {<<c, 2>>}
    BY <1>6 DEF pairs
  <2>2. <<c, 2>> \notin A \cup {<<c, 1>>}
    OBVIOUS
  <2>3. /\ IsFiniteSet((A \cup {<<c, 1>>}) \cup {<<c, 2>>})
        /\ Cardinality((A \cup {<<c, 1>>}) \cup {<<c, 2>>})
              = Cardinality(A \cup {<<c, 1>>}) + 1
    BY <1>3, <2>2, FS_AddElement
  <2>4. Cardinality(U) = 2
    <3>1. IsFiniteSet({1}) /\ Cardinality({1}) = 1
      BY FS_Singleton
    <3>2. Cardinality({1} \cup {2}) = Cardinality({1}) + 1
      <4>1. 2 \notin {1}
        OBVIOUS
      <4>2. QED
        BY <3>1, <4>1, FS_AddElement
    <3>3. QED
      BY <1>6, <3>1, <3>2
  <2>5. IsFiniteSet(J) /\ Cardinality(J) = (Cardinality(A) + 1) + 1
    BY <1>3, <2>1, <2>3
  <2>6. QED
    BY <1>2, <2>4, <2>5
<1>7. QED
  BY <1>1, <1>2, <1>4, <1>5, <1>6

\* The leases of h that other commands have.
others(c, h) == {p \in held(h) : p[1] # c}

\* What becomes of the leases of h when command c moves on to r.
LEMMA Recount ==
    ASSUME IInv, NEW c \in Commands, NEW r \in Command,
           commands' = [commands EXCEPT ![c] = r], NEW h \in Handles
    PROVE  /\ IsFiniteSet(held(h)')
           /\ uses(r.inputs, h) \in 0..2
           /\ uses(commands[c].inputs, h) \in 0..2
           /\ owners[h].leases \in Nat
           /\ owners[h].leases >= uses(commands[c].inputs, h)
           /\ Cardinality(held(h)') =
                 owners[h].leases - uses(commands[c].inputs, h) + uses(r.inputs, h)
<1> DEFINE old == places(commands[c].inputs, h)
           new == places(r.inputs, h)
<1>1. /\ commands[c].inputs \in Inputs /\ r.inputs \in Inputs
      /\ commands \in [Commands -> Command]
  BY DEF IInv, Shape, Command
<1>2. /\ old \in SUBSET (1..2) /\ uses(commands[c].inputs, h) = Cardinality(old)
      /\ new \in SUBSET (1..2) /\ uses(r.inputs, h) = Cardinality(new)
  BY <1>1, Places
<1>3. IsFiniteSet(held(h)) /\ owners[h].leases = Cardinality(held(h))
  BY DEF IInv, Leased
<1>4. IsFiniteSet(others(c, h)) /\ \A k : <<c, k>> \notin others(c, h)
  <2>1. others(c, h) \in SUBSET held(h)
    BY DEF others
  <2>2. QED
    BY <1>3, <2>1, FS_Subset DEF others
<1>5. held(h) = others(c, h) \cup pairs(c, old)
  BY <1>1, <1>2 DEF held, others, places, pairs
<1>6. held(h)' = others(c, h) \cup pairs(c, new)
  BY <1>1, <1>2 DEF held, others, places, pairs
<1> HIDE DEF old, new
<1>10. PICK J : J = others(c, h) \cup pairs(c, old)
  OBVIOUS
<1>11. PICK K : K = others(c, h) \cup pairs(c, new)
  OBVIOUS
<1>7. /\ Cardinality(others(c, h)) \in Nat
      /\ Cardinality(old) \in 0..2
      /\ Cardinality(held(h)) = Cardinality(others(c, h)) + Cardinality(old)
  <2>1. /\ Cardinality(others(c, h)) \in Nat
        /\ Cardinality(old) \in 0..2
        /\ Cardinality(J) = Cardinality(others(c, h)) + Cardinality(old)
    BY <1>2, <1>4, <1>10, Join
  <2>2. QED
    BY <1>5, <1>10, <2>1
<1>8. /\ IsFiniteSet(held(h)')
      /\ Cardinality(new) \in 0..2
      /\ Cardinality(held(h)') = Cardinality(others(c, h)) + Cardinality(new)
  <2>1. /\ IsFiniteSet(K)
        /\ Cardinality(new) \in 0..2
        /\ Cardinality(K) = Cardinality(others(c, h)) + Cardinality(new)
    BY <1>2, <1>4, <1>11, Join
  <2>2. QED
    BY <1>6, <1>11, <2>1
<1>9. QED
  BY <1>2, <1>3, <1>7, <1>8

\* A handle among the inputs of a command under way has a lease.
LEMMA InputLeased ==
    ASSUME IInv, NEW c \in Commands, NEW k \in DOMAIN commands[c].inputs
    PROVE  commands[c].inputs[k] \in owned \cap live
<1>1. commands[c].inputs \in Inputs
  BY DEF IInv, Shape, Command
<1>2. PICK h \in Handles : h = commands[c].inputs[k]
  BY <1>1, Places
<1>3. <<c, k>> \in held(h)
  BY <1>1, <1>2, Places DEF held
<1>4. Cardinality(held(h)) # 0 /\ Cardinality(held(h)) \in Nat
  BY <1>3, FS_EmptySet, FS_CardinalityType DEF IInv, Leased
<1>5. owners[h].leases > 0
  BY <1>4 DEF IInv, Leased
<1>6. h \in owned
  BY <1>5 DEF IInv, LeaseKeeps, owned
<1>7. QED
  BY <1>2, <1>6 DEF IInv, HeldLive

--------------------------------------------------------------------------------
(* The steps *)

\* The invariant holds before the first command.
LEMMA InitInvariant == Init => IInv
<1> SUFFICES ASSUME Init PROVE IInv
  OBVIOUS
<1> USE DEF Init, TableInit
<1>1a. <<>> \in Inputs
  <2>1. 0 \in 0..2 /\ <<>> \in [1..0 -> Handles]
    OBVIOUS
  <2>2. QED
    BY <2>1 DEF Inputs
<1>1. Idle \in Command
  BY <1>1a DEF Idle, Command
<1>2. Shape
  BY <1>1 DEF Shape, TableType, NoOwner, Owner
<1>3. live = {} /\ owned = {} /\ \A c \in Commands : results(c) = {}
  BY HandleOwnerAssumption DEF live, owned, NoOwner, results, Idle
<1>4. Leased
  <2> SUFFICES ASSUME NEW h \in Handles
               PROVE  IsFiniteSet(held(h)) /\ owners[h].leases = Cardinality(held(h))
    BY DEF Leased
  <2>1. held(h) = {}
    BY DEF held, Idle
  <2>2. QED
    BY <2>1, FS_EmptySet DEF NoOwner
<1>5. \A h \in Handles : LeaseKeeps(owners[h])
  <2>1. LeaseKeeps(NoOwner)
    BY DEF NoOwner, LeaseKeeps
  <2>2. QED
    BY <2>1
<1>6. \A c \in Commands : Staged(commands[c])
  BY DEF Staged, Idle
<1>7. QED
  BY <1>2, <1>3, <1>4, <1>5, <1>6 DEF IInv, OneHolder, HeldLive, NothingLeaks

\* Releasing handles takes them out of the live ones.
LEMMA Spending ==
    ASSUME TableType, NEW S \in SUBSET Handles, table' = spend(S)
    PROVE  TableType' /\ live' = live \ S
  BY HandleOwnerAssumption DEF TableType, spend, live

\* An owner moves on: it stays, with its leases, or is released.
Moves(h, o) ==
    /\ owners' = [owners EXCEPT ![h] = o]
    /\ UNCHANGED <<commands, failures>>
    /\ o.leases = owners[h].leases
    /\ \/ o.phase \in {"open", "closing"} /\ table' = table
       \/ o.phase = "released" /\ table' = spend({h})

\* An owner that moves on with its leases, released or not, keeps the invariant:
\* a released handle leaves the table and the owners together.
LEMMA MovesStep ==
    ASSUME IInv, NEW h \in owned, NEW o \in Owner, Moves(h, o), LeaseKeeps(o)
    PROVE  IInv'
<1>1. h \in Handles
  BY DEF owned
<1>2. /\ owners' \in [Handles -> Owner] /\ owners'[h] = o
      /\ \A i \in Handles \ {h} : owners'[i] = owners[i]
  BY <1>1 DEF Moves, IInv, Shape
<1>3. \A i \in Handles : held(i)' = held(i)
  BY DEF Moves, held
<1>4. \A c \in Commands : results(c)' = results(c)
  BY DEF Moves, results
<1>5. \A c \in Commands : h \notin results(c)
  BY DEF IInv, OneHolder
<1>6. Leased'
  BY <1>1, <1>2, <1>3 DEF Moves, IInv, Leased
<1>7. \A i \in Handles : LeaseKeeps(owners'[i])
  BY <1>2 DEF IInv
<1>8. \A c \in Commands : Staged(commands'[c])
  BY DEF Moves, IInv
<1>9. CASE o.phase \in {"open", "closing"} /\ table' = table
  <2>1. owned' = owned /\ live' = live
    BY <1>1, <1>2, <1>9 DEF owned, live
  <2>2. Shape'
    BY <1>2, <1>9 DEF Moves, IInv, Shape, TableType
  <2>3. OneHolder' /\ HeldLive' /\ NothingLeaks'
    BY <1>4, <2>1 DEF IInv, OneHolder, HeldLive, NothingLeaks
  <2>4. QED
    BY <1>6, <1>7, <1>8, <2>2, <2>3 DEF IInv
<1>10. CASE o.phase = "released" /\ table' = spend({h})
  <2>1. owned' = owned \ {h}
    BY <1>1, <1>2, <1>10 DEF owned
  <2>2. TableType' /\ live' = live \ {h}
    BY <1>1, <1>10, Spending DEF IInv, Shape
  <2>3. Shape'
    BY <1>2, <2>2 DEF Moves, IInv, Shape
  <2>4. OneHolder' /\ HeldLive'
    BY <1>4, <1>5, <2>1, <2>2 DEF IInv, OneHolder, HeldLive
  <2>5. NothingLeaks'
    BY <1>4, <2>1, <2>2 DEF IInv, NothingLeaks
  <2>6. QED
    BY <1>6, <1>7, <1>8, <2>3, <2>4, <2>5 DEF IInv
<1>11. QED
  BY <1>9, <1>10 DEF Moves

\* An open owner moves on.
OpenMoves(h) ==
    /\ h \in owned /\ owners[h].phase = "open"
    /\ \E o \in Owner : Moves(h, o) /\ LeaseKeeps(o)

\* close() moves an open owner on, with leases outstanding or without.
LEMMA CloseMoves ==
    ASSUME IInv, NEW h \in Handles, Close(h)
    PROVE  OpenMoves(h)
<1>1. PICK p : p = IF owners[h].leases = 0 THEN "released" ELSE "closing"
  OBVIOUS
<1>2. PICK o : o = [owners[h] EXCEPT !.phase = p]
  OBVIOUS
<1>3. PICK after : after = [owners EXCEPT ![h] = o]
  OBVIOUS
<1>4. /\ owners[h].phase = "open" /\ owners[h].reachable /\ commands' = commands
      /\ owners' = after /\ release(newlyReleased(after))
  BY <1>1, <1>2, <1>3 DEF Close, usable
<1>5. owners[h] \in Owner /\ owners \in [Handles -> Owner] /\ TableType
  BY DEF IInv, Shape
<1>6. /\ o \in Owner /\ o.phase = p /\ o.leases = owners[h].leases
      /\ LeaseKeeps(o)
  BY <1>1, <1>2, <1>4, <1>5 DEF Owner, LeaseKeeps
<1>7. h \in owned /\ h \in live
  BY <1>4 DEF owned, IInv, HeldLive
<1>8. newlyReleased(after) = IF p = "released" THEN {h} ELSE {}
  BY <1>1, <1>3, <1>4, <1>5, <1>6 DEF newlyReleased
<1>9. failures' = failures
  BY <1>4, <1>7, <1>8 DEF release
<1>10. \/ o.phase \in {"open", "closing"} /\ table' = table
       \/ o.phase = "released" /\ table' = spend({h})
  <2>1. CASE p = "released"
    BY <1>4, <1>6, <1>8, <2>1 DEF release
  <2>2. CASE p = "closing"
    BY <1>4, <1>5, <1>6, <1>8, <2>2 DEF release, spend, TableType
  <2>3. QED
    BY <1>1, <2>1, <2>2
<1>11. Moves(h, o)
  BY <1>3, <1>4, <1>6, <1>9, <1>10 DEF Moves
<1>12. QED
  BY <1>4, <1>6, <1>7, <1>11 DEF OpenMoves

\* Dropping the last reference moves an open owner without leases on.
LEMMA ForgetMoves ==
    ASSUME IInv, NEW h \in Handles, Forget(h)
    PROVE  OpenMoves(h)
<1>1. PICK o : o = [owners[h] EXCEPT !.reachable = FALSE]
  OBVIOUS
<1>2. /\ owners[h].phase = "open" /\ owners[h].leases = 0
      /\ owners' = [owners EXCEPT ![h] = o]
      /\ UNCHANGED <<table, commands, failures>>
  BY <1>1 DEF Forget, usable
<1>3. o \in Owner /\ o.phase = "open" /\ o.leases = 0
  BY <1>1, <1>2 DEF IInv, Shape, Owner
<1>4. h \in owned /\ LeaseKeeps(o) /\ Moves(h, o)
  BY <1>2, <1>3 DEF owned, LeaseKeeps, Moves
<1>5. QED
  BY <1>2, <1>3, <1>4 DEF OpenMoves

\* The finalizer moves an unreachable owner on: it has no leases, and its handle
\* is live.
LEMMA FinalizeMoves ==
    ASSUME IInv, NEW h \in Handles, Finalize(h)
    PROVE  OpenMoves(h)
<1>1. PICK o : o = [owners[h] EXCEPT !.phase = "released"]
  OBVIOUS
<1>2. /\ owners[h].phase = "open" /\ ~owners[h].reachable
      /\ owners' = [owners EXCEPT ![h] = o]
      /\ table' = spend({h})
      /\ UNCHANGED <<commands, failures>>
  BY <1>1 DEF Finalize
<1>3. o \in Owner /\ o.phase = "released" /\ o.leases = owners[h].leases
  BY <1>1 DEF IInv, Shape, Owner
<1>4. ~(owners[h].leases > 0)
  BY <1>2 DEF IInv, LeaseKeeps
<1>5. h \in owned /\ LeaseKeeps(o) /\ Moves(h, o)
  BY <1>2, <1>3, <1>4 DEF owned, LeaseKeeps, Moves
<1>6. QED
  BY <1>2, <1>3, <1>5 DEF OpenMoves

\* _leaseAll keeps the invariant: each input is leased as often as it is listed.
LEMMA StartStep ==
    ASSUME IInv, NEW c \in Commands, Start(c)
    PROVE  IInv'
<1>1. PICK inputs \in Inputs :
         /\ \A k \in DOMAIN inputs : usable(inputs[k])
         /\ owners' = [h \in Handles |->
                         [owners[h] EXCEPT !.leases = @ + uses(inputs, h)]]
         /\ commands' = [commands EXCEPT ![c].phase = "sent", ![c].inputs = inputs]
  BY DEF Start
<1>2. commands[c] = Idle /\ UNCHANGED <<table, failures>>
  BY DEF Start
<1>3. PICK r : r = [commands[c] EXCEPT !.phase = "sent", !.inputs = inputs]
  OBVIOUS
<1>4. /\ r \in Command /\ r.phase = "sent" /\ r.inputs = inputs /\ r.results = {}
      /\ commands[c].results = {}
  <2>1. commands[c] \in Command
    BY DEF IInv, Shape
  <2>2. commands[c].results = {}
    BY <1>2 DEF Idle
  <2>3. QED
    BY <1>3, <2>1, <2>2 DEF Command
<1>5. commands \in [Commands -> Command] /\ owners \in [Handles -> Owner]
  BY DEF IInv, Shape
<1>6. commands' = [commands EXCEPT ![c] = r]
  BY <1>1, <1>3
<1>7. /\ commands' \in [Commands -> Command]
      /\ \A d \in Commands : results(d)' = results(d) /\ Staged(commands'[d])
  BY <1>4, <1>5, <1>6 DEF results, Staged, IInv
<1>8. ASSUME NEW h \in Handles
      PROVE  /\ owners'[h] \in Owner /\ owners'[h].phase = owners[h].phase
             /\ IsFiniteSet(held(h)') /\ owners'[h].leases = Cardinality(held(h)')
             /\ LeaseKeeps(owners'[h])
  <2>1. uses(commands[c].inputs, h) = 0
    <3>1. {k \in DOMAIN commands[c].inputs : commands[c].inputs[k] = h} = {}
      BY <1>2 DEF Idle
    <3>2. QED
      BY <3>1, FS_EmptySet DEF uses
  <2>2. /\ IsFiniteSet(held(h)') /\ uses(inputs, h) \in 0..2
        /\ owners[h].leases \in Nat
        /\ Cardinality(held(h)') = owners[h].leases + uses(inputs, h)
    <3>1. /\ IsFiniteSet(held(h)') /\ uses(r.inputs, h) \in 0..2
          /\ owners[h].leases \in Nat
          /\ Cardinality(held(h)') =
                owners[h].leases - uses(commands[c].inputs, h) + uses(r.inputs, h)
      BY <1>4, <1>6, Recount
    <3>2. QED
      BY <1>4, <2>1, <3>1
  <2>3. /\ owners'[h] = [owners[h] EXCEPT !.leases = @ + uses(inputs, h)]
        /\ owners[h] \in Owner
    BY <1>1, <1>5
  <2>4. /\ owners'[h] \in Owner /\ owners'[h].phase = owners[h].phase
        /\ owners'[h].reachable = owners[h].reachable
        /\ owners'[h].leases = owners[h].leases + uses(inputs, h)
    BY <2>2, <2>3 DEF Owner
  <2>5. uses(inputs, h) # 0 => usable(h)
    <3>1. CASE {k \in DOMAIN inputs : inputs[k] = h} = {}
      BY <3>1, FS_EmptySet DEF uses
    <3>2. CASE {k \in DOMAIN inputs : inputs[k] = h} # {}
      BY <1>1, <3>2
    <3>3. QED
      BY <3>1, <3>2
  <2>6. LeaseKeeps(owners[h])
    BY DEF IInv
  <2>7. LeaseKeeps(owners'[h])
    BY <2>2, <2>4, <2>5, <2>6 DEF LeaseKeeps, usable
  <2>8. QED
    BY <2>2, <2>4, <2>7
<1>9. owners' \in [Handles -> Owner]
  <2>1. owners' = [h \in Handles |-> owners'[h]]
    BY <1>1
  <2>2. QED
    BY <1>8, <2>1
<1>10. owned' = owned /\ live' = live
  BY <1>2, <1>8 DEF owned, live
<1>11. Shape'
  BY <1>2, <1>7, <1>9 DEF IInv, Shape, TableType
<1>12. Leased'
  BY <1>8 DEF Leased
<1>13. OneHolder' /\ HeldLive' /\ NothingLeaks'
  BY <1>7, <1>10 DEF IInv, OneHolder, HeldLive, NothingLeaks
<1>14. QED
  BY <1>7, <1>8, <1>11, <1>12, <1>13 DEF IInv

\* An answer's handles are fresh, so nobody else has them.
LEMMA ServeStep ==
    ASSUME IInv, NEW c \in Commands, Serve(c)
    PROVE  IInv'
<1>1. PICK new \in SUBSET Handles, e \in Entry :
         /\ \A h \in new : table[h] = Unissued
         /\ table' = [h \in Handles |-> IF h \in new THEN e ELSE table[h]]
         /\ commands' = [commands EXCEPT ![c].phase = "answered", ![c].results = new]
  BY DEF Serve
<1>2. commands[c].phase = "sent" /\ UNCHANGED <<owners, failures>>
  BY DEF Serve
<1>3. PICK r : r = [commands[c] EXCEPT !.phase = "answered", !.results = new]
  OBVIOUS
<1>4. commands \in [Commands -> Command] /\ TableType
  BY DEF IInv, Shape
<1>5. /\ r \in Command /\ r.phase = "answered" /\ r.results = new
      /\ r.inputs = commands[c].inputs
  BY <1>3, <1>4 DEF Command
<1>6. commands' = [commands EXCEPT ![c] = r]
  BY <1>1, <1>3
<1>7. /\ commands' \in [Commands -> Command]
      /\ results(c)' = new
      /\ \A d \in Commands \ {c} : results(d)' = results(d)
      /\ \A d \in Commands : Staged(commands'[d])
  BY <1>4, <1>5, <1>6 DEF results, IInv, Staged
<1>8. results(c) = {}
  BY <1>2 DEF results, IInv, Staged
<1>9. TableType' /\ live' = live \cup new
  BY <1>1, <1>4, HandleOwnerAssumption DEF TableType, live
<1>10. new \cap live = {}
  BY <1>1, HandleOwnerAssumption DEF live
<1>11. owned' = owned
  BY <1>2 DEF owned
<1>12. Shape'
  BY <1>2, <1>7, <1>9 DEF IInv, Shape
<1>13. Leased'
  <2> SUFFICES ASSUME NEW h \in Handles
               PROVE  /\ IsFiniteSet(held(h)')
                      /\ owners'[h].leases = Cardinality(held(h)')
    BY DEF Leased
  <2>1. /\ IsFiniteSet(held(h)') /\ uses(r.inputs, h) \in 0..2
        /\ owners[h].leases \in Nat
        /\ Cardinality(held(h)') =
              owners[h].leases - uses(commands[c].inputs, h) + uses(r.inputs, h)
    BY <1>5, <1>6, Recount
  <2>2. QED
    BY <1>2, <1>5, <2>1
<1>14. OneHolder'
  BY <1>7, <1>10, <1>11 DEF IInv, OneHolder, HeldLive
<1>15. HeldLive'
  BY <1>7, <1>9, <1>11 DEF IInv, HeldLive
<1>16. NothingLeaks'
  <2> SUFFICES ASSUME Representable = Handles, NEW h \in live',
                      h \notin owned'
               PROVE  \E d \in Commands : h \in results(d)'
    BY DEF NothingLeaks
  <2>1. CASE h \in new
    BY <1>7, <2>1
  <2>2. CASE h \in live
    BY <1>7, <1>8, <1>11, <2>2 DEF IInv, NothingLeaks
  <2>3. QED
    BY <1>9, <2>1, <2>2
<1>17. \A h \in Handles : LeaseKeeps(owners'[h])
  BY <1>2 DEF IInv
<1>18. QED
  BY <1>7, <1>12, <1>13, <1>14, <1>15, <1>16, <1>17 DEF IInv

\* What the end of a command's leases does to the owner of h.
LEMMA LeasesEnd ==
    ASSUME IInv, NEW c \in Commands, NEW r \in Command, r.inputs = <<>>,
           commands' = [commands EXCEPT ![c] = r],
           NEW h \in Handles, NEW before, before = endLeases(commands[c].inputs)
    PROVE  /\ before[h] \in Owner
           /\ IsFiniteSet(held(h)') /\ before[h].leases = Cardinality(held(h)')
           /\ LeaseKeeps(before[h])
           /\ before[h].phase \in {"open", "closing"} => owners[h].phase = before[h].phase
           /\ owners[h].phase \in {"open", "closing"} =>
                 before[h].phase \in {"open", "closing", "released"}
           /\ owners[h].phase \notin {"open", "closing"} =>
                 before[h].phase = owners[h].phase /\ before[h].leases = 0
<1> DEFINE n == uses(commands[c].inputs, h)
<1>1. uses(r.inputs, h) = 0
  <2>1. {k \in DOMAIN r.inputs : r.inputs[k] = h} = {}
    OBVIOUS
  <2>2. QED
    BY <2>1, FS_EmptySet DEF uses
<1>2. /\ IsFiniteSet(held(h)') /\ n \in 0..2 /\ owners[h].leases \in Nat
      /\ owners[h].leases >= n
      /\ Cardinality(held(h)') = owners[h].leases - n
  <2>1. /\ IsFiniteSet(held(h)') /\ n \in 0..2 /\ owners[h].leases \in Nat
        /\ owners[h].leases >= n
        /\ Cardinality(held(h)') = owners[h].leases - n + uses(r.inputs, h)
    BY Recount
  <2>2. QED
    BY <1>1, <2>1
<1>3. owners[h] \in Owner /\ LeaseKeeps(owners[h])
  BY DEF IInv, Shape
<1>4. before[h] = [owners[h] EXCEPT
                     !.leases = owners[h].leases - n,
                     !.phase = IF owners[h].phase = "closing" /\ owners[h].leases - n = 0
                               THEN "released" ELSE owners[h].phase]
  BY DEF endLeases
<1> HIDE DEF n
<1>7. PICK left \in Nat : left = owners[h].leases - n
  <2>1. owners[h].leases - n \in Nat
    BY <1>2
  <2>2. QED
    BY <2>1
<1>8. PICK p : p = IF owners[h].phase = "closing" /\ left = 0
                   THEN "released" ELSE owners[h].phase
  OBVIOUS
<1>9. before[h] = [owners[h] EXCEPT !.leases = left, !.phase = p]
  BY <1>4, <1>7, <1>8
<1>5. /\ before[h] \in Owner
      /\ before[h].leases = owners[h].leases - n
      /\ before[h].reachable = owners[h].reachable
      /\ before[h].phase = IF owners[h].phase = "closing" /\ owners[h].leases - n = 0
                           THEN "released" ELSE owners[h].phase
  BY <1>3, <1>7, <1>8, <1>9 DEF Owner
<1>6. QED
  BY <1>2, <1>3, <1>5 DEF LeaseKeeps, Owner

\* What is released of the results of c when only some are adopted.
given(c, adopted) == IF adopted = {} THEN results(c) \cap Representable ELSE {}

\* The command c is over: its leases have ended, and all of its results have an
\* owner or all were given up; what was released has left the table.
Finishes(c, adopted, released) ==
    /\ commands' = [commands EXCEPT ![c] = Idle]
    /\ failures' = failures
    /\ released = newlyReleased(endLeases(commands[c].inputs)) \cup given(c, adopted)
    /\ table' = spend(released)
    /\ adopted # {} => adopted = results(c)
    /\ \A h \in Handles :
          IF h \in adopted THEN \E token \in BOOLEAN : owners'[h] = NewOwner(token)
          ELSE owners'[h] = endLeases(commands[c].inputs)[h]
    /\ owners' = [h \in Handles |-> owners'[h]]

\* The end of a command keeps the invariant: its leases end, owners whose close
\* was waiting are released, and its results are adopted or given up.
LEMMA FinishesStep ==
    ASSUME IInv, NEW c \in Commands, NEW adopted \in SUBSET results(c),
           NEW released \in SUBSET Handles, Finishes(c, adopted, released)
    PROVE  IInv'
<1>1. PICK before : before = endLeases(commands[c].inputs)
  OBVIOUS
<1>1a. /\ released = newlyReleased(before) \cup given(c, adopted)
       /\ adopted # {} => adopted = results(c)
       /\ TableType' /\ live' = live \ released
  BY <1>1, Spending DEF Finishes, IInv, Shape
<1>2. /\ commands \in [Commands -> Command] /\ Idle \in Command
      /\ Idle.inputs = <<>> /\ Idle.results = {}
  <2>1. <<>> \in Inputs
    <3>1. 0 \in 0..2 /\ <<>> \in [1..0 -> Handles]
      OBVIOUS
    <3>2. QED
      BY <3>1 DEF Inputs
  <2>2. QED
    BY <2>1 DEF IInv, Shape, Idle, Command
<1>3. /\ commands' \in [Commands -> Command]
      /\ results(c)' = {}
      /\ \A d \in Commands \ {c} : results(d)' = results(d)
      /\ \A d \in Commands : Staged(commands'[d])
  BY <1>2 DEF Finishes, results, IInv, Staged
<1>4. ASSUME NEW h \in Handles
      PROVE  /\ before[h] \in Owner
             /\ IsFiniteSet(held(h)') /\ before[h].leases = Cardinality(held(h)')
             /\ LeaseKeeps(before[h])
             /\ before[h].phase \in {"open", "closing"} =>
                   owners[h].phase = before[h].phase
             /\ owners[h].phase \in {"open", "closing"} =>
                   before[h].phase \in {"open", "closing", "released"}
             /\ owners[h].phase \notin {"open", "closing"} =>
                   before[h].phase = owners[h].phase /\ before[h].leases = 0
  <2>1. commands' = [commands EXCEPT ![c] = Idle]
    BY DEF Finishes
  <2>2. QED
    BY <1>1, <1>2, <2>1, LeasesEnd
<1>5. /\ results(c) \subseteq live /\ results(c) \cap owned = {}
      /\ results(c) \subseteq Handles
  BY DEF IInv, HeldLive, OneHolder, live
<1>6. \A h \in adopted : \E token \in BOOLEAN : owners'[h] = NewOwner(token)
  BY <1>5 DEF Finishes
<1>7. \A h \in Handles \ adopted : owners'[h] = before[h]
  BY <1>1 DEF Finishes
<1>8. ASSUME NEW h \in Handles
      PROVE  /\ owners'[h] \in Owner
             /\ IsFiniteSet(held(h)') /\ owners'[h].leases = Cardinality(held(h)')
             /\ LeaseKeeps(owners'[h])
  <2>1. CASE h \in adopted
    <3>1. PICK token \in BOOLEAN : owners'[h] = NewOwner(token)
      BY <1>6, <2>1
    <3>2. owners'[h] \in Owner /\ owners'[h].leases = 0 /\ LeaseKeeps(owners'[h])
      BY <3>1 DEF NewOwner, Owner, LeaseKeeps
    <3>3. owners[h].phase \notin {"open", "closing"}
      BY <1>5, <2>1 DEF owned
    <3>4. QED
      BY <1>4, <3>2, <3>3
  <2>2. CASE h \notin adopted
    BY <1>4, <1>7, <2>2
  <2>3. QED
    BY <2>1, <2>2
<1>9. owners' \in [Handles -> Owner]
  <2>1. owners' = [h \in Handles |-> owners'[h]]
    BY DEF Finishes
  <2>2. QED
    BY <1>8, <2>1
<1>10. newlyReleased(before) = {h \in owned : before[h].phase = "released"}
  BY <1>4 DEF newlyReleased, owned
<1>11. owned' = (owned \ newlyReleased(before)) \cup adopted
  <2>1. \A h \in adopted : h \in owned'
    <3> SUFFICES ASSUME NEW h \in adopted PROVE h \in owned'
      OBVIOUS
    <3>1. PICK token \in BOOLEAN : owners'[h] = NewOwner(token)
      BY <1>6
    <3>2. QED
      BY <1>5, <3>1 DEF owned, NewOwner
  <2>2. \A h \in Handles \ adopted :
           h \in owned' <=> h \in owned /\ h \notin newlyReleased(before)
    BY <1>4, <1>7, <1>10 DEF owned
  <2>3. owned' \subseteq Handles /\ owned \subseteq Handles
    BY DEF owned
  <2>4. QED
    BY <1>5, <2>1, <2>2, <2>3
<1>12. Shape'
  BY <1>1a, <1>3, <1>9 DEF Finishes, IInv, Shape
<1>13. Leased'
  BY <1>8 DEF Leased
<1>14. \A d \in Commands \ {c} : results(d) \cap results(c) = {}
  BY DEF IInv, OneHolder
<1>15. OneHolder'
  BY <1>3, <1>11, <1>14 DEF IInv, OneHolder
<1>16. HeldLive'
  <2>1. owned' \subseteq live'
    BY <1>1a, <1>5, <1>10, <1>11 DEF IInv, HeldLive, given
  <2>2. \A d \in Commands : results(d)' \subseteq live'
    <3>1. \A d \in Commands \ {c} : results(d) \cap released = {}
      BY <1>1a, <1>10, <1>14 DEF IInv, OneHolder, given
    <3>2. QED
      BY <1>1a, <1>3, <3>1 DEF IInv, HeldLive
  <2>3. QED
    BY <2>1, <2>2 DEF HeldLive
<1>17. NothingLeaks'
  <2> SUFFICES ASSUME Representable = Handles, NEW h \in live', h \notin owned'
               PROVE  \E d \in Commands : h \in results(d)'
    BY DEF NothingLeaks
  <2>1. h \in live /\ h \notin released
    BY <1>1a
  <2>2. h \notin results(c)
    BY <1>1a, <1>5, <1>11, <2>1 DEF given
  <2>3. h \notin owned
    BY <1>1a, <1>11, <2>1
  <2>4. PICK d \in Commands : h \in results(d)
    BY <2>1, <2>3 DEF IInv, NothingLeaks
  <2>5. QED
    BY <1>3, <2>2, <2>4
<1>18. QED
  BY <1>3, <1>8, <1>12, <1>13, <1>15, <1>16, <1>17 DEF IInv

\* _adoptX and _releaseAll end the command, whether or not every result could be
\* adopted; they release nothing that is not live.
LEMMA FinishFinishes ==
    ASSUME IInv, NEW c \in Commands, Finish(c)
    PROVE  \E adopted \in SUBSET results(c), released \in SUBSET live :
              Finishes(c, adopted, released)
<1>1. PICK before : before = endLeases(commands[c].inputs)
  OBVIOUS
<1>2. commands' = [commands EXCEPT ![c] = Idle]
  BY DEF Finish
<1>3. TableType /\ owned \subseteq live /\ results(c) \subseteq live
      /\ live \subseteq Handles
  BY DEF IInv, Shape, HeldLive, live
<1>4. newlyReleased(before) \subseteq owned
  <2> SUFFICES ASSUME NEW h \in Handles, before[h].phase = "released",
                      owners[h].phase # "released"
               PROVE  owners[h].phase \in {"open", "closing"}
    BY DEF newlyReleased, owned
  <2>1. before[h] = [owners[h] EXCEPT
                       !.leases = owners[h].leases - uses(commands[c].inputs, h),
                       !.phase = IF owners[h].phase = "closing"
                                    /\ owners[h].leases - uses(commands[c].inputs, h) = 0
                                 THEN "released" ELSE owners[h].phase]
    BY <1>1 DEF endLeases
  <2>2. owners[h] \in Owner
    BY DEF IInv, Shape
  <2>3. QED
    BY <2>1, <2>2 DEF Owner
<1>5. CASE /\ results(c) \subseteq Representable
           /\ \E token \in BOOLEAN :
                 owners' = [h \in Handles |-> IF h \in results(c) THEN NewOwner(token)
                                              ELSE before[h]]
           /\ release(newlyReleased(before))
  <2>1. PICK released : released = newlyReleased(before)
    OBVIOUS
  <2>2. /\ released \in SUBSET Handles /\ released \subseteq live
        /\ table' = spend(released) /\ failures' = failures
    BY <1>3, <1>4, <1>5, <2>1 DEF release
  <2>3. given(c, results(c)) = {}
    BY DEF given
  <2>4. Finishes(c, results(c), released)
    BY <1>1, <1>2, <1>5, <2>1, <2>2, <2>3 DEF Finishes
  <2>5. QED
    BY <2>2, <2>4
<1>6. CASE /\ results(c) # {} /\ owners' = before
           /\ release(newlyReleased(before) \cup (results(c) \cap Representable))
  <2>1. PICK released : released = newlyReleased(before)
                                      \cup (results(c) \cap Representable)
    OBVIOUS
  <2>2. /\ released \in SUBSET Handles /\ released \subseteq live
        /\ table' = spend(released) /\ failures' = failures
    BY <1>3, <1>4, <1>6, <2>1 DEF release
  <2>3. given(c, {}) = results(c) \cap Representable
    BY DEF given
  <2>4. before = [h \in Handles |-> before[h]]
    BY <1>1 DEF endLeases
  <2>5. Finishes(c, {}, released)
    BY <1>1, <1>2, <1>6, <2>1, <2>2, <2>3, <2>4 DEF Finishes
  <2>6. QED
    BY <2>2, <2>5
<1>7. QED
  BY <1>1, <1>5, <1>6 DEF Finish, results

--------------------------------------------------------------------------------
(* The invariant and what follows from it *)

\* Every step of the program, the transport and the collector keeps the
\* invariant.
LEMMA StepInvariant == IInv /\ [Next]_vars => IInv'
<1> SUFFICES ASSUME IInv, [Next]_vars PROVE IInv'
  OBVIOUS
<1>1. ASSUME NEW h \in Handles, Close(h) \/ Forget(h) \/ Finalize(h)
      PROVE  IInv'
  <2>1. OpenMoves(h)
    BY <1>1, CloseMoves, ForgetMoves, FinalizeMoves
  <2>2. QED
    BY <2>1, MovesStep DEF OpenMoves
<1>2. ASSUME NEW c \in Commands, Start(c) \/ Serve(c) \/ Finish(c)
      PROVE  IInv'
  <2>1. CASE Finish(c)
    <3>1. PICK adopted \in SUBSET results(c), released \in SUBSET live :
             Finishes(c, adopted, released)
      BY <2>1, FinishFinishes
    <3>2. released \in SUBSET Handles
      BY DEF live
    <3>3. QED
      BY <3>1, <3>2, FinishesStep
  <2>2. QED
    BY <1>2, <2>1, StartStep, ServeStep
<1>3. CASE UNCHANGED vars
  <2>1. table' = table /\ owners' = owners /\ commands' = commands /\ failures' = failures
    BY <1>3 DEF vars
  <2>2. /\ owned' = owned /\ live' = live
        /\ \A h \in Handles : held(h)' = held(h)
        /\ \A c \in Commands : results(c)' = results(c)
    BY <2>1 DEF owned, live, held, results
  <2>3. Shape' /\ Leased'
    BY <2>1, <2>2 DEF IInv, Shape, TableType, Leased
  <2>4. OneHolder' /\ HeldLive' /\ NothingLeaks'
    BY <2>2 DEF IInv, OneHolder, HeldLive, NothingLeaks
  <2>5. QED
    BY <2>1, <2>3, <2>4 DEF IInv
<1>4. QED
  BY <1>1, <1>2, <1>3 DEF Next

\* IInv is an invariant of the owners.
LEMMA Invariance == Spec => []IInv
<1>1. Init => IInv
  BY InitInvariant
<1>2. IInv /\ [Next]_vars => IInv'
  BY StepInvariant
<1>3. QED
  BY <1>1, <1>2, PTL DEF Spec

\* The state of owners and commands always has its type; in particular no lease
\* count goes below zero (handle.dart: _endLease).
THEOREM TypeCorrect == Spec => []TypeOK
<1>1. IInv => TypeOK
  BY DEF IInv, Shape, TypeOK, Command
<1>2. QED
  BY <1>1, Invariance, PTL

\* The leases of a handle are exactly the inputs of commands under way that name
\* it, listed twice or shared between commands (handle.dart: _leaseAll,
\* _releaseAll).
THEOREM LeasesCorrect == Spec => []LeasesExact
<1>1. IInv => LeasesExact
  BY DEF IInv, Leased, LeasesExact
<1>2. QED
  BY <1>1, Invariance, PTL

\* No close, no finalizer and no other command takes an input away from a
\* command the transport has not answered (handle.dart: close, _endLease).
THEOREM InputsStayLive == Spec => []InputsLive
<1>1. IInv => InputsLive
  BY InputLeased DEF InputsLive
<1>2. QED
  BY <1>1, Invariance, PTL

\* Every release the owners ask for is of a live handle, so _release never
\* throws in the middle of _releaseAll (handle.dart: _release).
THEOREM ReleasesSucceed == Spec => []ReleaseNeverFails
<1>1. IInv => ReleaseNeverFails
  BY DEF IInv, Shape, ReleaseNeverFails
<1>2. QED
  BY <1>1, Invariance, PTL

\* As long as Dart can represent every handle, each live handle has exactly one
\* owner or is in one answer not adopted yet, and owners own live handles
\* (polars.dart: _adoptProfile, handle.dart: attach).
THEOREM OwnershipCorrect ==
    ASSUME Representable = Handles
    PROVE  Spec => []OwnershipExact
<1>1. ASSUME IInv PROVE OwnershipExact
  <2>1. live \subseteq owned \cup UNION {results(c) : c \in Commands}
    BY <1>1 DEF IInv, NothingLeaks
  <2>2. owned \cup UNION {results(c) : c \in Commands} \subseteq live
    BY <1>1 DEF IInv, HeldLive
  <2>3. UNION {results(c) : c \in Commands} = UNION {commands[c].results : c \in Commands}
    BY DEF results
  <2>4. \A c \in Commands : owned \cap commands[c].results = {}
    BY <1>1 DEF IInv, OneHolder, results
  <2>5. QED
    BY <2>1, <2>2, <2>3, <2>4 DEF OwnershipExact
<1>2. QED
  BY <1>1, Invariance, PTL

--------------------------------------------------------------------------------
(* The life of a handle *)

\* A handle whose owner is released is never live again.
Buried == \A h \in Handles : owners[h].phase = "released" => table[h] = Spent

Phases(h, from, to) == owners[h].phase = from /\ owners'[h].phase = to

\* An answer with h in it is dealt with.
InAnswer(h) == \E c \in Commands : h \in results(c) /\ h \notin results(c)'

\* The native library hands the handle out, in an answer.
Issued(h) ==
    /\ Phases(h, "none", "none")
    /\ table[h] = Unissued /\ table'[h] \in Entry

\* Its answer is adopted.
Adopted(h) ==
    /\ Phases(h, "none", "open") /\ InAnswer(h)
    /\ table[h] \in Entry /\ table'[h] = table[h]

\* Its answer could not be adopted.
GivenUp(h) ==
    /\ Phases(h, "none", "none") /\ InAnswer(h)
    /\ table[h] \in Entry /\ table'[h] = Spent

\* It is closed while commands hold leases on it.
PutOff(h) ==
    /\ Phases(h, "open", "closing") /\ owners'[h].leases > 0
    /\ table'[h] = table[h]

\* It is released, with no lease left.
Released(h) ==
    /\ Phases(h, "open", "released") \/ Phases(h, "closing", "released")
    /\ owners'[h].leases = 0
    /\ table[h] \in Entry /\ table'[h] = Spent

Stays(h) == owners'[h].phase = owners[h].phase /\ table'[h] = table[h]

Life(h) ==
    Issued(h) \/ Adopted(h) \/ GivenUp(h) \/ PutOff(h) \/ Released(h) \/ Stays(h)

AllLive == \A h \in Handles : Life(h)

\* What an open owner can do next is in the life of its handle.
LEMMA OpenLives ==
    ASSUME IInv, NEW g \in Handles, OpenMoves(g), NEW h \in Handles
    PROVE  Life(h)
<1>1. PICK o \in Owner : Moves(g, o) /\ LeaseKeeps(o)
  BY DEF OpenMoves
<1>2. /\ owners \in [Handles -> Owner] /\ owners' = [owners EXCEPT ![g] = o]
      /\ table \in [Handles -> Entry \cup {Unissued, Spent}]
      /\ owners[g].phase = "open" /\ g \in live
  BY <1>1 DEF IInv, Shape, TableType, Moves, OpenMoves, HeldLive
<1>3. CASE h # g
  BY <1>1, <1>2, <1>3 DEF Moves, spend, Life, Stays
<1>4. CASE h = g /\ o.phase = "released"
  <2>1. o.leases = 0
    BY <1>1, <1>4 DEF LeaseKeeps, Owner
  <2>2. table[h] \in Entry /\ table'[h] = Spent
    BY <1>1, <1>2, <1>4 DEF Moves, spend, live
  <2>3. QED
    BY <1>2, <1>4, <2>1, <2>2 DEF Life, Released, Phases
<1>5. CASE h = g /\ o.phase = "closing"
  BY <1>1, <1>2, <1>5 DEF Moves, LeaseKeeps, Life, PutOff, Phases
<1>6. CASE h = g /\ o.phase = "open"
  BY <1>1, <1>2, <1>6 DEF Moves, Life, Stays
<1>7. QED
  BY <1>1, <1>3, <1>4, <1>5, <1>6 DEF Moves

\* A command that starts changes no handle's standing.
LEMMA StartLives ==
    ASSUME IInv, NEW c \in Commands, Start(c), NEW h \in Handles
    PROVE  Life(h)
<1>1. PICK inputs \in Inputs :
         owners' = [g \in Handles |-> [owners[g] EXCEPT !.leases = @ + uses(inputs, g)]]
  BY DEF Start
<1>2. owners'[h] = [owners[h] EXCEPT !.leases = @ + uses(inputs, h)]
  BY <1>1
<1>3. owners[h] \in Owner
  BY DEF IInv, Shape
<1>4. owners'[h].phase = owners[h].phase
  BY <1>2, <1>3 DEF Owner
<1>5. QED
  BY <1>4 DEF Start, Life, Stays

\* A handle in an answer, or not issued, has no owner yet.
LEMMA NoOwnerYet ==
    ASSUME IInv, Buried, NEW h \in Handles \ owned,
           table[h] = Unissued \/ table[h] \in Entry
    PROVE  owners[h].phase = "none"
<1>1. owners[h].phase \in {"none", "open", "closing", "released"}
  BY DEF IInv, Shape, Owner
<1>2. owners[h].phase # "released"
  BY HandleOwnerAssumption DEF Buried
<1>3. QED
  BY <1>1, <1>2 DEF owned

\* An answer issues the handles in it and touches no other.
LEMMA ServeLives ==
    ASSUME IInv, Buried, NEW c \in Commands, Serve(c), NEW h \in Handles
    PROVE  Life(h)
<1>1. PICK new \in SUBSET Handles, e \in Entry :
         /\ \A g \in new : table[g] = Unissued
         /\ table' = [g \in Handles |-> IF g \in new THEN e ELSE table[g]]
  BY DEF Serve
<1>2. owners' = owners
  BY DEF Serve
<1>3. CASE h \in new
  <2>1. h \notin owned
    BY <1>1, <1>3, HandleOwnerAssumption DEF IInv, HeldLive, live
  <2>2. owners[h].phase = "none"
    BY <1>1, <1>3, <2>1, NoOwnerYet
  <2>3. QED
    BY <1>1, <1>2, <1>3, <2>2 DEF Life, Issued, Phases
<1>4. CASE h \notin new
  BY <1>1, <1>2, <1>4 DEF Life, Stays
<1>5. QED
  BY <1>3, <1>4

\* The end of a command adopts its answer or gives it up, and releases what was
\* only waiting for its leases.
LEMMA FinishLives ==
    ASSUME IInv, Buried, NEW c \in Commands, Finish(c), NEW h \in Handles
    PROVE  Life(h)
<1>1. PICK adopted \in SUBSET results(c), released \in SUBSET live :
         Finishes(c, adopted, released)
  BY FinishFinishes
<1>2. PICK before : before = endLeases(commands[c].inputs)
  OBVIOUS
<1>3. /\ commands \in [Commands -> Command] /\ Idle \in Command
      /\ Idle.inputs = <<>> /\ Idle.results = {}
      /\ commands' = [commands EXCEPT ![c] = Idle]
  <2>1. <<>> \in Inputs
    <3>1. 0 \in 0..2 /\ <<>> \in [1..0 -> Handles]
      OBVIOUS
    <3>2. QED
      BY <3>1 DEF Inputs
  <2>2. QED
    BY <1>1, <2>1 DEF IInv, Shape, Idle, Command, Finishes
<1>4. /\ before[h] \in Owner
      /\ LeaseKeeps(before[h])
      /\ before[h].phase \in {"open", "closing"} => owners[h].phase = before[h].phase
      /\ owners[h].phase \in {"open", "closing"} =>
            before[h].phase \in {"open", "closing", "released"}
      /\ owners[h].phase \notin {"open", "closing"} => before[h].phase = owners[h].phase
  BY <1>2, <1>3, LeasesEnd
<1>5. /\ released = newlyReleased(before) \cup given(c, adopted)
      /\ \A g \in Handles : table'[g] = IF g \in released THEN Spent ELSE table[g]
      /\ \A g \in released : table[g] \in Entry
  BY <1>1, <1>2 DEF Finishes, spend, live
<1>6. /\ h \in adopted => \E token \in BOOLEAN : owners'[h] = NewOwner(token)
      /\ h \notin adopted => owners'[h] = before[h]
  BY <1>1, <1>2 DEF Finishes
<1>7. h \in newlyReleased(before) <=> h \in owned /\ before[h].phase = "released"
  BY <1>4 DEF newlyReleased, owned
<1>8. CASE h \in results(c)
  <2>1. h \notin owned /\ table[h] \in Entry
    BY <1>8 DEF IInv, OneHolder, HeldLive, live
  <2>2. owners[h].phase = "none" /\ before[h].phase = "none"
    <3>1. owners[h].phase = "none"
      BY <2>1, NoOwnerYet
    <3>2. QED
      BY <1>4, <3>1
  <2>3. InAnswer(h)
    BY <1>3, <1>8 DEF InAnswer, results
  <2>4. CASE h \in adopted
    <3>1. owners'[h].phase = "open"
      <4>1. PICK token \in BOOLEAN : owners'[h] = NewOwner(token)
        BY <1>6, <2>4
      <4>2. QED
        BY <4>1 DEF NewOwner
    <3>2. h \notin released
      BY <1>5, <1>7, <2>1, <2>4 DEF given
    <3>3. QED
      BY <1>5, <2>1, <2>2, <2>3, <3>1, <3>2 DEF Life, Adopted, Phases
  <2>5. CASE h \notin adopted /\ h \in released
    BY <1>5, <1>6, <2>1, <2>2, <2>3, <2>5 DEF Life, GivenUp, Phases
  <2>6. CASE h \notin adopted /\ h \notin released
    BY <1>5, <1>6, <2>2, <2>6 DEF Life, Stays
  <2>7. QED
    BY <2>4, <2>5, <2>6
<1>9. CASE h \notin results(c)
  <2>1. /\ h \notin adopted /\ owners'[h] = before[h]
        /\ h \in released <=> h \in owned /\ before[h].phase = "released"
    BY <1>5, <1>6, <1>7, <1>9 DEF given
  <2>2. CASE h \in released
    <3>1. owners'[h].leases = 0
      BY <1>4, <2>1, <2>2 DEF LeaseKeeps, Owner
    <3>2. QED
      BY <1>5, <2>1, <2>2, <3>1 DEF Life, Released, Phases, owned
  <2>3. CASE h \notin released
    <3>1. before[h].phase = owners[h].phase
      BY <1>4, <2>1, <2>3 DEF owned
    <3>2. QED
      BY <1>5, <2>1, <2>3, <3>1 DEF Life, Stays
  <2>4. QED
    BY <2>2, <2>3
<1>10. QED
  BY <1>8, <1>9

\* Every step is a step in the life of every handle.
LEMMA StepLives ==
    ASSUME IInv, Buried, [Next]_vars
    PROVE  \A h \in Handles : Life(h)
<1> SUFFICES ASSUME NEW h \in Handles PROVE Life(h)
  OBVIOUS
<1>1. ASSUME NEW g \in Handles, Close(g) \/ Forget(g) \/ Finalize(g)
      PROVE  Life(h)
  <2>1. OpenMoves(g)
    BY <1>1, CloseMoves, ForgetMoves, FinalizeMoves
  <2>2. QED
    BY <2>1, OpenLives
<1>2. ASSUME NEW c \in Commands, Start(c) \/ Serve(c) \/ Finish(c)
      PROVE  Life(h)
  BY <1>2, StartLives, ServeLives, FinishLives
<1>3. CASE UNCHANGED vars
  BY <1>3 DEF vars, Life, Stays
<1>4. QED
  BY <1>1, <1>2, <1>3 DEF Next

\* A handle whose owner is released stays spent.
LEMMA StaysBuried == Spec => []Buried
<1>1. Init => Buried
  BY DEF Init, Buried, NoOwner
<1>2. ASSUME IInv, Buried, [Next]_vars PROVE Buried'
  <2> SUFFICES ASSUME NEW h \in Handles, owners'[h].phase = "released"
               PROVE  table'[h] = Spent
    BY DEF Buried
  <2>1. Life(h)
    BY <1>2, StepLives
  <2>2. QED
    BY <1>2, <2>1 DEF Buried, Life, Issued, Adopted, GivenUp, PutOff, Released,
                      Stays, Phases
<1>3. QED
  BY <1>1, <1>2, Invariance, PTL DEF Spec

\* The whole life of a native object as the package drives it: a handle is issued
\* in an answer, gets one owner or is given up with its answer, may be closed with
\* commands still at work on it, and is released once, when none holds a lease.
\* Nothing else ever happens to a handle or its owner, and after its release
\* nothing at all (handle.dart: close, _endLease, _release; polars.dart: _adoptProfile).
HandleLives == [][AllLive]_vars

\* HandleLives, for any number of handles and of commands side by side.
THEOREM LifeCorrect == Spec => HandleLives
<1>1. IInv /\ Buried /\ [Next]_vars => [AllLive]_vars
  BY StepLives DEF AllLive
<1>2. QED
  BY <1>1, Invariance, StaysBuried, PTL DEF Spec, HandleLives

\* The table as one handle sees it.
mine(h) == [g \in {h} |-> table[g]]

Alone(h) == INSTANCE HandleTable WITH Handles <- {h}, table <- mine(h)

\* Commands issue handles together and release several at once, yet each handle,
\* taken alone, lives as the handle table promises: it is issued once, released
\* once and stands for nothing ever after.
THEOREM EachAsPromised == ASSUME NEW h \in Handles PROVE Spec => Alone(h)!TableSpec
<1>1. Init => mine(h) = [g \in {h} |-> Unissued]
  BY DEF Init, TableInit, mine
<1>2. ASSUME IInv, AllLive
      PROVE  [Alone(h)!TableNext]_(mine(h))
  <2>1. Life(h)
    BY <1>2 DEF AllLive
  <2>2. mine(h) \in [{h} -> Entry \cup {Unissued, Spent}] /\ mine(h)[h] = table[h]
    BY <1>2 DEF IInv, Shape, TableType, mine
  <2>3. mine(h)' = [g \in {h} |-> table'[g]] /\ mine(h)'[h] = table'[h]
    BY DEF mine
  <2>4. CASE table'[h] = table[h]
    BY <2>3, <2>4 DEF mine
  <2>5. CASE table[h] = Unissued /\ table'[h] \in Entry
    <3>1. Alone(h)!Issue({h})
      BY <2>2, <2>3, <2>5 DEF Alone!Issue
    <3>2. mine(h)' \in [{h} -> Entry \cup {Unissued, Spent}]
      BY <2>3, <2>5
    <3>3. QED
      BY <3>1, <3>2 DEF Alone!TableNext
  <2>6. CASE table[h] \in Entry /\ table'[h] = Spent
    <3>1. Alone(h)!Drop(h)
      BY <2>2, <2>3, <2>6 DEF Alone!Drop
    <3>2. mine(h)' \in [{h} -> Entry \cup {Unissued, Spent}]
      BY <2>3, <2>6
    <3>3. QED
      BY <3>1, <3>2 DEF Alone!TableNext
  <2>7. QED
    BY <2>1, <2>4, <2>5, <2>6 DEF Life, Issued, Adopted, GivenUp, PutOff, Released, Stays
<1>3. IInv /\ [AllLive]_vars => [Alone(h)!TableNext]_(mine(h))
  <2>1. UNCHANGED vars => mine(h)' = mine(h)
    BY DEF vars, mine
  <2>2. QED
    BY <1>2, <2>1
<1>4. Init => Alone(h)!TableInit
  BY <1>1 DEF Alone!TableInit
<1>5. QED
  BY <1>3, <1>4, Invariance, LifeCorrect, PTL DEF Spec, HandleLives, Alone!TableSpec

--------------------------------------------------------------------------------
(* The methods of the package, seen from the registry (Session.tla) *)

\* A composite method under way: it still has what it made, each thing in a slot
\* of its own that no caller's wrapper has.
Making(p) ==
    /\ Len(p.temporaries) <= Len(p.call.made)
    /\ \A i, j \in 1..Len(p.temporaries) : p.temporaries[i] = p.temporaries[j] => i = j
    /\ \A i \in 1..Len(p.temporaries) :
          /\ registry[p.temporaries[i]] = p.call.made[i]
          /\ wrappers[p.temporaries[i]] = "none"

Underway == [call : Calls, phase : {"make", "close"}, temporaries : Seq(Slots)]

\* Types, with at most one composite method.
SessionShape ==
    /\ registry \in [Slots -> Kinds \cup {"free"}]
    /\ wrappers \in [Slots -> Kinds \cup {"none"}]
    /\ answer \in {"none", "done", "failed", "full", "refused", "mismatch"}
    /\ file \in {"old", "new", "partial", "empty"}
    /\ pending = {} \/ \E p \in Underway : pending = {p}

\* The inductive invariant of a session.
SessionInv ==
    /\ TablesAgree
    /\ SessionShape
    /\ KindsAgree
    /\ NothingLost
    /\ \A p \in pending : Making(p)

\* What the tables say of methods and commands goes for every call.
LEMMA CallsAgree ==
    ASSUME TablesAgree, NEW call \in Calls
    PROVE  /\ call.made \in Seq(Kinds)
           /\ \A result \in call.results \cap Kinds : result = call.class
<1>1. PICK method \in Dart!Methods :
         \E made \in method.made : \E request : call = Call(method, request, made)
  BY DEF Calls
<1>2. PICK made \in method.made : \E request : call = Call(method, request, made)
  BY <1>1
<1>3. PICK request : call = Call(method, request, made)
  BY <1>2
<1>4. /\ call.class = method.class /\ call.made = made
      /\ \A result \in call.results : result \in Results(method.command, request)
  BY <1>3 DEF Call
<1>5. \A result \in Results(method.command, request) :
         \E schema \in Schemas[method.command] : result = schema.result
  BY DEF Results
<1>6. QED
  BY <1>4, <1>5 DEF TablesAgree

\* The marks of the registry and the wrappers, and what is not a handle.
LEMMA KindNames ==
    /\ "free" \notin Kinds /\ "none" \notin Kinds /\ "value" \notin Kinds
    /\ "frames" \notin Kinds /\ "frame" \in Kinds
  BY DEF Kinds

\* What a request may do to the registry and the wrappers: some free slots get a
\* handle and a wrapper of its kind.
Wraps(new) ==
    /\ registry' \in [Slots -> Kinds \cup {"free"}]
    /\ wrappers' \in [Slots -> Kinds \cup {"none"}]
    /\ \A s \in new : registry[s] = "free" /\ registry'[s] \in Kinds
                      /\ wrappers'[s] = registry'[s]
    /\ \A s \in Slots \ new : registry'[s] = registry[s] /\ wrappers'[s] = wrappers[s]

\* A request wraps what it is answered with in the class of its kind, or changes
\* nothing, and says how it ended.
LEMMA Performed ==
    ASSUME SessionInv, NEW call \in Calls, Perform(call)
    PROVE  /\ \E new \in SUBSET Slots : Wraps(new)
           /\ answer' \in {"none", "done", "failed", "full", "refused", "mismatch"}
           /\ file' \in {"old", "new", "partial", "empty"}
<1>1. /\ registry \in [Slots -> Kinds \cup {"free"}]
      /\ wrappers \in [Slots -> Kinds \cup {"none"}]
      /\ file \in {"old", "new", "partial", "empty"}
  BY DEF SessionInv, SessionShape
<1>2. \A result \in call.results \cap Kinds : result = call.class
  BY CallsAgree DEF SessionInv
<1>3. NoHandle => Wraps({})
  BY <1>1 DEF NoHandle, Wraps
<1>4. CASE call.verdict # "accepted" /\ Refuse(call)
  <2>1. call.verdict \in {"accepted", "refused", "mismatch"}
    <3>1. PICK method, request, made : call = Call(method, request, made)
      BY DEF Calls
    <3>2. call.verdict = Verdict(method, request)
      BY <3>1 DEF Call
    <3>3. QED
      BY <3>2 DEF Verdict
  <2>2. QED
    BY <1>1, <1>3, <1>4, <2>1 DEF Refuse, Perform
<1>5. CASE Fail(call)
  BY <1>1, <1>3, <1>5 DEF Fail
<1>6. ASSUME NEW result \in call.results, Overflow(result)
      PROVE  Wraps({}) /\ answer' = "full" /\ file' = file
  BY <1>3, <1>6 DEF Overflow
<1>7. ASSUME NEW result \in call.results, Succeed(call, result)
      PROVE  \E new \in SUBSET Slots : Wraps(new)
  <2>1. CASE NoHandle
    BY <1>3, <2>1
  <2>2. ASSUME NEW s \in Free, NEW t \in Free, s # t,
               registry' = [registry EXCEPT ![s] = "frame", ![t] = "frame"],
               wrappers' = [wrappers EXCEPT ![s] = "frame", ![t] = "frame"]
        PROVE  Wraps({s, t})
    BY <1>1, <2>2, KindNames DEF Free, Wraps
  <2>3. ASSUME NEW s \in Free, result \in Kinds, Adopt(s, result, call.class)
        PROVE  Wraps({s})
    <3>1. call.class = result
      BY <1>2, <2>3
    <3>2. QED
      BY <1>1, <2>3, <3>1 DEF Free, Adopt, Wraps
  <2>4. Free \subseteq Slots
    BY DEF Free
  <2>5. QED
    BY <1>7, <2>1, <2>2, <2>3, <2>4 DEF Succeed
<1>8. ASSUME NEW result \in call.results, Succeed(call, result)
      PROVE  answer' = "done" /\ file' \in {"old", "new", "partial", "empty"}
  BY <1>1, <1>8 DEF Succeed
<1>9. QED
  BY <1>1, <1>4, <1>5, <1>6, <1>7, <1>8 DEF Perform

\* A request keeps what no wrapper and no method loses, whatever else is under way.
LEMMA WrapsKeeps ==
    ASSUME SessionInv, NEW new \in SUBSET Slots, Wraps(new)
    PROVE  /\ KindsAgree'
           /\ \A p \in pending : /\ Making(p)
                                 /\ \A i \in 1..Len(p.temporaries) :
                                       /\ p.temporaries[i] \in Slots \ new
                                       /\ registry'[p.temporaries[i]] = p.call.made[i]
                                       /\ wrappers'[p.temporaries[i]] = "none"
           /\ \A s \in Slots : registry'[s] # "free" =>
                 wrappers'[s] # "none" \/ s \in Temporaries
<1>1. KindsAgree'
  BY KindNames DEF SessionInv, KindsAgree, Wraps
<1>2. \A p \in pending : p \in Underway
  BY DEF SessionInv, SessionShape
<1>3. ASSUME NEW p \in pending, NEW i \in 1..Len(p.temporaries)
      PROVE  /\ p.temporaries[i] \in Slots \ new
             /\ registry'[p.temporaries[i]] = p.call.made[i]
             /\ wrappers'[p.temporaries[i]] = "none"
  <2>1. p.temporaries \in Seq(Slots) /\ p.call \in Calls
    BY <1>2 DEF Underway
  <2>2. p.call.made \in Seq(Kinds)
    BY <2>1, CallsAgree DEF SessionInv
  <2>3. p.temporaries[i] \in Slots /\ i \in 1..Len(p.call.made)
    BY <2>1, <2>2 DEF SessionInv, Making
  <2>4. /\ registry[p.temporaries[i]] = p.call.made[i]
        /\ wrappers[p.temporaries[i]] = "none"
    BY DEF SessionInv, Making
  <2>5. p.call.made[i] \in Kinds
    BY <2>2, <2>3
  <2>6. QED
    BY <2>3, <2>4, <2>5, KindNames DEF Wraps
<1>4. \A s \in Slots : registry'[s] # "free" =>
         wrappers'[s] # "none" \/ s \in Temporaries
  BY KindNames DEF SessionInv, NothingLost, Wraps
<1>5. QED
  BY <1>1, <1>3, <1>4 DEF SessionInv

\* The slots in which a composite method has made something.
Made(p) == {p.temporaries[i] : i \in 1..Len(p.temporaries)}

\* A method that makes nothing on the way keeps the invariant, while a job of
\* another is awaited or not.
LEMMA CallMethodStep ==
    ASSUME SessionInv, CallMethod
    PROVE  SessionInv'
<1>1. PICK call \in Calls : Perform(call)
  BY DEF CallMethod
<1>2. pending' = pending
  BY DEF CallMethod
<1>3. PICK new \in SUBSET Slots : Wraps(new)
  BY <1>1, Performed
<1>4. SessionShape'
  BY <1>1, <1>2, <1>3, Performed DEF SessionInv, SessionShape, Wraps
<1>5. KindsAgree'
  BY <1>3, WrapsKeeps
<1>6. Temporaries' = Temporaries
  BY <1>2 DEF Temporaries
<1>7. NothingLost'
  BY <1>3, <1>6, WrapsKeeps DEF NothingLost
<1>8. \A p \in pending : Making(p)'
  BY <1>3, WrapsKeeps DEF Making
<1>9. QED
  BY <1>2, <1>4, <1>5, <1>7, <1>8 DEF SessionInv, TablesAgree

\* The main request of a composite method keeps the invariant: what the method
\* made is in none of the slots that get a wrapper.
LEMMA PerformMainStep ==
    ASSUME SessionInv, PerformMain
    PROVE  SessionInv'
<1>1. PICK p \in pending : Perform(p.call) /\ pending' = {[p EXCEPT !.phase = "close"]}
  BY DEF PerformMain, Phase
<1>2. p \in Underway /\ pending = {p}
  BY DEF SessionInv, SessionShape
<1>3. PICK q : q = [p EXCEPT !.phase = "close"]
  OBVIOUS
<1>4. /\ q \in Underway /\ pending' = {q}
      /\ q.call = p.call /\ q.temporaries = p.temporaries
  BY <1>1, <1>2, <1>3 DEF Underway
<1>5. p.call \in Calls
  BY <1>2 DEF Underway
<1>6. PICK new \in SUBSET Slots : Wraps(new)
  BY <1>1, <1>5, Performed
<1>7. SessionShape'
  BY <1>1, <1>4, <1>5, <1>6, Performed DEF SessionShape, Wraps
<1>8. KindsAgree'
  BY <1>6, WrapsKeeps
<1>9. Temporaries' = Temporaries
  BY <1>2, <1>4 DEF Temporaries
<1>10. NothingLost'
  BY <1>6, <1>9, WrapsKeeps DEF NothingLost
<1>11. Making(p)'
  BY <1>6, WrapsKeeps DEF Making
<1>12. Making(q)'
  BY <1>4, <1>11 DEF Making
<1>13. QED
  BY <1>4, <1>7, <1>8, <1>10, <1>12 DEF SessionInv, TablesAgree

\* A composite method begins with nothing of its own.
LEMMA BeginCompositeStep ==
    ASSUME SessionInv, BeginComposite
    PROVE  SessionInv'
<1>1. PICK call \in Calls :
         pending' = {[call |-> call, phase |-> "make", temporaries |-> <<>>]}
  BY DEF BeginComposite
<1>2. pending = {} /\ UNCHANGED <<registry, wrappers, answer, file>>
  BY DEF BeginComposite, NothingUnderway
<1>3. PICK q : q = [call |-> call, phase |-> "make", temporaries |-> <<>>]
  OBVIOUS
<1>4. /\ q \in Underway /\ pending' = {q}
      /\ q.call = call /\ q.temporaries = <<>> /\ Len(q.temporaries) = 0
  BY <1>1, <1>3 DEF Underway
<1>5. call.made \in Seq(Kinds)
  BY CallsAgree DEF SessionInv
<1>6. Making(q)'
  <2>1. Len(call.made) \in Nat
    BY <1>5, LenProperties
  <2>2. QED
    BY <1>4, <2>1 DEF Making
<1>7. SessionShape'
  BY <1>2, <1>4 DEF SessionInv, SessionShape
<1>8. Temporaries \subseteq Temporaries'
  BY <1>2 DEF Temporaries
<1>9. KindsAgree' /\ NothingLost'
  BY <1>2, <1>8 DEF SessionInv, KindsAgree, NothingLost
<1>10. QED
  BY <1>4, <1>6, <1>7, <1>9 DEF SessionInv, TablesAgree

\* What a composite method makes goes into a slot nobody has, and is the
\* method's to close.
LEMMA MakeTemporaryStep ==
    ASSUME SessionInv, MakeTemporary
    PROVE  SessionInv'
<1>1. PICK p \in pending, s \in Free :
         /\ Len(p.temporaries) < Len(p.call.made)
         /\ registry' = [registry EXCEPT ![s] = p.call.made[Len(p.temporaries) + 1]]
         /\ pending' = {[p EXCEPT !.temporaries = Append(p.temporaries, s)]}
  BY DEF MakeTemporary
<1>2. UNCHANGED <<wrappers, file>> /\ answer' = "done"
  BY DEF MakeTemporary
<1>3. /\ p \in Underway /\ pending = {p}
      /\ registry \in [Slots -> Kinds \cup {"free"}]
      /\ s \in Slots /\ registry[s] = "free"
  BY DEF SessionInv, SessionShape, Free
<1>4. PICK n : n = Len(p.temporaries)
  OBVIOUS
<1>5. PICK kinds : kinds = p.call.made
  OBVIOUS
<1>6. /\ p.call \in Calls /\ p.temporaries \in Seq(Slots) /\ kinds \in Seq(Kinds)
      /\ n \in Nat /\ Len(kinds) \in Nat /\ n < Len(kinds) /\ n + 1 \in 1..Len(kinds)
      /\ kinds[n + 1] \in Kinds
  <2>1. p.call \in Calls /\ p.temporaries \in Seq(Slots)
    BY <1>3 DEF Underway
  <2>2. kinds \in Seq(Kinds)
    BY <1>5, <2>1, CallsAgree DEF SessionInv
  <2>3. QED
    BY <1>1, <1>4, <1>5, <2>1, <2>2
<1>7. PICK q : q = [p EXCEPT !.temporaries = Append(p.temporaries, s)]
  OBVIOUS
<1>8. /\ Append(p.temporaries, s) \in Seq(Slots)
      /\ Len(Append(p.temporaries, s)) = n + 1
      /\ \A i \in 1..n : Append(p.temporaries, s)[i] = p.temporaries[i]
      /\ Append(p.temporaries, s)[n + 1] = s
  BY <1>3, <1>4, <1>6, AppendProperties
<1>9. /\ q \in Underway /\ pending' = {q} /\ q.call = p.call
      /\ Len(q.temporaries) = n + 1
      /\ \A i \in 1..n : q.temporaries[i] = p.temporaries[i]
      /\ q.temporaries[n + 1] = s
  BY <1>1, <1>3, <1>6, <1>7, <1>8 DEF Underway
<1>10. /\ registry' \in [Slots -> Kinds \cup {"free"}]
       /\ registry'[s] = kinds[n + 1]
       /\ \A t \in Slots \ {s} : registry'[t] = registry[t]
  BY <1>1, <1>3, <1>4, <1>5, <1>6
<1>11. wrappers[s] = "none"
  BY <1>3, KindNames DEF SessionInv, SessionShape, KindsAgree
<1>12. \A i \in 1..n : /\ p.temporaries[i] \in Slots \ {s}
                       /\ registry[p.temporaries[i]] = kinds[i]
                       /\ wrappers[p.temporaries[i]] = "none"
  <2> SUFFICES ASSUME NEW i \in 1..n
               PROVE  /\ p.temporaries[i] \in Slots \ {s}
                      /\ registry[p.temporaries[i]] = kinds[i]
                      /\ wrappers[p.temporaries[i]] = "none"
    OBVIOUS
  <2>1. /\ registry[p.temporaries[i]] = kinds[i]
        /\ wrappers[p.temporaries[i]] = "none"
    BY <1>3, <1>4, <1>5 DEF SessionInv, Making
  <2>2. p.temporaries[i] \in Slots /\ kinds[i] \in Kinds
    BY <1>4, <1>6
  <2>3. QED
    BY <1>3, <2>1, <2>2, KindNames
<1>13. Making(q)'
  <2>1. \A i \in 1..(n + 1) : i \in 1..n \/ i = n + 1
    BY <1>6
  <2>2. \A i, j \in 1..(n + 1) : q.temporaries[i] = q.temporaries[j] => i = j
    <3>1. \A i, j \in 1..n : p.temporaries[i] = p.temporaries[j] => i = j
      BY <1>3, <1>4 DEF SessionInv, Making
    <3>2. QED
      BY <1>9, <1>12, <2>1, <3>1
  <2>3. \A i \in 1..(n + 1) : /\ registry'[q.temporaries[i]] = kinds[i]
                              /\ wrappers'[q.temporaries[i]] = "none"
    BY <1>2, <1>9, <1>10, <1>11, <1>12, <2>1
  <2>4. n + 1 <= Len(kinds)
    BY <1>6
  <2>5. QED
    BY <1>5, <1>9, <2>2, <2>3, <2>4 DEF Making
<1>14. SessionShape'
  BY <1>2, <1>9, <1>10 DEF SessionInv, SessionShape
<1>15. KindsAgree'
  BY <1>2, <1>10, <1>11 DEF SessionInv, KindsAgree
<1>16. NothingLost'
  <2>1. Made(p) \subseteq Made(q) /\ s \in Made(q)
    <3>1. \A i \in 1..n : i \in 1..(n + 1)
      BY <1>6
    <3>2. n + 1 \in 1..(n + 1)
      BY <1>6
    <3>3. QED
      BY <1>4, <1>9, <3>1, <3>2 DEF Made
  <2>2. Temporaries = Made(p) /\ Temporaries' = Made(q)
    BY <1>3, <1>9 DEF Temporaries, Made
  <2>3. QED
    BY <1>2, <1>10, <2>1, <2>2 DEF SessionInv, NothingLost
<1>17. QED
  BY <1>9, <1>13, <1>14, <1>15, <1>16 DEF SessionInv, TablesAgree

\* A method that cannot make one of its wrappers goes on to close the others.
LEMMA MakeTemporaryFailsStep ==
    ASSUME SessionInv, MakeTemporaryFails
    PROVE  SessionInv'
<1>1. PICK p \in pending : pending' = {[p EXCEPT !.phase = "close"]}
  BY DEF MakeTemporaryFails, Phase
<1>2. UNCHANGED <<registry, wrappers, file>> /\ answer' = "failed"
  BY DEF MakeTemporaryFails
<1>3. p \in Underway /\ pending = {p}
  BY DEF SessionInv, SessionShape
<1>4. PICK q : q = [p EXCEPT !.phase = "close"]
  OBVIOUS
<1>5. /\ q \in Underway /\ pending' = {q}
      /\ q.call = p.call /\ q.temporaries = p.temporaries
  BY <1>1, <1>3, <1>4 DEF Underway
<1>6. Making(q)'
  BY <1>2, <1>5 DEF SessionInv, Making
<1>7. Temporaries' = Temporaries
  BY <1>3, <1>5 DEF Temporaries
<1>8. SessionShape'
  BY <1>2, <1>5 DEF SessionInv, SessionShape
<1>9. KindsAgree' /\ NothingLost'
  BY <1>2, <1>7 DEF SessionInv, KindsAgree, NothingLost
<1>10. QED
  BY <1>5, <1>6, <1>8, <1>9 DEF SessionInv, TablesAgree

\* The finally of a method frees the last thing it made and nothing else.
LEMMA CloseTemporaryStep ==
    ASSUME SessionInv, CloseTemporary
    PROVE  SessionInv'
<1>1. PICK p \in pending :
         /\ p.temporaries # <<>>
         /\ registry' = [registry EXCEPT ![p.temporaries[Len(p.temporaries)]] = "free"]
         /\ pending' = {[p EXCEPT !.temporaries =
                           SubSeq(p.temporaries, 1, Len(p.temporaries) - 1)]}
  BY DEF CloseTemporary
<1>2. UNCHANGED <<wrappers, answer, file>>
  BY DEF CloseTemporary
<1>3. /\ p \in Underway /\ pending = {p}
      /\ registry \in [Slots -> Kinds \cup {"free"}]
  BY DEF SessionInv, SessionShape
<1>4. PICK n : n = Len(p.temporaries)
  OBVIOUS
<1>5. PICK m : m = n - 1
  OBVIOUS
<1>6. /\ p.temporaries \in Seq(Slots) /\ n \in Nat /\ n # 0
      /\ m \in Nat /\ n = m + 1 /\ n \in 1..n
  BY <1>1, <1>3, <1>4, <1>5 DEF Underway
<1>7. PICK s : s = p.temporaries[n]
  OBVIOUS
<1>8. PICK rest : rest = SubSeq(p.temporaries, 1, m)
  OBVIOUS
<1>9. /\ s \in Slots
      /\ rest \in Seq(Slots) /\ Len(rest) = m
      /\ \A i \in 1..m : rest[i] = p.temporaries[i]
  <2>1. \A i \in 1..n : p.temporaries[i] \in Slots
    BY <1>4, <1>6, ElementOfSeq
  <2>2. \A i \in 1..m : p.temporaries[i] \in Slots
    BY <1>6, <2>1
  <2>3. /\ SubSeq(p.temporaries, 1, m) \in Seq(Slots)
        /\ Len(SubSeq(p.temporaries, 1, m)) = IF 1 <= m THEN m - 1 + 1 ELSE 0
        /\ \A i \in 1..(m - 1 + 1) : SubSeq(p.temporaries, 1, m)[i] = p.temporaries[1 + i - 1]
    BY <1>6, <2>2, SubSeqProperties
  <2>4. /\ m - 1 + 1 = m /\ (IF 1 <= m THEN m - 1 + 1 ELSE 0) = m
        /\ \A i \in 1..m : 1 + i - 1 = i
    BY <1>6
  <2>5. QED
    BY <1>6, <1>7, <1>8, <2>1, <2>3, <2>4
<1>10. PICK q : q = [p EXCEPT !.temporaries = rest]
  OBVIOUS
<1>11. /\ q \in Underway /\ pending' = {q} /\ q.call = p.call
       /\ q.temporaries = rest
  BY <1>1, <1>3, <1>4, <1>5, <1>8, <1>9, <1>10 DEF Underway
<1>12. /\ registry' \in [Slots -> Kinds \cup {"free"}]
       /\ registry'[s] = "free"
       /\ \A t \in Slots \ {s} : registry'[t] = registry[t]
  BY <1>1, <1>3, <1>4, <1>7, <1>9
<1>13. wrappers[s] = "none"
  BY <1>3, <1>4, <1>6, <1>7 DEF SessionInv, Making
<1>14. Len(p.call.made) \in Nat /\ n <= Len(p.call.made)
  <2>1. p.call \in Calls
    BY <1>3 DEF Underway
  <2>2. p.call.made \in Seq(Kinds)
    BY <2>1, CallsAgree DEF SessionInv
  <2>3. QED
    BY <1>3, <1>4, <2>2 DEF SessionInv, Making
<1>15. \A i \in 1..m : i \in 1..n /\ i # n
  BY <1>6
<1>16. \A i \in 1..m : /\ p.temporaries[i] \in Slots \ {s}
                       /\ registry[p.temporaries[i]] = p.call.made[i]
                       /\ wrappers[p.temporaries[i]] = "none"
  <2> SUFFICES ASSUME NEW i \in 1..m
               PROVE  /\ p.temporaries[i] \in Slots \ {s}
                      /\ registry[p.temporaries[i]] = p.call.made[i]
                      /\ wrappers[p.temporaries[i]] = "none"
    OBVIOUS
  <2>1. i \in 1..n /\ i # n
    BY <1>15
  <2>2. p.temporaries[i] \in Slots
    BY <1>4, <1>6, <2>1, ElementOfSeq
  <2>3. p.temporaries[i] # p.temporaries[n]
    BY <1>3, <1>4, <1>6, <2>1 DEF SessionInv, Making
  <2>4. /\ registry[p.temporaries[i]] = p.call.made[i]
        /\ wrappers[p.temporaries[i]] = "none"
    BY <1>3, <1>4, <2>1 DEF SessionInv, Making
  <2>5. QED
    BY <1>7, <2>2, <2>3, <2>4
<1>17. Making(q)'
  <2>1. \A i, j \in 1..m : rest[i] = rest[j] => i = j
    BY <1>3, <1>4, <1>9, <1>15 DEF SessionInv, Making
  <2>2. \A i \in 1..m : /\ registry'[rest[i]] = p.call.made[i]
                        /\ wrappers'[rest[i]] = "none"
    BY <1>2, <1>9, <1>12, <1>16
  <2>3. m <= Len(p.call.made)
    BY <1>6, <1>14
  <2>4. QED
    BY <1>9, <1>11, <2>1, <2>2, <2>3 DEF Making
<1>18. SessionShape'
  BY <1>2, <1>11, <1>12 DEF SessionInv, SessionShape
<1>19. KindsAgree'
  BY <1>2, <1>12, <1>13 DEF SessionInv, KindsAgree
<1>20. NothingLost'
  <2>1. Temporaries = Made(p) /\ Temporaries' = Made(q)
    BY <1>3, <1>11 DEF Temporaries, Made
  <2>2. \A i \in 1..n : i \in 1..m \/ i = n
    BY <1>6
  <2>3. Made(p) \subseteq Made(q) \cup {s}
    BY <1>4, <1>7, <1>9, <1>11, <2>2 DEF Made
  <2>4. QED
    BY <1>2, <1>12, <2>1, <2>3 DEF SessionInv, NothingLost
<1>21. QED
  BY <1>11, <1>17, <1>18, <1>19, <1>20 DEF SessionInv, TablesAgree

\* A method is over when it has closed everything it made.
LEMMA EndCompositeStep ==
    ASSUME SessionInv, EndComposite
    PROVE  SessionInv'
<1>1. PICK p \in pending : p.temporaries = <<>>
  BY DEF EndComposite
<1>2. pending' = {} /\ UNCHANGED <<registry, wrappers, answer, file>>
  BY DEF EndComposite
<1>3. pending = {p}
  BY DEF SessionInv, SessionShape
<1>4. Temporaries = {} /\ Temporaries' = {}
  <2>1. Made(p) = {}
    BY <1>1 DEF Made
  <2>2. Temporaries = Made(p)
    BY <1>3 DEF Temporaries, Made
  <2>3. QED
    BY <1>2, <2>1, <2>2 DEF Temporaries
<1>5. QED
  BY <1>2, <1>4 DEF SessionInv, SessionShape, KindsAgree, NothingLost, TablesAgree

\* close() of a caller's wrapper frees its handle; what a method under way has
\* made is in no caller's wrapper.
LEMMA CloseWrapperStep ==
    ASSUME SessionInv, CloseWrapper
    PROVE  SessionInv'
<1>1. PICK s \in Slots :
         /\ wrappers[s] # "none"
         /\ registry' = [registry EXCEPT ![s] = "free"]
         /\ wrappers' = [wrappers EXCEPT ![s] = "none"]
  BY DEF CloseWrapper
<1>2. UNCHANGED <<pending, answer, file>>
  BY DEF CloseWrapper
<1>3. /\ registry \in [Slots -> Kinds \cup {"free"}]
      /\ wrappers \in [Slots -> Kinds \cup {"none"}]
  BY DEF SessionInv, SessionShape
<1>4. SessionShape'
  BY <1>1, <1>2, <1>3 DEF SessionInv, SessionShape
<1>5. KindsAgree'
  BY <1>1, <1>3 DEF SessionInv, KindsAgree
<1>6. Temporaries' = Temporaries
  BY <1>2 DEF Temporaries
<1>7. NothingLost'
  BY <1>1, <1>3, <1>6 DEF SessionInv, NothingLost
<1>8. ASSUME NEW p \in pending PROVE Making(p)'
  <2>1. p.temporaries \in Seq(Slots)
    BY DEF SessionInv, SessionShape, Underway
  <2>2. \A i \in 1..Len(p.temporaries) :
           p.temporaries[i] \in Slots /\ p.temporaries[i] # s
    BY <1>1, <2>1 DEF SessionInv, Making
  <2>3. \A i \in 1..Len(p.temporaries) :
           /\ registry'[p.temporaries[i]] = registry[p.temporaries[i]]
           /\ wrappers'[p.temporaries[i]] = wrappers[p.temporaries[i]]
    BY <1>1, <1>3, <2>2
  <2>4. QED
    BY <2>3 DEF SessionInv, Making
<1>9. QED
  BY <1>2, <1>4, <1>5, <1>7, <1>8 DEF SessionInv, TablesAgree

\* Every step of the package keeps the invariant.
LEMMA SessionStep == SessionInv /\ [SessionNext]_session => SessionInv'
<1> SUFFICES ASSUME SessionInv, [SessionNext]_session PROVE SessionInv'
  OBVIOUS
<1>1. CASE SessionNext
  BY <1>1, CallMethodStep, PerformMainStep, BeginCompositeStep, MakeTemporaryStep,
     MakeTemporaryFailsStep, CloseTemporaryStep, EndCompositeStep, CloseWrapperStep
     DEF SessionNext
<1>2. CASE UNCHANGED session
  <2>1. UNCHANGED <<registry, wrappers, pending, answer, file>>
    BY <1>2 DEF session
  <2>2. Temporaries' = Temporaries /\ \A p \in pending : Making(p)'
    BY <2>1 DEF Temporaries, SessionInv, Making
  <2>3. QED
    BY <2>1, <2>2 DEF SessionInv, SessionShape, KindsAgree, NothingLost, TablesAgree
<1>3. QED
  BY <1>1, <1>2

\* With tables that agree, the invariant of the session holds throughout.
LEMMA SessionInvariance == ASSUME TablesAgree PROVE SessionSpec => []SessionInv
<1>1. ASSUME SessionInit PROVE SessionInv
  BY <1>1, KindNames DEF SessionInit, SessionInv, SessionShape, KindsAgree, NothingLost
<1>2. SessionInit => SessionInv
  BY <1>1
<1>3. QED
  BY <1>2, SessionStep, PTL DEF SessionSpec

\* Given tables that name the same kinds, the state of a session has its type in
\* a registry of any size and for requests that deviate in any number of fields;
\* there is never more than one composite method (plan.dart, dataframe.dart).
THEOREM SessionTyped == ASSUME TablesAgree PROVE SessionSpec => []SessionType
<1>1. ASSUME SessionInv PROVE SessionType
  <2>1. SessionShape /\ TablesAgree
    BY <1>1 DEF SessionInv
  <2>2. CASE pending = {}
    BY <2>1, <2>2, FS_EmptySet DEF SessionShape, SessionType
  <2>3. ASSUME NEW p \in Underway, pending = {p} PROVE SessionType
    <3>1. Cardinality(pending) = 1
      BY <2>3, FS_Singleton
    <3>2. /\ p.phase \in {"make", "close"}
          /\ \A i \in 1..Len(p.temporaries) : p.temporaries[i] \in Slots
      BY DEF Underway
    <3>3. Len(p.temporaries) <= Len(p.call.made)
      BY <1>1, <2>3 DEF SessionInv, Making
    <3>4. QED
      BY <2>1, <2>3, <3>1, <3>2, <3>3 DEF SessionShape, SessionType
  <2>4. QED
    BY <2>1, <2>2, <2>3 DEF SessionShape
<1>2. SessionInv => SessionType
  BY <1>1
<1>3. QED
  BY <1>2, SessionInvariance, PTL

\* Given tables that name the same kinds, every open wrapper stands for a resource
\* of its class, whatever the methods make and close on the way and whatever fails
\* (plan.dart: _adoptLazy, _adoptExpr; dataframe.dart: close).
THEOREM SessionKindsAgree == ASSUME TablesAgree PROVE SessionSpec => []KindsAgree
<1>1. SessionInv => KindsAgree
  BY DEF SessionInv
<1>2. QED
  BY <1>1, SessionInvariance, PTL

\* Given tables that name the same kinds, nothing is left behind in the registry:
\* each resource has a wrapper of the caller's or is still to be closed by the
\* method that made it, whichever step threw (expression.dart: _withOperands;
\* dataframe.dart, polars.dart: the finally of a composite method).
THEOREM SessionLosesNothing == ASSUME TablesAgree PROVE SessionSpec => []NothingLost
<1>1. SessionInv => NothingLost
  BY DEF SessionInv
<1>2. QED
  BY <1>1, SessionInvariance, PTL

\* What a step may do to a wrapper a caller has: leave it with the resource it had,
\* or close it and free the resource, at the caller's word and with no composite
\* method the wiser.
Kept(s) ==
    wrappers[s] # "none" =>
        \/ wrappers'[s] = wrappers[s] /\ registry'[s] = registry[s]
        \/ wrappers'[s] = "none" /\ registry'[s] = "free" /\ pending' = pending

AllKept == \A s \in Slots : Kept(s)

\* No method takes a wrapper from its caller: what a composite method closes in its
\* finally is only what it made, and a new resource never comes in under a wrapper
\* that is open (expression.dart: _withOperands; dataframe.dart; polars.dart).
CallerKeeps == [][AllKept]_session

\* A request keeps every wrapper there was.
LEMMA WrapsKept ==
    ASSUME SessionInv, NEW new \in SUBSET Slots, Wraps(new)
    PROVE  AllKept
<1> SUFFICES ASSUME NEW s \in Slots, wrappers[s] # "none"
             PROVE  wrappers'[s] = wrappers[s] /\ registry'[s] = registry[s]
  BY DEF AllKept, Kept
<1>1. registry[s] # "free"
  BY KindNames DEF SessionInv, SessionShape, KindsAgree
<1>2. QED
  BY <1>1 DEF Wraps

\* CallerKeeps, given tables that name the same kinds, in a registry of any size.
THEOREM CallersKeep == ASSUME TablesAgree PROVE SessionSpec => CallerKeeps
<1>1. ASSUME SessionInv, [SessionNext]_session PROVE AllKept
  <2>1. CASE \E call \in Calls : Perform(call)
    <3>1. PICK new \in SUBSET Slots : Wraps(new)
      BY <1>1, <2>1, Performed
    <3>2. QED
      BY <1>1, <3>1, WrapsKept
  <2>2. CASE PerformMain
    <3>1. PICK p \in pending : Perform(p.call)
      BY <2>2 DEF PerformMain
    <3>2. p.call \in Calls
      BY <1>1 DEF SessionInv, SessionShape, Underway
    <3>3. QED
      BY <2>1, <3>1, <3>2
  <2>3. CASE MakeTemporary
    <3>1. PICK p \in pending, t \in Free :
             registry' = [registry EXCEPT ![t] = p.call.made[Len(p.temporaries) + 1]]
      BY <2>3 DEF MakeTemporary
    <3>2. wrappers' = wrappers
      BY <2>3 DEF MakeTemporary
    <3>3. /\ registry \in [Slots -> Kinds \cup {"free"}]
          /\ wrappers \in [Slots -> Kinds \cup {"none"}]
          /\ t \in Slots /\ registry[t] = "free"
      BY <1>1 DEF SessionInv, SessionShape, Free
    <3>4. wrappers[t] = "none"
      BY <1>1, <3>3, KindNames DEF SessionInv, KindsAgree
    <3>5. QED
      BY <3>1, <3>2, <3>3, <3>4 DEF AllKept, Kept
  <2>4. CASE CloseTemporary
    <3>1. PICK p \in pending :
             /\ p.temporaries # <<>>
             /\ registry' = [registry EXCEPT ![p.temporaries[Len(p.temporaries)]] = "free"]
      BY <2>4 DEF CloseTemporary
    <3>2. wrappers' = wrappers
      BY <2>4 DEF CloseTemporary
    <3>3. PICK t : t = p.temporaries[Len(p.temporaries)]
      OBVIOUS
    <3>4. Len(p.temporaries) \in 1..Len(p.temporaries)
      <4>1. p.temporaries \in Seq(Slots)
        BY <1>1 DEF SessionInv, SessionShape, Underway
      <4>2. QED
        BY <3>1, <4>1
    <3>5. wrappers[t] = "none"
      BY <1>1, <3>3, <3>4 DEF SessionInv, Making
    <3>6. /\ registry \in [Slots -> Kinds \cup {"free"}]
          /\ registry' = [registry EXCEPT ![t] = "free"]
      BY <1>1, <3>1, <3>3 DEF SessionInv, SessionShape
    <3>7. QED
      BY <3>2, <3>5, <3>6 DEF AllKept, Kept
  <2>5. CASE CloseWrapper
    <3>1. /\ registry \in [Slots -> Kinds \cup {"free"}]
          /\ wrappers \in [Slots -> Kinds \cup {"none"}]
      BY <1>1 DEF SessionInv, SessionShape
    <3>2. QED
      BY <2>5, <3>1 DEF CloseWrapper, AllKept, Kept
  <2>6. CASE UNCHANGED <<registry, wrappers>>
    BY <2>6 DEF AllKept, Kept
  <2>7. QED
    BY <1>1, <2>1, <2>2, <2>3, <2>4, <2>5, <2>6
       DEF SessionNext, session, CallMethod, BeginComposite, MakeTemporaryFails,
           EndComposite
<1>2. SessionInv /\ [SessionNext]_session => [AllKept]_session
  BY <1>1
<1>3. QED
  BY <1>2, SessionInvariance, PTL DEF SessionSpec, CallerKeeps
================================================================================
