---------------------------- MODULE RegistryProofs ----------------------------
(***************************************************************************)
(* Proofs about Registry for every number of slots, generations, threads   *)
(* and entries: type correctness, the safety invariants, and that the      *)
(* registry implements the handle table.                                   *)
(***************************************************************************)
EXTENDS Registry, SequenceTheorems, TLAPS

--------------------------------------------------------------------------------
(* The inductive invariant: what the checked invariants leave unsaid. *)

\* The handle of an occupied slot was returned for the value in the slot.
EntriesMatch ==
    \A i \in DOMAIN slots :
        slots[i].value # NoValue =>
            issued[encode(i, slots[i].generation)] = slots[i].value

\* The next handle of a free slot, and every handle of a slot not pushed yet,
\* is still to be issued.
IssuedInPast ==
    \A i \in 1..MaxSlots, g \in 1..MaxGeneration :
        issued[encode(i, g)] # NoValue =>
            /\ i \in DOMAIN slots
            /\ g <= slots[i].generation
            /\ g = slots[i].generation => \A p \in DOMAIN free : free[p] # i

ReleasedWereIssued == \A h \in released : issued[h] # NoValue

IInv == /\ TypeOK
        /\ FreeListExact
        /\ HandlesAccounted
        /\ NoAliasing
        /\ EntriesMatch
        /\ IssuedInPast
        /\ ReleasedWereIssued

--------------------------------------------------------------------------------
(* Handles *)

\* decode inverts encode, and a handle is in the set Handles exactly when its
\* halves are in range.
LEMMA DecodeEncode ==
    ASSUME NEW i \in 1..MaxSlots, NEW g \in 1..MaxGeneration
    PROVE  /\ encode(i, g) \in Handles
           /\ encode(i, g) \in Nat
           /\ encode(i, g) # 0
           /\ low(encode(i, g)) = i
           /\ high(encode(i, g)) = g
<1>1. /\ i \in Nat /\ g \in Nat /\ HandleBase \in Nat /\ i < HandleBase
      /\ i > 0 /\ MaxSlots \in Nat /\ MaxGeneration \in Nat
  BY RegistryAssumption
<1>2. g * HandleBase \in Nat
  BY <1>1
<1>3. g * HandleBase + i \in Nat /\ g * HandleBase + i # 0
  BY <1>1, <1>2
<1>4. (g * HandleBase + i) % HandleBase = i
  BY <1>1, <1>2, <1>3
<1>5. (g * HandleBase + i) \div HandleBase = g
  BY <1>1, <1>2, <1>3
<1>6. QED
  BY <1>3, <1>4, <1>5 DEF encode, low, high, Handles

\* Two slots, or two generations of one slot, never share a handle
\* (registry.rs: encode).
LEMMA EncodeInjective ==
    ASSUME NEW i \in 1..MaxSlots, NEW g \in 1..MaxGeneration,
           NEW j \in 1..MaxSlots, NEW h \in 1..MaxGeneration,
           encode(i, g) = encode(j, h)
    PROVE  i = j /\ g = h
  BY DecodeEncode

\* A handle is made of the halves decode reads from it (registry.rs: decode).
LEMMA HandleHalves ==
    ASSUME NEW h \in Handles
    PROVE  /\ low(h) \in 1..MaxSlots
           /\ high(h) \in 1..MaxGeneration
           /\ h = encode(low(h), high(h))
<1>1. PICK i \in 1..MaxSlots, g \in 1..MaxGeneration : h = encode(i, g)
  BY DEF Handles
<1>2. QED
  BY <1>1, DecodeEncode

--------------------------------------------------------------------------------
(* Where insert_many puts its values *)

\* A function on 1..n is a sequence of length n.
LEMMA FunctionsAreSequences ==
    ASSUME NEW S, NEW n \in Nat, NEW f \in [1..n -> S]
    PROVE  /\ f \in Seq(S)
           /\ Len(f) = n
           /\ DOMAIN f = 1..n
  OBVIOUS

\* Every value gets a slot of its own: a free one or one just pushed.
LEMMA TargetFacts ==
    ASSUME TypeOK, FreeListExact, NEW n \in Nat, HasRoom(n)
    PROVE  /\ reused(n) \in 0..Len(free)
           /\ additional(n) \in Nat
           /\ Len(slots) + additional(n) <= MaxSlots
           /\ \A k \in 1..n :
                 /\ target(k) \in 1..(Len(slots) + additional(n))
                 /\ target(k) \in DOMAIN slots =>
                       /\ slots[target(k)].value = NoValue
                       /\ Len(free) + 1 - k \in DOMAIN free
                       /\ free[Len(free) + 1 - k] = target(k)
                 /\ target(k) \notin DOMAIN slots => k > Len(free)
           /\ \A k, m \in 1..n : target(k) = target(m) => k = m
           /\ \A i \in 1..(Len(slots) + additional(n)) :
                 i \notin DOMAIN slots => \E k \in 1..n : target(k) = i
<1> DEFINE L == Len(slots)
           F == Len(free)
<1>1. /\ L \in Nat /\ DOMAIN slots = 1..L
      /\ F \in Nat /\ DOMAIN free = 1..F
      /\ MaxSlots \in Nat
  BY RegistryAssumption DEF TypeOK
<1>2. /\ reused(n) \in 0..F /\ additional(n) \in Nat
      /\ n <= F => additional(n) = 0
      /\ n > F => additional(n) = n - F
  <2>1. F \in Nat
    BY <1>1
  <2>2. reused(n) = IF n < F THEN n ELSE F
    BY DEF reused, Lesser
  <2>3. additional(n) = n - reused(n)
    BY DEF additional
  <2>4. QED
    BY <2>1, <2>2, <2>3
<1>3. L + additional(n) <= MaxSlots
  BY DEF HasRoom
<1>4. ASSUME NEW k \in 1..n, k <= F
      PROVE  /\ F + 1 - k \in DOMAIN free
             /\ target(k) = free[F + 1 - k]
             /\ target(k) \in DOMAIN slots
             /\ slots[target(k)].value = NoValue
  <2>1. F + 1 - k \in DOMAIN free
    BY <1>1, <1>4
  <2>2. target(k) = free[F + 1 - k]
    BY <1>4 DEF target
  <2>3. QED
    BY <2>1, <2>2 DEF FreeListExact
<1>5. ASSUME NEW k \in 1..n, k > F
      PROVE  /\ target(k) = L + k - F
             /\ target(k) \in (L + 1)..(L + additional(n))
  BY <1>1, <1>2, <1>5 DEF target
<1>6. \A k \in 1..n :
         /\ target(k) \in 1..(L + additional(n))
         /\ target(k) \in DOMAIN slots =>
               /\ slots[target(k)].value = NoValue
               /\ F + 1 - k \in DOMAIN free
               /\ free[F + 1 - k] = target(k)
         /\ target(k) \notin DOMAIN slots => k > F
  <2> TAKE k \in 1..n
  <2>1. CASE k <= F
    BY <1>1, <1>2, <1>4, <2>1
  <2>2. CASE k > F
    BY <1>1, <1>2, <1>5, <2>2
  <2>3. QED
    BY <1>1, <2>1, <2>2
<1>7. \A k, m \in 1..n : target(k) = target(m) => k = m
  <2> SUFFICES ASSUME NEW k \in 1..n, NEW m \in 1..n, target(k) = target(m)
               PROVE  k = m
    OBVIOUS
  <2>1. CASE k <= F /\ m <= F
    <3>1. /\ F + 1 - k \in DOMAIN free /\ F + 1 - m \in DOMAIN free
          /\ free[F + 1 - k] = free[F + 1 - m]
      BY <1>4, <2>1
    <3>2. F + 1 - k = F + 1 - m
      BY <3>1 DEF FreeListExact
    <3>3. QED
      BY <1>1, <3>2
  <2>2. CASE k > F /\ m > F
    BY <1>1, <1>5, <2>2
  <2>3. CASE k <= F /\ m > F
    BY <1>1, <1>4, <1>5, <2>3
  <2>4. CASE k > F /\ m <= F
    BY <1>1, <1>4, <1>5, <2>4
  <2>5. QED
    BY <1>1, <2>1, <2>2, <2>3, <2>4
<1>8. \A i \in 1..(L + additional(n)) :
         i \notin DOMAIN slots => \E k \in 1..n : target(k) = i
  <2> SUFFICES ASSUME NEW i \in 1..(L + additional(n)), i \notin DOMAIN slots
               PROVE  \E k \in 1..n : target(k) = i
    OBVIOUS
  <2>1. i - L + F \in 1..n /\ i - L + F > F
    BY <1>1, <1>2
  <2>2. target(i - L + F) = i
    BY <1>1, <1>5, <2>1
  <2>3. QED
    BY <2>1, <2>2
<1>9. QED
  BY <1>2, <1>3, <1>6, <1>7, <1>8

\* What the state looks like once insert_many has succeeded.
LEMMA InsertFacts ==
    ASSUME TypeOK, FreeListExact, NEW n \in Nat,
           NEW values \in [1..n -> Entry], insert_many(values)
    PROVE  /\ slots' \in Seq(Slot)
           /\ Len(slots') = Len(slots) + additional(n)
           /\ Len(slots') <= MaxSlots
           /\ \A k \in 1..n :
                 /\ target(k) \in DOMAIN slots'
                 /\ slots'[target(k)].generation = generationOf(target(k))
                 /\ slots'[target(k)].value = values[k]
                 /\ handleOf(k) \in Handles
                 /\ issued'[handleOf(k)] = values[k]
           /\ \A i \in DOMAIN slots' :
                 \/ \E k \in 1..n : target(k) = i
                 \/ i \in DOMAIN slots /\ slots'[i] = slots[i]
           /\ issued' \in [Handles -> Entry \cup {NoValue}]
           /\ \A h \in Handles :
                 (\A k \in 1..n : handleOf(k) # h) => issued'[h] = issued[h]
           /\ free' \in Seq(1..MaxSlots)
           /\ Len(free') = Len(free) - reused(n)
           /\ \A p \in DOMAIN free' : p \in DOMAIN free /\ free'[p] = free[p]
<1> DEFINE S == Len(slots) + additional(n)
<1>1. values \in Seq(Entry) /\ Len(values) = n /\ DOMAIN values = 1..n
  BY FunctionsAreSequences
<1>2. HasRoom(n)
  BY <1>1 DEF insert_many
<1>3. /\ reused(n) \in 0..Len(free)
      /\ additional(n) \in Nat
      /\ S <= MaxSlots
      /\ \A k \in 1..n : target(k) \in 1..S
      /\ \A k, m \in 1..n : target(k) = target(m) => k = m
      /\ \A i \in 1..S : i \notin DOMAIN slots => \E k \in 1..n : target(k) = i
  BY <1>2, TargetFacts
<1>4. /\ slots \in Seq(Slot) /\ Len(slots) \in Nat
      /\ free \in Seq(1..MaxSlots) /\ Len(free) \in Nat
      /\ MaxSlots \in Nat /\ S \in Nat /\ MaxGeneration \in Nat \ {0}
  BY <1>3, RegistryAssumption DEF TypeOK
<1>5. slots' = filled(values)
  BY DEF insert_many
<1>6. /\ DOMAIN slots' = 1..S
      /\ \A i \in 1..S :
            slots'[i] = IF \E k \in 1..n : target(k) = i
                        THEN [generation |-> generationOf(i),
                              value |-> values[CHOOSE k \in 1..n : target(k) = i]]
                        ELSE slots[i]
  BY <1>1, <1>5 DEF filled
<1>7. \A i \in 1..S : generationOf(i) \in 1..MaxGeneration
  <2> TAKE i \in 1..S
  <2>1. CASE i \in DOMAIN slots
    <3>1. slots[i] \in Slot
      BY <1>4, <2>1
    <3>2. QED
      BY <2>1, <3>1 DEF generationOf, Slot
  <2>2. CASE i \notin DOMAIN slots
    BY <1>4, <2>2 DEF generationOf
  <2>3. QED
    BY <2>1, <2>2
<1>8. ASSUME NEW k \in 1..n
      PROVE  slots'[target(k)] = [generation |-> generationOf(target(k)),
                                  value |-> values[k]]
  <2>1. target(k) \in 1..S
    BY <1>3
  <2>2. (CHOOSE m \in 1..n : target(m) = target(k)) = k
    BY <1>3
  <2>3. QED
    BY <1>6, <2>1, <2>2
<1>9. ASSUME NEW i \in 1..S, ~ \E k \in 1..n : target(k) = i
      PROVE  i \in DOMAIN slots /\ slots'[i] = slots[i]
  BY <1>3, <1>6, <1>9
<1>10. \A i \in 1..S : slots'[i] \in Slot
  <2> TAKE i \in 1..S
  <2>1. CASE \E k \in 1..n : target(k) = i
    <3>1. PICK k \in 1..n : target(k) = i
      BY <2>1
    <3>2. values[k] \in Entry /\ generationOf(i) \in 1..MaxGeneration
      BY <1>7
    <3>3. slots'[i] = [generation |-> generationOf(i), value |-> values[k]]
      BY <1>8, <3>1
    <3>4. QED
      BY <3>2, <3>3 DEF Slot
  <2>2. CASE ~ \E k \in 1..n : target(k) = i
    <3>1. i \in DOMAIN slots /\ slots'[i] = slots[i]
      BY <1>9, <2>2
    <3>2. slots[i] \in Slot
      BY <1>4, <3>1, ElementOfSeq
    <3>3. QED
      BY <3>1, <3>2
  <2>3. QED
    BY <2>1, <2>2
<1>11. slots' \in Seq(Slot) /\ Len(slots') = S
  <2>1. slots' = [i \in 1..S |-> slots'[i]]
    BY <1>1, <1>5 DEF filled
  <2>2. slots' \in [1..S -> Slot]
    BY <1>10, <2>1
  <2>3. QED
    BY <1>4, <2>2, FunctionsAreSequences
<1>12. ASSUME NEW k \in 1..n
       PROVE  handleOf(k) \in Handles /\ issued'[handleOf(k)] = values[k]
  <2>1. target(k) \in 1..MaxSlots /\ generationOf(target(k)) \in 1..MaxGeneration
    BY <1>3, <1>4, <1>7
  <2>2. handleOf(k) \in Handles
    BY <2>1, DecodeEncode DEF handleOf
  <2>3. ASSUME NEW m \in 1..n, handleOf(m) = handleOf(k)
        PROVE  m = k
    <3>1. target(m) \in 1..MaxSlots /\ generationOf(target(m)) \in 1..MaxGeneration
      BY <1>3, <1>4, <1>7
    <3>2. target(m) = target(k)
      BY <2>1, <2>3, <3>1, EncodeInjective DEF handleOf
    <3>3. QED
      BY <1>3, <3>2
  <2>4. (CHOOSE m \in 1..n : handleOf(m) = handleOf(k)) = k
    BY <2>3
  <2>5. QED
    BY <1>1, <2>2, <2>4 DEF insert_many
<1>13. /\ issued' \in [Handles -> Entry \cup {NoValue}]
       /\ \A h \in Handles :
             (\A k \in 1..n : handleOf(k) # h) => issued'[h] = issued[h]
  <2>1. issued' = [h \in Handles |->
                     IF \E k \in 1..n : handleOf(k) = h
                     THEN values[CHOOSE k \in 1..n : handleOf(k) = h]
                     ELSE issued[h]]
    BY <1>1 DEF insert_many
  <2>2. \A h \in Handles : issued[h] \in Entry \cup {NoValue}
    BY DEF TypeOK
  <2>3. \A h \in Handles :
           (\E k \in 1..n : handleOf(k) = h) =>
               values[CHOOSE k \in 1..n : handleOf(k) = h] \in Entry
    OBVIOUS
  <2>4. QED
    BY <2>1, <2>2, <2>3
<1>14. /\ free' \in Seq(1..MaxSlots)
       /\ Len(free') = Len(free) - reused(n)
       /\ \A p \in DOMAIN free' : p \in DOMAIN free /\ free'[p] = free[p]
  <2>1. free' = SubSeq(free, 1, Len(free) - reused(n))
    BY <1>1 DEF insert_many
  <2>2. Len(free) - reused(n) \in 0..Len(free)
    BY <1>3, <1>4
  <2>3. QED
    BY <1>4, <2>1, <2>2
<1>15. QED
  BY <1>3, <1>6, <1>8, <1>9, <1>11, <1>12, <1>13, <1>14

--------------------------------------------------------------------------------
(* Facts used by several steps *)

\* A handle is live in some slots exactly when the slot it names has its
\* generation and holds a value (registry.rs: get).
LEMMA LiveHandle ==
    ASSUME NEW s \in Seq(Slot), Len(s) <= MaxSlots
    PROVE  /\ liveIn(s) \subseteq Handles
           /\ \A h \in Handles :
                 h \in liveIn(s) <=> /\ low(h) \in DOMAIN s
                                    /\ s[low(h)].generation = high(h)
                                    /\ s[low(h)].value # NoValue
<1>1. \A i \in DOMAIN s : i \in 1..MaxSlots /\ s[i].generation \in 1..MaxGeneration
  <2> TAKE i \in DOMAIN s
  <2>1. s[i] \in Slot /\ i \in 1..Len(s) /\ Len(s) \in Nat /\ MaxSlots \in Nat
    BY RegistryAssumption
  <2>2. QED
    BY <2>1 DEF Slot
<1>2. liveIn(s) \subseteq Handles
  BY <1>1, DecodeEncode DEF liveIn
<1>3. ASSUME NEW h \in Handles, h \in liveIn(s)
      PROVE  /\ low(h) \in DOMAIN s
             /\ s[low(h)].generation = high(h)
             /\ s[low(h)].value # NoValue
  <2>1. PICK i \in DOMAIN s : /\ s[i].value # NoValue
                              /\ h = encode(i, s[i].generation)
    BY <1>3 DEF liveIn
  <2>2. QED
    BY <1>1, <2>1, DecodeEncode
<1>4. ASSUME NEW h \in Handles, low(h) \in DOMAIN s,
             s[low(h)].generation = high(h), s[low(h)].value # NoValue
      PROVE  h \in liveIn(s)
  BY <1>4, HandleHalves DEF liveIn
<1>5. QED
  BY <1>2, <1>3, <1>4

\* An empty slot is told apart from an occupied one.
LEMMA NoValueIsNoEntry == NoValue \notin Entry
  BY RegistryAssumption

\* A handle about to be returned was never returned before.
LEMMA FreshHandles ==
    ASSUME IInv, NEW n \in Nat, HasRoom(n), NEW k \in 1..n,
           handleOf(k) \in Handles
    PROVE  issued[handleOf(k)] = NoValue
<1>1. /\ target(k) \in 1..(Len(slots) + additional(n))
      /\ Len(slots) + additional(n) <= MaxSlots /\ additional(n) \in Nat
      /\ target(k) \in DOMAIN slots => /\ Len(free) + 1 - k \in DOMAIN free
                                      /\ free[Len(free) + 1 - k] = target(k)
  BY TargetFacts DEF IInv
<1>2. /\ slots \in Seq(Slot) /\ MaxSlots \in Nat /\ MaxGeneration \in Nat \ {0}
  BY RegistryAssumption DEF IInv, TypeOK
<1>3. target(k) \in 1..MaxSlots
  BY <1>1, <1>2
<1>4. generationOf(target(k)) \in 1..MaxGeneration
  <2>1. CASE target(k) \in DOMAIN slots
    <3>1. slots[target(k)] \in Slot
      BY <1>2, <2>1
    <3>2. QED
      BY <2>1, <3>1 DEF generationOf, Slot
  <2>2. CASE target(k) \notin DOMAIN slots
    BY <1>2, <2>2 DEF generationOf
  <2>3. QED
    BY <2>1, <2>2
<1>5. SUFFICES ASSUME issued[handleOf(k)] # NoValue
               PROVE  FALSE
  OBVIOUS
<1>6. /\ target(k) \in DOMAIN slots
      /\ generationOf(target(k)) = slots[target(k)].generation =>
            \A p \in DOMAIN free : free[p] # target(k)
  BY <1>3, <1>4, <1>5 DEF IInv, IssuedInPast, handleOf
<1>7. QED
  BY <1>1, <1>6 DEF generationOf

\* insert_many leaves no target on the free stack.
LEMMA TargetsLeaveTheStack ==
    ASSUME TypeOK, FreeListExact, NEW n \in Nat, HasRoom(n),
           NEW k \in 1..n, NEW p \in 1..(Len(free) - reused(n))
    PROVE  free[p] # target(k)
<1>1. SUFFICES ASSUME free[p] = target(k)
               PROVE  FALSE
  OBVIOUS
<1>2. /\ Len(free) \in Nat /\ DOMAIN free = 1..Len(free)
      /\ reused(n) \in 0..Len(free)
  BY TargetFacts DEF TypeOK
<1>3. p \in DOMAIN free
  BY <1>2
<1>4. target(k) \in DOMAIN slots
  BY <1>1, <1>3 DEF FreeListExact
<1>5. /\ Len(free) + 1 - k \in DOMAIN free
      /\ free[Len(free) + 1 - k] = target(k)
  BY <1>4, TargetFacts
<1>6. p = Len(free) + 1 - k
  BY <1>1, <1>3, <1>5 DEF FreeListExact
<1>7. k <= reused(n)
  <2>1. k <= Len(free) /\ k <= n
    BY <1>2, <1>5
  <2>2. reused(n) = IF n < Len(free) THEN n ELSE Len(free)
    BY DEF reused, Lesser
  <2>3. QED
    BY <1>2, <2>1, <2>2
<1>8. QED
  BY <1>2, <1>6, <1>7

--------------------------------------------------------------------------------
(* Every step preserves the inductive invariant *)

\* Registering the results of a command preserves the invariant (registry.rs:
\* insert_many).
LEMMA RegisterStep ==
    ASSUME IInv, NEW t \in Threads, Register(t)
    PROVE  IInv'
<1> USE DEF IInv
<1>0. PICK n \in 1..MaxOutputs : \E values \in [1..n -> Entry] : insert_many(values)
  BY DEF Register
<1>1. PICK values \in [1..n -> Entry] : insert_many(values)
  BY <1>0
<1>2. n \in Nat /\ Len(values) = n /\ MaxSlots \in Nat
  BY FunctionsAreSequences, RegistryAssumption
<1>3. HasRoom(n)
  BY <1>1, <1>2 DEF insert_many
<1>4. /\ slots' \in Seq(Slot)
      /\ Len(slots') = Len(slots) + additional(n) /\ Len(slots') <= MaxSlots
      /\ \A k \in 1..n :
            /\ target(k) \in DOMAIN slots'
            /\ slots'[target(k)].generation = generationOf(target(k))
            /\ slots'[target(k)].value = values[k]
            /\ handleOf(k) \in Handles
            /\ issued'[handleOf(k)] = values[k]
      /\ \A i \in DOMAIN slots' :
            \/ \E k \in 1..n : target(k) = i
            \/ i \in DOMAIN slots /\ slots'[i] = slots[i]
      /\ issued' \in [Handles -> Entry \cup {NoValue}]
      /\ \A h \in Handles :
            (\A k \in 1..n : handleOf(k) # h) => issued'[h] = issued[h]
      /\ free' \in Seq(1..MaxSlots)
      /\ Len(free') = Len(free) - reused(n)
      /\ \A p \in DOMAIN free' : p \in DOMAIN free /\ free'[p] = free[p]
  BY <1>1, <1>2, InsertFacts
<1>5. /\ additional(n) \in Nat /\ reused(n) \in 0..Len(free)
      /\ slots \in Seq(Slot) /\ free \in Seq(1..MaxSlots)
      /\ DOMAIN slots \subseteq DOMAIN slots'
      /\ \A k \in 1..n :
            target(k) \in DOMAIN slots =>
               /\ slots[target(k)].value = NoValue
               /\ Len(free) + 1 - k \in DOMAIN free
               /\ free[Len(free) + 1 - k] = target(k)
  BY <1>2, <1>3, <1>4, TargetFacts DEF TypeOK
<1>6. \A k \in 1..n : values[k] \in Entry /\ values[k] # NoValue
  BY NoValueIsNoEntry
<1>7. \A k \in 1..n : issued[handleOf(k)] = NoValue
  BY <1>2, <1>3, <1>4, FreshHandles
<1>8. \A k \in 1..n : /\ target(k) \in 1..MaxSlots
                       /\ generationOf(target(k)) \in 1..MaxGeneration
  <2> TAKE k \in 1..n
  <2>1. target(k) \in 1..MaxSlots /\ slots'[target(k)] \in Slot
    BY <1>2, <1>4
  <2>2. QED
    BY <1>4, <2>1 DEF Slot
<1>9. \A k \in 1..n, p \in DOMAIN free' : free'[p] # target(k)
  <2> TAKE k \in 1..n, p \in DOMAIN free'
  <2>1. p \in 1..(Len(free) - reused(n))
    BY <1>4
  <2>2. QED
    BY <1>2, <1>3, <1>4, <2>1, TargetsLeaveTheStack
<1>10. /\ released' = released
       /\ calls' \in [Threads -> Call]
       /\ \A u \in Threads : calls'[u] = calls[u] \/ calls'[u].inputs = <<>>
  <2>1. calls' = [calls EXCEPT ![t] = Idle] /\ released' = released
    BY DEF Register
  <2>2. Idle \in Call /\ Idle.inputs = <<>>
    BY DEF Idle, Call
  <2>3. calls \in [Threads -> Call]
    BY DEF TypeOK
  <2>4. QED
    BY <2>1, <2>2, <2>3
<1>11. TypeOK'
  BY <1>4, <1>10 DEF TypeOK
<1>12. FreeListExact'
  <2>1. ASSUME NEW p \in DOMAIN free'
        PROVE  /\ free'[p] \in DOMAIN slots'
               /\ slots'[free'[p]].value = NoValue
    <3>1. free'[p] \in DOMAIN slots /\ slots[free'[p]].value = NoValue
      BY <1>4 DEF FreeListExact
    <3>2. slots'[free'[p]] = slots[free'[p]]
      BY <1>4, <1>5, <1>9, <3>1
    <3>3. QED
      BY <1>5, <3>1, <3>2
  <2>2. ASSUME NEW p \in DOMAIN free', NEW q \in DOMAIN free', free'[p] = free'[q]
        PROVE  p = q
    BY <1>4, <2>2 DEF FreeListExact
  <2>3. ASSUME NEW i \in DOMAIN slots', slots'[i].value = NoValue,
               slots'[i].generation # MaxGeneration
        PROVE  \E p \in DOMAIN free' : free'[p] = i
    <3>1. ~ \E k \in 1..n : target(k) = i
      BY <1>4, <1>6, <2>3
    <3>2. i \in DOMAIN slots /\ slots'[i] = slots[i]
      BY <1>4, <3>1
    <3>3. PICK p \in DOMAIN free : free[p] = i
      BY <2>3, <3>2 DEF FreeListExact
    <3>4. CASE p \in DOMAIN free'
      BY <1>4, <3>3, <3>4
    <3>5. CASE p \notin DOMAIN free'
      <4>1. /\ p > Len(free) - reused(n) /\ p <= Len(free) /\ p \in Nat
            /\ Len(free) \in Nat /\ reused(n) <= n
        <5>1. reused(n) = IF n < Len(free) THEN n ELSE Len(free)
          BY DEF reused, Lesser
        <5>2. /\ Len(free) \in Nat /\ DOMAIN free = 1..Len(free)
              /\ DOMAIN free' = 1..(Len(free) - reused(n))
          BY <1>4, <1>5
        <5>3. p \in 1..Len(free) /\ p \notin 1..(Len(free) - reused(n))
          BY <3>5, <5>2
        <5>4. QED
          BY <1>2, <1>5, <5>1, <5>2, <5>3
      <4>2. Len(free) + 1 - p \in 1..n /\ Len(free) + 1 - p <= Len(free)
        BY <1>2, <1>5, <4>1
      <4>3. target(Len(free) + 1 - p) = free[p]
        BY <4>1, <4>2 DEF target
      <4>4. QED
        BY <3>1, <3>3, <4>2, <4>3
    <3>6. QED
      BY <3>4, <3>5
  <2>4. QED
    BY <2>1, <2>2, <2>3 DEF FreeListExact
<1>13. \A i \in 1..MaxSlots, g \in 1..MaxGeneration, k \in 1..n :
          encode(i, g) = handleOf(k) => i = target(k) /\ g = generationOf(i)
  BY <1>8, EncodeInjective DEF handleOf
<1>14. EntriesMatch'
  <2>1. SUFFICES ASSUME NEW i \in DOMAIN slots', slots'[i].value # NoValue
                 PROVE  issued'[encode(i, slots'[i].generation)] = slots'[i].value
    BY DEF EntriesMatch, encode
  <2>2. i \in 1..MaxSlots /\ slots'[i].generation \in 1..MaxGeneration
    <3>1. slots'[i] \in Slot /\ i \in 1..MaxSlots
      BY <1>2, <1>4
    <3>2. QED
      BY <3>1 DEF Slot
  <2>3. CASE \E k \in 1..n : target(k) = i
    BY <1>4, <2>3 DEF handleOf
  <2>4. CASE ~ \E k \in 1..n : target(k) = i
    <3>1. i \in DOMAIN slots /\ slots'[i] = slots[i]
      BY <1>4, <2>4
    <3>2. \A k \in 1..n : handleOf(k) # encode(i, slots'[i].generation)
      BY <1>13, <2>2, <2>4
    <3>3. encode(i, slots'[i].generation) \in Handles
      BY <2>2, DecodeEncode
    <3>4. QED
      BY <1>4, <2>1, <3>1, <3>2, <3>3 DEF EntriesMatch
  <2>5. QED
    BY <2>3, <2>4
<1>15. IssuedInPast'
  <2>1. SUFFICES ASSUME NEW i \in 1..MaxSlots, NEW g \in 1..MaxGeneration,
                        issued'[encode(i, g)] # NoValue
                 PROVE  /\ i \in DOMAIN slots'
                        /\ g <= slots'[i].generation
                        /\ g = slots'[i].generation =>
                              \A p \in DOMAIN free' : free'[p] # i
    BY DEF IssuedInPast, encode
  <2>2. CASE \E k \in 1..n : encode(i, g) = handleOf(k)
    <3>1. PICK k \in 1..n : i = target(k) /\ g = generationOf(i)
      BY <1>13, <2>2
    <3>2. i \in DOMAIN slots' /\ g = slots'[i].generation
      BY <1>4, <3>1
    <3>3. \A p \in DOMAIN free' : free'[p] # i
      BY <1>9, <3>1
    <3>4. QED
      BY <3>2, <3>3
  <2>3. CASE ~ \E k \in 1..n : encode(i, g) = handleOf(k)
    <3>1. issued[encode(i, g)] # NoValue
      BY <1>4, <2>1, <2>3, DecodeEncode
    <3>2. /\ i \in DOMAIN slots /\ g <= slots[i].generation
          /\ g = slots[i].generation => \A p \in DOMAIN free : free[p] # i
      BY <3>1 DEF IssuedInPast
    <3>3. slots'[i].generation = slots[i].generation
      <4>1. i \in DOMAIN slots'
        BY <1>5, <3>2
      <4>2. CASE \E k \in 1..n : target(k) = i
        BY <1>4, <3>2, <4>2 DEF generationOf
      <4>3. CASE ~ \E k \in 1..n : target(k) = i
        BY <1>4, <4>1, <4>3
      <4>4. QED
        BY <4>2, <4>3
    <3>4. QED
      BY <1>4, <1>5, <3>2, <3>3
  <2>4. QED
    BY <2>2, <2>3
<1>16. ReleasedWereIssued'
  BY <1>4, <1>7, <1>10 DEF ReleasedWereIssued, TypeOK
<1>17. HandlesAccounted'
  <2>1. /\ liveIn(slots) \subseteq Handles /\ liveIn(slots') \subseteq Handles
        /\ \A h \in Handles :
              h \in liveIn(slots) <=> /\ low(h) \in DOMAIN slots
                                     /\ slots[low(h)].generation = high(h)
                                     /\ slots[low(h)].value # NoValue
        /\ \A h \in Handles :
              h \in liveIn(slots') <=> /\ low(h) \in DOMAIN slots'
                                      /\ slots'[low(h)].generation = high(h)
                                      /\ slots'[low(h)].value # NoValue
    BY <1>4, LiveHandle DEF TypeOK
  <2>2. ASSUME NEW h \in Handles
        PROVE  h \in liveIn(slots') <=> issued'[h] # NoValue /\ h \notin released
    <3>1. CASE \E k \in 1..n : handleOf(k) = h
      <4>1. PICK k \in 1..n : handleOf(k) = h
        BY <3>1
      <4>2. low(h) = target(k) /\ high(h) = generationOf(target(k))
        BY <1>8, <4>1, DecodeEncode DEF handleOf
      <4>3. h \in liveIn(slots')
        BY <1>4, <1>6, <2>1, <4>2
      <4>4. h \notin released
        BY <1>7, <4>1 DEF ReleasedWereIssued
      <4>5. QED
        BY <1>4, <1>6, <4>1, <4>3, <4>4
    <3>2. CASE ~ \E k \in 1..n : handleOf(k) = h
      <4>1. issued'[h] = issued[h]
        BY <1>4, <3>2
      <4>2. h \in liveIn(slots) <=> issued[h] # NoValue /\ h \notin released
        BY DEF HandlesAccounted, liveHandles
      <4>3. h \in liveIn(slots') <=> h \in liveIn(slots)
        <5>1. CASE \E k \in 1..n : target(k) = low(h)
          <6>1. PICK k \in 1..n : target(k) = low(h)
            BY <5>1
          <6>2. high(h) # generationOf(target(k))
            BY <3>2, <6>1, HandleHalves DEF handleOf
          <6>3. QED
            BY <1>4, <1>5, <2>1, <6>1, <6>2
        <5>2. CASE ~ \E k \in 1..n : target(k) = low(h)
          BY <1>4, <1>5, <2>1, <5>2
        <5>3. QED
          BY <5>1, <5>2
      <4>4. QED
        BY <4>1, <4>2, <4>3
    <3>3. QED
      BY <3>1, <3>2
  <2>3. liveIn(slots') = {h \in Handles : issued'[h] # NoValue} \ released'
    BY <1>10, <2>1, <2>2
  <2>4. QED
    BY <2>3 DEF HandlesAccounted, liveHandles, liveIn, encode, Handles
<1>18. NoAliasing'
  <2>1. SUFFICES ASSUME NEW u \in Threads, NEW k \in DOMAIN calls'[u].inputs
                 PROVE  calls'[u].inputs[k].entry = issued'[calls'[u].inputs[k].handle]
    BY DEF NoAliasing
  <2>2. calls'[u] = calls[u]
    BY <1>10
  <2>3. calls[u].inputs[k] \in Input
    BY <2>2 DEF TypeOK, Call
  <2>4. /\ calls[u].inputs[k].entry = issued[calls[u].inputs[k].handle]
        /\ calls[u].inputs[k].entry # NoValue
        /\ calls[u].inputs[k].handle \in Handles
    BY <2>2, <2>3, NoValueIsNoEntry DEF NoAliasing, Input
  <2>5. issued'[calls[u].inputs[k].handle] = issued[calls[u].inputs[k].handle]
    BY <1>4, <1>7, <2>4
  <2>6. QED
    BY <2>2, <2>4, <2>5
<1>19. QED
  BY <1>11, <1>12, <1>14, <1>15, <1>16, <1>17, <1>18

\* A release names the handle of the slot it empties.
LEMMA ReleaseFacts ==
    ASSUME IInv, NEW h \in Arguments, NEW i \in matching(h),
           slots[i].value # NoValue
    PROVE  /\ h \in Handles /\ i \in DOMAIN slots /\ i \in 1..MaxSlots
           /\ slots[i].generation \in 1..MaxGeneration
           /\ h = encode(i, slots[i].generation)
           /\ h \in liveIn(slots)
           /\ slots[i] \in Slot
<1>1. /\ i \in DOMAIN slots /\ low(h) = i /\ slots[i].generation = high(h)
  BY DEF matching
<1>2. slots[i] \in Slot /\ i \in 1..MaxSlots
  BY <1>1, RegistryAssumption DEF IInv, TypeOK
<1>3. slots[i].generation \in 1..MaxGeneration
  BY <1>2 DEF Slot
<1>4. h \in Handles
  <2>1. low(0) = 0
    BY RegistryAssumption DEF low
  <2>2. h # 0
    BY <1>1, <1>2, <2>1
  <2>3. QED
    BY <2>2 DEF Arguments
<1>5. h = encode(i, slots[i].generation)
  BY <1>1, <1>4, HandleHalves
<1>6. QED
  BY <1>1, <1>2, <1>3, <1>4, <1>5 DEF liveIn

\* Releasing a handle preserves the invariant (registry.rs: release).
LEMMA ReleaseStep ==
    ASSUME IInv, Release
    PROVE  IInv'
<1> USE DEF IInv
<1>1. PICK h \in Arguments : release(h)
  BY DEF Release
<1>2. PICK i \in matching(h) : /\ slots[i].value # NoValue
                               /\ vacate(i)
                               /\ released' = released \cup {h}
                               /\ UNCHANGED <<calls, issued>>
  BY <1>1 DEF release
<1> DEFINE g == slots[i].generation
<1>3. /\ h \in Handles /\ i \in DOMAIN slots /\ i \in 1..MaxSlots
      /\ g \in 1..MaxGeneration /\ h = encode(i, g)
      /\ h \in liveIn(slots) /\ slots[i] \in Slot
  BY <1>2, ReleaseFacts
<1>4. /\ slots \in Seq(Slot) /\ free \in Seq(1..MaxSlots)
      /\ Len(slots) \in Nat /\ Len(free) \in Nat
      /\ MaxGeneration \in Nat /\ MaxSlots \in Nat /\ Len(slots) <= MaxSlots
  BY RegistryAssumption DEF TypeOK
<1>5. /\ slots' \in Seq(Slot) /\ Len(slots') = Len(slots)
      /\ DOMAIN slots' = DOMAIN slots
      /\ slots'[i].value = NoValue
      /\ \A j \in DOMAIN slots : j # i => slots'[j] = slots[j]
      /\ g # MaxGeneration => slots'[i].generation = g + 1
      /\ g = MaxGeneration => slots'[i].generation = g
  <2>1. CASE g # MaxGeneration
    <3>1. slots' = [slots EXCEPT ![i] = [generation |-> g + 1, value |-> NoValue]]
      BY <1>2, <2>1 DEF vacate
    <3>2. [generation |-> g + 1, value |-> NoValue] \in Slot
      BY <1>3, <1>4, <2>1 DEF Slot
    <3>3. QED
      BY <1>3, <1>4, <2>1, <3>1, <3>2
  <2>2. CASE g = MaxGeneration
    <3>1. slots' = [slots EXCEPT ![i].value = NoValue]
      BY <1>2, <2>2 DEF vacate
    <3>2. [slots[i] EXCEPT !.value = NoValue] \in Slot
      BY <1>3 DEF Slot
    <3>3. slots'[i] = [slots[i] EXCEPT !.value = NoValue]
      BY <1>3, <3>1
    <3>4. /\ slots'[i].value = NoValue /\ slots'[i].generation = g
      BY <1>3, <3>3 DEF Slot
    <3>5. QED
      BY <1>3, <1>4, <2>2, <3>1, <3>2, <3>3, <3>4
  <2>3. QED
    BY <2>1, <2>2
<1>6. /\ free' \in Seq(1..MaxSlots)
      /\ DOMAIN free \subseteq DOMAIN free'
      /\ \A p \in DOMAIN free : free'[p] = free[p]
      /\ g # MaxGeneration => /\ DOMAIN free' = 1..(Len(free) + 1)
                             /\ free'[Len(free) + 1] = i
      /\ g = MaxGeneration => free' = free
  <2>1. CASE g # MaxGeneration
    <3>1. free' = Append(free, i)
      BY <1>2, <2>1 DEF vacate
    <3>2. /\ free' \in Seq(1..MaxSlots)
          /\ Len(free') = Len(free) + 1
          /\ \A p \in 1..Len(free) : free'[p] = free[p]
          /\ free'[Len(free) + 1] = i
      BY <1>3, <1>4, <3>1
    <3>3. DOMAIN free = 1..Len(free) /\ DOMAIN free' = 1..(Len(free) + 1)
      BY <1>4, <3>2
    <3>4. QED
      BY <1>4, <2>1, <3>2, <3>3
  <2>2. CASE g = MaxGeneration
    <3>1. free' = free
      BY <1>2, <2>2 DEF vacate
    <3>2. QED
      BY <1>4, <2>2, <3>1
  <2>3. QED
    BY <2>1, <2>2
<1>7. \A p \in DOMAIN free : free[p] # i
  BY <1>2 DEF FreeListExact
<1>8. /\ calls' = calls /\ issued' = issued /\ released' = released \cup {h}
  BY <1>2
<1>9. TypeOK'
  BY <1>3, <1>4, <1>5, <1>6, <1>8 DEF TypeOK
<1>10. FreeListExact'
  <2>1. ASSUME NEW p \in DOMAIN free'
        PROVE  /\ free'[p] \in DOMAIN slots'
               /\ slots'[free'[p]].value = NoValue
    <3>1. CASE p \in DOMAIN free
      BY <1>5, <1>6, <1>7, <3>1 DEF FreeListExact
    <3>2. CASE p \notin DOMAIN free
      BY <1>3, <1>4, <1>5, <1>6, <3>2
    <3>3. QED
      BY <3>1, <3>2
  <2>2. ASSUME NEW p \in DOMAIN free', NEW q \in DOMAIN free', free'[p] = free'[q]
        PROVE  p = q
    <3>1. CASE g = MaxGeneration
      BY <1>6, <2>2, <3>1 DEF FreeListExact
    <3>2. CASE g # MaxGeneration
      <4>1. \A r \in DOMAIN free' : r \in DOMAIN free \/ r = Len(free) + 1
        BY <1>4, <1>6, <3>2
      <4>2. CASE p \in DOMAIN free /\ q \in DOMAIN free
        BY <1>6, <2>2, <4>2 DEF FreeListExact
      <4>3. CASE ~ (p \in DOMAIN free /\ q \in DOMAIN free)
        BY <1>6, <1>7, <2>2, <3>2, <4>1, <4>3
      <4>4. QED
        BY <4>2, <4>3
    <3>3. QED
      BY <3>1, <3>2
  <2>3. ASSUME NEW j \in DOMAIN slots', slots'[j].value = NoValue,
               slots'[j].generation # MaxGeneration
        PROVE  \E p \in DOMAIN free' : free'[p] = j
    <3>1. CASE j = i
      <4>1. g # MaxGeneration
        BY <1>5, <2>3, <3>1
      <4>2. Len(free) + 1 \in DOMAIN free' /\ free'[Len(free) + 1] = i
        BY <1>4, <1>6, <4>1
      <4>3. QED
        BY <3>1, <4>2
    <3>2. CASE j # i
      BY <1>5, <1>6, <2>3, <3>2 DEF FreeListExact
    <3>3. QED
      BY <3>1, <3>2
  <2>4. QED
    BY <2>1, <2>2, <2>3 DEF FreeListExact
<1>11. EntriesMatch'
  <2>1. SUFFICES ASSUME NEW j \in DOMAIN slots', slots'[j].value # NoValue
                 PROVE  issued'[encode(j, slots'[j].generation)] = slots'[j].value
    BY DEF EntriesMatch, encode
  <2>2. j # i /\ slots'[j] = slots[j] /\ j \in DOMAIN slots
    BY <1>5, <2>1
  <2>3. QED
    BY <1>8, <2>1, <2>2 DEF EntriesMatch
<1>12. IssuedInPast'
  <2>1. SUFFICES ASSUME NEW j \in 1..MaxSlots, NEW f \in 1..MaxGeneration,
                        issued'[encode(j, f)] # NoValue
                 PROVE  /\ j \in DOMAIN slots'
                        /\ f <= slots'[j].generation
                        /\ f = slots'[j].generation =>
                              \A p \in DOMAIN free' : free'[p] # j
    BY DEF IssuedInPast, encode
  <2>2. /\ j \in DOMAIN slots
        /\ f <= slots[j].generation
        /\ f = slots[j].generation => \A p \in DOMAIN free : free[p] # j
    BY <1>8, <2>1 DEF IssuedInPast
  <2>3. CASE j = i
    <3>1. CASE g = MaxGeneration
      BY <1>5, <1>6, <1>7, <2>2, <2>3, <3>1
    <3>2. CASE g # MaxGeneration
      BY <1>3, <1>4, <1>5, <2>2, <2>3, <3>2
    <3>3. QED
      BY <3>1, <3>2
  <2>4. CASE j # i
    <3>1. slots'[j] = slots[j]
      BY <1>5, <2>2, <2>4
    <3>2. \A p \in DOMAIN free' : p \in DOMAIN free \/ free'[p] = i
      BY <1>4, <1>6
    <3>3. QED
      BY <1>5, <1>6, <2>2, <2>4, <3>1, <3>2
  <2>5. QED
    BY <2>3, <2>4
<1>13. ReleasedWereIssued'
  BY <1>3, <1>8 DEF ReleasedWereIssued, HandlesAccounted, liveHandles
<1>14. HandlesAccounted'
  <2>1. /\ liveIn(slots) \subseteq Handles /\ liveIn(slots') \subseteq Handles
        /\ \A k \in Handles :
              k \in liveIn(slots) <=> /\ low(k) \in DOMAIN slots
                                     /\ slots[low(k)].generation = high(k)
                                     /\ slots[low(k)].value # NoValue
        /\ \A k \in Handles :
              k \in liveIn(slots') <=> /\ low(k) \in DOMAIN slots'
                                      /\ slots'[low(k)].generation = high(k)
                                      /\ slots'[low(k)].value # NoValue
    BY <1>4, <1>5, LiveHandle
  <2>2. ASSUME NEW k \in Handles
        PROVE  k \in liveIn(slots') <=> k \in liveIn(slots) /\ k # h
    <3>1. CASE low(k) = i
      <4>1. k \notin liveIn(slots')
        BY <1>5, <2>1, <3>1
      <4>2. k \in liveIn(slots) => k = h
        BY <1>3, <2>1, <3>1, HandleHalves
      <4>3. QED
        BY <4>1, <4>2
    <3>2. CASE low(k) # i
      <4>1. k # h
        BY <1>3, <3>2, DecodeEncode
      <4>2. QED
        BY <1>5, <2>1, <3>2, <4>1
    <3>3. QED
      BY <3>1, <3>2
  <2>3. liveIn(slots') = {k \in Handles : issued'[k] # NoValue} \ released'
    BY <1>8, <2>1, <2>2 DEF HandlesAccounted, liveHandles
  <2>4. QED
    BY <2>3 DEF HandlesAccounted, liveHandles, liveIn, encode, Handles
<1>15. NoAliasing'
  BY <1>8 DEF NoAliasing
<1>16. QED
  BY <1>9, <1>10, <1>11, <1>12, <1>13, <1>14, <1>15

\* A command that only reads leaves the registry alone and resolves the
\* object its handle was returned for.
LEMMA ResolveStep ==
    ASSUME IInv, NEW t \in Threads, Resolve(t)
    PROVE  IInv'
<1> USE DEF IInv
<1>1. PICK h \in Arguments, kind \in Kinds :
         \E e \in found(h, kind) :
            calls' = [calls EXCEPT ![t].inputs =
                          Append(@, [handle |-> h, entry |-> e])]
  BY DEF Resolve
<1>2. PICK e \in found(h, kind) :
         calls' = [calls EXCEPT ![t].inputs =
                       Append(@, [handle |-> h, entry |-> e])]
  BY <1>1
<1>3. UNCHANGED <<slots, free, issued, released>>
  BY DEF Resolve
<1>4. PICK i \in matching(h) : slots[i].value = e /\ e # NoValue
  BY <1>2 DEF found
<1>5. /\ h \in Handles /\ i \in DOMAIN slots
      /\ h = encode(i, slots[i].generation) /\ slots[i] \in Slot
  BY <1>4, ReleaseFacts
<1>6. issued[h] = e /\ e \in Entry
  BY <1>4, <1>5 DEF EntriesMatch, Slot
<1> DEFINE input == [handle |-> h, entry |-> e]
<1>7. input \in Input
  BY <1>5, <1>6 DEF Input
<1>8. calls \in [Threads -> Call]
  BY DEF TypeOK
<1>9. /\ calls' \in [Threads -> Call]
      /\ calls'[t].inputs = Append(calls[t].inputs, input)
      /\ \A u \in Threads : u # t => calls'[u] = calls[u]
  <2>1. calls[t] \in Call
    BY <1>8
  <2>2. Append(calls[t].inputs, input) \in Seq(Input)
    BY <1>7, <2>1 DEF Call
  <2>3. [calls[t] EXCEPT !.inputs = Append(calls[t].inputs, input)] \in Call
    BY <2>1, <2>2 DEF Call
  <2>4. calls' = [calls EXCEPT ![t] =
                     [calls[t] EXCEPT !.inputs = Append(calls[t].inputs, input)]]
    BY <1>2
  <2>5. [calls[t] EXCEPT !.inputs = Append(calls[t].inputs, input)].inputs
           = Append(calls[t].inputs, input)
    BY <2>1 DEF Call
  <2>6. QED
    BY <1>8, <2>3, <2>4, <2>5
<1>10. TypeOK'
  BY <1>3, <1>9 DEF TypeOK
<1>11. NoAliasing'
  <2>1. SUFFICES ASSUME NEW u \in Threads, NEW k \in DOMAIN calls'[u].inputs
                 PROVE  calls'[u].inputs[k].entry = issued[calls'[u].inputs[k].handle]
    BY <1>3 DEF NoAliasing
  <2>2. CASE u # t
    BY <1>9, <2>2 DEF NoAliasing
  <2>3. CASE u = t
    <3>1. calls[t].inputs \in Seq(Input)
      BY <1>8 DEF Call
    <3>2. CASE k \in DOMAIN calls[t].inputs
      <4>1. calls'[t].inputs[k] = calls[t].inputs[k]
        BY <1>7, <1>9, <3>1, <3>2
      <4>2. QED
        BY <2>3, <3>2, <4>1 DEF NoAliasing
    <3>3. CASE k \notin DOMAIN calls[t].inputs
      <4>1. calls'[t].inputs[k] = input
        BY <1>7, <1>9, <2>1, <2>3, <3>1, <3>3
      <4>2. QED
        BY <1>6, <2>3, <4>1
    <3>4. QED
      BY <3>2, <3>3
  <2>4. QED
    BY <2>2, <2>3
<1>12. (FreeListExact /\ HandlesAccounted /\ EntriesMatch /\ IssuedInPast /\ ReleasedWereIssued)'
  BY <1>3 DEF FreeListExact, HandlesAccounted, EntriesMatch, IssuedInPast,
              ReleasedWereIssued, liveHandles, liveIn
<1>13. QED
  BY <1>10, <1>11, <1>12

--------------------------------------------------------------------------------
(* Theorems *)

\* The empty registry satisfies the invariant.
LEMMA InitInvariant == Init => IInv
<1> SUFFICES ASSUME Init
             PROVE  IInv
  OBVIOUS
<1>1. /\ slots = <<>> /\ free = <<>> /\ released = {}
      /\ issued = [h \in Handles |-> NoValue]
      /\ calls = [t \in Threads |-> Idle]
  BY DEF Init
<1>2. Idle \in Call
  BY DEF Idle, Call
<1>3. MaxSlots \in Nat
  BY RegistryAssumption
<1>4. TypeOK
  BY <1>1, <1>2, <1>3 DEF TypeOK
<1>5. FreeListExact /\ EntriesMatch /\ ReleasedWereIssued
  BY <1>1 DEF FreeListExact, EntriesMatch, ReleasedWereIssued
<1>6. HandlesAccounted
  BY <1>1 DEF HandlesAccounted, liveHandles, liveIn
<1>7. NoAliasing
  BY <1>1 DEF NoAliasing, Idle
<1>8. IssuedInPast
  BY <1>1, DecodeEncode DEF IssuedInPast
<1>9. QED
  BY <1>4, <1>5, <1>6, <1>7, <1>8 DEF IInv

\* Every step of a command, and every release, preserves the invariant.
LEMMA StepInvariant == IInv /\ [Next]_vars => IInv'
<1> SUFFICES ASSUME IInv, [Next]_vars
             PROVE  IInv'
  OBVIOUS
<1>1. ASSUME NEW t \in Threads, Begin(t) \/ Answer(t)
      PROVE  IInv'
  <2>1. /\ UNCHANGED <<slots, free, issued, released>>
        /\ calls \in [Threads -> Call]
    BY <1>1 DEF Begin, Answer, IInv, TypeOK
  <2>2. /\ calls' \in [Threads -> Call]
        /\ \A u \in Threads : calls'[u] = calls[u] \/ calls'[u].inputs = <<>>
    <3>1. CASE Begin(t)
      <4>1. calls[t] = Idle /\ calls' = [calls EXCEPT ![t].phase = "running"]
        BY <3>1 DEF Begin
      <4>2. calls'[t] = [phase |-> "running", inputs |-> <<>>]
        BY <2>1, <4>1 DEF Idle
      <4>3. [phase |-> "running", inputs |-> <<>>] \in Call
        BY DEF Call
      <4>4. QED
        BY <2>1, <4>1, <4>2, <4>3
    <3>2. CASE Answer(t)
      <4>1. calls' = [calls EXCEPT ![t] = Idle]
        BY <3>2 DEF Answer
      <4>2. Idle \in Call /\ Idle.inputs = <<>>
        BY DEF Idle, Call
      <4>3. QED
        BY <2>1, <4>1, <4>2
    <3>3. QED
      BY <1>1, <3>1, <3>2
  <2>3. TypeOK'
    BY <2>1, <2>2 DEF IInv, TypeOK
  <2>4. NoAliasing'
    BY <2>1, <2>2 DEF IInv, NoAliasing
  <2>5. (FreeListExact /\ HandlesAccounted /\ EntriesMatch /\ IssuedInPast /\ ReleasedWereIssued)'
    BY <2>1 DEF IInv, FreeListExact, HandlesAccounted, EntriesMatch,
                IssuedInPast, ReleasedWereIssued, liveHandles, liveIn
  <2>6. QED
    BY <2>3, <2>4, <2>5 DEF IInv
<1>2. ASSUME NEW t \in Threads, Resolve(t)
      PROVE  IInv'
  BY <1>2, ResolveStep
<1>3. ASSUME NEW t \in Threads, Register(t)
      PROVE  IInv'
  BY <1>3, RegisterStep
<1>4. CASE Release
  BY <1>4, ReleaseStep
<1>5. CASE UNCHANGED vars
  BY <1>5 DEF vars, IInv, TypeOK, FreeListExact, HandlesAccounted, NoAliasing,
              EntriesMatch, IssuedInPast, ReleasedWereIssued, liveHandles, liveIn
<1>6. QED
  BY <1>1, <1>2, <1>3, <1>4, <1>5 DEF Next

\* The invariant holds of the registry for ever, whoever calls it in whatever
\* order.
THEOREM Invariance == Spec => []IInv
  BY InitInvariant, StepInvariant, PTL DEF Spec

\* The registry never outgrows its index space and no generation wraps.
THEOREM TypeCorrect == Spec => []TypeOK
<1>1. IInv => TypeOK
  BY DEF IInv
<1>2. QED
  BY <1>1, Invariance, PTL

\* The free stack is exactly the reusable slots, each once.
THEOREM FreeListCorrect == Spec => []FreeListExact
<1>1. IInv => FreeListExact
  BY DEF IInv
<1>2. QED
  BY <1>1, Invariance, PTL

\* Live handles are those given out and not released.
THEOREM AccountingCorrect == Spec => []HandlesAccounted
<1>1. IInv => HandlesAccounted
  BY DEF IInv
<1>2. QED
  BY <1>1, Invariance, PTL

\* Commands compute on the objects their handles were returned for.
THEOREM AliasingFree == Spec => []NoAliasing
<1>1. IInv => NoAliasing
  BY DEF IInv
<1>2. QED
  BY <1>1, Invariance, PTL

--------------------------------------------------------------------------------
(* Refinement *)

\* Under the invariant the table is what the callers know of it.
tableSeen == [h \in Handles |-> IF issued[h] = NoValue THEN Unissued
                                ELSE IF h \in released THEN Spent
                                ELSE issued[h]]

\* A live handle is one issued and not released, and stands for its entry.
LEMMA TableIsSeen == IInv => tableOf = tableSeen
<1> SUFFICES ASSUME IInv
             PROVE  tableOf = tableSeen
  OBVIOUS
<1>1. ASSUME NEW h \in Handles
      PROVE  tableOf[h] = tableSeen[h]
  <2>1. h \in liveHandles <=> issued[h] # NoValue /\ h \notin released
    BY DEF IInv, HandlesAccounted
  <2>2. CASE h \in liveHandles
    <3>1. /\ low(h) \in DOMAIN slots /\ slots[low(h)].generation = high(h)
          /\ slots[low(h)].value # NoValue
      BY <2>2, LiveHandle DEF IInv, TypeOK, liveHandles
    <3>2. slots[low(h)].value = issued[h]
      BY <3>1, HandleHalves DEF IInv, EntriesMatch
    <3>3. tableOf[h] = slots[low(h)].value
      BY <2>2 DEF tableOf
    <3>4. QED
      BY <2>1, <2>2, <3>2, <3>3 DEF tableSeen
  <2>3. CASE h \notin liveHandles /\ issued[h] = NoValue
    BY <2>3 DEF tableOf, tableSeen
  <2>4. CASE h \notin liveHandles /\ issued[h] # NoValue
    <3>1. tableOf[h] = Spent
      BY <2>4 DEF tableOf
    <3>2. tableSeen[h] = Spent
      BY <2>1, <2>4 DEF tableSeen
    <3>3. QED
      BY <3>1, <3>2
  <2>5. QED
    BY <2>2, <2>3, <2>4
<1>2. tableOf = [h \in Handles |-> tableOf[h]]
  BY DEF tableOf
<1>3. tableSeen = [h \in Handles |-> tableSeen[h]]
  BY DEF tableSeen
<1>4. QED
  BY <1>1, <1>2, <1>3

\* The same after a step.
LEMMA TableIsSeenNext == (IInv => tableOf = tableSeen)'
  BY TableIsSeen, PTL

\* The empty registry is the table with nothing issued.
LEMMA TableInitHolds == Init => Table!TableInit
<1> SUFFICES ASSUME Init
             PROVE  tableOf = [h \in Handles |-> Unissued]
  BY DEF Table!TableInit
<1>1. \A h \in Handles : issued[h] = NoValue
  BY DEF Init
<1>2. tableSeen = [h \in Handles |-> Unissued]
  BY <1>1 DEF tableSeen
<1>3. QED
  BY <1>2, InitInvariant, TableIsSeen

\* Issuing is atomic: the fresh handles and nothing else change.
LEMMA RegisterIssues ==
    ASSUME IInv, IInv', NEW t \in Threads, Register(t)
    PROVE  \E new \in SUBSET Handles : Table!Issue(new)
<1>0. PICK n \in 1..MaxOutputs : \E values \in [1..n -> Entry] : insert_many(values)
  BY DEF Register
<1>1. PICK values \in [1..n -> Entry] : insert_many(values)
  BY <1>0
<1>2. n \in Nat /\ Len(values) = n
  BY FunctionsAreSequences
<1>3. HasRoom(n) /\ released' = released
  BY <1>1, <1>2 DEF insert_many, Register
<1>4. /\ \A k \in 1..n : handleOf(k) \in Handles /\ issued'[handleOf(k)] = values[k]
      /\ \A h \in Handles :
            (\A k \in 1..n : handleOf(k) # h) => issued'[h] = issued[h]
  BY <1>1, <1>2, InsertFacts DEF IInv
<1>5. \A k \in 1..n : issued[handleOf(k)] = NoValue
  BY <1>2, <1>3, <1>4, FreshHandles
<1> DEFINE new == {handleOf(k) : k \in 1..n}
<1>6. new \in SUBSET Handles
  BY <1>4
<1>7. tableOf = tableSeen /\ tableOf' = tableSeen'
  BY TableIsSeen, TableIsSeenNext
<1>8. ASSUME NEW h \in Handles
      PROVE  IF h \in new
             THEN tableOf[h] = Unissued /\ tableOf'[h] \in Entry
             ELSE tableOf'[h] = tableOf[h]
  <2>1. CASE h \in new
    <3>1. PICK k \in 1..n : h = handleOf(k)
      BY <2>1
    <3>2. issued[h] = NoValue /\ issued'[h] = values[k] /\ values[k] \in Entry
      BY <1>4, <1>5, <3>1
    <3>3. h \notin released'
      BY <1>3, <3>2 DEF IInv, ReleasedWereIssued
    <3>4. tableSeen[h] = Unissued
      BY <3>2 DEF tableSeen
    <3>5. tableSeen'[h] = values[k]
      BY <3>2, <3>3, NoValueIsNoEntry DEF tableSeen
    <3>6. QED
      BY <1>7, <2>1, <3>2, <3>4, <3>5
  <2>2. CASE h \notin new
    <3>1. issued'[h] = issued[h]
      BY <1>4, <2>2
    <3>2. tableSeen'[h] = tableSeen[h]
      BY <1>3, <3>1 DEF tableSeen
    <3>3. QED
      BY <1>7, <2>2, <3>2
  <2>3. QED
    BY <2>1, <2>2
<1>9. Table!Issue(new)
  BY <1>8 DEF Table!Issue
<1>10. QED
  BY <1>6, <1>9

\* A release drops one handle that stood for an entry.
LEMMA ReleaseDrops ==
    ASSUME IInv, IInv', Release
    PROVE  \E h \in Handles : Table!Drop(h)
<1>1. PICK h \in Arguments : release(h)
  BY DEF Release
<1>2. PICK i \in matching(h) : /\ slots[i].value # NoValue
                               /\ released' = released \cup {h}
                               /\ issued' = issued
  BY <1>1 DEF release
<1>3. h \in Handles /\ h \in liveIn(slots)
  BY <1>2, ReleaseFacts
<1>4. issued[h] # NoValue /\ h \notin released
  BY <1>3 DEF IInv, HandlesAccounted, liveHandles
<1>5. tableOf = tableSeen /\ tableOf' = tableSeen'
  BY TableIsSeen, TableIsSeenNext
<1>6. tableSeen[h] \in Entry
  BY <1>3, <1>4 DEF tableSeen, IInv, TypeOK
<1>7. tableSeen' = [tableSeen EXCEPT ![h] = Spent]
  BY <1>2, <1>3, <1>4 DEF tableSeen
<1>8. Table!Drop(h)
  BY <1>5, <1>6, <1>7 DEF Table!Drop
<1>9. QED
  BY <1>3, <1>8

\* The table the registry implements has entries and marks only.
LEMMA TableType == IInv => tableOf \in [Handles -> Entry \cup {Unissued, Spent}]
<1> SUFFICES ASSUME IInv
             PROVE  tableSeen \in [Handles -> Entry \cup {Unissued, Spent}]
  BY TableIsSeen
<1>1. QED
  BY DEF tableSeen, IInv, TypeOK

\* The same after a step.
LEMMA TableTypeNext ==
    (IInv => tableOf \in [Handles -> Entry \cup {Unissued, Spent}])'
  BY TableType, PTL

\* Every step of the registry is a step of the table or changes nothing in it.
LEMMA StepRefines == IInv /\ IInv' /\ [Next]_vars => [Table!TableNext]_tableOf
<1> SUFFICES ASSUME IInv, IInv', [Next]_vars
             PROVE  [Table!TableNext]_tableOf
  OBVIOUS
<1>1. tableOf' \in [Handles -> Entry \cup {Unissued, Spent}]
  BY TableTypeNext
<1>2. ASSUME NEW t \in Threads, Register(t)
      PROVE  Table!TableNext
  BY <1>1, <1>2, RegisterIssues DEF Table!TableNext
<1>3. CASE Release
  BY <1>1, <1>3, ReleaseDrops DEF Table!TableNext
<1>4. CASE UNCHANGED <<slots, issued, released>>
  BY <1>4 DEF tableOf, liveHandles, liveIn, encode, Handles, low
<1>5. QED
  BY <1>2, <1>3, <1>4 DEF Next, vars, Begin, Resolve, Answer

\* The registry implements the handle table: a handle is issued at most once,
\* together with its siblings, and after its release stands for nothing.
THEOREM Refinement == Spec => ImplementsTable
<1>1. Init => Table!TableInit
  BY TableInitHolds
<1>2. QED
  BY <1>1, StepRefines, Invariance, PTL DEF Spec, ImplementsTable, Table!TableSpec

================================================================================
