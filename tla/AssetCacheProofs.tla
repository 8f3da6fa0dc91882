---------------------------- MODULE AssetCacheProofs ---------------------------
(***************************************************************************)
(* Theorems about AssetCache, for every number of calls, isolates and      *)
(* processes.  That nothing unverified ever gets under the cache name      *)
(* needs no lock; that a library stays there once it was returned needs    *)
(* the lock and the queues, and that no process has two isolates.          *)
(***************************************************************************)
EXTENDS AssetCache, TLAPS

--------------------------------------------------------------------------------
(* The inductive invariants *)

\* What is renamed was verified.
Renaming == \A c \in Callers : At(c, "renaming") => temporary[c] = "valid"

Safe == TypeOK /\ Renaming

Steps == {"idle", "queued", "opening", "locking", "checking", "looking",
          "deleting", "downloading", "verifying", "renaming", "cleaning",
          "unlocking", "closing", "leaving", "done", "dead"}

\* A call that waits in the queue of its isolate or has come to its head.
Live(c) == pc[c] \in Steps \ {"idle", "done", "dead"}
Active(c) == Live(c) /\ ~At(c, "queued")

\* A call that has the lock.
Holding == {"checking", "looking", "deleting", "downloading", "verifying",
            "renaming", "cleaning", "unlocking"}

\* The live calls of an isolate, in the order in which they entered: the first
\* may go on, each of the others waits for the one before it, and the queue
\* names the last.
InOrder(i, n, s) ==
    /\ \A k \in 1..n : isolateOf[s[k]] = i /\ Live(s[k])
    /\ \A k, l \in 1..n : s[k] = s[l] => k = l
    /\ \A c \in Callers : Live(c) /\ isolateOf[c] = i => \E k \in 1..n : s[k] = c
    /\ \A k \in 1..n : k # 1 => previous[s[k]] = s[k - 1] /\ At(s[k], "queued")
    /\ n = 0 => queue[i] = Nobody
    /\ n > 0 => queue[i] = s[n]

\* The isolate has a dead call.
Dead(i) == \E c \in Callers : isolateOf[c] = i /\ At(c, "dead")

Ordered(i) ==
    Dead(i) \/ \E n \in Nat : \E s \in [1..n -> Callers] : InOrder(i, n, s)

DieTogether ==
    \A c, d \in Callers : At(c, "dead") /\ processOf[c] = processOf[d] =>
        pc[d] \in {"dead", "done"}

Queues == (\A i \in Isolates : Ordered(i)) /\ DieTogether

\* The process of a call between Lock and Unlock has the lock.
Locked == \A c \in Callers : pc[c] \in Holding => holder = processOf[c]

\* What a call has found under the cache name is still there.
Found == \A c \in Callers : pc[c] \in {"looking", "deleting"} => cache # "valid"

IInv == Safe /\ Queues /\ Locked /\ Found /\ ReturnedIsVerified

\* The calls of a process are in one isolate, and so in one queue.
OneIsolate ==
    \A c, d \in Callers : processOf[c] = processOf[d] => isolateOf[c] = isolateOf[d]

--------------------------------------------------------------------------------
(* Nothing unverified gets under the cache name *)

\* The isolate and the process of a call.
LEMMA PlacesOf ==
  ASSUME NEW c \in Callers
  PROVE  isolateOf[c] \in Isolates /\ processOf[c] \in Processes
  BY DEF Isolates, Processes

\* A step of a call keeps what is renamed verified, and so the cache clean.
LEMMA SafeStep ==
  ASSUME Safe, NEW c \in Callers, Enter(c) \/ Write(c) \/ Step(c)
  PROVE  Safe' /\ (cache' = "corrupt" => cache = "corrupt")
<1>1. TypeOK /\ Renaming /\ pc \in [Callers -> Steps]
  BY DEF Safe, TypeOK, Steps
<1>2. CASE Enter(c)
  BY <1>1, <1>2, PlacesOf DEF Enter, Goto, At, Safe, TypeOK, Renaming, Steps, files
<1>3. CASE Write(c)
  BY <1>1, <1>3 DEF Write, At, Safe, TypeOK, Renaming, order
<1>4. CASE Proceed(c) \/ Leave(c)
  BY <1>1, <1>4, PlacesOf
     DEF Proceed, Leave, Goto, At, Safe, TypeOK, Renaming, files, order
<1>5. CASE Open(c) \/ Unlock(c) \/ Close(c)
  BY <1>1, <1>5, PlacesOf
     DEF Open, Unlock, Close, LetGo, Throw, Goto, At, Safe, TypeOK, Renaming,
         files, order
<1>6. CASE Lock(c)
  BY <1>1, <1>6, PlacesOf
     DEF Lock, Throw, Goto, At, Safe, TypeOK, Renaming, files, order
<1>7. CASE Check(c) \/ Look(c)
  BY <1>1, <1>7
     DEF Check, Look, Finish, Goto, At, Safe, TypeOK, Renaming, files, order
<1>8. CASE Delete(c)
  BY <1>1, <1>8
     DEF Delete, Throw, Goto, At, Safe, TypeOK, Renaming, order
<1>9. CASE EndDownload(c)
  BY <1>1, <1>9
     DEF EndDownload, Throw, Goto, At, Safe, TypeOK, Renaming, order
<1>10. CASE Verify(c)
  BY <1>1, <1>10
     DEF Verify, Throw, Goto, At, Safe, TypeOK, Renaming, files, order
<1>11. CASE Rename(c)
  BY <1>1, <1>11
     DEF Rename, Throw, Finish, Goto, At, Safe, TypeOK, Renaming, files, order
<1>12. CASE Clean(c)
  BY <1>1, <1>12
     DEF Clean, Goto, At, Safe, TypeOK, Renaming, order
<1>13. QED
  BY <1>2, <1>3, <1>4, <1>5, <1>6, <1>7, <1>8, <1>9, <1>10, <1>11, <1>12 DEF Step

\* So does a crash, which touches no file.
LEMMA SafeCrash ==
  ASSUME Safe, NEW p \in Processes, Crash(p)
  PROVE  Safe' /\ cache' = cache
<1>1. /\ cache' = cache /\ temporary' = temporary
      /\ UNCHANGED <<previous, queue, result>>
  BY DEF Crash, order, files
<1>2. pc' \in [Callers -> Steps] /\ holder' \in Processes \cup {Nobody}
  BY DEF Crash, Safe, TypeOK, Steps
<1>3. \A c \in Callers : pc'[c] = "renaming" => pc[c] = "renaming"
  BY DEF Crash
<1>4. TypeOK'
  BY <1>1, <1>2 DEF Safe, TypeOK, Steps
<1>5. Renaming'
  BY <1>1, <1>3 DEF Safe, Renaming, At
<1>6. QED
  BY <1>1, <1>4, <1>5 DEF Safe

\* So does every step.
LEMMA SafeNext ==
  ASSUME Safe, [Next]_vars
  PROVE  Safe' /\ (cache' = "corrupt" => cache = "corrupt")
<1>1. CASE UNCHANGED vars
  BY <1>1 DEF vars, Safe, TypeOK, Renaming, At
<1>2. CASE Next
  BY <1>2, SafeStep, SafeCrash DEF Next
<1>3. QED
  BY <1>1, <1>2

\* Nothing is renamed at first.
LEMMA SafeInit ==
  ASSUME Init
  PROVE  Safe
  BY DEF Init, Safe, TypeOK, Renaming, At

\* Safe is an invariant.
LEMMA SafeAlways == Spec => []Safe
<1>1. Init => Safe
  BY SafeInit
<1>2. Safe /\ [Next]_vars => Safe'
  BY SafeNext
<1>3. QED
  BY <1>1, <1>2, PTL DEF Spec

\* Types of the state, whatever the isolates and processes
\* (native_asset_download.dart: acquirePinnedNativeLibrary).
THEOREM TypeCorrect == Spec => []TypeOK
<1>1. Safe => TypeOK
  BY DEF Safe
<1>2. QED
  BY <1>1, SafeAlways, PTL

\* No step of any call, and no crash, puts a wrong library under the cache name:
\* verification before rename suffices for it, even without the lock
\* (native_asset_download.dart: _acquirePinnedNativeLibraryLocked).
THEOREM NothingUnverified == Spec => OnlyVerified
<1>1. Safe /\ [Next]_vars => [cache' = "corrupt" => cache = "corrupt"]_vars
  BY SafeNext
<1>2. QED
  BY <1>1, SafeAlways, PTL DEF Spec, OnlyVerified

--------------------------------------------------------------------------------
(* The queues *)

\* What a step leaves of a call's place in the queue.
Undisturbed(d) ==
    /\ previous'[d] = previous[d]
    /\ Live(d)' <=> Live(d)
    /\ At(d, "queued") /\ previous[d] \in Callers /\ Live(previous[d]) => At(d, "queued")'

\* A step that disturbs no call of an isolate keeps the order of its queue.
LEMMA OrderStays ==
  ASSUME NEW i \in Isolates, NEW n \in Nat, NEW s \in [1..n -> Callers],
         InOrder(i, n, s), queue'[i] = queue[i],
         \A d \in Callers : isolateOf[d] = i => Undisturbed(d)
  PROVE  Ordered(i)'
<1>1. \A k \in 1..n : s[k] \in Callers /\ isolateOf[s[k]] = i /\ Live(s[k])
  BY DEF InOrder
<1>2. \A k \in 1..n : Live(s[k])' /\ previous'[s[k]] = previous[s[k]]
  BY <1>1 DEF Undisturbed
<1>3. \A c \in Callers : Live(c)' /\ isolateOf[c] = i => \E k \in 1..n : s[k] = c
  BY DEF Undisturbed, InOrder
<1>4. ASSUME NEW k \in 1..n, k # 1
      PROVE  previous'[s[k]] = s[k - 1] /\ At(s[k], "queued")'
  <2>1. previous[s[k]] = s[k - 1] /\ At(s[k], "queued") /\ k - 1 \in 1..n
    BY <1>4 DEF InOrder
  <2>2. QED
    BY <2>1, <1>1, <1>2 DEF Undisturbed
<1>5. \A k, l \in 1..n : s[k] = s[l] => k = l
  BY DEF InOrder
<1>6. (n = 0 => queue'[i] = Nobody) /\ (n > 0 => queue'[i] = s[n])
  BY DEF InOrder
<1>7. InOrder(i, n, s)'
  BY <1>1, <1>2, <1>3, <1>4, <1>5, <1>6 DEF InOrder
<1>8. QED
  BY <1>7 DEF Ordered

\* The same for an isolate that may have died.
LEMMA OthersOrder ==
  ASSUME NEW i \in Isolates, Ordered(i), queue'[i] = queue[i],
         \A d \in Callers : isolateOf[d] = i => Undisturbed(d) /\ (At(d, "dead") => At(d, "dead")')
  PROVE  Ordered(i)'
<1>1. CASE Dead(i)
  BY <1>1 DEF Ordered, Dead
<1>2. CASE ~Dead(i)
  BY <1>2, OrderStays DEF Ordered
<1>3. QED
  BY <1>1, <1>2

\* A step of a live call leaves whole processes dead.
LEMMA DyingStays ==
  ASSUME Safe, Queues, NEW c \in Callers, ~At(c, "dead"), ~At(c, "done"),
         \/ pc' = pc
         \/ \E step \in Steps \ {"dead"} : Goto(c, step)
  PROVE  DieTogether'
<1>1. \A d \in Callers : At(d, "dead")' => At(d, "dead")
  BY DEF Safe, TypeOK, Goto, At
<1>2. \A d \in Callers : d # c => pc'[d] = pc[d]
  BY DEF Safe, TypeOK, Goto
<1>3. \A d \in Callers : At(d, "dead") => processOf[d] # processOf[c]
  BY DEF Queues, DieTogether, At
<1>4. QED
  BY <1>1, <1>2, <1>3 DEF Queues, DieTogether, At

\* The call at the head of its queue goes on, in its place.
LEMMA QueuesStay ==
  ASSUME Safe, Queues, NEW c \in Callers, Live(c), UNCHANGED order,
         \/ pc' = pc
         \/ \E step \in Steps \ {"idle", "queued", "done", "dead"} : Goto(c, step),
         At(c, "queued") => previous[c] = Nobody \/ At(previous[c], "done")
  PROVE  Queues'
<1>1. ~At(c, "dead") /\ ~At(c, "done")
  BY DEF Live, At
<1>2. DieTogether'
  BY <1>1, DyingStays DEF Steps
<1>3. \A d \in Callers : d # c => pc'[d] = pc[d]
  BY DEF Safe, TypeOK, Goto
<1>4. Live(c)'
  BY DEF Safe, TypeOK, Goto, Live, Steps
<1>5. At(c, "queued") /\ previous[c] \in Callers => ~Live(previous[c])
  BY AssetCacheAssumption DEF At, Live
<1>6. \A d \in Callers : Undisturbed(d) /\ (At(d, "dead") => At(d, "dead")')
  BY <1>1, <1>3, <1>4, <1>5 DEF Undisturbed, At, Live, order
<1>7. \A i \in Isolates : Ordered(i)'
  BY <1>6, OthersOrder DEF Queues, order
<1>8. QED
  BY <1>2, <1>7 DEF Queues

\* Enter puts the call at the end of its queue.
LEMMA QueuesEnter ==
  ASSUME Safe, Queues, NEW c \in Callers, Enter(c)
  PROVE  Queues'
<1> DEFINE i == isolateOf[c]
<1>1. /\ At(c, "idle") /\ At(c, "queued")' /\ i \in Isolates
      /\ \A d \in Callers : d # c => pc'[d] = pc[d] /\ previous'[d] = previous[d]
      /\ previous'[c] = queue[i] /\ queue'[i] = c
      /\ \A j \in Isolates : j # i => queue'[j] = queue[j]
  BY PlacesOf DEF Enter, Safe, TypeOK, Goto, At
<1>2. Live(c)' /\ ~Live(c)
  BY <1>1 DEF Live, At, Steps
<1>3. DieTogether'
  <2>1. \E step \in Steps \ {"dead"} : Goto(c, step)
    BY DEF Enter, Steps
  <2>2. QED
    BY <1>1, <2>1, DyingStays DEF At
<1>4. \A d \in Callers : d # c => Undisturbed(d) /\ (At(d, "dead") => At(d, "dead")')
  BY <1>1 DEF Undisturbed, At, Live
<1>5. \A j \in Isolates : j # i => Ordered(j)'
  BY <1>1, <1>4, OthersOrder DEF Queues
<1>6. CASE Dead(i)
  BY <1>1, <1>6, <1>5, <1>3 DEF Queues, Ordered, Dead, At
<1>7. CASE ~Dead(i)
  <2>1. PICK n \in Nat : \E s \in [1..n -> Callers] : InOrder(i, n, s)
    BY <1>1, <1>7 DEF Queues, Ordered
  <2>2. PICK s \in [1..n -> Callers] : InOrder(i, n, s)
    BY <2>1
  <2> DEFINE t == [k \in 1..(n + 1) |-> IF k = n + 1 THEN c ELSE s[k]]
  <2>3. t \in [1..(n + 1) -> Callers] /\ n + 1 \in Nat /\ t[n + 1] = c
    OBVIOUS
  <2>4. \A k \in 1..(n + 1) : k # n + 1 => k \in 1..n /\ t[k] = s[k]
    OBVIOUS
  <2>5. \A k \in 1..n : s[k] # c /\ isolateOf[s[k]] = i /\ Live(s[k])
    BY <2>2, <1>2 DEF InOrder
  <2>6. \A d \in Callers : d # c => (Live(d)' <=> Live(d))
    BY <1>1 DEF Live
  <2> HIDE DEF t
  <2>7. \A k \in 1..(n + 1) : isolateOf[t[k]] = i /\ Live(t[k])'
    BY <2>3, <2>4, <2>5, <2>6, <1>2
  <2>8. \A k, l \in 1..(n + 1) : t[k] = t[l] => k = l
    BY <2>2, <2>3, <2>4, <2>5 DEF InOrder
  <2>9. ASSUME NEW d \in Callers, Live(d)', isolateOf[d] = i
        PROVE  \E k \in 1..(n + 1) : t[k] = d
    <3>1. CASE d = c
      BY <2>3, <3>1
    <3>2. CASE d # c
      <4>1. PICK k \in 1..n : s[k] = d
        BY <2>9, <2>6, <3>2, <2>2 DEF InOrder
      <4>2. k \in 1..(n + 1) /\ k # n + 1
        OBVIOUS
      <4>3. QED
        BY <4>1, <4>2, <2>4
    <3>3. QED
      BY <3>1, <3>2
  <2>10. ASSUME NEW k \in 1..(n + 1), k # 1
         PROVE  previous'[t[k]] = t[k - 1] /\ At(t[k], "queued")'
    <3>0. k - 1 \in 1..n /\ t[k - 1] = s[k - 1]
      BY <2>10, <2>4
    <3>1. CASE k = n + 1
      <4>1. queue[i] = s[n]
        BY <3>0, <3>1, <2>2 DEF InOrder
      <4>2. QED
        BY <4>1, <3>0, <3>1, <2>3, <1>1
    <3>2. CASE k # n + 1
      <4>1. previous[s[k]] = s[k - 1] /\ At(s[k], "queued")
        BY <2>10, <2>4, <3>2, <2>2 DEF InOrder
      <4>2. k \in 1..n /\ t[k] = s[k] /\ s[k] # c /\ s[k] \in Callers
        BY <2>4, <2>5, <3>2
      <4>3. QED
        BY <4>1, <4>2, <3>0, <1>1 DEF At
    <3>3. QED
      BY <3>1, <3>2
  <2>11. InOrder(i, n + 1, t)'
    BY <2>3, <2>7, <2>8, <2>9, <2>10, <1>1 DEF InOrder
  <2>12. Ordered(i)'
    BY <2>3, <2>11 DEF Ordered
  <2>13. QED
    BY <2>12, <1>5, <1>3 DEF Queues
<1>8. QED
  BY <1>6, <1>7

\* Leave takes the call from the head of its queue.
LEMMA QueuesLeave ==
  ASSUME Safe, Queues, NEW c \in Callers, Leave(c)
  PROVE  Queues'
<1> DEFINE i == isolateOf[c]
<1>1. /\ At(c, "leaving") /\ At(c, "done")' /\ i \in Isolates
      /\ \A d \in Callers : (d # c => pc'[d] = pc[d]) /\ previous'[d] = previous[d]
      /\ queue'[i] = (IF queue[i] = c THEN Nobody ELSE queue[i])
      /\ \A j \in Isolates : j # i => queue'[j] = queue[j]
  BY PlacesOf DEF Leave, Safe, TypeOK, Goto, At
<1>2. ~Live(c)' /\ Live(c)
  BY <1>1 DEF Live, At, Steps
<1>3. DieTogether'
  <2>1. \E step \in Steps \ {"dead"} : Goto(c, step)
    BY DEF Leave, Steps
  <2>2. QED
    BY <1>1, <2>1, DyingStays DEF At
<1>4. \A d \in Callers : d # c => Undisturbed(d) /\ (At(d, "dead") => At(d, "dead")')
  BY <1>1 DEF Undisturbed, At, Live
<1>5. \A j \in Isolates : j # i => Ordered(j)'
  BY <1>1, <1>4, OthersOrder DEF Queues
<1>6. CASE Dead(i)
  <2>1. Dead(i)'
    BY <1>1, <1>6 DEF Dead, At
  <2>2. QED
    BY <2>1, <1>5, <1>3 DEF Queues, Ordered
<1>7. CASE ~Dead(i)
  <2>1. PICK n \in Nat : \E s \in [1..n -> Callers] : InOrder(i, n, s)
    BY <1>1, <1>7 DEF Queues, Ordered
  <2>2. PICK s \in [1..n -> Callers] : InOrder(i, n, s)
    BY <2>1
  <2>3. n # 0 /\ 1 \in 1..n /\ n \in 1..n /\ s[1] = c
    <3>1. PICK k \in 1..n : s[k] = c
      BY <2>2, <1>2 DEF InOrder
    <3>2. k = 1
      BY <3>1, <2>2, <1>1 DEF InOrder, At
    <3>3. QED
      BY <3>1, <3>2
  <2> DEFINE t == [k \in 1..(n - 1) |-> s[k + 1]]
  <2>4. t \in [1..(n - 1) -> Callers] /\ n - 1 \in Nat
    BY <2>3
  <2>5. \A k \in 1..(n - 1) : k + 1 \in 1..n /\ k + 1 # 1 /\ t[k] = s[k + 1]
    BY <2>3
  <2>6. \A d \in Callers : d # c => (Live(d)' <=> Live(d))
    BY <1>1 DEF Live
  <2> HIDE DEF t
  <2>7. \A k \in 1..(n - 1) : t[k] \in Callers /\ t[k] # c /\ isolateOf[t[k]] = i /\ Live(t[k])
    BY <2>2, <2>3, <2>4, <2>5 DEF InOrder
  <2>8. \A k \in 1..(n - 1) : isolateOf[t[k]] = i /\ Live(t[k])'
    BY <2>6, <2>7
  <2>9. \A k, l \in 1..(n - 1) : t[k] = t[l] => k = l
    <3>1. SUFFICES ASSUME NEW k \in 1..(n - 1), NEW l \in 1..(n - 1), t[k] = t[l]
                   PROVE  k = l
      OBVIOUS
    <3>2. k + 1 = l + 1
      BY <3>1, <2>2, <2>5 DEF InOrder
    <3>3. QED
      BY <3>2
  <2>10. ASSUME NEW d \in Callers, Live(d)', isolateOf[d] = i
         PROVE  \E k \in 1..(n - 1) : t[k] = d
    <3>1. d # c
      BY <2>10, <1>2
    <3>2. PICK k \in 1..n : s[k] = d
      BY <2>10, <2>6, <3>1, <2>2 DEF InOrder
    <3>3. k - 1 \in 1..(n - 1) /\ (k - 1) + 1 = k
      BY <3>1, <3>2, <2>3
    <3>4. QED
      BY <3>2, <3>3, <2>5
  <2>11. ASSUME NEW k \in 1..(n - 1), k # 1
         PROVE  previous'[t[k]] = t[k - 1] /\ At(t[k], "queued")'
    <3>1. previous[s[k + 1]] = s[(k + 1) - 1] /\ At(s[k + 1], "queued")
      BY <2>5, <2>2 DEF InOrder
    <3>2. k - 1 \in 1..(n - 1) /\ (k - 1) + 1 = k /\ (k + 1) - 1 = k
      BY <2>11
    <3>3. t[k] = s[k + 1] /\ t[k - 1] = s[k]
      BY <3>2, <2>5
    <3>4. QED
      BY <3>1, <3>2, <3>3, <2>7, <1>1 DEF At
  <2>12. n - 1 = 0 => queue'[i] = Nobody
    BY <2>2, <2>3, <1>1 DEF InOrder
  <2>13. ASSUME n - 1 > 0
         PROVE  queue'[i] = t[n - 1]
    <3>1. queue[i] = s[n] /\ n - 1 \in 1..(n - 1) /\ (n - 1) + 1 = n
      BY <2>13, <2>2, <2>3 DEF InOrder
    <3>2. t[n - 1] = s[n] /\ t[n - 1] # c
      BY <3>1, <2>5, <2>7
    <3>3. QED
      BY <3>1, <3>2, <1>1
  <2>14. InOrder(i, n - 1, t)'
    BY <2>8, <2>9, <2>10, <2>11, <2>12, <2>13 DEF InOrder
  <2>15. Ordered(i)'
    BY <2>4, <2>14 DEF Ordered
  <2>16. QED
    BY <2>15, <1>5, <1>3 DEF Queues
<1>8. QED
  BY <1>6, <1>7

\* A crash empties the queues of a process and touches no other.
LEMMA QueuesCrash ==
  ASSUME Safe, Queues, NEW p \in Processes, Crash(p)
  PROVE  Queues'
<1>1. /\ \A d \in Callers : pc'[d] = IF processOf[d] = p /\ ~At(d, "done") THEN "dead" ELSE pc[d]
      /\ previous' = previous /\ queue' = queue
  BY DEF Crash, order
<1>2. DieTogether'
  BY <1>1 DEF Queues, DieTogether, At
<1>3. ASSUME NEW i \in Isolates
      PROVE  Ordered(i)'
  <2>1. CASE \E d \in Callers : isolateOf[d] = i /\ processOf[d] = p /\ ~At(d, "done")
    BY <1>1, <2>1 DEF Ordered, Dead, At
  <2>2. CASE \A d \in Callers : isolateOf[d] = i => pc'[d] = pc[d]
    <3>1. \A d \in Callers : isolateOf[d] = i =>
             Undisturbed(d) /\ (At(d, "dead") => At(d, "dead")')
      BY <1>1, <2>2 DEF Undisturbed, At, Live
    <3>2. QED
      BY <1>1, <3>1, OthersOrder DEF Queues
  <2>3. QED
    BY <1>1, <2>1, <2>2
<1>4. QED
  BY <1>2, <1>3 DEF Queues

\* Every step keeps the queues, whatever the isolates of a process do to its lock.
LEMMA QueuesNext ==
  ASSUME Safe, Queues, [Next]_vars
  PROVE  Queues'
<1>1. ASSUME NEW c \in Callers, Proceed(c) PROVE Queues'
  <2>1. Live(c) /\ UNCHANGED order /\ Goto(c, "opening")
    BY <1>1 DEF Proceed, Live, At, Steps, order
  <2>2. At(c, "queued") => previous[c] = Nobody \/ At(previous[c], "done")
    BY <1>1 DEF Proceed
  <2>3. QED
    BY <2>1, <2>2, QueuesStay DEF Steps
<1>2. ASSUME NEW c \in Callers, Open(c) \/ Lock(c) \/ Unlock(c) \/ Close(c)
      PROVE  Queues'
  <2>1. /\ Live(c) /\ UNCHANGED order /\ ~At(c, "queued")
        /\ \/ Goto(c, "locking") \/ Goto(c, "checking") \/ Goto(c, "closing")
           \/ Goto(c, "leaving")
    BY <1>2 DEF Open, Lock, Unlock, Close, Throw, Live, At, Steps, order
  <2>2. QED
    BY <2>1, QueuesStay DEF Steps
<1>3. ASSUME NEW c \in Callers,
             \/ Write(c) \/ Check(c) \/ Look(c) \/ Delete(c)
             \/ EndDownload(c) \/ Verify(c) \/ Rename(c) \/ Clean(c)
      PROVE  Queues'
  <2>1. /\ pc[c] \in Holding /\ UNCHANGED order
        /\ pc' = pc \/ \E step \in Holding : Goto(c, step)
    BY <1>3 DEF Write, Check, Look, Delete, EndDownload, Verify, Rename, Clean,
                Throw, Finish, At, order, Holding
  <2>2. Live(c) /\ ~At(c, "queued")
    BY <2>1 DEF Live, At, Holding, Steps
  <2>3. \/ pc' = pc
        \/ \E step \in Steps \ {"idle", "queued", "done", "dead"} : Goto(c, step)
    BY <2>1 DEF Holding, Steps
  <2>4. QED
    BY <2>1, <2>2, <2>3, QueuesStay
<1>4. CASE UNCHANGED vars
  BY <1>4 DEF vars, Queues, Ordered, DieTogether, Dead, InOrder, Live, At
<1>5. QED
  BY <1>1, <1>2, <1>3, <1>4, QueuesEnter, QueuesLeave, QueuesCrash DEF Next, Step

\* The queues of all isolates are in order always.
LEMMA QueuesAlways == Spec => []Queues
<1>1. Init => Queues
  <2>1. ASSUME Init, NEW i \in Isolates PROVE Ordered(i)
    <3>1. PICK s : s = [k \in 1..0 |-> Nobody]
      OBVIOUS
    <3>2. s \in [1..0 -> Callers]
      BY <3>1
    <3>3. InOrder(i, 0, s)
      BY <2>1 DEF Init, InOrder, Live
    <3>4. QED
      BY <3>2, <3>3 DEF Ordered
  <2>2. Init => DieTogether
    BY DEF Init, DieTogether, At
  <2>3. QED
    BY <2>1, <2>2 DEF Queues
<1>2. Safe /\ Queues /\ [Next]_vars => Queues'
  BY QueuesNext
<1>3. QED
  BY <1>1, <1>2, SafeAlways, PTL DEF Spec

\* One call of an isolate has come to the head of its queue.
LEMMA HeadOnly ==
  ASSUME Safe, Queues, NEW c \in Callers, NEW d \in Callers,
         Active(c), Active(d), isolateOf[c] = isolateOf[d]
  PROVE  c = d
<1> DEFINE i == isolateOf[c]
<1>1. i \in Isolates
  BY PlacesOf
<1>2. ~Dead(i)
  BY AssetCacheAssumption DEF Queues, DieTogether, Dead, Active, Live, At
<1>3. PICK n \in Nat : \E s \in [1..n -> Callers] : InOrder(i, n, s)
  BY <1>1, <1>2 DEF Queues, Ordered
<1>4. PICK s \in [1..n -> Callers] : InOrder(i, n, s)
  BY <1>3
<1>5. \A e \in Callers : Active(e) /\ isolateOf[e] = i => e = s[1]
  BY <1>4 DEF InOrder, Active
<1>6. QED
  BY <1>5

\* The calls of one isolate take turns.
OneAtATime ==
    \A c, d \in Callers :
        isolateOf[c] = isolateOf[d] /\ Active(c) /\ Active(d) => c = d

\* Of the calls of an isolate one at most is past the queue, however many are
\* waiting, whichever of them fail and whichever process dies; no lock file is
\* needed for that (native_asset_download.dart: _cacheQueues).
THEOREM TakeTurns == Spec => []OneAtATime
<1>1. Safe /\ Queues => OneAtATime
  BY HeadOnly DEF OneAtATime
<1>2. QED
  BY <1>1, SafeAlways, QueuesAlways, PTL

--------------------------------------------------------------------------------
(* The lock, and what it protects *)

\* The same for a process with one isolate.
LEMMA Exclusion ==
  ASSUME OneIsolate, Safe, Queues, NEW c \in Callers, NEW d \in Callers,
         Active(c), Active(d), processOf[c] = processOf[d]
  PROVE  c = d
  BY HeadOnly DEF OneIsolate

\* A call at the lock has come to the head of its queue.
LEMMA HoldersActive ==
  ASSUME NEW c \in Callers, pc[c] \in Holding \cup {"closing", "locking", "opening"}
  PROVE  Active(c)
  BY DEF Holding, Active, Live, Steps, At

\* One call has the lock.
LEMMA OneHolds ==
  ASSUME OneIsolate, Safe, Queues, Locked, NEW c \in Callers, NEW d \in Callers,
         pc[c] \in Holding, pc[d] \in Holding
  PROVE  c = d
  BY Exclusion, HoldersActive DEF Locked

\* The steps before and after the lock file keep the invariant.
LEMMA InvEnter ==
  ASSUME IInv, NEW c \in Callers, Enter(c) \/ Proceed(c) \/ Open(c) \/ Leave(c)
  PROVE  Locked' /\ Found' /\ ReturnedIsVerified'
<1>1. Safe /\ Queues /\ Locked /\ Found /\ ReturnedIsVerified
  BY DEF IInv
<1>2. /\ holder' = holder /\ cache' = cache
      /\ \A d \in Callers : pc'[d] \in Holding => pc'[d] = pc[d]
      /\ \A d \in Callers : result'[d] = "returned" => result[d] = "returned"
  BY <1>1 DEF Enter, Proceed, Open, Leave, Goto, Throw, Safe, TypeOK, Holding, files
<1>3. QED
  BY <1>1, <1>2 DEF Locked, Found, ReturnedIsVerified, Holding

\* Lock, Unlock and Close keep the invariant: what a call gives up is its own.
LEMMA InvLock ==
  ASSUME OneIsolate, IInv, NEW c \in Callers, Lock(c) \/ Unlock(c) \/ Close(c)
  PROVE  Locked' /\ Found' /\ ReturnedIsVerified'
<1>1. Safe /\ Queues /\ Locked /\ Found /\ ReturnedIsVerified
  BY DEF IInv
<1>2. /\ Active(c) /\ Live(c) /\ ~At(c, "queued") /\ UNCHANGED order /\ cache' = cache
      /\ Goto(c, "checking") \/ Goto(c, "closing") \/ Goto(c, "leaving")
  BY DEF Lock, Unlock, Close, Throw, Live, Active, At, Steps, order, files
<1>3. /\ \A d \in Callers : d # c => pc'[d] = pc[d]
      /\ \A d \in Callers : result'[d] = "returned" => result[d] = "returned"
      /\ pc'[c] \in {"checking", "closing", "leaving"}
  BY <1>1 DEF Lock, Unlock, Close, Throw, Goto, Safe, TypeOK
<1>4. Found' /\ ReturnedIsVerified'
  BY <1>1, <1>2, <1>3 DEF Found, ReturnedIsVerified
<1>5. ASSUME NEW d \in Callers, pc'[d] \in Holding
      PROVE  holder' = processOf[d]
  <2>1. CASE d = c
    BY <1>1, <1>5, <2>1 DEF Lock, Unlock, Close, Throw, Goto, Safe, TypeOK, Holding
  <2>2. CASE d # c
    <3>1. pc[d] \in Holding /\ Active(d) /\ holder = processOf[d]
      BY <1>1, <1>3, <1>5, <2>2, HoldersActive DEF Locked
    <3>2. processOf[d] # processOf[c] /\ processOf[d] # Nobody
      BY <1>1, <1>2, <2>2, <3>1, Exclusion, PlacesOf, AssetCacheAssumption
    <3>3. QED
      BY <3>1, <3>2 DEF Lock, Unlock, Close, LetGo
  <2>3. QED
    BY <2>1, <2>2
<1>6. QED
  BY <1>4, <1>5 DEF Locked

\* The steps under the lock keep the invariant.
LEMMA InvWork ==
  ASSUME OneIsolate, IInv, NEW c \in Callers,
         \/ Write(c) \/ Check(c) \/ Look(c) \/ Delete(c)
         \/ EndDownload(c) \/ Verify(c) \/ Rename(c) \/ Clean(c)
  PROVE  Locked' /\ Found' /\ ReturnedIsVerified'
<1>1. Safe /\ Queues /\ Locked /\ Found /\ ReturnedIsVerified
  BY DEF IInv
<1>2. /\ pc[c] \in Holding /\ UNCHANGED order /\ holder' = holder
      /\ \/ pc' = pc
         \/ \E step \in Holding : Goto(c, step)
  BY DEF Write, Check, Look, Delete, EndDownload, Verify, Rename, Clean, Throw,
         Finish, At, order, Holding
<1>3. \A d \in Callers : d # c => pc'[d] = pc[d]
  BY <1>1, <1>2 DEF Goto, Safe, TypeOK
<1>4. Locked'
  BY <1>1, <1>2, <1>3 DEF Locked
<1>5. \A d \in Callers : pc[d] \in Holding => d = c
  BY <1>1, <1>2, OneHolds
<1>6. CASE Write(c) \/ Look(c) \/ EndDownload(c) \/ Verify(c) \/ Clean(c)
  <2>1. /\ cache' = cache
        /\ \A d \in Callers : result'[d] = "returned" => result[d] = "returned"
        /\ pc'[c] \in {"looking", "deleting"} => pc[c] \in {"looking", "deleting"}
    BY <1>1, <1>6 DEF Write, Look, EndDownload, Verify, Clean, Throw, Goto, At,
                      Safe, TypeOK, files
  <2>2. QED
    BY <1>1, <1>3, <1>4, <2>1 DEF Found, ReturnedIsVerified
<1>7. CASE Check(c)
  <2>1. /\ cache' = cache
        /\ \A d \in Callers : result'[d] = "returned" =>
              result[d] = "returned" \/ cache = "valid"
        /\ pc'[c] \in {"looking", "deleting"} => cache # "valid"
    BY <1>1, <1>7 DEF Check, Finish, Goto, At, Safe, TypeOK, files
  <2>2. QED
    BY <1>1, <1>3, <1>4, <2>1 DEF Found, ReturnedIsVerified
<1>8. CASE Delete(c)
  <2>1. /\ cache # "valid" /\ cache' # "valid"
        /\ \A d \in Callers : result'[d] = "returned" => result[d] = "returned"
    BY <1>1, <1>8 DEF Delete, Throw, Goto, At, Safe, TypeOK, Found
  <2>2. QED
    BY <1>1, <1>4, <2>1 DEF Found, ReturnedIsVerified
<1>9. CASE Rename(c)
  <2>1. /\ cache' = "valid" \/ cache' = cache
        /\ \A d \in Callers : result'[d] = "returned" =>
              result[d] = "returned" \/ cache' = "valid"
        /\ pc'[c] = "cleaning"
    BY <1>1, <1>9 DEF Rename, Finish, Throw, Goto, At, Safe, Renaming, TypeOK, files
  <2>2. \A d \in Callers : pc'[d] \notin {"looking", "deleting"}
    BY <1>3, <1>5, <2>1 DEF Holding
  <2>3. QED
    BY <1>1, <1>4, <2>1, <2>2 DEF Found, ReturnedIsVerified
<1>10. QED
  BY <1>6, <1>7, <1>8, <1>9

\* Crash keeps the invariant.
LEMMA InvCrash ==
  ASSUME IInv, NEW p \in Processes, Crash(p)
  PROVE  Locked' /\ Found' /\ ReturnedIsVerified'
<1>1. Safe /\ Queues /\ Locked /\ Found /\ ReturnedIsVerified
  BY DEF IInv
<1>2. /\ \A d \in Callers : pc'[d] \in Holding => pc'[d] = pc[d] /\ processOf[d] # p
      /\ holder' = (IF holder = p THEN Nobody ELSE holder)
      /\ cache' = cache /\ result' = result
  BY DEF Crash, At, Holding, files
<1>3. QED
  BY <1>1, <1>2 DEF Locked, Found, ReturnedIsVerified, Holding

\* Every step keeps the invariant.
LEMMA InvNext ==
  ASSUME OneIsolate, IInv, [Next]_vars
  PROVE  IInv'
<1>1. Safe' /\ Queues'
  BY SafeNext, QueuesNext DEF IInv
<1>2. CASE UNCHANGED vars
  BY <1>1, <1>2 DEF vars, IInv, Locked, Found, ReturnedIsVerified
<1>3. CASE Next
  <2>1. Locked' /\ Found' /\ ReturnedIsVerified'
    BY <1>3, InvEnter, InvLock, InvWork, InvCrash DEF Next, Step
  <2>2. QED
    BY <1>1, <2>1 DEF IInv
<1>4. QED
  BY <1>2, <1>3

\* The invariant holds always.
LEMMA InvAlways ==
  ASSUME OneIsolate
  PROVE  Spec => []IInv
<1>1. Init /\ Safe /\ Queues => IInv
  BY DEF Init, IInv, Locked, Found, ReturnedIsVerified, Holding
<1>2. IInv /\ [Next]_vars => IInv'
  BY InvNext
<1>3. QED
  BY <1>1, <1>2, SafeAlways, QueuesAlways, PTL DEF Spec

\* Only one call is between Lock and Unlock, in whatever process it runs
\* (native_asset_download.dart: _acquirePinnedNativeLibraryLocked).
THEOREM OneInside ==
  ASSUME OneIsolate
  PROVE  Spec => [](\A c, d \in Callers :
                       pc[c] \in Holding /\ pc[d] \in Holding => c = d)
<1>1. IInv => \A c, d \in Callers : pc[c] \in Holding /\ pc[d] \in Holding => c = d
  BY OneHolds DEF IInv
<1>2. QED
  BY <1>1, InvAlways, PTL

\* When every process runs its calls in one isolate, a library that a call
\* returned stays under the cache name, verified: no other call deletes it,
\* whoever crashes (native_asset_download.dart: the queue, the lock file and the
\* finally clauses).
THEOREM ReturnedVerified ==
  ASSUME OneIsolate
  PROVE  Spec => []ReturnedIsVerified
<1>1. IInv => ReturnedIsVerified
  BY DEF IInv
<1>2. QED
  BY <1>1, InvAlways, PTL

\* Once the cache holds the library, every step leaves it there.
ValidStays == [][cache = "valid" => cache' = "valid"]_vars

\* A step of a call that has found the library missing is the only one that
\* deletes, and a rename puts a verified library over whatever is there.
LEMMA StaysValid ==
  ASSUME IInv, [Next]_vars, cache = "valid"
  PROVE  cache' = "valid"
<1>1. CASE cache' = cache
  BY <1>1
<1>2. ASSUME NEW c \in Callers, Delete(c) PROVE FALSE
  BY <1>2 DEF Delete, At, IInv, Found
<1>3. ASSUME NEW c \in Callers, Rename(c) PROVE cache' = "valid"
  BY <1>3 DEF Rename, At, IInv, Safe, Renaming, files
<1>4. ASSUME NEW c \in Callers, Enter(c) \/ Write(c) \/ Step(c)
      PROVE  cache' = cache \/ Delete(c) \/ Rename(c)
  BY <1>4 DEF Enter, Write, Step, Proceed, Open, Lock, Check, Look, EndDownload,
              Verify, Clean, Unlock, Close, Leave, files
<1>5. ASSUME NEW p \in Processes, Crash(p) PROVE cache' = cache
  BY <1>5 DEF Crash, files
<1>6. QED
  BY <1>1, <1>2, <1>3, <1>4, <1>5 DEF Next, vars

\* When every process runs its calls in one isolate, the library never leaves
\* the cache again: not even for the moment between the delete and the rename
\* of a second download (native_asset_download.dart: the second look at the
\* cache is taken under the lock).
THEOREM LibraryStays ==
  ASSUME OneIsolate
  PROVE  Spec => ValidStays
<1>1. IInv /\ [Next]_vars => (cache = "valid" => cache' = "valid")
  BY StaysValid
<1>2. Spec => [][Next]_vars
  BY DEF Spec
<1>3. QED
  BY <1>1, <1>2, InvAlways, PTL DEF ValidStays

================================================================================
