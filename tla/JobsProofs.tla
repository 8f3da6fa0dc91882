------------------------------ MODULE JobsProofs -------------------------------
(***************************************************************************)
(* Proofs about Jobs for any number of callers, jobs and permits.          *)
(*                                                                         *)
(* The run's invariants are not inductive.  IInv adds what they rest on:   *)
(* which states of a job, its observer and its channel occur together      *)
(* (Consistent), what a caller in the middle of a command may count on     *)
(* although the lock is not held (Holds), and where a job's frame is       *)
(* (Frames).  Each action has a lemma; the four commands that end with the *)
(* caller giving up its Arc of the job share EndOfCall and CommandStep.    *)
(*                                                                         *)
(* The last part shows what all of this is for: seen through its refresh,  *)
(* each job is the one object that Query.tla describes.                    *)
(***************************************************************************)
EXTENDS Jobs, FiniteSetTheorems, TLAPS

Steps == {"idle", "reserved", "launched", "spawned", "poll", "cancel", "take",
          "carrying"}

\* What the observer makes of the way a query ended.
verdict(query) == IF query = "frame" THEN "frame" ELSE "error"

\* The parts of one job fit together: nothing happens to a job before it has
\* its observer, only a running job has a result in its channel, and a running
\* job whose observer has reported has the verdict there.
Consistent(r) ==
    /\ r.state = "none" <=> r.observer = "none"
    /\ r.state = "none" => ~r.requested /\ ~r.registered
    /\ r.channel # "empty" => r.state = "running" /\ r.observer \in {"sent", "gone"}
    /\ r.observer = "waiting" => r.state \in {"running", "dropped"}
    /\ r.observer \in {"sent", "gone"} => r.query \in Outcome
    /\ r.state = "running" /\ r.observer \in {"sent", "gone"} =>
          r.channel = verdict(r.query)
    /\ r.requested => r.state # "frame"
    /\ r.state = "dropped" => ~r.registered

JobsConsistent == \A j \in Jobs : Consistent(jobs[j])

\* No other caller is busy with the job of t.
sole(t) == \A u \in Threads \ {t} : calls[u].job # calls[t].job

\* What a caller in the middle of a command knows of its job.
Holds(t) ==
    LET j == calls[t].job
    IN  /\ At(t, "idle") <=> j = NoJob
        /\ At(t, "reserved") => jobs[j] = NewJob /\ sole(t)
        /\ At(t, "launched") =>
              jobs[j].state = "none" /\ jobs[j].query # "none" /\ sole(t)
        /\ At(t, "spawned") =>
              jobs[j].state = "running" /\ ~jobs[j].registered /\ sole(t)
        /\ calls[t].step \in {"poll", "cancel", "take", "carrying"} =>
              jobs[j].state \notin {"none", "dropped"}
        /\ At(t, "carrying") =>
              /\ jobs[j].state = "taken"
              /\ delivered[j] = 0
              /\ j \notin accepted
              /\ \A u \in Threads : At(u, "carrying") /\ calls[u].job = j => u = t

CallersHold == \A t \in Threads : Holds(t)

\* Where the frame of j is: it was delivered at most once and never after an
\* accepted cancellation, and once the observer has reported it is in the
\* channel, the job, a caller's hands or the registry unless it was lost.
Frames(j) ==
    /\ delivered[j] \in {0, 1}
    /\ jobs[j].state \notin {"taken", "dropped"} => delivered[j] = 0
    /\ j \in accepted <=> jobs[j].requested
    /\ j \in accepted => delivered[j] = 0
    /\ /\ jobs[j].query = "frame"
       /\ jobs[j].observer \in {"sent", "gone"}
       /\ jobs[j].state # "dropped"
       /\ j \notin accepted \cup lost
       => \/ jobs[j].channel = "frame" \/ jobs[j].state = "frame"
          \/ carriers(j) # {} \/ delivered[j] = 1

FramesTracked == \A j \in Jobs : Frames(j)

\* TypeOK in the form the steps use.
Types ==
    /\ permits \in Nat /\ permits <= MaxActive
    /\ jobs \in [Jobs -> Job]
    /\ calls \in [Threads -> [step : Steps, job : Jobs \cup {NoJob}]]
    /\ accepted \subseteq Jobs
    /\ delivered \in [Jobs -> Nat]
    /\ lost \subseteq Jobs

--------------------------------------------------------------------------------
(* The state of one job, and the end of a command *)

\* Job::refresh keeps a job consistent, and changes it only by taking the result
\* out of the channel of a running job.
LEMMA RefreshFacts ==
    ASSUME NEW r \in Job, Consistent(r)
    PROVE  /\ refresh(r) \in Job
           /\ Consistent(refresh(r))
           /\ \/ refresh(r) = r
              \/ /\ r.state = "running" /\ r.channel # "empty"
                 /\ refresh(r) = [r EXCEPT !.state = IF r.requested THEN "cancelled"
                                                     ELSE r.channel,
                                           !.channel = "empty"]
  BY DEF refresh, Job, Consistent, verdict, Outcome

\* Job::drop of a job without a handle leaves it consistent and keeps its
\* observer and whether its cancellation was accepted.
LEMMA DropFacts ==
    ASSUME NEW r \in Job, Consistent(r), ~r.registered, r.state # "none"
    PROVE  /\ drop(r) \in Job
           /\ Consistent(drop(r))
           /\ drop(r).state = "dropped"
           /\ drop(r).observer = r.observer
           /\ drop(r).requested = r.requested
  BY DEF drop, Job, Consistent, verdict, Outcome

\* What the end of a command does to its job and to the caller.
LEMMA ReturnFacts ==
    ASSUME Types, CallersHold, NEW t \in Threads, NEW j, j = calls[t].job, j \in Jobs,
           NEW r \in Job, Consistent(r), r.state # "none", Return(t, r)
    PROVE  /\ jobs' \in [Jobs -> Job]
           /\ calls' \in [Threads -> [step : Steps, job : Jobs \cup {NoJob}]]
           /\ calls'[t] = Idle
           /\ \A u \in Threads \ {t} : calls'[u] = calls[u]
           /\ \A i \in Jobs \ {j} : jobs'[i] = jobs[i]
           /\ \/ jobs'[j] = r
              \/ /\ jobs'[j] = drop(r)
                 /\ ~r.registered
                 /\ \A u \in Threads \ {t} : calls[u].job # j
           /\ Consistent(jobs'[j])
<1> DEFINE held == r.registered \/ \E u \in Threads \ {t} : calls[u].job = j
<1>1. /\ jobs' = [jobs EXCEPT ![j] = IF held THEN r ELSE drop(r)]
      /\ calls' = [calls EXCEPT ![t] = Idle]
  BY DEF Return
<1>2. Idle \in [step : Steps, job : Jobs \cup {NoJob}]
  BY DEF Idle, Steps
<1>3. CASE held
  BY <1>1, <1>2, <1>3 DEF Types
<1>4. CASE ~held
  <2>1. drop(r) \in Job /\ Consistent(drop(r))
    BY <1>4, DropFacts
  <2>2. QED
    BY <1>1, <1>2, <1>4, <2>1 DEF Types
<1>5. QED
  BY <1>3, <1>4

\* The inductive invariant.
IInv == /\ Types
        /\ IsFiniteSet(submitting) /\ PermitsExact
        /\ JobsConsistent
        /\ CallersHold
        /\ FramesTracked

\* The invariant holds before the first command.
LEMMA InitInvariant == Init => IInv
<1> SUFFICES ASSUME Init PROVE IInv
  OBVIOUS
<1> USE DEF Init, NewJob, Idle
<1>1. Types
  BY JobsAssumption DEF Types, Job, Steps
<1>2. IsFiniteSet(submitting) /\ PermitsExact
  <2>1. submitting = {} /\ observed = {}
    BY DEF submitting, observed, At
  <2>2. QED
    BY <2>1, FS_EmptySet DEF PermitsExact
<1>3. JobsConsistent
  BY DEF JobsConsistent, Consistent
<1>4. CallersHold
  BY DEF CallersHold, Holds, At
<1>5. FramesTracked
  BY DEF FramesTracked, Frames
<1>6. QED
  BY <1>1, <1>2, <1>3, <1>4, <1>5 DEF IInv

\* The two sets the permits count.
LEMMA PermitFacts ==
    ASSUME Types, IsFiniteSet(submitting), NEW t, NEW j
    PROVE  /\ IsFiniteSet(observed)
           /\ Cardinality(observed) \in Nat /\ Cardinality(submitting) \in Nat
           /\ Cardinality(observed \cup {j}) =
                 IF j \in observed THEN Cardinality(observed)
                                   ELSE Cardinality(observed) + 1
           /\ Cardinality(observed \ {j}) =
                 IF j \in observed THEN Cardinality(observed) - 1
                                   ELSE Cardinality(observed)
           /\ IsFiniteSet(submitting \cup {t}) /\ IsFiniteSet(submitting \ {t})
           /\ Cardinality(submitting \cup {t}) =
                 IF t \in submitting THEN Cardinality(submitting)
                                     ELSE Cardinality(submitting) + 1
           /\ Cardinality(submitting \ {t}) =
                 IF t \in submitting THEN Cardinality(submitting) - 1
                                     ELSE Cardinality(submitting)
<1>1. IsFiniteSet(observed)
  <2>1. observed \in SUBSET Jobs
    BY DEF observed
  <2>2. QED
    BY <2>1, JobsAssumption, FS_Subset
<1>2. QED
  BY <1>1, FS_CardinalityType, FS_AddElement, FS_RemoveElement

\* A step that moves nobody into or out of the two sets.
LEMMA SamePermits ==
    ASSUME IInv, permits' = permits, submitting' = submitting, observed' = observed
    PROVE  IsFiniteSet(submitting') /\ PermitsExact'
  BY DEF IInv, PermitsExact

\* A command of t that submitted nothing ends and leaves its job j in state r.
Ends(t, j, r) ==
    /\ j = calls[t].job
    /\ calls[t].step \notin {"idle", "reserved", "launched"}
    /\ Consistent(r)
    /\ Return(t, r)
    /\ r.state \notin {"none", "dropped"}
    /\ r.observer = jobs[j].observer
    /\ \A u \in Threads \ {t} :
          At(u, "carrying") /\ calls[u].job = j => r.state = "taken"
    /\ \A u \in Threads \ {t} : At(u, "carrying") =>
          delivered'[calls[u].job] = 0 /\ calls[u].job \notin accepted'
    /\ permits' = permits

\* What is left when it has ended.
Ended(t, j, r) ==
    /\ jobs' \in [Jobs -> Job]
    /\ calls' \in [Threads -> [step : Steps, job : Jobs \cup {NoJob}]]
    /\ permits' \in Nat /\ permits' <= MaxActive
    /\ IsFiniteSet(submitting') /\ PermitsExact'
    /\ JobsConsistent'
    /\ CallersHold'
    /\ \A i \in Jobs \ {j} : jobs'[i] = jobs[i] /\ carriers(i)' = carriers(i)
    /\ carriers(j)' = carriers(j) \ {t}
    /\ jobs'[j] = r \/ jobs'[j] = drop(r)

\* The end of a command keeps the permits exact, the jobs consistent and every
\* other caller's view of its job true.
LEMMA EndOfCall ==
    ASSUME IInv, NEW t \in Threads, NEW j \in Jobs, NEW r \in Job, Ends(t, j, r)
    PROVE  Ended(t, j, r)
<1> USE DEF Ends
<1>1. j \in Jobs
  OBVIOUS
<1>2. /\ jobs' \in [Jobs -> Job]
      /\ calls' \in [Threads -> [step : Steps, job : Jobs \cup {NoJob}]]
      /\ calls'[t] = Idle
      /\ \A u \in Threads \ {t} : calls'[u] = calls[u]
      /\ \A i \in Jobs \ {j} : jobs'[i] = jobs[i]
      /\ \/ jobs'[j] = r
         \/ /\ jobs'[j] = drop(r)
            /\ ~r.registered
            /\ \A u \in Threads \ {t} : calls[u].job # j
      /\ Consistent(jobs'[j])
  BY <1>1, ReturnFacts DEF IInv
<1>3. jobs'[j].observer = jobs[j].observer
  BY <1>2, DropFacts
<1>4. IsFiniteSet(submitting') /\ PermitsExact'
  <2>1. submitting' = submitting
    BY <1>2 DEF submitting, At, Idle
  <2>2. observed' = observed
    BY <1>2, <1>3 DEF observed
  <2>3. QED
    BY <2>1, <2>2, SamePermits
<1>5. JobsConsistent'
  BY <1>2 DEF IInv, JobsConsistent
<1>6. CallersHold'
  <2> SUFFICES ASSUME NEW u \in Threads PROVE Holds(u)'
    BY DEF CallersHold
  <2>0. Holds(u)
    BY DEF IInv, CallersHold
  <2>1. CASE u = t
    BY <1>2, <2>1, JobsAssumption DEF Holds, At, Idle, IInv, Types
  <2>2. CASE u # t /\ calls[u].job # j
    <3>1. /\ calls'[u] = calls[u]
          /\ calls[u].job \in Jobs => jobs'[calls[u].job] = jobs[calls[u].job]
      <4>1. calls'[u] = calls[u]
        BY <1>2, <2>2
      <4>2. ASSUME calls[u].job \in Jobs
            PROVE  jobs'[calls[u].job] = jobs[calls[u].job]
        <5>1. calls[u].job \in Jobs \ {j}
          BY <2>2, <4>2
        <5>2. QED
          BY <1>2, <5>1
      <4>3. QED
        BY <4>1, <4>2
    <3>2. calls[u].job # NoJob /\ sole(u) => sole(u)'
      BY <1>2, <3>1 DEF sole, Idle
    <3>3. \A v \in Threads : At(v, "carrying")' => At(v, "carrying") /\ calls'[v] = calls[v]
      BY <1>2 DEF At, Idle
    <3>4. calls[u].job \in Jobs \cup {NoJob} /\ calls[u].step \in Steps
      BY DEF IInv, Types
    <3>5. QED
      BY <2>0, <2>2, <3>1, <3>2, <3>3, <3>4, JobsAssumption DEF Holds, At
  <2>3. CASE u # t /\ calls[u].job = j
    <3>1. calls'[u] = calls[u] /\ jobs'[j] = r
      BY <1>2, <2>3
    <3>2. ~sole(u)
      BY <2>3 DEF sole
    <3>3. \A v \in Threads : At(v, "carrying")' => At(v, "carrying") /\ calls'[v] = calls[v]
      BY <1>2 DEF At, Idle
    <3>5. QED
      BY <1>1, <2>0, <2>3, <3>1, <3>2, <3>3, JobsAssumption DEF Holds, At
  <2>4. QED
    BY <2>1, <2>2, <2>3
<1>7. carriers(j)' = carriers(j) \ {t}
  BY <1>2 DEF carriers, At, Idle
<1>8. \A i \in Jobs \ {j} : jobs'[i] = jobs[i] /\ carriers(i)' = carriers(i)
  BY <1>2 DEF carriers, At, Idle
<1>9. permits' \in Nat /\ permits' <= MaxActive
  BY DEF IInv, Types
<1>10. QED
  BY <1>1, <1>2, <1>4, <1>5, <1>6, <1>7, <1>8, <1>9 DEF Ended

\* A caller inside a command is busy with a job.
LEMMA Holder ==
    ASSUME IInv, NEW t \in Threads, ~At(t, "idle")
    PROVE  calls[t].job \in Jobs
  BY DEF IInv, Types, CallersHold, Holds

\* A caller alone with its job, or about to be, disturbs no other caller.
LEMMA SoleStep ==
    ASSUME IInv, NEW t \in Threads, NEW j \in Jobs, NEW c \in {Idle} \cup [step : Steps, job : {j}],
           \A u \in Threads \ {t} : calls[u].job # j,
           calls' = [calls EXCEPT ![t] = c],
           \A i \in Jobs \ {j} : jobs'[i] = jobs[i],
           UNCHANGED <<accepted, delivered>>
    PROVE  /\ calls' \in [Threads -> [step : Steps, job : Jobs \cup {NoJob}]]
           /\ calls'[t] = c
           /\ \A u \in Threads \ {t} : calls'[u] = calls[u] /\ Holds(u)'
<1>1. /\ calls' \in [Threads -> [step : Steps, job : Jobs \cup {NoJob}]]
      /\ calls'[t] = c
      /\ \A u \in Threads \ {t} : calls'[u] = calls[u]
  BY DEF IInv, Types, Steps, Idle
<1>2. ASSUME NEW u \in Threads \ {t}
      PROVE  Holds(u)'
  <2>1. Holds(u) /\ calls'[u] = calls[u] /\ calls[u].job # j
    BY <1>1 DEF IInv, CallersHold
  <2>2. calls[u].job \in Jobs \cup {NoJob} /\ calls[u].step \in Steps
    BY DEF IInv, Types, Steps
  <2>3. calls[u].job \in Jobs => calls[u].job \in Jobs \ {j}
    BY <2>1
  <2>4. calls[u].job \in Jobs => jobs'[calls[u].job] = jobs[calls[u].job]
    BY <2>3
  <2>5. calls[u].job # NoJob /\ sole(u) => sole(u)'
    BY <1>1, <2>1 DEF sole, Idle
  <2>6. ASSUME At(u, "carrying"), NEW v \in Threads,
               At(v, "carrying")', calls'[v].job = calls[u].job
        PROVE  v = u
    <3>1. v # t
      BY <1>1, <2>1, <2>6, <2>2 DEF At, Idle, Holds
    <3>2. QED
      BY <1>1, <2>1, <2>6, <3>1 DEF At, Holds
  <2>7. QED
    BY <2>1, <2>2, <2>4, <2>5, <2>6, JobsAssumption DEF Holds, At, Steps
<1>3. QED
  BY <1>1, <1>2

\* ObserverPermit::reserve keeps the invariant.
LEMMA ReserveStep ==
    ASSUME IInv, NEW t \in Threads, Reserve(t)
    PROVE  IInv'
<1>1. PICK j \in Jobs : /\ jobs[j] = NewJob
                        /\ \A u \in Threads : calls[u].job # j
                        /\ Goto(t, "reserved", j)
  BY DEF Reserve
<1>2. /\ calls[t] = Idle /\ permits < MaxActive /\ permits' = permits + 1
      /\ UNCHANGED <<jobs, accepted, delivered, lost>>
  BY DEF Reserve
<1> DEFINE c == [step |-> "reserved", job |-> j]
<1>3. c \in [step : Steps, job : {j}] /\ calls' = [calls EXCEPT ![t] = c]
  BY <1>1 DEF Goto, Steps
<1>4. /\ calls' \in [Threads -> [step : Steps, job : Jobs \cup {NoJob}]]
      /\ calls'[t] = c
      /\ \A u \in Threads \ {t} : calls'[u] = calls[u] /\ Holds(u)'
  <2> HIDE DEF c
  <2> QED
    BY <1>1, <1>2, <1>3, SoleStep
<1>5. Types'
  BY <1>2, <1>4, JobsAssumption DEF IInv, Types, Steps
<1>6. IsFiniteSet(submitting') /\ PermitsExact'
  <2>1. submitting' = submitting \cup {t} /\ t \notin submitting
    BY <1>2, <1>4 DEF submitting, At, Idle
  <2>2. observed' = observed
    BY <1>2 DEF observed
  <2>3. /\ IsFiniteSet(submitting \cup {t})
        /\ Cardinality(submitting \cup {t}) = Cardinality(submitting) + 1
        /\ Cardinality(observed) \in Nat /\ Cardinality(submitting) \in Nat
    BY <2>1, PermitFacts DEF IInv
  <2>4. QED
    BY <1>2, <2>1, <2>2, <2>3 DEF IInv, PermitsExact
<1>7. JobsConsistent'
  BY <1>2 DEF IInv, JobsConsistent
<1>8. CallersHold'
  <2>1. Holds(t)'
    BY <1>1, <1>2, <1>4, JobsAssumption DEF Holds, At, sole
  <2>2. QED
    BY <1>4, <2>1 DEF CallersHold
<1>9. FramesTracked'
  <2>1. \A i \in Jobs : carriers(i)' = carriers(i)
    BY <1>2, <1>4 DEF carriers, At, Idle
  <2>2. QED
    BY <1>2, <2>1 DEF IInv, FramesTracked, Frames
<1>10. QED
  BY <1>5, <1>6, <1>7, <1>8, <1>9 DEF IInv

\* The start of Polars' worker keeps the invariant.
LEMMA LaunchStep ==
    ASSUME IInv, NEW t \in Threads, Launch(t)
    PROVE  IInv'
<1>0. PICK j : j = calls[t].job
  OBVIOUS
<1> DEFINE c == [step |-> "launched", job |-> j]
           r == [jobs[j] EXCEPT !.query = "running"]
<1>1. /\ At(t, "reserved") /\ Goto(t, "launched", j)
      /\ jobs' = [jobs EXCEPT ![j].query = "running"]
      /\ UNCHANGED <<permits, accepted, delivered, lost>>
  BY <1>0 DEF Launch
<1>2. /\ j \in Jobs /\ jobs[j] = NewJob
      /\ \A u \in Threads \ {t} : calls[u].job # j
  BY <1>0, <1>1, Holder DEF IInv, CallersHold, Holds, At, sole
<1>3. c \in [step : Steps, job : {j}] /\ calls' = [calls EXCEPT ![t] = c]
  BY <1>1 DEF Goto, Steps
<1>4. r \in Job /\ Consistent(r) /\ r.state = "none" /\ r.query = "running"
      /\ r.observer = "none" /\ ~r.requested
  <2>1. r = [NewJob EXCEPT !.query = "running"]
    BY <1>2
  <2> HIDE DEF r
  <2>2. QED
    BY <2>1 DEF NewJob, Job, Consistent, Outcome
<1>5. /\ jobs' \in [Jobs -> Job] /\ jobs'[j] = r
      /\ \A i \in Jobs \ {j} : jobs'[i] = jobs[i]
  BY <1>1, <1>2, <1>4 DEF IInv, Types
<1>6. /\ calls' \in [Threads -> [step : Steps, job : Jobs \cup {NoJob}]]
      /\ calls'[t] = c
      /\ \A u \in Threads \ {t} : calls'[u] = calls[u] /\ Holds(u)'
  <2> HIDE DEF c
  <2> QED
    BY <1>1, <1>2, <1>3, <1>5, SoleStep
<1>7. Types'
  BY <1>1, <1>5, <1>6 DEF IInv, Types, Steps
<1>8. IsFiniteSet(submitting') /\ PermitsExact'
  <2>1. submitting' = submitting
    BY <1>1, <1>6 DEF submitting, At
  <2>2. observed' = observed
    BY <1>2, <1>4, <1>5 DEF observed, NewJob
  <2>3. QED
    BY <1>1, <2>1, <2>2, SamePermits
<1>9. JobsConsistent'
  BY <1>4, <1>5 DEF IInv, JobsConsistent
<1>10. CallersHold'
  <2>1. Holds(t)'
    <3>1. sole(t)'
      BY <1>2, <1>6 DEF sole
    <3> HIDE DEF r
    <3>2. QED
      BY <1>2, <1>4, <1>5, <1>6, <3>1, JobsAssumption DEF Holds, At
  <2>2. QED
    BY <1>6, <2>1 DEF CallersHold
<1>11. FramesTracked'
  <2>1. \A i \in Jobs : carriers(i)' = carriers(i)
    BY <1>1, <1>6 DEF carriers, At
  <2>2. \A i \in Jobs \ {j} : Frames(i)'
    BY <1>1, <1>5, <2>1 DEF IInv, FramesTracked, Frames
  <2>3. Frames(j)'
    <3> HIDE DEF r
    <3> QED
      BY <1>1, <1>2, <1>4, <1>5, <2>1 DEF IInv, FramesTracked, Frames, NewJob
  <2>4. QED
    BY <2>2, <2>3 DEF FramesTracked
<1>12. QED
  BY <1>7, <1>8, <1>9, <1>10, <1>11 DEF IInv

\* A plan Polars rejects gives its permit back and keeps the invariant.
LEMMA LaunchFailsStep ==
    ASSUME IInv, NEW t \in Threads, LaunchFails(t)
    PROVE  IInv'
<1>0. PICK j : j = calls[t].job
  OBVIOUS
<1>1. /\ At(t, "reserved") /\ calls' = [calls EXCEPT ![t] = Idle]
      /\ permits' = permits - 1
      /\ UNCHANGED <<jobs, accepted, delivered, lost>>
  BY <1>0 DEF LaunchFails
<1>2. /\ j \in Jobs
      /\ \A u \in Threads \ {t} : calls[u].job # j
  BY <1>0, <1>1, Holder DEF IInv, CallersHold, Holds, At, sole
<1>3. /\ calls' \in [Threads -> [step : Steps, job : Jobs \cup {NoJob}]]
      /\ calls'[t] = Idle
      /\ \A u \in Threads \ {t} : calls'[u] = calls[u] /\ Holds(u)'
  <2> QED
    BY <1>1, <1>2, SoleStep
<1>4. /\ IsFiniteSet(submitting') /\ PermitsExact' /\ permits \in Nat \ {0}
  <2>1. submitting' = submitting \ {t} /\ t \in submitting
    BY <1>1, <1>3 DEF submitting, At, Idle
  <2>2. observed' = observed
    BY <1>1 DEF observed
  <2>3. /\ IsFiniteSet(submitting \ {t})
        /\ Cardinality(submitting \ {t}) = Cardinality(submitting) - 1
        /\ Cardinality(observed) \in Nat /\ Cardinality(submitting) \in Nat
        /\ Cardinality(submitting \ {t}) \in Nat
    BY <2>1, PermitFacts, FS_CardinalityType DEF IInv
  <2>4. QED
    BY <1>1, <2>1, <2>2, <2>3 DEF IInv, PermitsExact
<1>5. Types'
  BY <1>1, <1>3, <1>4, JobsAssumption DEF IInv, Types, Steps
<1>6. JobsConsistent'
  BY <1>1 DEF IInv, JobsConsistent
<1>7. CallersHold'
  <2>1. Holds(t)'
    BY <1>3 DEF Holds, At, Idle
  <2>2. QED
    BY <1>3, <2>1 DEF CallersHold
<1>8. FramesTracked'
  <2>1. \A i \in Jobs : carriers(i)' = carriers(i)
    BY <1>1, <1>3 DEF carriers, At, Idle
  <2>2. QED
    BY <1>1, <2>1 DEF IInv, FramesTracked, Frames
<1>9. QED
  BY <1>4, <1>5, <1>6, <1>7, <1>8 DEF IInv

\* The start of the observer passes the permit from the caller to the job.
LEMMA SpawnStep ==
    ASSUME IInv, NEW t \in Threads, Spawn(t)
    PROVE  IInv'
<1>0. PICK j : j = calls[t].job
  OBVIOUS
<1> DEFINE c == [step |-> "spawned", job |-> j]
           r == [jobs[j] EXCEPT !.observer = "waiting", !.state = "running"]
<1>1. /\ At(t, "launched") /\ Goto(t, "spawned", j)
      /\ jobs' = [jobs EXCEPT ![j].observer = "waiting", ![j].state = "running"]
      /\ UNCHANGED <<permits, accepted, delivered, lost>>
  BY <1>0 DEF Spawn
<1>2. /\ j \in Jobs /\ jobs[j].state = "none" /\ jobs[j].query # "none"
      /\ \A u \in Threads \ {t} : calls[u].job # j
  BY <1>0, <1>1, Holder DEF IInv, CallersHold, Holds, At, sole
<1>3. c \in [step : Steps, job : {j}] /\ calls' = [calls EXCEPT ![t] = c]
  BY <1>1 DEF Goto, Steps
<1>4. jobs[j] \in Job /\ Consistent(jobs[j]) /\ Frames(j)
  BY <1>2 DEF IInv, Types, JobsConsistent, FramesTracked
<1>5. r \in Job /\ Consistent(r) /\ r.state = "running" /\ r.observer = "waiting"
      /\ ~r.registered /\ r.requested = jobs[j].requested
  BY <1>2, <1>4 DEF Job, Consistent, Outcome
<1>6. /\ jobs' \in [Jobs -> Job] /\ jobs'[j] = r
      /\ \A i \in Jobs \ {j} : jobs'[i] = jobs[i]
  BY <1>1, <1>2, <1>5 DEF IInv, Types
<1>7. /\ calls' \in [Threads -> [step : Steps, job : Jobs \cup {NoJob}]]
      /\ calls'[t] = c
      /\ \A u \in Threads \ {t} : calls'[u] = calls[u] /\ Holds(u)'
  <2> HIDE DEF c
  <2> QED
    BY <1>1, <1>2, <1>3, <1>6, SoleStep
<1> HIDE DEF r
<1>8. Types'
  BY <1>1, <1>6, <1>7 DEF IInv, Types, Steps
<1>9. IsFiniteSet(submitting') /\ PermitsExact'
  <2>1. submitting' = submitting \ {t} /\ t \in submitting
    BY <1>1, <1>7 DEF submitting, At
  <2>2. observed' = observed \cup {j} /\ j \notin observed
    BY <1>2, <1>4, <1>5, <1>6 DEF observed, Consistent
  <2>3. /\ IsFiniteSet(submitting \ {t})
        /\ Cardinality(submitting \ {t}) = Cardinality(submitting) - 1
        /\ Cardinality(observed \cup {j}) = Cardinality(observed) + 1
        /\ Cardinality(observed) \in Nat /\ Cardinality(submitting) \in Nat
    BY <2>1, <2>2, PermitFacts DEF IInv
  <2>4. QED
    BY <1>1, <2>1, <2>2, <2>3 DEF IInv, PermitsExact
<1>10. JobsConsistent'
  BY <1>5, <1>6 DEF IInv, JobsConsistent
<1>11. CallersHold'
  <2>1. Holds(t)'
    <3>1. sole(t)'
      BY <1>2, <1>7 DEF sole
    <3>2. QED
      BY <1>2, <1>5, <1>6, <1>7, <3>1, JobsAssumption DEF Holds, At
  <2>2. QED
    BY <1>7, <2>1 DEF CallersHold
<1>12. FramesTracked'
  <2>1. \A i \in Jobs : carriers(i)' = carriers(i)
    BY <1>1, <1>7 DEF carriers, At
  <2>2. \A i \in Jobs \ {j} : Frames(i)'
    BY <1>1, <1>6, <2>1 DEF IInv, FramesTracked, Frames
  <2>3. Frames(j)'
    BY <1>1, <1>2, <1>4, <1>5, <1>6, <2>1 DEF Frames
  <2>4. QED
    BY <2>2, <2>3 DEF FramesTracked
<1>13. QED
  BY <1>8, <1>9, <1>10, <1>11, <1>12 DEF IInv

\* An observer that cannot be started gives its permit back.
LEMMA SpawnFailsStep ==
    ASSUME IInv, NEW t \in Threads, SpawnFails(t)
    PROVE  IInv'
<1>0. PICK j : j = calls[t].job
  OBVIOUS
<1>1. /\ At(t, "launched") /\ calls' = [calls EXCEPT ![t] = Idle]
      /\ permits' = permits - 1
      /\ UNCHANGED <<accepted, delivered, lost>>
  BY <1>0 DEF SpawnFails
<1>2. PICK stops \in BOOLEAN : jobs' = [jobs EXCEPT ![j].cancelled = stops]
  BY <1>0 DEF SpawnFails
<1> DEFINE r == [jobs[j] EXCEPT !.cancelled = stops]
<1>3. /\ j \in Jobs /\ jobs[j].state = "none"
      /\ \A u \in Threads \ {t} : calls[u].job # j
  BY <1>0, <1>1, Holder DEF IInv, CallersHold, Holds, At, sole
<1>4. jobs[j] \in Job /\ Consistent(jobs[j]) /\ Frames(j)
  BY <1>3 DEF IInv, Types, JobsConsistent, FramesTracked
<1>5. r \in Job /\ Consistent(r) /\ r.state = "none" /\ r.observer = "none"
      /\ r.requested = jobs[j].requested
  BY <1>3, <1>4 DEF Job, Consistent, Outcome
<1>6. /\ jobs' \in [Jobs -> Job] /\ jobs'[j] = r
      /\ \A i \in Jobs \ {j} : jobs'[i] = jobs[i]
  BY <1>2, <1>3, <1>5 DEF IInv, Types
<1>7. /\ calls' \in [Threads -> [step : Steps, job : Jobs \cup {NoJob}]]
      /\ calls'[t] = Idle
      /\ \A u \in Threads \ {t} : calls'[u] = calls[u] /\ Holds(u)'
  <2> QED
    BY <1>1, <1>3, <1>6, SoleStep
<1> HIDE DEF r
<1>8. /\ IsFiniteSet(submitting') /\ PermitsExact' /\ permits \in Nat \ {0}
  <2>1. submitting' = submitting \ {t} /\ t \in submitting
    BY <1>1, <1>7 DEF submitting, At, Idle
  <2>2. observed' = observed
    BY <1>3, <1>4, <1>5, <1>6 DEF observed, Consistent
  <2>3. /\ IsFiniteSet(submitting \ {t})
        /\ Cardinality(submitting \ {t}) = Cardinality(submitting) - 1
        /\ Cardinality(observed) \in Nat /\ Cardinality(submitting) \in Nat
        /\ Cardinality(submitting \ {t}) \in Nat
    BY <2>1, PermitFacts, FS_CardinalityType DEF IInv
  <2>4. QED
    BY <1>1, <2>1, <2>2, <2>3 DEF IInv, PermitsExact
<1>9. Types'
  BY <1>1, <1>6, <1>7, <1>8, JobsAssumption DEF IInv, Types, Steps
<1>10. JobsConsistent'
  BY <1>5, <1>6 DEF IInv, JobsConsistent
<1>11. CallersHold'
  <2>1. Holds(t)'
    BY <1>7 DEF Holds, At, Idle
  <2>2. QED
    BY <1>7, <2>1 DEF CallersHold
<1>12. FramesTracked'
  <2>1. \A i \in Jobs : carriers(i)' = carriers(i)
    BY <1>1, <1>7 DEF carriers, At, Idle
  <2>2. \A i \in Jobs \ {j} : Frames(i)'
    BY <1>1, <1>6, <2>1 DEF IInv, FramesTracked, Frames
  <2>3. Frames(j)'
    BY <1>1, <1>3, <1>4, <1>5, <1>6, <2>1 DEF Frames
  <2>4. QED
    BY <2>2, <2>3 DEF FramesTracked
<1>13. QED
  BY <1>8, <1>9, <1>10, <1>11, <1>12 DEF IInv

\* A job in the state r suits what a caller who holds it is doing.
Suits(t, r) ==
    /\ At(t, "reserved") => r = NewJob
    /\ At(t, "launched") => r.state = "none" /\ r.query # "none"
    /\ At(t, "spawned") => r.state = "running" /\ ~r.registered
    /\ calls[t].step \in {"poll", "cancel", "take", "carrying"} =>
          r.state \notin {"none", "dropped"}
    /\ At(t, "carrying") => r.state = "taken"

\* A step of the worker, the observer or the registry, on one job.
LEMMA JobStep ==
    ASSUME IInv, NEW j \in Jobs, NEW r \in Job, Consistent(r),
           jobs' = [jobs EXCEPT ![j] = r],
           UNCHANGED <<calls, accepted, delivered>>,
           \A t \in Threads : calls[t].job = j => Suits(t, r)
    PROVE  /\ jobs' \in [Jobs -> Job] /\ jobs'[j] = r
           /\ \A i \in Jobs \ {j} : jobs'[i] = jobs[i]
           /\ JobsConsistent'
           /\ CallersHold'
           /\ \A i \in Jobs : carriers(i)' = carriers(i)
<1>1. /\ jobs' \in [Jobs -> Job] /\ jobs'[j] = r
      /\ \A i \in Jobs \ {j} : jobs'[i] = jobs[i]
  BY DEF IInv, Types
<1>2. JobsConsistent'
  BY <1>1 DEF IInv, JobsConsistent
<1>3. ASSUME NEW t \in Threads PROVE Holds(t)'
  <2>1. Holds(t)
    BY DEF IInv, CallersHold
  <2>2. calls[t].job \in Jobs \cup {NoJob} /\ calls[t].step \in Steps
    BY DEF IInv, Types, Steps
  <2>3. CASE calls[t].job = j
    BY <1>1, <2>1, <2>2, <2>3, JobsAssumption DEF Holds, At, sole, Suits
  <2>4. CASE calls[t].job \in Jobs \ {j}
    BY <1>1, <2>1, <2>2, <2>4, JobsAssumption DEF Holds, At, sole
  <2>5. CASE calls[t].job = NoJob
    BY <1>1, <2>1, <2>2, <2>5, JobsAssumption DEF Holds, At, sole, Steps
  <2>6. QED
    BY <2>2, <2>3, <2>4, <2>5
<1>4. \A i \in Jobs : carriers(i)' = carriers(i)
  BY DEF carriers, At
<1>5. QED
  BY <1>1, <1>2, <1>3, <1>4 DEF CallersHold

\* What is known of one job.
LEMMA OneJob ==
    ASSUME IInv, NEW j \in Jobs
    PROVE  /\ jobs[j] \in Job /\ Consistent(jobs[j]) /\ Frames(j)
           /\ \A t \in Threads : calls[t].job = j => Suits(t, jobs[j])
  BY JobsAssumption DEF IInv, Types, JobsConsistent, FramesTracked, CallersHold, Holds,
                        Suits

\* The worker finishing, failing or panicking keeps the invariant.
LEMMA QueryEndsStep ==
    ASSUME IInv, NEW j \in Jobs, QueryEnds(j)
    PROVE  IInv'
<1>1. PICK outcome \in Outcome : jobs' = [jobs EXCEPT ![j].query = outcome]
  BY DEF QueryEnds
<1>2. jobs[j].query = "running"
      /\ UNCHANGED <<permits, calls, accepted, delivered, lost>>
  BY DEF QueryEnds
<1> DEFINE r == [jobs[j] EXCEPT !.query = outcome]
<1>3. /\ r \in Job /\ Consistent(r) /\ r.query # "none"
      /\ r.state = jobs[j].state /\ r.registered = jobs[j].registered
      /\ r.observer = jobs[j].observer /\ r.requested = jobs[j].requested
      /\ r.observer \notin {"sent", "gone"}
  BY <1>2, OneJob DEF Job, Consistent, Outcome
<1>4. jobs' = [jobs EXCEPT ![j] = r]
  BY <1>1
<1> HIDE DEF r
<1>5. /\ jobs' \in [Jobs -> Job] /\ jobs'[j] = r
      /\ \A i \in Jobs \ {j} : jobs'[i] = jobs[i]
      /\ JobsConsistent'
      /\ CallersHold'
      /\ \A i \in Jobs : carriers(i)' = carriers(i)
  <2>1. jobs[j] # NewJob
    BY <1>2 DEF NewJob
  <2>2. \A t \in Threads : calls[t].job = j => Suits(t, r)
    BY <1>3, <2>1, OneJob DEF Suits, At
  <2>3. QED
    BY <1>2, <1>3, <1>4, <2>2, JobStep
<1>6. Types'
  BY <1>2, <1>5 DEF IInv, Types
<1>7. IsFiniteSet(submitting') /\ PermitsExact'
  <2>1. submitting' = submitting /\ observed' = observed
    BY <1>2, <1>3, <1>5 DEF submitting, observed, At
  <2>2. QED
    BY <1>2, <2>1, SamePermits
<1>8. FramesTracked'
  <2>1. \A i \in Jobs \ {j} : Frames(i)'
    BY <1>2, <1>5 DEF IInv, FramesTracked, Frames
  <2>2. Frames(j)'
    BY <1>2, <1>3, <1>5, OneJob DEF Frames
  <2>3. QED
    BY <2>1, <2>2 DEF FramesTracked
<1>9. QED
  BY <1>5, <1>6, <1>7, <1>8 DEF IInv

\* The observer's report keeps the invariant: the frame is in the channel,
\* unless the job is gone.
LEMMA ObserveStep ==
    ASSUME IInv, NEW j \in Jobs, Observe(j)
    PROVE  IInv'
<1> DEFINE r == [jobs[j] EXCEPT
                   !.observer = "sent",
                   !.channel = IF jobs[j].state = "dropped" THEN "empty"
                               ELSE verdict(jobs[j].query)]
<1>1. /\ jobs[j].observer = "waiting" /\ jobs[j].query \in Outcome
      /\ jobs' = [jobs EXCEPT ![j] = r]
      /\ UNCHANGED <<permits, calls, accepted, delivered, lost>>
  BY DEF Observe, verdict
<1>2. /\ r \in Job /\ Consistent(r) /\ r.query = jobs[j].query
      /\ r.state = jobs[j].state /\ r.registered = jobs[j].registered
      /\ r.observer = "sent" /\ r.requested = jobs[j].requested
      /\ r.state # "none"
      /\ r.state # "dropped" => r.channel = verdict(r.query)
  BY <1>1, OneJob DEF Job, Consistent, Outcome, verdict
<1>3. jobs[j] # NewJob
  BY <1>1 DEF NewJob
<1> HIDE DEF r
<1>5. /\ jobs' \in [Jobs -> Job] /\ jobs'[j] = r
      /\ \A i \in Jobs \ {j} : jobs'[i] = jobs[i]
      /\ JobsConsistent'
      /\ CallersHold'
      /\ \A i \in Jobs : carriers(i)' = carriers(i)
  <2>1. \A t \in Threads : calls[t].job = j => Suits(t, r)
    BY <1>1, <1>2, <1>3, OneJob DEF Suits, At
  <2>2. QED
    BY <1>1, <1>2, <2>1, JobStep
<1>6. Types'
  BY <1>1, <1>5 DEF IInv, Types
<1>7. IsFiniteSet(submitting') /\ PermitsExact'
  <2>1. submitting' = submitting /\ observed' = observed
    BY <1>1, <1>2, <1>5 DEF submitting, observed, At
  <2>2. QED
    BY <1>1, <2>1, SamePermits
<1>8. FramesTracked'
  <2>1. \A i \in Jobs \ {j} : Frames(i)'
    BY <1>1, <1>5 DEF IInv, FramesTracked, Frames
  <2>2. Frames(j)'
    BY <1>1, <1>2, <1>5, OneJob DEF Frames, verdict
  <2>3. QED
    BY <2>1, <2>2 DEF FramesTracked
<1>9. QED
  BY <1>5, <1>6, <1>7, <1>8 DEF IInv

\* The end of the observer thread returns exactly its permit.
LEMMA ObserverExitsStep ==
    ASSUME IInv, NEW j \in Jobs, ObserverExits(j)
    PROVE  IInv'
<1> DEFINE r == [jobs[j] EXCEPT !.observer = "gone"]
<1>1. /\ jobs[j].observer = "sent" /\ jobs' = [jobs EXCEPT ![j] = r]
      /\ permits' = permits - 1
      /\ UNCHANGED <<calls, accepted, delivered, lost>>
  BY DEF ObserverExits
<1>2. /\ r \in Job /\ Consistent(r) /\ r.query = jobs[j].query
      /\ r.state = jobs[j].state /\ r.registered = jobs[j].registered
      /\ r.observer = "gone" /\ r.requested = jobs[j].requested
      /\ r.channel = jobs[j].channel
      /\ r.state # "none"
  BY <1>1, OneJob DEF Job, Consistent, Outcome, verdict
<1>3. jobs[j] # NewJob
  BY <1>1 DEF NewJob
<1> HIDE DEF r
<1>5. /\ jobs' \in [Jobs -> Job] /\ jobs'[j] = r
      /\ \A i \in Jobs \ {j} : jobs'[i] = jobs[i]
      /\ JobsConsistent'
      /\ CallersHold'
      /\ \A i \in Jobs : carriers(i)' = carriers(i)
  <2>1. \A t \in Threads : calls[t].job = j => Suits(t, r)
    BY <1>1, <1>2, <1>3, OneJob DEF Suits, At
  <2>2. QED
    BY <1>1, <1>2, <2>1, JobStep
<1>6. IsFiniteSet(submitting') /\ PermitsExact' /\ permits \in Nat \ {0}
  <2>1. submitting' = submitting
    BY <1>1 DEF submitting, At
  <2>2. observed' = observed \ {j} /\ j \in observed
    BY <1>1, <1>2, <1>5 DEF observed
  <2>3. /\ Cardinality(observed \ {j}) = Cardinality(observed) - 1
        /\ Cardinality(observed) \in Nat /\ Cardinality(submitting) \in Nat
        /\ IsFiniteSet(observed \ {j})
    BY <2>2, PermitFacts, FS_RemoveElement DEF IInv
  <2>4. Cardinality(observed \ {j}) \in Nat
    BY <2>3, FS_CardinalityType
  <2>5. QED
    BY <1>1, <2>1, <2>2, <2>3, <2>4 DEF IInv, PermitsExact
<1>7. Types'
  BY <1>1, <1>5, <1>6, JobsAssumption DEF IInv, Types
<1>8. FramesTracked'
  <2>1. \A i \in Jobs \ {j} : Frames(i)'
    BY <1>1, <1>5 DEF IInv, FramesTracked, Frames
  <2>2. Frames(j)'
    BY <1>1, <1>2, <1>5, OneJob DEF Frames
  <2>3. QED
    BY <2>1, <2>2 DEF FramesTracked
<1>9. QED
  BY <1>5, <1>6, <1>7, <1>8 DEF IInv

\* The release of a job's handle, with or without callers still busy with it,
\* keeps the invariant.
LEMMA ReleaseStep ==
    ASSUME IInv, NEW j \in Jobs, Release(j)
    PROVE  IInv'
<1> DEFINE q == [jobs[j] EXCEPT !.registered = FALSE]
           held == \E t \in Threads : calls[t].job = j
           r == IF held THEN q ELSE drop(q)
<1>1. /\ jobs[j].registered /\ jobs' = [jobs EXCEPT ![j] = r]
      /\ UNCHANGED <<permits, calls, accepted, delivered, lost>>
  BY DEF Release
<1>2. /\ q \in Job /\ Consistent(q) /\ q.query = jobs[j].query
      /\ q.state = jobs[j].state /\ ~q.registered /\ q.channel = jobs[j].channel
      /\ q.observer = jobs[j].observer /\ q.requested = jobs[j].requested
      /\ q.state \notin {"none", "dropped"}
  BY <1>1, OneJob DEF Job, Consistent
<1> HIDE DEF q
<1>3. /\ r \in Job /\ Consistent(r)
      /\ r.observer = jobs[j].observer /\ r.requested = jobs[j].requested
      /\ held => r = q
      /\ ~held => r.state = "dropped"
  BY <1>2, DropFacts
<1> HIDE DEF r
<1>4. /\ jobs' \in [Jobs -> Job] /\ jobs'[j] = r
      /\ \A i \in Jobs \ {j} : jobs'[i] = jobs[i]
      /\ JobsConsistent'
      /\ CallersHold'
      /\ \A i \in Jobs : carriers(i)' = carriers(i)
  <2>1. jobs[j] # NewJob
    BY <1>1 DEF NewJob
  <2>2. \A t \in Threads : calls[t].job = j => Suits(t, r)
    BY <1>2, <1>3, <2>1, OneJob DEF Suits, At
  <2>3. QED
    BY <1>1, <1>3, <2>2, JobStep
<1>5. Types'
  BY <1>1, <1>4 DEF IInv, Types
<1>6. IsFiniteSet(submitting') /\ PermitsExact'
  <2>1. submitting' = submitting /\ observed' = observed
    BY <1>1, <1>3, <1>4 DEF submitting, observed, At
  <2>2. QED
    BY <1>1, <2>1, SamePermits
<1>7. FramesTracked'
  <2>1. \A i \in Jobs \ {j} : Frames(i)'
    BY <1>1, <1>4 DEF IInv, FramesTracked, Frames
  <2>2. Frames(j)'
    <3>1. CASE held
      BY <1>1, <1>2, <1>3, <1>4, <3>1, OneJob DEF Frames
    <3>2. CASE ~held
      BY <1>1, <1>2, <1>3, <1>4, <3>2, OneJob DEF Frames
    <3>3. QED
      BY <3>1, <3>2
  <2>3. QED
    BY <2>1, <2>2 DEF FramesTracked
<1>8. QED
  BY <1>4, <1>5, <1>6, <1>7 DEF IInv

\* A caller cloning the Arc of a registered job keeps the invariant.
LEMMA LookupStep ==
    ASSUME IInv, NEW t \in Threads, NEW command \in {"poll", "cancel", "take"},
           Lookup(t, command)
    PROVE  IInv'
<1>1. PICK j \in Jobs : jobs[j].registered /\ Goto(t, command, j)
  BY DEF Lookup
<1>2. calls[t] = Idle /\ UNCHANGED <<permits, jobs, accepted, delivered, lost>>
  BY DEF Lookup
<1>3. /\ calls' \in [Threads -> [step : Steps, job : Jobs \cup {NoJob}]]
      /\ calls'[t] = [step |-> command, job |-> j]
      /\ \A u \in Threads \ {t} : calls'[u] = calls[u]
  BY <1>1 DEF Goto, Steps, IInv, Types
<1>4. Types'
  BY <1>2, <1>3 DEF IInv, Types, Steps
<1>5. IsFiniteSet(submitting') /\ PermitsExact'
  <2>1. submitting' = submitting /\ observed' = observed
    BY <1>2, <1>3 DEF submitting, observed, At, Idle
  <2>2. QED
    BY <1>2, <2>1, SamePermits
<1>6. CallersHold'
  <2>1. Holds(t)'
    <3>1. jobs[j].state \notin {"none", "dropped"}
      BY <1>1, OneJob DEF Consistent
    <3>2. QED
      BY <1>2, <1>3, <3>1, JobsAssumption DEF Holds, At
  <2>2. ASSUME NEW u \in Threads \ {t} PROVE Holds(u)'
    <3>1. Holds(u) /\ calls'[u] = calls[u]
      BY <1>3 DEF IInv, CallersHold
    <3>2. calls[u].job \in Jobs \cup {NoJob} /\ calls[u].step \in Steps
      BY DEF IInv, Types, Steps
    <3>3. calls[u].job = j => calls[u].step \notin {"reserved", "launched", "spawned"}
      BY <1>1, <3>1, OneJob DEF Holds, At, Consistent, NewJob
    <3>4. sole(u) /\ calls[u].job # j => sole(u)'
      BY <1>3 DEF sole
    <3>5. QED
      BY <1>2, <1>3, <3>1, <3>2, <3>3, <3>4 DEF Holds, At
  <2>3. QED
    BY <2>1, <2>2 DEF CallersHold
<1>7. FramesTracked'
  <2>1. \A i \in Jobs : carriers(i)' = carriers(i)
    BY <1>2, <1>3 DEF carriers, At, Idle
  <2>2. QED
    BY <1>2, <2>1 DEF IInv, FramesTracked, Frames
<1>8. QED
  BY <1>2, <1>4, <1>5, <1>6, <1>7 DEF IInv, JobsConsistent

\* A caller that carries a frame.
LEMMA Carrier ==
    ASSUME IInv, NEW u \in Threads, At(u, "carrying")
    PROVE  /\ calls[u].job \in Jobs
           /\ delivered[calls[u].job] = 0
           /\ calls[u].job \notin accepted
           /\ jobs[calls[u].job].state = "taken"
           /\ \A v \in Threads :
                 At(v, "carrying") /\ calls[v].job = calls[u].job => v = u
  BY Holder DEF IInv, CallersHold, Holds, At

\* What refresh makes of a job somebody holds.
Refresh(j, r) ==
    /\ r \in Job /\ Consistent(r)
    /\ r.state \notin {"none", "dropped"}
    /\ r.observer = jobs[j].observer /\ r.query = jobs[j].query
    /\ r.requested = jobs[j].requested
    /\ jobs[j].state # "running" => r = jobs[j]
    /\ r.state = "running" => jobs[j].state = "running"
    /\ r.state # "taken" => delivered[j] = 0
    /\ /\ r.query = "frame" /\ r.observer \in {"sent", "gone"}
       /\ j \notin accepted \cup lost
       => \/ r.channel = "frame" \/ r.state = "frame"
          \/ carriers(j) # {} \/ delivered[j] = 1

\* What a caller finds after refresh.
LEMMA Refreshed ==
    ASSUME IInv, NEW j \in Jobs, jobs[j].state \notin {"none", "dropped"},
           NEW r, r = refresh(jobs[j])
    PROVE  Refresh(j, r)
<1> USE DEF Refresh
<1>1. jobs[j] \in Job /\ Consistent(jobs[j]) /\ Frames(j)
  BY OneJob
<1>2. /\ r \in Job /\ Consistent(r)
      /\ \/ r = jobs[j]
         \/ /\ jobs[j].state = "running" /\ jobs[j].channel # "empty"
            /\ r = [jobs[j] EXCEPT !.state = IF jobs[j].requested THEN "cancelled"
                                             ELSE jobs[j].channel,
                                   !.channel = "empty"]
  BY <1>1, RefreshFacts
<1>3. CASE r = jobs[j]
  BY <1>1, <1>3 DEF Frames
<1>4. CASE /\ jobs[j].state = "running" /\ jobs[j].channel # "empty"
           /\ r = [jobs[j] EXCEPT !.state = IF jobs[j].requested THEN "cancelled"
                                            ELSE jobs[j].channel,
                                  !.channel = "empty"]
  <2>1. /\ r.observer = jobs[j].observer /\ r.query = jobs[j].query
        /\ r.requested = jobs[j].requested
        /\ r.state = IF jobs[j].requested THEN "cancelled" ELSE jobs[j].channel
    BY <1>1, <1>4 DEF Job
  <2>2. jobs[j].channel \in {"frame", "error"}
    BY <1>1, <1>4 DEF Job
  <2>3. jobs[j].channel = verdict(jobs[j].query)
    BY <1>1, <1>4 DEF Consistent
  <2>4. delivered[j] = 0
    BY <1>1, <1>4 DEF Frames
  <2>5. /\ r.query = "frame" /\ j \notin accepted
        => r.state = "frame"
    BY <1>1, <2>1, <2>3 DEF Frames, verdict
  <2>6. QED
    BY <1>2, <1>4, <2>1, <2>2, <2>4, <2>5
<1>5. QED
  BY <1>2, <1>3, <1>4

\* The frame of a job when a command that did not carry it is over.
LEMMA FramesAfter ==
    ASSUME IInv, NEW j \in Jobs, NEW r \in Job, UNCHANGED <<delivered, lost>>,
           carriers(j)' = carriers(j),
           jobs'[j] = r \/ jobs'[j] = drop(r),
           j \in accepted' <=> r.requested,
           j \in accepted' => delivered[j] = 0,
           r.state # "taken" => delivered[j] = 0,
           /\ r.query = "frame" /\ r.observer \in {"sent", "gone"}
           /\ j \notin accepted' \cup lost
           => \/ r.channel = "frame" \/ r.state = "frame"
              \/ carriers(j) # {} \/ delivered[j] = 1
    PROVE  Frames(j)'
<1>1. delivered[j] \in {0, 1}
  BY OneJob DEF Frames
<1>2. CASE jobs'[j] = r
  BY <1>1, <1>2 DEF Frames
<1>3. CASE jobs'[j] = drop(r)
  <2>1. drop(r).state = "dropped" /\ drop(r).requested = r.requested
    BY DEF drop, Job
  <2>2. QED
    BY <1>1, <1>3, <2>1 DEF Frames
<1>4. QED
  BY <1>2, <1>3

\* A command on j ends and leaves no frame with its caller.
Commands(t, j, r) ==
    /\ j = calls[t].job
    /\ calls[t].step \in {"spawned", "poll", "cancel", "take"}
    /\ Consistent(r)
    /\ Return(t, r)
    /\ r.state \notin {"none", "dropped"}
    /\ r.observer = jobs[j].observer
    /\ jobs[j].state = "taken" => r.state = "taken"
    /\ UNCHANGED <<permits, delivered, lost>>
    /\ \/ accepted' = accepted
       \/ accepted' = accepted \cup {j} /\ jobs[j].state # "taken"
    /\ j \in accepted' <=> r.requested
    /\ j \in accepted' => delivered[j] = 0
    /\ r.state # "taken" => delivered[j] = 0
    /\ /\ r.query = "frame" /\ r.observer \in {"sent", "gone"}
       /\ j \notin accepted' \cup lost
       => \/ r.channel = "frame" \/ r.state = "frame"
          \/ carriers(j) # {} \/ delivered[j] = 1

\* A command that leaves its caller empty-handed keeps the invariant.
LEMMA CommandStep ==
    ASSUME IInv, NEW t \in Threads, NEW j \in Jobs, NEW r \in Job, Commands(t, j, r)
    PROVE  IInv'
<1>1. calls[t].step # "carrying"
  BY DEF Commands
<1>2. \A u \in Threads \ {t} :
         At(u, "carrying") /\ calls[u].job = j => r.state = "taken"
  BY Carrier DEF Commands
<1>3. \A u \in Threads \ {t} : At(u, "carrying") =>
         delivered'[calls[u].job] = 0 /\ calls[u].job \notin accepted'
  BY Carrier DEF Commands
<1>4. Ends(t, j, r)
  BY <1>2, <1>3 DEF Ends, Commands
<1>5. Ended(t, j, r)
  BY <1>4, EndOfCall
<1>6. carriers(j)' = carriers(j)
  BY <1>1, <1>5 DEF carriers, At, Ended
<1>7. Types'
  BY <1>5 DEF IInv, Types, Ended, Commands
<1>8. FramesTracked'
  <2>1. \A i \in Jobs \ {j} : Frames(i)'
    BY <1>5 DEF IInv, FramesTracked, Frames, Ended, Commands
  <2>2. Frames(j)'
    BY <1>5, <1>6, FramesAfter DEF Ended, Commands
  <2>3. QED
    BY <2>1, <2>2 DEF FramesTracked
<1>9. QED
  BY <1>5, <1>7, <1>8 DEF IInv, Ended

\* registry::insert of a new job, with or without room for it, keeps the
\* invariant.
LEMMA InsertJobStep ==
    ASSUME IInv, NEW t \in Threads, InsertJob(t)
    PROVE  IInv'
<1>0. PICK j : j = calls[t].job
  OBVIOUS
<1>1. /\ At(t, "spawned")
      /\ UNCHANGED <<permits, accepted, delivered, lost>>
  BY DEF InsertJob
<1>2. PICK room \in BOOLEAN : Return(t, [jobs[j] EXCEPT !.registered = room])
  BY <1>0 DEF InsertJob
<1>3. j \in Jobs /\ jobs[j].state = "running"
  BY <1>0, <1>1, Holder DEF IInv, CallersHold, Holds, At
<1>4. PICK r : r = [jobs[j] EXCEPT !.registered = room]
  OBVIOUS
<1>5. /\ r \in Job /\ Consistent(r)
      /\ r.state = "running" /\ r.observer = jobs[j].observer
      /\ r.requested = jobs[j].requested /\ r.query = jobs[j].query
      /\ r.channel = jobs[j].channel
  BY <1>3, <1>4, OneJob DEF Job, Consistent
<1>6. Commands(t, j, r)
  BY <1>0, <1>1, <1>2, <1>3, <1>4, <1>5, OneJob DEF Commands, Frames, At
<1>7. QED
  BY <1>3, <1>5, <1>6, CommandStep

\* jobPoll keeps the invariant.
LEMMA PollStep ==
    ASSUME IInv, NEW t \in Threads, Poll(t)
    PROVE  IInv'
<1>0. PICK j : j = calls[t].job
  OBVIOUS
<1>1. PICK r : r = refresh(jobs[j])
  OBVIOUS
<1>2. /\ calls[t].step = "poll" /\ Return(t, r)
      /\ UNCHANGED <<permits, accepted, delivered, lost>>
  BY <1>0, <1>1 DEF Poll, At
<1>3. j \in Jobs /\ jobs[j].state \notin {"none", "dropped"}
  BY <1>0, <1>2, Holder DEF IInv, CallersHold, Holds, At
<1>4. Frames(j)
  BY <1>3, OneJob
<1>5. Refresh(j, r)
  BY <1>1, <1>3, Refreshed
<1>6. Commands(t, j, r)
  BY <1>0, <1>2, <1>4, <1>5 DEF Commands, Frames, Refresh
<1>7. QED
  BY <1>3, <1>5, <1>6, CommandStep DEF Refresh

\* jobCancel keeps the invariant: an accepted cancellation finds the frame
\* nowhere, and marks the job.
LEMMA CancelStep ==
    ASSUME IInv, NEW t \in Threads, Cancel(t)
    PROVE  IInv'
<1>0. PICK j : j = calls[t].job
  OBVIOUS
<1>1. PICK r : r = refresh(jobs[j])
  OBVIOUS
<1>2. PICK s : s = [r EXCEPT !.cancelled = TRUE, !.requested = TRUE]
  OBVIOUS
<1>3. /\ calls[t].step = "cancel"
      /\ UNCHANGED <<permits, delivered, lost>>
      /\ \/ r.state = "running" /\ Return(t, s) /\ accepted' = accepted \cup {j}
         \/ r.state # "running" /\ Return(t, r) /\ accepted' = accepted
  BY <1>0, <1>1, <1>2 DEF Cancel, At
<1>4. j \in Jobs /\ jobs[j].state \notin {"none", "dropped"}
  BY <1>0, <1>3, Holder DEF IInv, CallersHold, Holds, At
<1>5. Frames(j)
  BY <1>4, OneJob
<1>6. Refresh(j, r)
  BY <1>1, <1>4, Refreshed
<1>7. CASE r.state # "running"
  <2>1. Commands(t, j, r)
    BY <1>0, <1>3, <1>5, <1>6, <1>7 DEF Commands, Frames, Refresh
  <2>2. QED
    BY <1>4, <1>6, <2>1, CommandStep DEF Refresh
<1>8. CASE r.state = "running"
  <2>1. /\ s \in Job /\ Consistent(s) /\ s.state = "running" /\ s.requested
        /\ s.observer = r.observer /\ s.query = r.query
    BY <1>2, <1>6, <1>8 DEF Refresh, Job, Consistent
  <2>2. jobs[j].state = "running" /\ delivered[j] = 0
    BY <1>6, <1>8 DEF Refresh
  <2>3. Commands(t, j, s)
    BY <1>0, <1>3, <1>6, <1>8, <2>1, <2>2 DEF Commands, Refresh
  <2>4. QED
    BY <1>4, <2>1, <2>3, CommandStep
<1>9. QED
  BY <1>7, <1>8

\* jobTake finds a frame: it is now in the hands of the caller.
LEMMA CarryStep ==
    ASSUME IInv, NEW t \in Threads, NEW j \in Jobs, j = calls[t].job,
           At(t, "take"), NEW r, Refresh(j, r), r.state = "frame",
           jobs[j].state # "taken",
           jobs' = [jobs EXCEPT ![j] = [r EXCEPT !.state = "taken"]],
           Goto(t, "carrying", j),
           UNCHANGED <<permits, accepted, delivered, lost>>
    PROVE  IInv'
<1>1. PICK e : e = [r EXCEPT !.state = "taken"]
  OBVIOUS
<1>2. /\ e \in Job /\ Consistent(e) /\ e.state = "taken"
      /\ e.observer = jobs[j].observer /\ e.requested = jobs[j].requested
      /\ e.query = jobs[j].query
  BY <1>1 DEF Refresh, Job, Consistent
<1>3. /\ jobs' \in [Jobs -> Job] /\ jobs'[j] = e
      /\ \A i \in Jobs \ {j} : jobs'[i] = jobs[i]
  BY <1>1, <1>2 DEF IInv, Types
<1>4. /\ calls' \in [Threads -> [step : Steps, job : Jobs \cup {NoJob}]]
      /\ calls'[t] = [step |-> "carrying", job |-> j]
      /\ \A u \in Threads \ {t} : calls'[u] = calls[u]
  BY DEF Goto, Steps, IInv, Types
<1>5. delivered[j] = 0 /\ j \notin accepted
  BY OneJob DEF Refresh, Frames, Consistent
<1>6. Types'
  BY <1>3, <1>4 DEF IInv, Types
<1>7. IsFiniteSet(submitting') /\ PermitsExact'
  <2>1. submitting' = submitting
    BY <1>4 DEF submitting, At
  <2>2. observed' = observed
    BY <1>2, <1>3 DEF observed
  <2>3. QED
    BY <2>1, <2>2, SamePermits
<1>8. JobsConsistent'
  BY <1>2, <1>3 DEF IInv, JobsConsistent
<1>9. CallersHold'
  <2>1. \A u \in Threads : ~(At(u, "carrying") /\ calls[u].job = j)
    BY Carrier
  <2>2. ASSUME NEW u \in Threads, At(u, "carrying")', calls'[u].job = j
        PROVE  u = t
    BY <1>4, <2>1, <2>2 DEF At
  <2>3. Holds(t)'
    BY <1>2, <1>3, <1>4, <1>5, <2>2, JobsAssumption DEF Holds, At
  <2>4. ASSUME NEW u \in Threads \ {t} PROVE Holds(u)'
    <3>1. Holds(u) /\ calls'[u] = calls[u]
      BY <1>4 DEF IInv, CallersHold
    <3>2. calls[u].job \in Jobs \cup {NoJob} /\ calls[u].step \in Steps
      BY DEF IInv, Types, Steps
    <3>3. calls[u].job # NoJob /\ sole(u) => sole(u)'
      BY <1>4 DEF sole
    <3>4. CASE calls[u].job = j
      <4>1. ~sole(u)
        BY <3>4 DEF sole
      <4>2. QED
        BY <1>2, <1>3, <2>1, <3>1, <3>2, <3>4, <4>1, JobsAssumption DEF Holds, At, Steps
    <3>5. CASE calls[u].job # j
      <4>1. calls[u].job \in Jobs => jobs'[calls[u].job] = jobs[calls[u].job]
        BY <1>3, <3>5
      <4>2. ASSUME At(u, "carrying"), NEW v \in Threads,
                   At(v, "carrying")', calls'[v].job = calls[u].job
            PROVE  v = u
        BY <1>4, <3>1, <3>5, <4>2 DEF At, Holds
      <4>3. QED
        BY <3>1, <3>2, <3>3, <3>5, <4>1, <4>2, JobsAssumption DEF Holds, At, Steps
    <3>6. QED
      BY <3>4, <3>5
  <2>5. QED
    BY <2>3, <2>4 DEF CallersHold
<1>10. FramesTracked'
  <2>1. \A i \in Jobs \ {j} : carriers(i)' = carriers(i)
    BY <1>4 DEF carriers, At
  <2>2. t \in carriers(j)'
    BY <1>4 DEF carriers, At
  <2>3. \A i \in Jobs \ {j} : Frames(i)'
    BY <1>3, <2>1 DEF IInv, FramesTracked, Frames
  <2>4. Frames(j)'
    BY <1>2, <1>3, <1>5, <2>2, OneJob DEF Frames
  <2>5. QED
    BY <2>3, <2>4 DEF FramesTracked
<1>11. QED
  BY <1>6, <1>7, <1>8, <1>9, <1>10 DEF IInv

\* jobTake keeps the invariant in each of its three outcomes.
LEMMA TakeStep ==
    ASSUME IInv, NEW t \in Threads, Take(t)
    PROVE  IInv'
<1>0. PICK j : j = calls[t].job
  OBVIOUS
<1>1. PICK r : r = refresh(jobs[j])
  OBVIOUS
<1>2. PICK e : e = [r EXCEPT !.state = "taken"]
  OBVIOUS
<1>3. /\ At(t, "take") /\ calls[t].step = "take"
      /\ UNCHANGED <<permits, accepted, delivered, lost>>
      /\ \/ r.state = "running" /\ Return(t, r)
         \/ r.state = "frame" /\ jobs' = [jobs EXCEPT ![j] = e] /\ Goto(t, "carrying", j)
         \/ r.state \notin {"running", "frame"} /\ Return(t, e)
  BY <1>0, <1>1, <1>2 DEF Take, At
<1>4. j \in Jobs /\ jobs[j].state \notin {"none", "dropped"}
  BY <1>0, <1>3, Holder DEF IInv, CallersHold, Holds, At
<1>5. Frames(j)
  BY <1>4, OneJob
<1>6. Refresh(j, r)
  BY <1>1, <1>4, Refreshed
<1>7. CASE r.state = "running" /\ Return(t, r)
  <2>1. Commands(t, j, r)
    BY <1>0, <1>3, <1>5, <1>6, <1>7 DEF Commands, Frames, Refresh
  <2>2. QED
    BY <1>4, <1>6, <2>1, CommandStep DEF Refresh
<1>8. CASE /\ r.state = "frame" /\ jobs' = [jobs EXCEPT ![j] = e]
           /\ Goto(t, "carrying", j)
  <2>1. jobs[j].state # "taken"
    BY <1>6, <1>8 DEF Refresh
  <2>2. jobs' = [jobs EXCEPT ![j] = [r EXCEPT !.state = "taken"]]
    BY <1>2, <1>8
  <2>3. QED
    BY <1>0, <1>3, <1>4, <1>6, <1>8, <2>1, <2>2, CarryStep
<1>9. CASE r.state \notin {"running", "frame"} /\ Return(t, e)
  <2>1. /\ e \in Job /\ Consistent(e) /\ e.state = "taken"
        /\ e.observer = jobs[j].observer /\ e.requested = jobs[j].requested
        /\ e.query = r.query /\ e.channel = r.channel /\ r.channel = "empty"
    BY <1>2, <1>6, <1>9 DEF Refresh, Job, Consistent
  <2>2. Commands(t, j, e)
    BY <1>0, <1>3, <1>5, <1>6, <1>9, <2>1 DEF Commands, Frames, Refresh
  <2>3. QED
    BY <1>4, <2>1, <2>2, CommandStep
<1>10. QED
  BY <1>3, <1>7, <1>8, <1>9

\* registry::insert of a taken frame keeps the invariant: it is delivered once
\* or recorded as lost.
LEMMA DeliverStep ==
    ASSUME IInv, NEW t \in Threads, Deliver(t)
    PROVE  IInv'
<1>0. PICK j : j = calls[t].job
  OBVIOUS
<1>1. /\ At(t, "carrying") /\ calls[t].step = "carrying"
      /\ Return(t, jobs[j]) /\ permits' = permits /\ accepted' = accepted
      /\ \/ delivered' = [delivered EXCEPT ![j] = @ + 1] /\ lost' = lost
         \/ lost' = lost \cup {j} /\ delivered' = delivered
  BY <1>0 DEF Deliver, At
<1>2. /\ j \in Jobs /\ delivered[j] = 0 /\ j \notin accepted
      /\ jobs[j].state = "taken"
      /\ \A u \in Threads \ {t} : At(u, "carrying") => calls[u].job # j
  BY <1>0, <1>1, Carrier
<1>3. /\ delivered' \in [Jobs -> Nat]
      /\ \A i \in Jobs \ {j} : delivered'[i] = delivered[i]
      /\ delivered'[j] \in {0, 1}
      /\ delivered'[j] = 1 \/ j \in lost'
  BY <1>1, <1>2 DEF IInv, Types
<1>4. jobs[j] \in Job /\ Consistent(jobs[j]) /\ Frames(j)
  BY <1>2, OneJob
<1>5. \A u \in Threads \ {t} : At(u, "carrying") =>
         delivered'[calls[u].job] = 0 /\ calls[u].job \notin accepted'
  BY <1>1, <1>2, <1>3, Carrier
<1>6. Ends(t, j, jobs[j])
  BY <1>0, <1>1, <1>2, <1>4, <1>5 DEF Ends
<1>7. Ended(t, j, jobs[j])
  BY <1>2, <1>4, <1>6, EndOfCall
<1>8. Types'
  BY <1>1, <1>2, <1>3, <1>7 DEF IInv, Types, Ended
<1>9. FramesTracked'
  <2>1. \A i \in Jobs \ {j} : Frames(i)'
    BY <1>1, <1>3, <1>7 DEF IInv, FramesTracked, Frames, Ended
  <2>2. jobs'[j].state \in {"taken", "dropped"} /\ jobs'[j].requested = jobs[j].requested
    BY <1>2, <1>4, <1>7 DEF Ended, drop, Job
  <2>3. Frames(j)'
    BY <1>1, <1>2, <1>3, <1>4, <2>2 DEF Frames
  <2>4. QED
    BY <2>1, <2>3 DEF FramesTracked
<1>10. QED
  BY <1>7, <1>8, <1>9 DEF IInv, Ended

--------------------------------------------------------------------------------
(* The invariant and what follows from it *)

\* Every step of every caller, worker, observer and release keeps the invariant.
LEMMA StepInvariant == IInv /\ [Next]_vars => IInv'
<1> SUFFICES ASSUME IInv, [Next]_vars PROVE IInv'
  OBVIOUS
<1>1. ASSUME NEW t \in Threads, Reserve(t) PROVE IInv'
  BY <1>1, ReserveStep
<1>2. ASSUME NEW t \in Threads, NEW command \in {"poll", "cancel", "take"},
             Lookup(t, command)
      PROVE  IInv'
  BY <1>2, LookupStep
<1>3. ASSUME NEW t \in Threads, Proceed(t) PROVE IInv'
  BY <1>3, LaunchStep, LaunchFailsStep, SpawnStep, SpawnFailsStep, InsertJobStep,
     PollStep, CancelStep, TakeStep, DeliverStep DEF Proceed
<1>4. ASSUME NEW j \in Jobs,
             QueryEnds(j) \/ Observe(j) \/ ObserverExits(j) \/ Release(j)
      PROVE  IInv'
  BY <1>4, QueryEndsStep, ObserveStep, ObserverExitsStep, ReleaseStep
<1>5. CASE UNCHANGED vars
  <2>1. submitting' = submitting /\ observed' = observed
    BY <1>5 DEF vars, submitting, observed, At
  <2>2. UNCHANGED <<permits, jobs, calls, accepted, delivered, lost>>
    BY <1>5 DEF vars
  <2>3. IsFiniteSet(submitting') /\ PermitsExact'
    BY <2>1, <2>2, SamePermits
  <2>4. Types' /\ JobsConsistent'
    BY <2>2 DEF IInv, Types, JobsConsistent
  <2>5. CallersHold'
    BY <2>2 DEF IInv, CallersHold, Holds, At, sole
  <2>6. FramesTracked'
    BY <2>2 DEF IInv, FramesTracked, Frames, carriers, At
  <2>7. QED
    BY <2>3, <2>4, <2>5, <2>6 DEF IInv
<1>6. QED
  BY <1>1, <1>2, <1>3, <1>4, <1>5 DEF Next

\* IInv is an invariant of the jobs.
LEMMA Invariance == Spec => []IInv
<1>1. Init => IInv
  BY InitInvariant
<1>2. IInv /\ [Next]_vars => IInv'
  BY StepInvariant
<1>3. QED
  BY <1>1, <1>2, PTL DEF Spec

\* The state of the jobs always has its type; in particular the permits never
\* exceed MAX_ACTIVE_JOBS (jobs.rs: ObserverPermit::reserve).
THEOREM TypeCorrect == Spec => []TypeOK
<1>1. IInv => TypeOK
  BY JobsAssumption DEF IInv, Types, TypeOK, Steps
<1>2. QED
  BY <1>1, Invariance, PTL

\* The permit count is exactly the submissions under way plus the observers
\* alive: no failed launch, failed spawn or panic loses or forges a permit
\* (jobs.rs: ObserverPermit).
THEOREM PermitsCorrect == Spec => []PermitsExact
<1>1. IInv => PermitsExact
  BY DEF IInv
<1>2. QED
  BY <1>1, Invariance, PTL

\* After an accepted cancellation the result reaches nobody, whatever the
\* worker, the observer and other callers were doing (jobs.rs: refresh, cancel).
THEOREM CancellationFinal == Spec => []CancelIsFinal
<1>1. ASSUME IInv PROVE CancelIsFinal
  <2> SUFFICES ASSUME NEW j \in accepted
               PROVE  /\ delivered[j] = 0
                      /\ jobs[j].state # "frame"
                      /\ ~\E t \in Threads : calls[t].job = j /\ At(t, "carrying")
    BY DEF CancelIsFinal
  <2>1. j \in Jobs
    BY <1>1 DEF IInv, Types
  <2>2. delivered[j] = 0 /\ jobs[j].state # "frame"
    BY <1>1, <2>1, OneJob DEF Frames, Consistent
  <2>3. QED
    BY <1>1, <2>2, Carrier
<1>2. QED
  BY <1>1, Invariance, PTL

\* A running job whose observer is gone has its verdict waiting in the channel,
\* so the Disconnected branch of refresh is never taken (jobs.rs: observe).
THEOREM ObserverCorrect == Spec => []ObserverReports
<1>1. ASSUME IInv PROVE ObserverReports
  <2> SUFFICES ASSUME NEW j \in Jobs,
                      jobs[j].state = "running", jobs[j].observer = "gone"
               PROVE  jobs[j].channel # "empty"
    BY DEF ObserverReports
  <2>1. jobs[j].channel = verdict(jobs[j].query)
    BY <1>1, OneJob DEF Consistent
  <2>2. QED
    BY <2>1 DEF verdict
<1>2. QED
  BY <1>1, Invariance, PTL

\* No two callers carry the frame of the same job.
LEMMA OneCarrier ==
    ASSUME IInv, NEW j \in Jobs
    PROVE  \/ carriers(j) = {}
           \/ /\ Cardinality(carriers(j)) = 1
              /\ jobs[j].state = "taken" /\ delivered[j] = 0
<1>1. CASE carriers(j) # {}
  <2>1. PICK t \in Threads : calls[t].job = j /\ At(t, "carrying")
    BY <1>1 DEF carriers
  <2>2. carriers(j) = {t} /\ jobs[j].state = "taken" /\ delivered[j] = 0
    BY <2>1, Carrier DEF carriers
  <2>3. QED
    BY <2>2, FS_Singleton
<1>2. QED
  BY <1>1

\* A computed frame is never in two places, and is lost only to a cancellation,
\* the death of its job or a registry without room (engine.rs: jobTake).
THEOREM FramesConserved == Spec => []FrameConserved
<1>1. ASSUME IInv PROVE FrameConserved
  <2> DEFINE here(j) == {place \in {"channel", "job"} :
                           \/ place = "channel" /\ jobs[j].channel = "frame"
                           \/ place = "job" /\ jobs[j].state = "frame"}
             copies(j) == Cardinality(here(j)) + Cardinality(carriers(j)) + delivered[j]
  <2> SUFFICES ASSUME NEW j \in Jobs
               PROVE  /\ copies(j) <= 1
                      /\ copies(j) = 0 /\ jobs[j].query = "frame" =>
                            \/ jobs[j].observer \in {"none", "waiting"}
                            \/ j \in accepted \cup lost
                            \/ jobs[j].state = "dropped"
    BY DEF FrameConserved
  <2>1. Consistent(jobs[j]) /\ Frames(j)
    BY <1>1, OneJob
  <2>2. \/ here(j) = {} /\ jobs[j].channel # "frame" /\ jobs[j].state # "frame"
        \/ here(j) = {"channel"} /\ jobs[j].state = "running"
        \/ here(j) = {"job"} /\ jobs[j].state = "frame"
    BY <2>1 DEF Consistent
  <2>3. \/ Cardinality(here(j)) = 0 /\ jobs[j].channel # "frame" /\ jobs[j].state # "frame"
        \/ Cardinality(here(j)) = 1 /\ jobs[j].state \in {"running", "frame"}
    <3>1. Cardinality({}) = 0 /\ Cardinality({"channel"}) = 1 /\ Cardinality({"job"}) = 1
      BY FS_EmptySet, FS_Singleton
    <3>2. QED
      BY <2>2, <3>1
  <2>4. \/ carriers(j) = {} /\ Cardinality(carriers(j)) = 0
        \/ /\ Cardinality(carriers(j)) = 1
           /\ jobs[j].state = "taken" /\ delivered[j] = 0
    BY <1>1, OneCarrier, FS_EmptySet
  <2>5. /\ delivered[j] \in {0, 1}
        /\ jobs[j].state \in {"running", "frame"} => delivered[j] = 0
    BY <2>1 DEF Frames
  <2> HIDE DEF here
  <2>6. copies(j) <= 1
    BY <2>3, <2>4, <2>5
  <2>7. /\ copies(j) = 0
        => /\ jobs[j].channel # "frame" /\ jobs[j].state # "frame"
           /\ carriers(j) = {} /\ delivered[j] = 0
    BY <2>3, <2>4, <2>5
  <2>8. jobs[j].observer \in {"none", "waiting", "sent", "gone"}
    BY <1>1, OneJob DEF Job
  <2> HIDE DEF copies
  <2>9. QED
    BY <2>1, <2>6, <2>7, <2>8 DEF Frames
<1>2. QED
  BY <1>1, Invariance, PTL

--------------------------------------------------------------------------------
(* The promise of Query.tla *)

\* The state of a job as the next command will find it, after its refresh.
seen(r) ==
    LET s == refresh(r).state
    IN  CASE s = "frame" -> "complete"
          [] s = "error" -> "failed"
          [] s = "dropped" -> "gone"
          [] s = "running" /\ r.requested -> "cancelling"
          [] OTHER -> s

Promise(j) == INSTANCE Query WITH state <- seen(jobs[j])

\* The steps of Query from one state to another.
Advances(a, b) ==
    \/ a = b
    \/ a = "none" /\ b = "running"
    \/ a = "running" /\ b \in {"complete", "failed", "cancelling"}
    \/ a = "cancelling" /\ b = "cancelled"
    \/ a \in {"complete", "failed", "cancelled"} /\ b = "taken"
    \/ a \notin {"none", "gone"} /\ b = "gone"

AllAdvance == \A j \in Jobs : Advances(seen(jobs[j]), seen(jobs'[j]))

\* The states of a job and what is seen of them.
LEMMA SeenIs ==
    ASSUME NEW r \in Job, Consistent(r)
    PROVE  /\ r.state \in {"none", "cancelled", "taken"} => seen(r) = r.state
           /\ r.state = "frame" => seen(r) = "complete"
           /\ r.state = "error" => seen(r) = "failed"
           /\ r.state = "dropped" => seen(r) = "gone"
           /\ r.state = "running" /\ r.channel = "empty" =>
                 seen(r) = IF r.requested THEN "cancelling" ELSE "running"
           /\ r.state = "running" /\ r.channel = "frame" =>
                 seen(r) = IF r.requested THEN "cancelled" ELSE "complete"
           /\ r.state = "running" /\ r.channel = "error" =>
                 seen(r) = IF r.requested THEN "cancelled" ELSE "failed"
  BY DEF seen, refresh, Job, Consistent, verdict, Outcome

\* A refresh shows nothing new.
LEMMA SeenRefreshed ==
    ASSUME NEW r \in Job, Consistent(r)
    PROVE  seen(refresh(r)) = seen(r)
<1>1. PICK q : q = refresh(r)
  OBVIOUS
<1>2. /\ q \in Job /\ Consistent(q)
      /\ \/ q = r
         \/ /\ r.state = "running" /\ r.channel # "empty"
            /\ q = [r EXCEPT !.state = IF r.requested THEN "cancelled"
                                       ELSE r.channel,
                             !.channel = "empty"]
  BY <1>1, RefreshFacts
<1>3. CASE /\ r.state = "running" /\ r.channel # "empty"
           /\ q = [r EXCEPT !.state = IF r.requested THEN "cancelled"
                                      ELSE r.channel,
                            !.channel = "empty"]
  <2>1. /\ r.channel \in {"frame", "error"}
        /\ q.state = IF r.requested THEN "cancelled" ELSE r.channel
    BY <1>3 DEF Job
  <2>2. seen(r) = IF r.requested THEN "cancelled"
                  ELSE IF r.channel = "frame" THEN "complete" ELSE "failed"
    BY <1>3, <2>1, SeenIs
  <2>3. seen(q) = seen(r)
    BY <1>2, <2>1, <2>2, SeenIs
  <2>4. QED
    BY <1>1, <2>3
<1>4. QED
  BY <1>1, <1>2, <1>3

\* A job still running after its refresh has nothing in its channel.
LEMMA RefreshLeavesEmpty ==
    ASSUME NEW r \in Job, refresh(r).state = "running"
    PROVE  refresh(r).channel = "empty"
  BY DEF refresh, Job

\* A dropped job is seen to be gone.
LEMMA SeenDropped ==
    ASSUME NEW r \in Job
    PROVE  seen(drop(r)) = "gone"
  BY DEF seen, drop, refresh, Job

\* What is seen depends on four fields only.
LEMMA SeenSame ==
    ASSUME NEW r, NEW q, q.state = r.state, q.channel = r.channel,
           q.requested = r.requested, q.observer = r.observer,
           r \in Job, q \in Job
    PROVE  seen(q) = seen(r)
  BY DEF seen, refresh, Job

\* A step that leaves what is seen of every job as it was.
LEMMA QuietAdvance ==
    ASSUME IInv, IInv',
           \A j \in Jobs : /\ jobs'[j].state = jobs[j].state
                           /\ jobs'[j].channel = jobs[j].channel
                           /\ jobs'[j].requested = jobs[j].requested
                           /\ jobs'[j].observer = jobs[j].observer
    PROVE  AllAdvance
<1>1. \A j \in Jobs : jobs[j] \in Job /\ jobs'[j] \in Job
  BY DEF IInv, Types
<1>2. \A j \in Jobs : seen(jobs'[j]) = seen(jobs[j])
  BY <1>1, SeenSame
<1>3. QED
  BY <1>2 DEF AllAdvance, Advances

\* A step on one job.
LEMMA OneAdvances ==
    ASSUME NEW j \in Jobs, \A i \in Jobs \ {j} : jobs'[i] = jobs[i],
           Advances(seen(jobs[j]), seen(jobs'[j]))
    PROVE  AllAdvance
<1>1. \A i \in Jobs \ {j} : Advances(seen(jobs[i]), seen(jobs'[i]))
  BY DEF Advances
<1>2. QED
  BY <1>1 DEF AllAdvance

\* The end of a command: the job is seen as the command left it, or gone.
LEMMA ReturnAdvances ==
    ASSUME IInv, NEW t \in Threads, NEW j \in Jobs, j = calls[t].job,
           NEW r \in Job, Consistent(r), r.state # "none", Return(t, r),
           seen(jobs[j]) # "none", Advances(seen(jobs[j]), seen(r))
    PROVE  AllAdvance
<1>1. /\ \A i \in Jobs \ {j} : jobs'[i] = jobs[i]
      /\ jobs'[j] = r \/ jobs'[j] = drop(r)
  BY ReturnFacts DEF IInv
<1>2. seen(jobs'[j]) \in {seen(r), "gone"}
  BY <1>1, SeenDropped
<1>3. Advances(seen(jobs[j]), seen(jobs'[j]))
  BY <1>2 DEF Advances
<1>4. QED
  BY <1>1, <1>3, OneAdvances

\* What a caller inside a command sees of its job.
LEMMA HeldIsSeen ==
    ASSUME IInv, NEW t \in Threads, NEW j, j = calls[t].job,
           calls[t].step \in {"spawned", "poll", "cancel", "take", "carrying"}
    PROVE  /\ j \in Jobs
           /\ jobs[j] \in Job /\ Consistent(jobs[j])
           /\ jobs[j].state \notin {"none", "dropped"}
           /\ seen(jobs[j]) \notin {"none", "gone"}
<1>1. j \in Jobs /\ jobs[j].state \notin {"none", "dropped"}
  BY Holder DEF IInv, CallersHold, Holds, At
<1>2. jobs[j] \in Job /\ Consistent(jobs[j])
  BY <1>1, OneJob
<1>3. PICK r : r = jobs[j]
  OBVIOUS
<1>4. /\ r \in Job /\ Consistent(r)
      /\ r.state \in {"running", "frame", "error", "cancelled", "taken"}
      /\ r.channel \in {"empty", "frame", "error"}
  BY <1>1, <1>2, <1>3 DEF Job
<1>5. seen(r) \in {"complete", "failed", "cancelled", "taken", "cancelling", "running"}
  BY <1>4, SeenIs
<1>6. QED
  BY <1>1, <1>2, <1>3, <1>5

\* The start of the observer is the submission.
LEMMA SpawnAdvances ==
    ASSUME IInv, NEW t \in Threads, Spawn(t), IInv'
    PROVE  AllAdvance
<1>1. PICK j : j = calls[t].job
  OBVIOUS
<1>2. j \in Jobs /\ jobs[j].state = "none"
  BY <1>1, Holder DEF Spawn, IInv, CallersHold, Holds, At
<1>3. jobs' = [jobs EXCEPT ![j].observer = "waiting", ![j].state = "running"]
  BY <1>1 DEF Spawn
<1>4. jobs[j] \in Job /\ Consistent(jobs[j])
  BY <1>2, OneJob
<1>5. /\ jobs'[j].state = "running" /\ jobs'[j].channel = jobs[j].channel
      /\ jobs'[j].requested = jobs[j].requested
      /\ \A i \in Jobs \ {j} : jobs'[i] = jobs[i]
  BY <1>2, <1>3, <1>4 DEF IInv, Types, Job
<1>6. jobs'[j] \in Job /\ Consistent(jobs'[j])
  BY <1>2 DEF IInv, Types, JobsConsistent
<1>7. jobs[j].channel = "empty" /\ ~jobs[j].requested
  BY <1>2, <1>4 DEF Consistent
<1>8. seen(jobs[j]) = "none" /\ seen(jobs'[j]) = "running"
  BY <1>2, <1>4, <1>5, <1>6, <1>7, SeenIs
<1>9. QED
  BY <1>2, <1>5, <1>8, OneAdvances DEF Advances

\* The submission answers: with a handle, or with none and the job is gone.
LEMMA InsertJobAdvances ==
    ASSUME IInv, NEW t \in Threads, InsertJob(t)
    PROVE  AllAdvance
<1>0. PICK j : j = calls[t].job
  OBVIOUS
<1>1. PICK room \in BOOLEAN : Return(t, [jobs[j] EXCEPT !.registered = room])
  BY <1>0 DEF InsertJob
<1>2. calls[t].step = "spawned"
  BY DEF InsertJob, At
<1>3. /\ j \in Jobs /\ jobs[j] \in Job /\ Consistent(jobs[j])
      /\ jobs[j].state \notin {"none", "dropped"}
      /\ seen(jobs[j]) # "none"
  BY <1>0, <1>2, HeldIsSeen
<1>4. PICK r : r = [jobs[j] EXCEPT !.registered = room]
  OBVIOUS
<1>5. /\ r \in Job /\ Consistent(r) /\ r.state = jobs[j].state
      /\ r.channel = jobs[j].channel /\ r.requested = jobs[j].requested
      /\ r.observer = jobs[j].observer
  BY <1>3, <1>4 DEF Job, Consistent
<1>6. seen(r) = seen(jobs[j])
  BY <1>3, <1>5, SeenSame
<1>7. QED
  BY <1>0, <1>1, <1>3, <1>4, <1>5, <1>6, ReturnAdvances DEF Advances

\* A poll shows nothing new.
LEMMA PollAdvances ==
    ASSUME IInv, NEW t \in Threads, Poll(t)
    PROVE  AllAdvance
<1>0. PICK j : j = calls[t].job
  OBVIOUS
<1>1. PICK r : r = refresh(jobs[j])
  OBVIOUS
<1>2. calls[t].step = "poll" /\ Return(t, r)
  BY <1>0, <1>1 DEF Poll, At
<1>3. /\ j \in Jobs /\ jobs[j] \in Job /\ Consistent(jobs[j])
      /\ jobs[j].state \notin {"none", "dropped"}
      /\ seen(jobs[j]) # "none"
  BY <1>0, <1>2, HeldIsSeen
<1>4. Refresh(j, r)
  BY <1>1, <1>3, Refreshed
<1>5. seen(r) = seen(jobs[j])
  BY <1>1, <1>3, SeenRefreshed
<1>6. QED
  BY <1>0, <1>2, <1>3, <1>4, <1>5, ReturnAdvances DEF Advances, Refresh

\* A cancellation that finds the query running is accepted, any other is not.
LEMMA CancelAdvances ==
    ASSUME IInv, NEW t \in Threads, Cancel(t)
    PROVE  AllAdvance
<1>0. PICK j : j = calls[t].job
  OBVIOUS
<1>1. PICK r : r = refresh(jobs[j])
  OBVIOUS
<1>2. PICK s : s = [r EXCEPT !.cancelled = TRUE, !.requested = TRUE]
  OBVIOUS
<1>3. /\ calls[t].step = "cancel"
      /\ \/ r.state = "running" /\ Return(t, s)
         \/ r.state # "running" /\ Return(t, r)
  BY <1>0, <1>1, <1>2 DEF Cancel, At
<1>4. /\ j \in Jobs /\ jobs[j] \in Job /\ Consistent(jobs[j])
      /\ jobs[j].state \notin {"none", "dropped"}
      /\ seen(jobs[j]) # "none"
  BY <1>0, <1>3, HeldIsSeen
<1>5. Refresh(j, r)
  BY <1>1, <1>4, Refreshed
<1>6. seen(r) = seen(jobs[j])
  BY <1>1, <1>4, SeenRefreshed
<1>7. CASE r.state # "running"
  BY <1>0, <1>3, <1>4, <1>5, <1>6, <1>7, ReturnAdvances DEF Advances, Refresh
<1>8. CASE r.state = "running"
  <2>1. /\ s \in Job /\ Consistent(s) /\ s.state = "running" /\ s.requested
        /\ s.channel = r.channel
    BY <1>2, <1>5, <1>8 DEF Refresh, Job, Consistent
  <2>2. r.channel = "empty"
    BY <1>1, <1>4, <1>8, RefreshLeavesEmpty
  <2>3. seen(s) = "cancelling" /\ seen(r) \in {"running", "cancelling"}
    BY <1>5, <1>8, <2>1, <2>2, SeenIs DEF Refresh
  <2>4. QED
    BY <1>0, <1>3, <1>4, <1>6, <1>8, <2>1, <2>3, ReturnAdvances DEF Advances
<1>9. QED
  BY <1>7, <1>8

\* A take leaves a running query alone and finds the end of any other.
LEMMA TakeAdvances ==
    ASSUME IInv, NEW t \in Threads, Take(t)
    PROVE  AllAdvance
<1>0. PICK j : j = calls[t].job
  OBVIOUS
<1>1. PICK r : r = refresh(jobs[j])
  OBVIOUS
<1>2. PICK e : e = [r EXCEPT !.state = "taken"]
  OBVIOUS
<1>3. /\ calls[t].step = "take"
      /\ \/ r.state = "running" /\ Return(t, r)
         \/ r.state = "frame" /\ jobs' = [jobs EXCEPT ![j] = e]
         \/ r.state \notin {"running", "frame"} /\ Return(t, e)
  BY <1>0, <1>1, <1>2 DEF Take, At
<1>4. /\ j \in Jobs /\ jobs[j] \in Job /\ Consistent(jobs[j])
      /\ jobs[j].state \notin {"none", "dropped"}
      /\ seen(jobs[j]) # "none"
  BY <1>0, <1>3, HeldIsSeen
<1>5. Refresh(j, r)
  BY <1>1, <1>4, Refreshed
<1>6. seen(r) = seen(jobs[j])
  BY <1>1, <1>4, SeenRefreshed
<1>7. CASE r.state = "running"
  BY <1>0, <1>3, <1>4, <1>5, <1>6, <1>7, ReturnAdvances DEF Advances, Refresh
<1>8. CASE r.state # "running"
  <2>1. /\ r.state \in {"frame", "error", "cancelled", "taken"}
        /\ e \in Job /\ Consistent(e) /\ e.state = "taken"
    BY <1>2, <1>5, <1>8 DEF Refresh, Job, Consistent
  <2>2. /\ seen(r) \in {"complete", "failed", "cancelled", "taken"}
        /\ seen(e) = "taken"
    BY <1>5, <2>1, SeenIs DEF Refresh
  <2>3. Advances(seen(jobs[j]), seen(e))
    BY <1>6, <2>2 DEF Advances
  <2>4. CASE Return(t, e)
    BY <1>0, <1>4, <2>1, <2>3, <2>4, ReturnAdvances
  <2>5. CASE jobs' = [jobs EXCEPT ![j] = e]
    <3>1. jobs'[j] = e /\ \A i \in Jobs \ {j} : jobs'[i] = jobs[i]
      BY <1>4, <2>5 DEF IInv, Types
    <3>2. QED
      BY <1>4, <2>3, <3>1, OneAdvances
  <2>6. QED
    BY <1>3, <1>8, <2>4, <2>5
<1>9. QED
  BY <1>7, <1>8

\* The registration of the frame shows nothing new, unless it is the end of the job.
LEMMA DeliverAdvances ==
    ASSUME IInv, NEW t \in Threads, Deliver(t)
    PROVE  AllAdvance
<1>0. PICK j : j = calls[t].job
  OBVIOUS
<1>1. calls[t].step = "carrying" /\ Return(t, jobs[j])
  BY <1>0 DEF Deliver, At
<1>2. /\ j \in Jobs /\ jobs[j] \in Job /\ Consistent(jobs[j])
      /\ jobs[j].state \notin {"none", "dropped"}
      /\ seen(jobs[j]) # "none"
  BY <1>0, <1>1, HeldIsSeen
<1>3. QED
  BY <1>0, <1>1, <1>2, ReturnAdvances DEF Advances

\* The release of the handle may be the end of the job.
LEMMA ReleaseAdvances ==
    ASSUME IInv, NEW j \in Jobs, Release(j)
    PROVE  AllAdvance
<1>1. PICK r : r = [jobs[j] EXCEPT !.registered = FALSE]
  OBVIOUS
<1>2. /\ jobs[j].registered
      /\ jobs' = [jobs EXCEPT ![j] = r] \/ jobs' = [jobs EXCEPT ![j] = drop(r)]
  BY <1>1 DEF Release
<1>3. jobs[j] \in Job /\ Consistent(jobs[j]) /\ jobs[j].state # "none"
  BY <1>2, OneJob DEF Consistent
<1>4. /\ r \in Job /\ Consistent(r) /\ r.state = jobs[j].state
      /\ r.channel = jobs[j].channel /\ r.requested = jobs[j].requested
      /\ r.observer = jobs[j].observer
  BY <1>1, <1>3 DEF Job, Consistent
<1>5. seen(r) = seen(jobs[j]) /\ seen(drop(r)) = "gone"
  BY <1>3, <1>4, SeenSame, SeenDropped
<1>6. /\ jobs'[j] \in {r, drop(r)}
      /\ \A i \in Jobs \ {j} : jobs'[i] = jobs[i]
  BY <1>2 DEF IInv, Types
<1>7. seen(jobs[j]) # "none"
  <2>1. /\ jobs[j].state \in {"running", "frame", "error", "cancelled", "taken", "dropped"}
        /\ jobs[j].channel \in {"empty", "frame", "error"}
    BY <1>3 DEF Job
  <2>2. QED
    BY <1>3, <2>1, SeenIs
<1>8. Advances(seen(jobs[j]), seen(jobs'[j]))
  BY <1>5, <1>6, <1>7 DEF Advances
<1>9. QED
  BY <1>6, <1>8, OneAdvances

\* The observer's report is the end of the query.
LEMMA ObserveAdvances ==
    ASSUME IInv, NEW j \in Jobs, Observe(j), IInv'
    PROVE  AllAdvance
<1>1. PICK result \in {"frame", "error"} :
         jobs' = [jobs EXCEPT ![j].observer = "sent",
                              ![j].channel = IF jobs[j].state = "dropped"
                                             THEN "empty" ELSE result]
  BY DEF Observe
<1>2. /\ jobs[j] \in Job /\ Consistent(jobs[j])
      /\ jobs[j].observer = "waiting" /\ jobs[j].state \in {"running", "dropped"}
      /\ jobs[j].channel = "empty"
  BY OneJob DEF Observe, Consistent, Job
<1>3. PICK r : r = jobs'[j]
  OBVIOUS
<1>4. /\ r \in Job /\ Consistent(r)
      /\ r.state = jobs[j].state /\ r.requested = jobs[j].requested
      /\ r.state = "running" => r.channel \in {"frame", "error"}
      /\ \A i \in Jobs \ {j} : jobs'[i] = jobs[i]
  BY <1>1, <1>2, <1>3 DEF IInv, Types, JobsConsistent, Job
<1>5. CASE jobs[j].state = "dropped"
  BY <1>2, <1>3, <1>4, <1>5, SeenIs, OneAdvances DEF Advances
<1>6. CASE jobs[j].state = "running"
  <2>1. /\ seen(jobs[j]) = IF jobs[j].requested THEN "cancelling" ELSE "running"
        /\ jobs[j].requested => seen(r) = "cancelled"
        /\ ~jobs[j].requested => seen(r) \in {"complete", "failed"}
    BY <1>2, <1>4, <1>6, SeenIs
  <2>2. Advances(seen(jobs[j]), seen(r))
    BY <1>2, <2>1 DEF Advances, Job
  <2>3. QED
    BY <1>3, <1>4, <2>2, OneAdvances
<1>7. QED
  BY <1>2, <1>5, <1>6

\* The end of the observer thread shows nothing: its report is in the channel.
LEMMA ObserverExitsAdvances ==
    ASSUME IInv, NEW j \in Jobs, ObserverExits(j), IInv'
    PROVE  AllAdvance
<1>1. jobs' = [jobs EXCEPT ![j].observer = "gone"] /\ jobs[j].observer = "sent"
  BY DEF ObserverExits
<1>2. jobs[j] \in Job /\ Consistent(jobs[j])
  BY OneJob
<1>3. PICK r : r = jobs'[j]
  OBVIOUS
<1>4. /\ r \in Job /\ Consistent(r)
      /\ r.state = jobs[j].state /\ r.requested = jobs[j].requested
      /\ r.channel = jobs[j].channel
      /\ \A i \in Jobs \ {j} : jobs'[i] = jobs[i]
  <2>1. r \in Job /\ Consistent(r)
    BY <1>3 DEF IInv, Types, JobsConsistent
  <2>2. r = [jobs[j] EXCEPT !.observer = "gone"]
    BY <1>1, <1>3 DEF IInv, Types
  <2>3. QED
    BY <1>1, <1>2, <2>1, <2>2 DEF IInv, Types, Job
<1>5. jobs[j].state = "running" => jobs[j].channel \in {"frame", "error"}
  BY <1>1, <1>2 DEF Consistent, verdict
<1>6. jobs[j].state \in {"running", "frame", "error", "cancelled", "taken", "dropped"}
  BY <1>1, <1>2 DEF Job, Consistent
<1>7. seen(r) = seen(jobs[j])
  BY <1>2, <1>4, <1>5, <1>6, SeenIs
<1>8. QED
  BY <1>3, <1>4, <1>7, OneAdvances DEF Advances

\* A launch, and a submission that fails without an observer, shows nothing.
LEMMA LaunchAdvances ==
    ASSUME IInv, IInv', NEW t \in Threads,
           Launch(t) \/ LaunchFails(t) \/ SpawnFails(t)
    PROVE  AllAdvance
<1> SUFFICES \A i \in Jobs : /\ jobs'[i].state = jobs[i].state
                             /\ jobs'[i].channel = jobs[i].channel
                             /\ jobs'[i].requested = jobs[i].requested
                             /\ jobs'[i].observer = jobs[i].observer
  BY QuietAdvance
<1>1. CASE LaunchFails(t)
  BY <1>1 DEF LaunchFails
<1>2. CASE Launch(t)
  <2>1. jobs' = [jobs EXCEPT ![calls[t].job].query = "running"]
    BY <1>2 DEF Launch
  <2>2. QED
    BY <2>1 DEF IInv, Types, Job
<1>3. CASE SpawnFails(t)
  <2>1. PICK stops \in BOOLEAN : jobs' = [jobs EXCEPT ![calls[t].job].cancelled = stops]
    BY <1>3 DEF SpawnFails
  <2>2. QED
    BY <2>1 DEF IInv, Types, Job
<1>4. QED
  BY <1>1, <1>2, <1>3

\* The end of the worker shows nothing before its observer reports it.
LEMMA QueryEndsAdvances ==
    ASSUME IInv, IInv', NEW j \in Jobs, QueryEnds(j)
    PROVE  AllAdvance
<1>1. PICK outcome \in Outcome : jobs' = [jobs EXCEPT ![j].query = outcome]
  BY DEF QueryEnds
<1>2. \A i \in Jobs : /\ jobs'[i].state = jobs[i].state
                      /\ jobs'[i].channel = jobs[i].channel
                      /\ jobs'[i].requested = jobs[i].requested
                      /\ jobs'[i].observer = jobs[i].observer
  BY <1>1 DEF IInv, Types, Job
<1>3. QED
  BY <1>2, QuietAdvance

\* Every step moves every job as Query allows.
LEMMA StepAdvances ==
    ASSUME IInv, IInv', [Next]_vars
    PROVE  AllAdvance
<1>1. CASE UNCHANGED jobs
  BY <1>1 DEF AllAdvance, Advances
<1>2. ASSUME NEW t \in Threads, Reserve(t) PROVE AllAdvance
  BY <1>2, <1>1 DEF Reserve
<1>3. ASSUME NEW t \in Threads, NEW command \in {"poll", "cancel", "take"},
             Lookup(t, command)
      PROVE  AllAdvance
  BY <1>3, <1>1 DEF Lookup
<1>4. ASSUME NEW t \in Threads, Proceed(t) PROVE AllAdvance
  BY <1>4, LaunchAdvances, SpawnAdvances, InsertJobAdvances, PollAdvances,
     CancelAdvances, TakeAdvances, DeliverAdvances DEF Proceed
<1>5. ASSUME NEW j \in Jobs,
             QueryEnds(j) \/ Observe(j) \/ ObserverExits(j) \/ Release(j)
      PROVE  AllAdvance
  BY <1>5, QueryEndsAdvances, ObserveAdvances, ObserverExitsAdvances, ReleaseAdvances
<1>6. QED
  BY <1>1, <1>2, <1>3, <1>4, <1>5 DEF Next, vars

\* Whatever the worker, the observer, the callers and the releases of its handle
\* do at the same time, whoever holds a job sees one query that ends once, whose
\* result an accepted cancellation suppresses, and which one take empties: the
\* lock and the refresh make a thread, a channel and a state look like one object
\* (jobs.rs: refresh, poll, cancel, take, Drop for Job).
THEOREM QueryRefinement ==
    ASSUME NEW j \in Jobs
    PROVE  Spec => Promise(j)!QuerySpec
<1>1. Init => Promise(j)!QueryInit
  <2> SUFFICES ASSUME Init PROVE seen(jobs[j]) = "none"
    BY DEF Promise!QueryInit
  <2>1. IInv /\ jobs[j].state = "none"
    BY InitInvariant DEF Init, NewJob
  <2>2. QED
    BY <2>1, OneJob, SeenIs
<1>2. IInv /\ IInv' /\ [Next]_vars => [Promise(j)!QueryNext]_(seen(jobs[j]))
  <2> SUFFICES ASSUME IInv, IInv', [Next]_vars
               PROVE  [Promise(j)!QueryNext]_(seen(jobs[j]))
    OBVIOUS
  <2>1. Advances(seen(jobs[j]), seen(jobs'[j]))
    BY StepAdvances DEF AllAdvance
  <2>2. seen(jobs[j])' = seen(jobs'[j])
    BY DEF seen, refresh
  <2>3. QED
    BY <2>1, <2>2 DEF Advances, Promise!QueryNext, Promise!Submit, Promise!Finish,
       Promise!Cancel, Promise!Discard, Promise!Take, Promise!Abandon
<1>3. QED
  BY <1>1, <1>2, Invariance, PTL DEF Spec, Promise!QuerySpec

\* A frame leaves its job only by the take that finds the query complete, and that
\* is its only take: the jobs hand nothing out early, twice, or after a
\* cancellation, on whatever path the take and the observer cross (engine.rs:
\* jobTake; jobs.rs: take).
HandedByTake ==
    [][\A j \in Jobs : ~(carriers(j)' \subseteq carriers(j)) =>
          seen(jobs[j]) = "complete" /\ seen(jobs'[j]) = "taken"]_vars

\* Only a take that finds a frame makes its caller a carrier.
LEMMA NewCarrier ==
    ASSUME IInv, IInv', [Next]_vars, NEW j \in Jobs, NEW u \in Threads,
           u \in carriers(j)', u \notin carriers(j)
    PROVE  /\ seen(jobs[j]) = "complete" /\ seen(jobs'[j]) = "taken"
<1>1. /\ calls'[u].step = "carrying" /\ calls'[u].job = j
      /\ calls'[u] # calls[u]
  BY DEF carriers, At
<1>2. PICK t \in Threads : Take(t) /\ Goto(t, "carrying", calls[t].job)
  <2>1. ASSUME NEW t \in Threads, NEW c, c.step # "carrying",
               calls' = [calls EXCEPT ![t] = c]
        PROVE  FALSE
    BY <1>1, <2>1 DEF IInv, Types
  <2>2. Idle.step = "idle"
    BY DEF Idle
  <2>3. ~UNCHANGED calls
    BY <1>1
  <2>4. ASSUME NEW t \in Threads, NEW r, Return(t, r) PROVE FALSE
    BY <2>1, <2>2, <2>4 DEF Return
  <2>5. ASSUME NEW t \in Threads, NEW step, NEW i, Goto(t, step, i)
        PROVE  step = "carrying"
    BY <1>1, <2>5 DEF Goto, IInv, Types
  <2>6. ASSUME NEW t \in Threads, Reserve(t) PROVE FALSE
    BY <2>5, <2>6 DEF Reserve
  <2>7. ASSUME NEW t \in Threads, NEW command \in {"poll", "cancel", "take"},
               Lookup(t, command)
        PROVE  FALSE
    BY <2>5, <2>7 DEF Lookup
  <2>8. ASSUME NEW t \in Threads, Launch(t) \/ Spawn(t) PROVE FALSE
    BY <2>5, <2>8 DEF Launch, Spawn
  <2>9. ASSUME NEW t \in Threads, LaunchFails(t) \/ SpawnFails(t) PROVE FALSE
    BY <2>1, <2>2, <2>9 DEF LaunchFails, SpawnFails
  <2>10. ASSUME NEW t \in Threads, InsertJob(t) PROVE FALSE
    BY <2>4, <2>10 DEF InsertJob
  <2>11. ASSUME NEW t \in Threads, Poll(t) PROVE FALSE
    BY <2>4, <2>11 DEF Poll
  <2>12. ASSUME NEW t \in Threads, Cancel(t) PROVE FALSE
    BY <2>4, <2>12 DEF Cancel
  <2>13. ASSUME NEW t \in Threads, Deliver(t) PROVE FALSE
    BY <2>4, <2>13 DEF Deliver
  <2>14. ASSUME NEW t \in Threads, Take(t) PROVE Goto(t, "carrying", calls[t].job)
    BY <2>4, <2>14 DEF Take
  <2>15. ASSUME NEW i \in Jobs,
                QueryEnds(i) \/ Observe(i) \/ ObserverExits(i) \/ Release(i)
         PROVE  FALSE
    BY <2>3, <2>15 DEF QueryEnds, Observe, ObserverExits, Release
  <2>16. \E t \in Threads : Take(t)
    BY <2>3, <2>6, <2>7, <2>8, <2>9, <2>10, <2>11, <2>12, <2>13, <2>15
       DEF Next, Proceed, vars
  <2>17. QED
    BY <2>14, <2>16
<1>3. t = u /\ calls[u].job = j
  BY <1>1, <1>2 DEF Goto, IInv, Types
<1>4. PICK r : r = refresh(jobs[j])
  OBVIOUS
<1>5. /\ j \in Jobs /\ jobs[j] \in Job /\ Consistent(jobs[j])
      /\ jobs[j].state \notin {"none", "dropped"}
  BY <1>2, <1>3, HeldIsSeen DEF Take, At
<1>6. Refresh(j, r) /\ seen(r) = seen(jobs[j])
  BY <1>4, <1>5, Refreshed, SeenRefreshed
<1>7. r.state = "frame" /\ jobs' = [jobs EXCEPT ![j] = [r EXCEPT !.state = "taken"]]
  <2>1. ~\E q : Return(u, q)
    BY <1>1 DEF Return, Idle, IInv, Types
  <2>2. QED
    BY <1>2, <1>3, <1>4, <2>1 DEF Take
<1>8. /\ jobs'[j].state = "taken"
      /\ jobs'[j] \in Job /\ Consistent(jobs'[j])
  BY <1>6, <1>7 DEF IInv, Types, JobsConsistent, Refresh, Job
<1>9. QED
  BY <1>6, <1>7, <1>8, SeenIs DEF Refresh

\* HandedByTake, for any number of callers and jobs.
THEOREM HandedOut == Spec => HandedByTake
<1>1. IInv /\ IInv' /\ [Next]_vars =>
         [\A j \in Jobs : ~(carriers(j)' \subseteq carriers(j)) =>
             seen(jobs[j]) = "complete" /\ seen(jobs'[j]) = "taken"]_vars
  <2> SUFFICES ASSUME IInv, IInv', [Next]_vars, NEW j \in Jobs,
                      ~(carriers(j)' \subseteq carriers(j))
               PROVE  seen(jobs[j]) = "complete" /\ seen(jobs'[j]) = "taken"
    OBVIOUS
  <2>1. PICK u : u \in carriers(j)' /\ u \notin carriers(j)
    OBVIOUS
  <2>2. u \in Threads
    BY <2>1 DEF carriers
  <2>3. QED
    BY <2>1, <2>2, NewCarrier
<1>2. QED
  BY <1>1, Invariance, PTL DEF Spec, HandedByTake
================================================================================
