--------------------------------- MODULE Jobs ----------------------------------
(***************************************************************************)
(* Native asynchronous queries: native/polars_ffi/src/jobs.rs and the      *)
(* lazySubmit, jobPoll, jobCancel and jobTake commands of engine.rs.       *)
(*                                                                         *)
(* Four kinds of thread touch a job.  Polars' worker runs the query.  An   *)
(* observer thread, one per job and holding a permit, waits for the worker *)
(* and sends what it saw down a channel.  Callers of df_invoke submit,     *)
(* poll, cancel and take, each cloning the job's Arc out of the registry   *)
(* and then locking its state.  And any thread may release the job's       *)
(* handle; whoever gives up the last Arc runs Job::drop.                   *)
(***************************************************************************)
EXTENDS Integers, FiniteSets

CONSTANTS Threads,    \* callers of df_invoke
          Jobs,       \* bound: jobs ever submitted
          NoJob,      \* an idle caller's job
          MaxActive   \* MAX_ACTIVE_JOBS

ASSUME JobsAssumption ==
    /\ MaxActive \in Nat \ {0}
    /\ NoJob \notin Jobs
    /\ IsFiniteSet(Jobs)

VARIABLES permits,    \* ACTIVE_JOB_OBSERVERS
          jobs,       \* the worker, observer, channel and state of each job
          calls,      \* where each caller is in its command
          accepted,   \* history: jobs whose cancellation was accepted
          delivered,  \* history: how often a job's frame got a handle
          lost        \* history: jobs whose frame the registry refused

vars == <<permits, jobs, calls, accepted, delivered, lost>>

Outcome == {"frame", "error", "panic"}

\* query: Polars' worker.  cancelled: its cancellation token.  observer: the
\* observer thread; once "sent" only its permit is left.  channel: the one
\* result in flight.  state and requested: Job.state, with Complete told
\* apart by its result.  registered: whether a handle stands for the job.
Job == [query      : {"none", "running"} \cup Outcome,
        cancelled  : BOOLEAN,
        observer   : {"none", "waiting", "sent", "gone"},
        channel    : {"empty", "frame", "error"},
        state      : {"none", "running", "frame", "error", "cancelled",
                      "taken", "dropped"},
        requested  : BOOLEAN,
        registered : BOOLEAN]

NewJob == [query |-> "none", cancelled |-> FALSE, observer |-> "none",
           channel |-> "empty", state |-> "none", requested |-> FALSE,
           registered |-> FALSE]

Idle == [step |-> "idle", job |-> NoJob]

At(t, step) == calls[t].step = step

Goto(t, step, j) == calls' = [calls EXCEPT ![t] = [step |-> step, job |-> j]]

--------------------------------------------------------------------------------
(* The state of one job *)

\* Mutant of drop: the query is left to run on.
DropWithoutCancel(r) == [r EXCEPT !.channel = "empty", !.state = "dropped"]

\* Job::drop: a query still running is cancelled; the receiver goes as well.
drop(r) == [r EXCEPT !.cancelled = @ \/ r.state = "running",
                     !.channel = "empty",
                     !.state = "dropped"]

\* Mutant of refresh: a result that arrives after an accepted cancellation is
\* published all the same.
RefreshIgnoresRequest(r) ==
    IF r.state = "running" /\ r.channel # "empty"
    THEN [r EXCEPT !.state = r.channel, !.channel = "empty"]
    ELSE r

\* Job::refresh: the observer's result becomes the job's, unless a
\* cancellation was accepted first; an observer gone without a result is an
\* error too.
refresh(r) ==
    CASE r.state = "running" /\ r.channel # "empty" ->
            [r EXCEPT !.state = IF r.requested THEN "cancelled" ELSE r.channel,
                      !.channel = "empty"]
      [] r.state = "running" /\ r.channel = "empty" /\ r.observer = "gone" ->
            [r EXCEPT !.state = "error"]
      [] OTHER -> r

\* The command of t is over: its Arc of j goes, and with it the job if no
\* handle and no other command holds it.
Return(t, r) ==
    LET j == calls[t].job
        held == r.registered \/ \E u \in Threads \ {t} : calls[u].job = j
    IN  /\ jobs' = [jobs EXCEPT ![j] = IF held THEN r ELSE drop(r)]
        /\ calls' = [calls EXCEPT ![t] = Idle]

--------------------------------------------------------------------------------
(* lazySubmit *)

\* Mutant of Reserve: the bound is checked the wrong way round the increment.
ReserveOneTooMany(t) ==
    /\ calls[t] = Idle
    /\ permits <= MaxActive
    /\ permits' = permits + 1
    /\ \E j \in Jobs : /\ jobs[j] = NewJob
                       /\ \A u \in Threads : calls[u].job # j
                       /\ Goto(t, "reserved", j)
    /\ UNCHANGED <<jobs, accepted, delivered, lost>>

\* ObserverPermit::reserve.  A refused submission changes nothing, as does
\* one that asks for an explicit engine.
Reserve(t) ==
    /\ calls[t] = Idle
    /\ permits < MaxActive
    /\ permits' = permits + 1
    /\ \E j \in Jobs : /\ jobs[j] = NewJob
                       /\ \A u \in Threads : calls[u].job # j
                       /\ Goto(t, "reserved", j)
    /\ UNCHANGED <<jobs, accepted, delivered, lost>>

\* collect_concurrently starts the worker ...
Launch(t) ==
    /\ At(t, "reserved")
    /\ jobs' = [jobs EXCEPT ![calls[t].job].query = "running"]
    /\ Goto(t, "launched", calls[t].job)
    /\ UNCHANGED <<permits, accepted, delivered, lost>>

\* ... or rejects the plan, and the permit is dropped.
LaunchFails(t) ==
    /\ At(t, "reserved")
    /\ permits' = permits - 1
    /\ calls' = [calls EXCEPT ![t] = Idle]
    /\ UNCHANGED <<jobs, accepted, delivered, lost>>

\* The observer thread starts and takes the permit along.
Spawn(t) ==
    /\ At(t, "launched")
    /\ jobs' = [jobs EXCEPT ![calls[t].job].observer = "waiting",
                            ![calls[t].job].state = "running"]
    /\ Goto(t, "spawned", calls[t].job)
    /\ UNCHANGED <<permits, accepted, delivered, lost>>

\* Mutant of SpawnFails: the permit is forgotten with the closure.
SpawnFailsLeaksPermit(t) ==
    /\ At(t, "launched")
    /\ \E stops \in BOOLEAN :
          jobs' = [jobs EXCEPT ![calls[t].job].cancelled = stops]
    /\ calls' = [calls EXCEPT ![t] = Idle]
    /\ UNCHANGED <<permits, accepted, delivered, lost>>

\* No thread: the closure, and the permit in it, is dropped.  Nothing cancels
\* the query; whether Polars stops one nobody refers to is its own affair.
SpawnFails(t) ==
    /\ At(t, "launched")
    /\ permits' = permits - 1
    /\ \E stops \in BOOLEAN :
          jobs' = [jobs EXCEPT ![calls[t].job].cancelled = stops]
    /\ calls' = [calls EXCEPT ![t] = Idle]
    /\ UNCHANGED <<accepted, delivered, lost>>

\* registry::insert of the new job; without room the job is dropped at once.
InsertJob(t) ==
    /\ At(t, "spawned")
    /\ \E room \in BOOLEAN :
          Return(t, [jobs[calls[t].job] EXCEPT !.registered = room])
    /\ UNCHANGED <<permits, accepted, delivered, lost>>

--------------------------------------------------------------------------------
(* Polars' worker and the observer *)

\* The worker finishes, fails or panics; a cancelled one may do any of them.
QueryEnds(j) ==
    /\ jobs[j].query = "running"
    /\ \E outcome \in Outcome :
          jobs' = [jobs EXCEPT ![j].query = outcome]
    /\ UNCHANGED <<permits, calls, accepted, delivered, lost>>

\* Mutant of Observe: no catch_unwind, a panic ends the observer unheard.
ObserveUnwinds(j) ==
    /\ jobs[j].observer = "waiting"
    /\ jobs[j].query \in Outcome
    /\ jobs' = [jobs EXCEPT
                   ![j].observer = "sent",
                   ![j].channel = IF \/ jobs[j].state = "dropped"
                                     \/ jobs[j].query = "panic"
                                  THEN "empty" ELSE jobs[j].query]
    /\ UNCHANGED <<permits, calls, accepted, delivered, lost>>

\* fetch_blocking returns or unwinds; either way one result is sent, to
\* nobody if the job is gone.
Observe(j) ==
    /\ jobs[j].observer = "waiting"
    /\ jobs[j].query \in Outcome
    /\ LET result == IF jobs[j].query = "frame" THEN "frame" ELSE "error"
       IN  jobs' = [jobs EXCEPT
                       ![j].observer = "sent",
                       ![j].channel = IF jobs[j].state = "dropped"
                                      THEN "empty" ELSE result]
    /\ UNCHANGED <<permits, calls, accepted, delivered, lost>>

\* The thread ends: ObserverPermit::drop.
ObserverExits(j) ==
    /\ jobs[j].observer = "sent"
    /\ jobs' = [jobs EXCEPT ![j].observer = "gone"]
    /\ permits' = permits - 1
    /\ UNCHANGED <<calls, accepted, delivered, lost>>

--------------------------------------------------------------------------------
(* jobPoll, jobCancel, jobTake and the release of the handle *)

\* registry::job clones the Arc; the state is locked only later.
Lookup(t, command) ==
    /\ calls[t] = Idle
    /\ \E j \in Jobs : jobs[j].registered /\ Goto(t, command, j)
    /\ UNCHANGED <<permits, jobs, accepted, delivered, lost>>

Poll(t) ==
    /\ At(t, "poll")
    /\ Return(t, refresh(jobs[calls[t].job]))
    /\ UNCHANGED <<permits, accepted, delivered, lost>>

\* Cancel a query that is still running; one that is not ignores it.
Cancel(t) ==
    /\ At(t, "cancel")
    /\ LET j == calls[t].job
           r == refresh(jobs[j])
       IN  IF r.state = "running"
           THEN /\ Return(t, [r EXCEPT !.cancelled = TRUE, !.requested = TRUE])
                /\ accepted' = accepted \cup {j}
           ELSE /\ Return(t, r)
                /\ UNCHANGED accepted
    /\ UNCHANGED <<permits, delivered, lost>>

\* Mutant of Take: a completed job keeps its result.
TakeCopies(t) ==
    /\ At(t, "take")
    /\ LET j == calls[t].job
           r == refresh(jobs[j])
       IN  IF r.state = "frame"
           THEN /\ jobs' = [jobs EXCEPT ![j] = r]
                /\ Goto(t, "carrying", j)
           ELSE Return(t, r)
    /\ UNCHANGED <<permits, accepted, delivered, lost>>

\* take leaves a running job alone and any other one Taken; a frame is then
\* on its way to the registry, outside the job and its lock.
Take(t) ==
    /\ At(t, "take")
    /\ LET j == calls[t].job
           r == refresh(jobs[j])
           empty == [r EXCEPT !.state = "taken"]
       IN  CASE r.state = "running" -> Return(t, r)
             [] r.state = "frame" -> /\ jobs' = [jobs EXCEPT ![j] = empty]
                                     /\ Goto(t, "carrying", j)
             [] OTHER -> Return(t, empty)
    /\ UNCHANGED <<permits, accepted, delivered, lost>>

\* registry::insert of the frame, with or without room for it.
Deliver(t) ==
    /\ At(t, "carrying")
    /\ LET j == calls[t].job
       IN  /\ \/ /\ delivered' = [delivered EXCEPT ![j] = @ + 1]
                 /\ UNCHANGED lost
              \/ /\ lost' = lost \cup {j}
                 /\ UNCHANGED delivered
           /\ Return(t, jobs[j])
    /\ UNCHANGED <<permits, accepted>>

\* df_handle_release or a finalizer: the registry's Arc goes.
Release(j) ==
    /\ jobs[j].registered
    /\ LET r == [jobs[j] EXCEPT !.registered = FALSE]
           held == \E t \in Threads : calls[t].job = j
       IN  jobs' = [jobs EXCEPT ![j] = IF held THEN r ELSE drop(r)]
    /\ UNCHANGED <<permits, calls, accepted, delivered, lost>>

--------------------------------------------------------------------------------
Init ==
    /\ permits = 0
    /\ jobs = [j \in Jobs |-> NewJob]
    /\ calls = [t \in Threads |-> Idle]
    /\ accepted = {}
    /\ delivered = [j \in Jobs |-> 0]
    /\ lost = {}

\* A command that has begun, step by step to its end.
Proceed(t) ==
    \/ Launch(t) \/ LaunchFails(t) \/ Spawn(t) \/ SpawnFails(t) \/ InsertJob(t)
    \/ Poll(t) \/ Cancel(t) \/ Take(t) \/ Deliver(t)

Next ==
    \/ \E t \in Threads :
          \/ Reserve(t)
          \/ \E command \in {"poll", "cancel", "take"} : Lookup(t, command)
          \/ Proceed(t)
    \/ \E j \in Jobs :
          QueryEnds(j) \/ Observe(j) \/ ObserverExits(j) \/ Release(j)

Spec == Init /\ [][Next]_vars

\* Commands do not block, threads run, and Polars honours its token: a
\* cancelled query ends.  Nothing makes any other query end, nor a caller
\* poll, take or release.
Fairness ==
    /\ \A t \in Threads : WF_vars(Proceed(t))
    /\ \A j \in Jobs : /\ WF_vars(Observe(j))
                       /\ WF_vars(ObserverExits(j))
                       /\ WF_vars(jobs[j].cancelled /\ QueryEnds(j))

FairSpec == Spec /\ Fairness

--------------------------------------------------------------------------------
(* Properties *)

\* Types.
TypeOK ==
    /\ permits \in 0..MaxActive
    /\ jobs \in [Jobs -> Job]
    /\ calls \in [Threads -> [step : {"idle", "reserved", "launched", "spawned",
                                    "poll", "cancel", "take", "carrying"},
                             job  : Jobs \cup {NoJob}]]
    /\ accepted \subseteq Jobs
    /\ delivered \in [Jobs -> Nat]
    /\ lost \subseteq Jobs

submitting == {t \in Threads : At(t, "reserved") \/ At(t, "launched")}
observed == {j \in Jobs : jobs[j].observer \in {"waiting", "sent"}}

\* The permit count is exactly the submissions under way plus the observers
\* alive, on every path out of submit, so no failure and no panic eats into
\* the MAX_ACTIVE_JOBS jobs a process may have (jobs.rs: ObserverPermit).
PermitsExact == permits = Cardinality(submitting) + Cardinality(observed)

\* Once a cancellation is accepted the result is discarded: it is not and will
\* not be in anybody's hands, whatever was in the channel at that moment
\* (jobs.rs: refresh, cancel; protocol/README.md: "the computed result is
\* discarded").
CancelIsFinal ==
    \A j \in accepted :
        /\ delivered[j] = 0
        /\ jobs[j].state # "frame"
        /\ ~\E t \in Threads : calls[t].job = j /\ At(t, "carrying")

\* A job whose observer is gone has its verdict or has it in the channel: no
\* panic leaves a job running for ever, and the Disconnected branch of refresh
\* is never needed.
ObserverReports ==
    \A j \in Jobs :
        jobs[j].state = "running" /\ jobs[j].observer = "gone" =>
            jobs[j].channel # "empty"

carriers(j) == {t \in Threads : calls[t].job = j /\ At(t, "carrying")}

\* A frame the worker computed is in exactly one place: the channel, the job,
\* the hands of one jobTake, or the registry under one handle.  The only ways
\* to lose it are an accepted cancellation, the death of the job, and a
\* registry without room (engine.rs: jobTake).
FrameConserved ==
    \A j \in Jobs :
        LET here == {place \in {"channel", "job"} :
                        \/ place = "channel" /\ jobs[j].channel = "frame"
                        \/ place = "job" /\ jobs[j].state = "frame"}
            copies == Cardinality(here) + Cardinality(carriers(j)) + delivered[j]
        IN  /\ copies <= 1
            /\ copies = 0 /\ jobs[j].query = "frame" =>
                  \/ jobs[j].observer \in {"none", "waiting"}
                  \/ j \in accepted \cup lost
                  \/ jobs[j].state = "dropped"

\* A job that was cancelled or abandoned gives its permit back in the end, so
\* that clients who give up on jobs cannot run out of them (jobs.rs: cancel,
\* Drop for Job, Drop for ObserverPermit).
AbandonedFreesPermit ==
    \A j \in Jobs :
        (j \in accepted \/ jobs[j].state = "dropped") ~> jobs[j].observer = "gone"

================================================================================
