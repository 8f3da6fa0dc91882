------------------------------ MODULE AsyncClients -----------------------------
(***************************************************************************)
(* The Dart objects a program follows native work with: CancellableQuery   *)
(* (lib/src/plan.dart) and BatchStream (lib/src/batch_stream.dart), one of *)
(* each, over a registry with room for a few frames.  An operation leases  *)
(* its object, sends one command to a worker isolate and goes on when the  *)
(* answer comes; meanwhile the program starts other operations, closes the *)
(* object or closes frames it was given.  The two native objects answer    *)
(* as Jobs.tla and PullStream.tla promise.                                 *)
(*                                                                         *)
(* collect() is the operations wait and take and a close by one caller;    *)
(* pollSync and cancelSync are next and stop with nothing in between.      *)
(***************************************************************************)
EXTENDS Integers, FiniteSets

CONSTANTS Callers,  \* the asynchronous calls a program makes side by side
          Total,    \* bound: the batches of the stream
          Room      \* bound: the frames the registry has room for

ASSUME AsyncClientsAssumption ==
    /\ IsFiniteSet(Callers)
    /\ Total \in Nat
    /\ Room \in Nat \ {0}

\* The frames native work produces: a query's result and a stream's batches.
Batches == 1..Total
Result == 0
Frames == {Result} \cup Batches

QueryOps == {"poll", "wait", "cancel", "take"}
StreamOps == {"next", "stop"}

VARIABLES job,         \* the state of the native job
          stream,      \* the state of the native stream and the batches left
          registered,  \* the frames a handle stands for
          phase,       \* of the owners of the query and of the stream
          busy,        \* CancellableQuery._busy
          terminal,    \* BatchStream._terminal
          calls,       \* what each caller is doing
          owned,       \* the frames the program has a DataFrame for
          lost         \* history: frames the registry had no room for

vars == <<job, stream, registered, phase, busy, terminal, calls, owned, lost>>

native == <<job, stream, registered, lost>>

Idle == [op |-> "none", step |-> "idle", answer |-> "none", frames |-> {}]

Answers == {"none", "running", "complete", "failed", "cancelled", "taken",
            "notReady", "pending", "accepted", "error", "frame"}

\* Whose operation it is, and so whose lease is held while it runs.
Of(op) == IF op \in QueryOps THEN "query" ELSE "stream"

Leases(who) == {c \in Callers : calls[c] # Idle /\ Of(calls[c].op) = who}

Init ==
    /\ job = [state |-> "running", requested |-> FALSE]
    /\ stream = [state |-> "active", left |-> Total]
    /\ registered = {}
    /\ phase = [query |-> "open", stream |-> "open"]
    /\ busy = FALSE
    /\ terminal = FALSE
    /\ calls = [c \in Callers |-> Idle]
    /\ owned = {}
    /\ lost = {}

--------------------------------------------------------------------------------
(* The native side *)

\* The query ends; an accepted cancellation discards what it computed.
JobEnds ==
    /\ job.state = "running"
    /\ \E state \in IF job.requested THEN {"cancelled"} ELSE {"complete", "failed"} :
          job' = [job EXCEPT !.state = state]
    /\ UNCHANGED <<stream, registered, phase, busy, terminal, calls, owned, lost>>

Answer(c, answer) ==
    calls' = [calls EXCEPT ![c].step = "answered", ![c].answer = answer]

\* An answer that carries a frame.
AnswerFrame(c, frame) ==
    calls' = [calls EXCEPT ![c].step = "answered", ![c].answer = "frame",
                           ![c].frames = {frame}]

\* Mutant of Deliver: the registry has no limit.
DeliverAlways(c, frame) ==
    /\ registered' = registered \cup {frame}
    /\ AnswerFrame(c, frame)
    /\ UNCHANGED lost

\* registry::insert of a frame that has left its job or stream.
Deliver(c, frame) ==
    IF Cardinality(registered) < Room
    THEN /\ registered' = registered \cup {frame}
         /\ AnswerFrame(c, frame)
         /\ UNCHANGED lost
    ELSE /\ lost' = lost \cup {frame}
         /\ Answer(c, "error")
         /\ UNCHANGED registered

JobPoll(c) ==
    /\ Answer(c, job.state)
    /\ UNCHANGED native

JobCancel(c) ==
    /\ job' = [job EXCEPT !.requested = @ \/ job.state = "running"]
    /\ Answer(c, "accepted")
    /\ UNCHANGED <<stream, registered, lost>>

JobTake(c) ==
    /\ UNCHANGED stream
    /\ CASE job.state = "running" -> Answer(c, "notReady") /\ UNCHANGED native
         [] job.state = "taken" -> Answer(c, "taken") /\ UNCHANGED native
         [] job.state = "complete" -> /\ job' = [job EXCEPT !.state = "taken"]
                                      /\ Deliver(c, Result)
         [] OTHER -> /\ job' = [job EXCEPT !.state = "taken"]
                     /\ Answer(c, "error")
                     /\ UNCHANGED <<registered, lost>>

BatchStreamPoll(c) ==
    /\ UNCHANGED job
    /\ IF stream.state # "active"
       THEN Answer(c, stream.state) /\ UNCHANGED native
       ELSE \/ Answer(c, "pending") /\ UNCHANGED native
            \/ /\ stream.left > 0
               /\ stream' = [stream EXCEPT !.left = @ - 1]
               /\ Deliver(c, Total + 1 - stream.left)
            \/ \* the end, or a failure at any time
               /\ stream' = [stream EXCEPT !.state = "complete"]
               /\ \/ stream.left = 0 /\ Answer(c, "complete")
                  \/ Answer(c, "error")
               /\ UNCHANGED <<registered, lost>>

BatchStreamCancel(c) ==
    /\ stream' = [stream EXCEPT !.state = "cancelled"]
    /\ Answer(c, "cancelled")
    /\ UNCHANGED <<job, registered, lost>>

\* The worker isolate runs the command.
Execute(c) ==
    /\ calls[c].step = "sent"
    /\ CASE calls[c].op \in {"poll", "wait"} -> JobPoll(c)
         [] calls[c].op = "cancel" -> JobCancel(c)
         [] calls[c].op = "take" -> JobTake(c)
         [] calls[c].op = "next" -> BatchStreamPoll(c)
         [] calls[c].op = "stop" -> BatchStreamCancel(c)
    /\ UNCHANGED <<phase, busy, terminal, owned>>

\* There is no worker to run it.
TransportFails(c) ==
    /\ calls[c].step = "sent"
    /\ Answer(c, "error")
    /\ UNCHANGED <<native, phase, busy, terminal, owned>>

--------------------------------------------------------------------------------
(* Owners *)

\* The last lease of an owner is over and its close was asked for: the handle
\* is released, and with it the job or the stream.
Settle(who, closing, others) ==
    /\ phase' = [phase EXCEPT ![who] =
                    IF ~closing THEN @ ELSE IF others THEN "closing" ELSE "released"]
    /\ LET released == closing /\ ~others
       IN  IF who = "query"
           THEN /\ job' = IF released THEN [job EXCEPT !.state = "gone"] ELSE job
                /\ UNCHANGED stream
           ELSE /\ stream' = IF released THEN [stream EXCEPT !.state = "gone"]
                                         ELSE stream
                /\ UNCHANGED job

\* The finally blocks of c: close first if wanted, then end the lease.
End(c, close) ==
    LET who == Of(calls[c].op)
    IN  /\ calls' = [calls EXCEPT ![c] = Idle]
        /\ busy' = IF who = "query" THEN FALSE ELSE busy
        /\ Settle(who, close \/ phase[who] = "closing", Leases(who) # {c})

--------------------------------------------------------------------------------
(* CancellableQuery *)

Send(c, op) == calls' = [calls EXCEPT ![c] = [Idle EXCEPT !.op = op,
                                                           !.step = "sent"]]

\* Mutant of Begin: another operation may be under way.
BeginAnyway(c, op) ==
    /\ calls[c] = Idle
    /\ phase.query = "open"
    /\ busy' = TRUE
    /\ Send(c, op)
    /\ UNCHANGED <<native, phase, terminal, owned>>

\* _begin, at the head of each operation.
Begin(c, op) ==
    /\ calls[c] = Idle
    /\ ~busy
    /\ phase.query = "open"
    /\ busy' = TRUE
    /\ Send(c, op)
    /\ UNCHANGED <<native, phase, terminal, owned>>

Answered(c, op) == calls[c].op = op /\ calls[c].step = "answered"

EndPoll(c) ==
    /\ Answered(c, "poll")
    /\ End(c, calls[c].answer \in {"failed", "cancelled", "taken", "error"})
    /\ UNCHANGED <<registered, terminal, owned, lost>>

\* wait has its verdict ...
EndWait(c) ==
    /\ Answered(c, "wait") /\ calls[c].answer # "running"
    /\ End(c, calls[c].answer \in {"failed", "cancelled", "error"})
    /\ UNCHANGED <<registered, terminal, owned, lost>>

\* ... or sleeps for the poll interval.
Sleep(c) ==
    /\ Answered(c, "wait") /\ calls[c].answer = "running"
    /\ calls' = [calls EXCEPT ![c].step = "sleeping", ![c].answer = "none"]
    /\ UNCHANGED <<native, phase, busy, terminal, owned>>

\* Mutant of Wake: the close that came meanwhile goes unnoticed.
WakeRegardless(c) ==
    /\ calls[c].step = "sleeping"
    /\ Send(c, "wait")
    /\ UNCHANGED <<native, phase, busy, terminal, owned>>

\* The head of the loop: an abandoned query is not polled again.
Wake(c) ==
    /\ calls[c].step = "sleeping"
    /\ IF phase.query = "open"
       THEN Send(c, "wait") /\ UNCHANGED <<job, stream, phase, busy>>
       ELSE End(c, TRUE)
    /\ UNCHANGED <<registered, terminal, owned, lost>>

EndCancel(c) ==
    /\ Answered(c, "cancel")
    /\ End(c, TRUE)
    /\ UNCHANGED <<registered, terminal, owned, lost>>

\* The program gets its frame, or learns that it is too early: the query stays
\* open only then.
EndTake(c) ==
    /\ Answered(c, "take")
    /\ owned' = owned \cup calls[c].frames
    /\ End(c, calls[c].answer # "notReady")
    /\ UNCHANGED <<registered, terminal, lost>>

--------------------------------------------------------------------------------
(* BatchStream *)

\* poll: any number at a time, as long as the owner is open.
PollNext(c) ==
    /\ calls[c] = Idle
    /\ phase.stream = "open"
    /\ Send(c, "next")
    /\ UNCHANGED <<native, phase, busy, terminal, owned>>

\* cancel: nothing to do once the stream is known to have ended.
Stop(c) ==
    /\ calls[c] = Idle
    /\ ~terminal
    /\ phase.stream = "open"
    /\ Send(c, "stop")
    /\ UNCHANGED <<native, phase, busy, terminal, owned>>

\* Mutant of EndNext: a stream closed meanwhile has no more batches to give.
EndNextIfOpen(c) ==
    /\ Answered(c, "next")
    /\ owned' = owned \cup IF phase.stream = "open"
                           THEN calls[c].frames ELSE {}
    /\ terminal' = (terminal \/ calls[c].answer \in {"complete", "cancelled"})
    /\ End(c, FALSE)
    /\ UNCHANGED <<registered, lost>>

\* _parsePoll: a batch is adopted whatever has become of the stream.
EndNext(c) ==
    /\ Answered(c, "next")
    /\ owned' = owned \cup calls[c].frames
    /\ terminal' = (terminal \/ calls[c].answer \in {"complete", "cancelled"})
    /\ End(c, FALSE)
    /\ UNCHANGED <<registered, lost>>

EndStop(c) ==
    /\ Answered(c, "stop")
    /\ terminal' = (terminal \/ calls[c].answer = "cancelled")
    /\ End(c, FALSE)
    /\ UNCHANGED <<registered, owned, lost>>

--------------------------------------------------------------------------------
(* The program *)

CloseQuery ==
    /\ phase.query = "open"
    /\ Settle("query", TRUE, Leases("query") # {})
    /\ UNCHANGED <<registered, busy, terminal, calls, owned, lost>>

\* close(): cancelSync, unless the stream has ended, then the owner; the owner
\* also when cancelSync throws.
CloseStream ==
    /\ phase.stream = "open"
    /\ phase' = [phase EXCEPT !.stream = IF Leases("stream") = {} THEN "released"
                                                                  ELSE "closing"]
    /\ \E cancelled \in IF terminal THEN {FALSE} ELSE BOOLEAN :
          /\ terminal' = (terminal \/ cancelled)
          /\ stream' = [stream EXCEPT !.state =
                           CASE Leases("stream") = {} -> "gone"
                             [] Leases("stream") # {} /\ cancelled -> "cancelled"
                             [] OTHER -> @]
    /\ UNCHANGED <<job, registered, busy, calls, owned, lost>>

CloseFrame(frame) ==
    /\ frame \in owned
    /\ owned' = owned \ {frame}
    /\ registered' = registered \ {frame}
    /\ UNCHANGED <<job, stream, phase, busy, terminal, calls, lost>>

\* Answers arrive and timers fire.
Proceed(c) ==
    \/ Execute(c) \/ TransportFails(c)
    \/ EndPoll(c) \/ EndWait(c) \/ Sleep(c) \/ Wake(c) \/ EndCancel(c)
    \/ EndTake(c) \/ EndNext(c) \/ EndStop(c)

Next ==
    \/ JobEnds
    \/ \E c \in Callers :
          \/ \E op \in QueryOps : Begin(c, op)
          \/ PollNext(c) \/ Stop(c)
          \/ Proceed(c)
    \/ CloseQuery \/ CloseStream
    \/ \E frame \in Frames : CloseFrame(frame)

Spec == Init /\ [][Next]_vars

\* Every command is answered or fails and every timer fires.  Nothing makes
\* the query end, or the program call anything.
FairSpec == Spec /\ \A c \in Callers : WF_vars(Proceed(c))

--------------------------------------------------------------------------------
(* Properties *)

\* Types.  The registry never holds more than it has room for.
TypeOK ==
    /\ job \in [state : {"running", "complete", "failed", "cancelled", "taken",
                         "gone"}, requested : BOOLEAN]
    /\ stream \in [state : {"active", "complete", "cancelled", "gone"},
                   left : 0..Total]
    /\ registered \subseteq Frames /\ Cardinality(registered) <= Room
    /\ phase \in [query : {"open", "closing", "released"},
                  stream : {"open", "closing", "released"}]
    /\ busy \in BOOLEAN /\ terminal \in BOOLEAN
    /\ calls \in [Callers -> [op : QueryOps \cup StreamOps \cup {"none"},
                              step : {"idle", "sent", "answered", "sleeping"},
                              answer : Answers, frames : SUBSET Frames]]
    /\ owned \subseteq Frames /\ lost \subseteq Frames

answering(frame) == {c \in Callers : frame \in calls[c].frames}

\* A frame that native code registered is the program's, or is in the one
\* answer that will make it so: it is neither stranded nor owned twice when
\* the query or the stream is cancelled or closed in between (batch_stream.dart:
\* "Every batch is an independent DataFrame handle and remains usable after
\* this stream is cancelled or closed").
FramesOwned ==
    /\ owned \cup {frame \in Frames : answering(frame) # {}} = registered
    /\ \A frame \in Frames :
          /\ Cardinality(answering(frame)) <= 1
          /\ frame \in owned => answering(frame) = {}

\* What the Dart objects believe is so: a stream marked terminal, which close
\* need not cancel, has ended natively; and because operations exclude each
\* other and a take closes the query, no caller is ever told that somebody
\* else has taken the result (batch_stream.dart: _terminal; plan.dart: _busy).
ClientsAgree ==
    /\ terminal => stream.state # "active"
    /\ \A c \in Callers : calls[c].answer # "taken"

\* A wait ends once the query has, or once it is closed, even if the close
\* comes while it sleeps or polls (plan.dart: wait).
WaitEnds ==
    \A c \in Callers :
        (calls[c].op = "wait" /\ (job.state # "running" \/ phase.query # "open"))
            ~> calls[c].op # "wait"

================================================================================
