------------------------------ MODULE BatchStream ------------------------------
(***************************************************************************)
(* One native batch stream: native/polars_ffi/src/batch_stream.rs and the  *)
(* lazyBatchStream, batchStreamPoll and batchStreamCancel commands of      *)
(* engine.rs.  A worker thread runs the query and pushes its batches into  *)
(* a bounded channel, retrying while the channel is full and giving up     *)
(* when the stream is cancelled or gone.  Callers clone the stream's Arc   *)
(* out of the registry and poll or cancel it under its lock, while any     *)
(* thread may release its handle.                                          *)
(***************************************************************************)
EXTENDS Integers, Sequences

CONSTANTS Threads,    \* callers of df_invoke
          Total,      \* bound: the batches of the query
          Capacity,   \* "capacity" of lazyBatchStream, checked to be 1..64
          Complete,   \* Message::Complete
          Failed,     \* Message::Failed
          Nothing     \* no message, no batch

ASSUME BatchStreamAssumption ==
    /\ Total \in Nat
    /\ Capacity \in Nat \ {0}
    /\ Complete # Failed
    /\ {Complete, Failed, Nothing} \cap Nat = {}
    /\ Nothing \notin {Complete, Failed}

Batches == 1..Total
Messages == Batches \cup {Complete, Failed}

VARIABLES worker,     \* the worker thread
          channel,    \* the bounded channel
          cancelled,  \* the flag the worker looks at
          status,     \* PollState.status, or "dropped" after BatchStream::drop
          handle,     \* "pending" before registry::insert, "live", "gone"
          calls,      \* where each caller is in its command
          received,   \* history: batches taken from the channel by polls
          failed      \* history: whether a poll reported an error

vars == <<worker, channel, cancelled, status, handle, calls, received, failed>>

native == <<worker, channel, cancelled, status, handle>>

\* pc: "computing" inside Polars; "checking" at the head of send_while_active;
\* "sending" with the flag seen unset; "ended" when Polars returned Ok; "gone".
Worker == [pc      : {"computing", "checking", "sending", "ended", "gone"},
           message : Messages \cup {Nothing},
           next    : 1..(Total + 1)]

--------------------------------------------------------------------------------
(* The worker *)

\* Control returns to Polars, which will compute batch n next, if there is one.
Computing(n) == [pc |-> "computing", message |-> Nothing, next |-> n]
Gone == [Computing(Total + 1) EXCEPT !.pc = "gone"]

\* A message handed to send_while_active.
Offering(m) == [worker EXCEPT !.pc = "checking", !.message = m]

\* Polars calls back with the next batch.
Produce ==
    /\ worker.pc = "computing"
    /\ worker.next <= Total
    /\ worker' = Offering(worker.next)
    /\ UNCHANGED <<channel, cancelled, status, handle, calls, received, failed>>

\* send_while_active returned TRUE: the callback lets Polars go on; after a
\* terminal message the thread is done.
accepted == IF worker.message \in Batches THEN Computing(worker.message + 1)
                                          ELSE Gone

\* send_while_active returned FALSE: the callback makes Polars stop.
refused == IF worker.message \in Batches THEN Computing(Total + 1) ELSE Gone

\* Mutant of Check: a blocking send, which never looks at the flag.
CheckIgnoresFlag ==
    /\ worker.pc = "checking"
    /\ worker' = [worker EXCEPT !.pc = "sending"]
    /\ UNCHANGED <<channel, cancelled, status, handle, calls, received, failed>>

\* The flag is looked at before every attempt ...
Check ==
    /\ worker.pc = "checking"
    /\ worker' = IF cancelled THEN refused ELSE [worker EXCEPT !.pc = "sending"]
    /\ UNCHANGED <<channel, cancelled, status, handle, calls, received, failed>>

\* Mutants of TrySend: room for one message too many; a message the full
\* channel returned is forgotten and counts as sent.
TrySendOverfull ==
    /\ worker.pc = "sending"
    /\ IF status # "dropped" /\ Len(channel) <= Capacity
       THEN worker' = accepted /\ channel' = Append(channel, worker.message)
       ELSE worker' = refused /\ UNCHANGED channel
    /\ UNCHANGED <<cancelled, status, handle, calls, received, failed>>

TrySendForgets ==
    /\ worker.pc = "sending"
    /\ worker' = IF status = "dropped" THEN refused ELSE accepted
    /\ channel' = IF status # "dropped" /\ Len(channel) < Capacity
                  THEN Append(channel, worker.message) ELSE channel
    /\ UNCHANGED <<cancelled, status, handle, calls, received, failed>>

\* ... and may be set before this one.  A full channel means sleep and retry.
TrySend ==
    /\ worker.pc = "sending"
    /\ \/ /\ status = "dropped"
          /\ worker' = refused
          /\ UNCHANGED channel
       \/ /\ status # "dropped"
          /\ Len(channel) < Capacity
          /\ worker' = accepted
          /\ channel' = Append(channel, worker.message)
       \/ /\ status # "dropped"
          /\ Len(channel) >= Capacity
          /\ worker' = [worker EXCEPT !.pc = "checking"]
          /\ UNCHANGED channel
    /\ UNCHANGED <<cancelled, status, handle, calls, received, failed>>

\* collect_with_engine returns Ok: the query ran out of batches or was stopped.
CollectEnds ==
    /\ worker.pc = "computing"
    /\ worker.next > Total
    /\ worker' = [worker EXCEPT !.pc = "ended"]
    /\ UNCHANGED <<channel, cancelled, status, handle, calls, received, failed>>

\* Complete is for a stream nobody cancelled.
Conclude ==
    /\ worker.pc = "ended"
    /\ worker' = IF cancelled THEN Gone ELSE Offering(Complete)
    /\ UNCHANGED <<channel, cancelled, status, handle, calls, received, failed>>

\* It returns an error instead, or the thread panics and its sender with it.
CollectFails ==
    /\ worker.pc = "computing"
    /\ worker' \in {Offering(Failed), Gone}
    /\ UNCHANGED <<channel, cancelled, status, handle, calls, received, failed>>

WorkerStep ==
    Produce \/ Check \/ TrySend \/ CollectEnds \/ Conclude \/ CollectFails

--------------------------------------------------------------------------------
(* The stream and its handle *)

\* The last Arc goes: BatchStream::drop sets the flag, then the receiver goes.
drop ==
    /\ cancelled' = TRUE
    /\ status' = "dropped"
    /\ channel' = <<>>

\* registry::insert of the new stream; without room it is dropped at once.
InsertStream ==
    /\ handle = "pending"
    /\ \/ /\ handle' = "live"
          /\ UNCHANGED <<channel, cancelled, status>>
       \/ handle' = "gone" /\ drop
    /\ UNCHANGED <<worker, calls, received, failed>>

\* df_handle_release or a finalizer: the registry's Arc goes.
Release ==
    /\ handle = "live"
    /\ handle' = "gone"
    /\ IF \A t \in Threads : calls[t] = "idle"
       THEN drop
       ELSE UNCHANGED <<channel, cancelled, status>>
    /\ UNCHANGED <<worker, calls, received, failed>>

\* registry::batch_stream clones the Arc; the state is locked only later.
Lookup(t, command) ==
    /\ handle = "live"
    /\ calls[t] = "idle"
    /\ calls' = [calls EXCEPT ![t] = command]
    /\ UNCHANGED <<native, received, failed>>

\* The answer is on its way and the command gives up its Arc.
Return(t) ==
    /\ calls[t] = "returning"
    /\ calls' = [calls EXCEPT ![t] = "idle"]
    /\ IF handle = "gone" /\ \A u \in Threads \ {t} : calls[u] = "idle"
       THEN drop
       ELSE UNCHANGED <<channel, cancelled, status>>
    /\ UNCHANGED <<worker, handle, received, failed>>

--------------------------------------------------------------------------------
(* batchStreamPoll and batchStreamCancel, under the lock *)

\* The frame taken goes on to registry::insert; should that fail it is lost,
\* and the stream has moved on all the same.
TakeBatch ==
    /\ channel # <<>>
    /\ Head(channel) \in Batches
    /\ channel' = Tail(channel)
    /\ received' = Append(received, Head(channel))
    /\ UNCHANGED <<status, failed>>

TakeVerdict ==
    /\ channel # <<>>
    /\ Head(channel) \in {Complete, Failed}
    /\ channel' = Tail(channel)
    /\ status' = "complete"
    /\ failed' = (Head(channel) = Failed)
    /\ UNCHANGED received

\* Mutant of FindDisconnected: a silent end is taken for an empty channel.
DisconnectedIsPending ==
    /\ channel = <<>>
    /\ worker.pc = "gone"
    /\ UNCHANGED <<channel, status, received, failed>>

\* The worker is gone and left no terminal message: an internal error.
FindDisconnected ==
    /\ channel = <<>>
    /\ worker.pc = "gone"
    /\ status' = "complete"
    /\ failed' = TRUE
    /\ UNCHANGED <<channel, received>>

FindEmpty ==
    /\ channel = <<>>
    /\ worker.pc # "gone"
    /\ UNCHANGED <<channel, status, received, failed>>

\* Mutant of Poll: the status is not looked at.
PollPastTheEnd(t) ==
    /\ calls[t] = "poll"
    /\ TakeBatch \/ TakeVerdict \/ FindDisconnected \/ FindEmpty
    /\ calls' = [calls EXCEPT ![t] = "returning"]
    /\ UNCHANGED <<worker, cancelled, handle>>

\* A terminal status is its own answer, for ever.
Poll(t) ==
    /\ calls[t] = "poll"
    /\ IF status = "active"
       THEN TakeBatch \/ TakeVerdict \/ FindDisconnected \/ FindEmpty
       ELSE UNCHANGED <<channel, status, received, failed>>
    /\ calls' = [calls EXCEPT ![t] = "returning"]
    /\ UNCHANGED <<worker, cancelled, handle>>

Cancel(t) ==
    /\ calls[t] = "cancel"
    /\ cancelled' = TRUE
    /\ status' = "cancelled"
    /\ calls' = [calls EXCEPT ![t] = "returning"]
    /\ UNCHANGED <<worker, channel, handle, received, failed>>

--------------------------------------------------------------------------------
Init ==
    /\ worker = Computing(1)
    /\ channel = <<>>
    /\ cancelled = FALSE
    /\ status = "active"
    /\ handle = "pending"
    /\ calls = [t \in Threads |-> "idle"]
    /\ received = <<>>
    /\ failed = FALSE

Proceed(t) == Poll(t) \/ Cancel(t) \/ Return(t)

Next ==
    \/ WorkerStep
    \/ InsertStream
    \/ Release
    \/ \E t \in Threads :
          \/ \E command \in {"poll", "cancel"} : Lookup(t, command)
          \/ Proceed(t)

Spec == Init /\ [][Next]_vars

\* Polars computes, the worker is scheduled, and commands do not block.  Nobody
\* need poll, cancel or release.
FairSpec ==
    /\ Spec
    /\ WF_vars(WorkerStep)
    /\ \A t \in Threads : WF_vars(Proceed(t))

--------------------------------------------------------------------------------
(* Properties *)

\* Types.  The channel never exceeds its capacity: a consumer who does not
\* poll bounds the memory of the producer.
TypeOK ==
    /\ worker \in Worker
    /\ channel \in Seq(Messages) /\ Len(channel) <= Capacity
    /\ cancelled \in BOOLEAN
    /\ status \in {"active", "complete", "cancelled", "dropped"}
    /\ handle \in {"pending", "live", "gone"}
    /\ calls \in [Threads -> {"idle", "poll", "cancel", "returning"}]
    /\ received \in Seq(Batches)
    /\ failed \in BOOLEAN

\* While the stream is active, what was taken, what is in the channel and what
\* the worker is offering make up the query's batches in order, and a terminal
\* message is the last there is: the retry loop neither repeats a batch it
\* could not send nor skips one (batch_stream.rs: send_while_active, poll).
offered == IF worker.message = Nothing THEN <<>> ELSE <<worker.message>>

sent == received \o channel \o offered

run(n) == [k \in 1..n |-> k]

FlowExact ==
    status = "active" =>
        \/ \E n \in 0..Total : sent \in {run(n), Append(run(n), Failed)}
        \/ sent = Append(run(Total), Complete)

\* The stream implements PullStream: batches in order and at most once,
\* "complete" only after the last of them, nothing after a terminal answer.
verdict ==
    CASE status = "active" -> "open"
      [] status = "complete" -> IF failed THEN "failed" ELSE "complete"
      [] status = "cancelled" -> "cancelled"
      [] status = "dropped" -> "closed"

Promise == INSTANCE PullStream

ImplementsPull == Promise!PullSpec

\* A cancelled or abandoned stream gets rid of its worker, even one facing a
\* channel that nobody will ever empty (batch_stream.rs: the reason given for
\* send_while_active).
WorkerStops == cancelled ~> worker.pc = "gone"

\* Whoever keeps polling is told how the stream ended, even when the worker
\* panicked without a word.
PollingEnds ==
    (\A t \in Threads : []<><<Poll(t)>>_vars) => <>(status # "active")

================================================================================
