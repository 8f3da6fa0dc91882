--------------------------- MODULE BatchStreamProofs ---------------------------
(***************************************************************************)
(* Proofs about BatchStream for any number of callers and batches and any  *)
(* capacity of the channel.                                                *)
(*                                                                         *)
(* FlowExact is about the concatenation of three sequences.  The inductive *)
(* invariant says the same message by message: what stands where in the    *)
(* channel (InOrder) and how far the worker is (WorkerInStep), so that a   *)
(* send and a receive each disturb one message.  RunOf leads back to       *)
(* FlowExact.  The refinement of PullStream uses the same facts about the  *)
(* head of the channel, and Held: a command under way keeps the stream     *)
(* from being dropped.                                                     *)
(***************************************************************************)
EXTENDS BatchStream, SequenceTheorems, TLAPS

\* The batches taken from the channel or waiting in it.
count == Len(received) + Len(channel)

\* What the channel of an active stream holds at place i: the next batch in
\* order or, last and from a worker that is gone, a terminal message.
InOrder(i) ==
    \/ channel[i] = Len(received) + i
    \/ /\ i = Len(channel) /\ worker.pc = "gone"
       /\ \/ channel[i] = Failed
          \/ channel[i] = Complete /\ count = Total + 1

\* Where the worker of an active stream is in the query.
WorkerInStep ==
    /\ worker.pc = "computing" => worker.next = count + 1
    /\ worker.pc = "ended" => count = Total
    /\ worker.message \in Batches => worker.message = count + 1
    /\ worker.message = Complete => count = Total

\* The batches received are the first ones, and while the stream is active the
\* channel and the worker carry on where they end.
Flow ==
    /\ \A i \in 1..Len(received) : received[i] = i
    /\ worker.message # Nothing <=> worker.pc \in {"checking", "sending"}
    /\ status = "active" =>
          /\ ~cancelled
          /\ WorkerInStep
          /\ \A i \in 1..Len(channel) : InOrder(i)

\* No command holds a stream that has no handle yet, and one is dropped only
\* when neither its handle nor a command holds it.
idle == \A t \in Threads : calls[t] = "idle"

Held ==
    /\ handle = "pending" => idle
    /\ status = "dropped" => handle = "gone" /\ idle

\* The inductive invariant.
IInv == TypeOK /\ Flow /\ Held

--------------------------------------------------------------------------------
\* Batches are numbered; the other messages are none of them.
LEMMA Distinct ==
    /\ Complete \notin Nat /\ Failed \notin Nat /\ Nothing \notin Nat
    /\ Complete # Failed /\ Nothing # Complete /\ Nothing # Failed
    /\ Batches \subseteq Nat /\ Total \in Nat
    /\ Complete \notin Batches /\ Failed \notin Batches /\ Nothing \notin Messages
  BY BatchStreamAssumption DEF Batches, Messages

\* The invariant holds when the worker is started.
LEMMA InitInvariant == Init => IInv
<1> SUFFICES ASSUME Init PROVE IInv
  OBVIOUS
<1> USE BatchStreamAssumption DEF Init, Computing
<1>1. TypeOK
  <2>1. worker \in Worker
    BY DEF Worker
  <2>2. channel \in Seq(Messages) /\ Len(channel) = 0 /\ received \in Seq(Batches)
    BY EmptySeq
  <2>3. Len(channel) <= Capacity
    BY <2>2
  <2>6. cancelled \in BOOLEAN /\ failed \in BOOLEAN
    OBVIOUS
  <2>4. calls \in [Threads -> {"idle", "poll", "cancel", "returning"}]
    OBVIOUS
  <2>5. QED
    BY <2>1, <2>2, <2>3, <2>4, <2>6 DEF TypeOK
<1>2. Flow
  BY DEF Flow, WorkerInStep, InOrder, count, Batches
<1>3. Held
  BY DEF Held, idle
<1>4. QED
  BY <1>1, <1>2, <1>3 DEF IInv

\* The worker moves on without touching the channel.
WorkerMoves(w) ==
    /\ worker' = w
    /\ UNCHANGED <<channel, cancelled, status, handle, calls, received, failed>>

\* A move of the worker that sends nothing keeps the invariant if it keeps the
\* worker in step with the channel.
LEMMA WorkerMovesStep ==
    ASSUME IInv, NEW w \in Worker, WorkerMoves(w), worker.pc # "gone",
           w.message # Nothing <=> w.pc \in {"checking", "sending"},
           status = "active" =>
              /\ w.pc = "computing" => w.next = count + 1
              /\ w.pc = "ended" => count = Total
              /\ w.message \in Batches => w.message = count + 1
              /\ w.message = Complete => count = Total
    PROVE  IInv'
<1>1. TypeOK'
  BY DEF IInv, TypeOK, WorkerMoves
<1>2. Flow'
  BY DEF IInv, Flow, WorkerInStep, InOrder, count, WorkerMoves
<1>3. Held'
  BY DEF IInv, Held, idle, WorkerMoves
<1>4. QED
  BY <1>1, <1>2, <1>3 DEF IInv

\* The next batch handed to send_while_active is the one due.
LEMMA ProduceStep ==
    ASSUME IInv, Produce
    PROVE  IInv'
<1>1. PICK w : w = Offering(worker.next)
  OBVIOUS
<1>2. worker.pc = "computing" /\ worker.next <= Total /\ WorkerMoves(w)
  BY <1>1 DEF Produce, WorkerMoves
<1>3. /\ w \in Worker /\ w.pc = "checking" /\ w.message = worker.next
      /\ w.message \in Batches
  <2>1. worker \in Worker /\ worker.next \in Batches
    BY <1>2, BatchStreamAssumption DEF IInv, TypeOK, Worker, Batches
  <2>2. QED
    BY <1>1, <2>1 DEF Worker, Offering, Messages
<1>4. w.message # Nothing /\ w.message # Complete
  BY <1>3, Distinct
<1>5. status = "active" => w.message = count + 1
  BY <1>2, <1>3 DEF IInv, Flow, WorkerInStep
<1>6. QED
  BY <1>2, <1>3, <1>4, <1>5, WorkerMovesStep

\* What the worker holds after a message was accepted or refused.
LEMMA Answered ==
    ASSUME IInv, worker.pc \in {"checking", "sending"}
    PROVE  /\ accepted \in Worker /\ refused \in Worker
           /\ worker.message \in Messages
           /\ accepted.message = Nothing /\ refused.message = Nothing
           /\ accepted.pc \in {"computing", "gone"}
           /\ refused.pc \in {"computing", "gone"}
           /\ worker.message \in Batches =>
                 accepted.pc = "computing" /\ accepted.next = worker.message + 1
           /\ worker.message \notin Batches => accepted.pc = "gone"
  BY BatchStreamAssumption DEF IInv, TypeOK, Flow, accepted, refused, Worker, Computing,
                               Gone, Messages, Batches

\* Looking at the flag keeps the invariant: a stream that is active is not
\* cancelled, so no batch of it is refused.
LEMMA CheckStep ==
    ASSUME IInv, Check
    PROVE  IInv'
<1>1. worker.pc = "checking"
  BY DEF Check
<1>2. CASE cancelled
  <2>1. WorkerMoves(refused)
    BY <1>2 DEF Check, WorkerMoves
  <2>2. status # "active"
    BY <1>2 DEF IInv, Flow
  <2>3. QED
    BY <1>1, <2>1, <2>2, Answered, WorkerMovesStep
<1>3. CASE ~cancelled
  <2>1. PICK w : w = [worker EXCEPT !.pc = "sending"]
    OBVIOUS
  <2>2. WorkerMoves(w)
    BY <1>3, <2>1 DEF Check, WorkerMoves
  <2>3. w \in Worker /\ w.pc = "sending" /\ w.message = worker.message
    BY <2>1 DEF IInv, TypeOK, Worker
  <2>4. w.message # Nothing
    BY <1>1, <2>3 DEF IInv, Flow
  <2>5. status = "active" =>
           /\ w.message \in Batches => w.message = count + 1
           /\ w.message = Complete => count = Total
    BY <2>3 DEF IInv, Flow, WorkerInStep
  <2>6. QED
    BY <1>1, <2>2, <2>3, <2>4, <2>5, WorkerMovesStep
<1>4. QED
  BY <1>2, <1>3

\* try_send keeps the invariant in each of its outcomes: the message joins the
\* channel at its end, or is kept for a retry, or the stream is gone.
LEMMA TrySendStep ==
    ASSUME IInv, TrySend
    PROVE  IInv'
<1>0. worker.pc = "sending"
  BY DEF TrySend
<1>1. CASE status = "dropped"
  <2>1. WorkerMoves(refused)
    BY <1>1 DEF TrySend, WorkerMoves
  <2>2. QED
    BY <1>0, <1>1, <2>1, Answered, WorkerMovesStep
<1>2. CASE status # "dropped" /\ Len(channel) >= Capacity
  <2>1. PICK w : w = [worker EXCEPT !.pc = "checking"]
    OBVIOUS
  <2>2. WorkerMoves(w)
    <3>1. ~(Len(channel) < Capacity)
      BY <1>2, BatchStreamAssumption DEF IInv, TypeOK
    <3>2. QED
      BY <1>2, <2>1, <3>1 DEF TrySend, WorkerMoves
  <2>3. w \in Worker /\ w.pc = "checking" /\ w.message = worker.message
    BY <2>1 DEF IInv, TypeOK, Worker
  <2>4. w.message # Nothing
    BY <1>0, <2>3 DEF IInv, Flow
  <2>5. status = "active" =>
           /\ w.message \in Batches => w.message = count + 1
           /\ w.message = Complete => count = Total
    BY <2>3 DEF IInv, Flow, WorkerInStep
  <2>6. QED
    BY <1>0, <2>2, <2>3, <2>4, <2>5, WorkerMovesStep
<1>3. CASE /\ status # "dropped" /\ Len(channel) < Capacity
           /\ worker' = accepted /\ channel' = Append(channel, worker.message)
  <2>1. UNCHANGED <<cancelled, status, handle, calls, received, failed>>
    BY DEF TrySend
  <2>2. /\ accepted \in Worker /\ accepted.message = Nothing
        /\ worker.message \in Messages
        /\ accepted.pc \in {"computing", "gone"}
        /\ worker.message \in Batches =>
              accepted.pc = "computing" /\ accepted.next = worker.message + 1
        /\ worker.message \notin Batches => accepted.pc = "gone"
    BY <1>0, Answered
  <2>3. /\ channel \in Seq(Messages) /\ channel' \in Seq(Messages)
        /\ Len(channel) \in Nat
        /\ Len(channel') = Len(channel) + 1
        /\ \A i \in 1..Len(channel) : channel'[i] = channel[i]
        /\ channel'[Len(channel) + 1] = worker.message
    BY <1>3, <2>2, AppendProperties DEF IInv, TypeOK
  <2>4. TypeOK'
    BY <1>3, <2>1, <2>2, <2>3, BatchStreamAssumption DEF IInv, TypeOK
  <2>5. /\ \A i \in 1..Len(received') : received'[i] = i
        /\ worker'.message # Nothing <=> worker'.pc \in {"checking", "sending"}
    BY <1>3, <2>1, <2>2 DEF IInv, Flow
  <2>6. ASSUME status = "active"
        PROVE  /\ ~cancelled'
               /\ WorkerInStep'
               /\ \A i \in 1..Len(channel') : InOrder(i)'
    <3>1. /\ ~cancelled'
          /\ worker.message \in Batches => worker.message = count + 1
          /\ worker.message = Complete => count = Total
      BY <2>1, <2>6 DEF IInv, Flow, WorkerInStep
    <3>2. count \in Nat /\ count' = count + 1 /\ Len(received) \in Nat
      BY <2>1, <2>3, LenProperties DEF IInv, TypeOK, count
    <3>3. WorkerInStep'
      BY <1>3, <2>2, <3>1, <3>2, BatchStreamAssumption DEF WorkerInStep, Batches
    <3>4. ASSUME NEW i \in 1..Len(channel)
          PROVE  InOrder(i)'
      <4>1. channel[i] = Len(received) + i
        BY <1>0, <2>6 DEF IInv, Flow, InOrder
      <4>2. QED
        BY <2>1, <2>3, <4>1 DEF InOrder
    <3>5. ASSUME NEW i, i = Len(channel) + 1
          PROVE  InOrder(i)'
      <4>1. CASE worker.message \in Batches
        BY <2>1, <2>3, <3>1, <3>2, <3>5, <4>1 DEF InOrder, count
      <4>2. CASE worker.message \in {Complete, Failed}
        <5>1. worker.message \notin Batches
          BY <4>2, BatchStreamAssumption DEF Batches
        <5>2. QED
          <6>1. worker'.pc = "gone" /\ channel'[Len(channel) + 1] \in {Complete, Failed}
            BY <1>3, <2>2, <2>3, <4>2, <5>1
          <6>2. channel'[Len(channel) + 1] = Complete => count' = Total + 1
            BY <2>3, <3>1, <3>2
          <6>3. QED
            BY <2>3, <3>5, <6>1, <6>2 DEF InOrder
      <4>3. QED
        BY <2>2, <4>1, <4>2 DEF Messages
    <3>6. \A i \in 1..Len(channel') : InOrder(i)'
      <4> SUFFICES ASSUME NEW i \in 1..Len(channel') PROVE InOrder(i)'
        OBVIOUS
      <4>1. i \in 1..Len(channel) \/ i = Len(channel) + 1
        BY <2>3
      <4>2. QED
        BY <3>4, <3>5, <4>1
    <3>7. QED
      BY <3>1, <3>3, <3>6
  <2>7. Flow'
    BY <2>1, <2>5, <2>6 DEF Flow
  <2>8. Held'
    BY <2>1 DEF IInv, Held, idle
  <2>9. QED
    BY <2>4, <2>7, <2>8 DEF IInv
<1>4. QED
  BY <1>1, <1>2, <1>3 DEF TrySend

\* Polars returning Ok on an active stream means that all batches were sent.
LEMMA CollectEndsStep ==
    ASSUME IInv, CollectEnds
    PROVE  IInv'
<1>1. PICK w : w = [worker EXCEPT !.pc = "ended"]
  OBVIOUS
<1>2. worker.pc = "computing" /\ worker.next > Total /\ WorkerMoves(w)
  BY <1>1 DEF CollectEnds, WorkerMoves
<1>3. w \in Worker /\ w.pc = "ended" /\ w.message = Nothing
  BY <1>1, <1>2 DEF IInv, TypeOK, Worker, Flow
<1>4. status = "active" => count = Total
  <2>1. worker.next = Total + 1
    BY <1>2, BatchStreamAssumption DEF IInv, TypeOK, Worker
  <2>2. count \in Nat
    BY LenProperties DEF IInv, TypeOK, count
  <2>3. QED
    BY <1>2, <2>1, <2>2, BatchStreamAssumption DEF IInv, Flow, WorkerInStep
<1>5. Nothing \notin Batches /\ Nothing # Complete
  BY BatchStreamAssumption DEF Batches
<1>6. QED
  BY <1>2, <1>3, <1>4, <1>5, WorkerMovesStep

\* The shapes of the worker outside the batches.
LEMMA WorkerShapes ==
    ASSUME IInv
    PROVE  /\ Gone \in Worker /\ Gone.pc = "gone" /\ Gone.message = Nothing
           /\ \A m \in {Complete, Failed} :
                 /\ Offering(m) \in Worker
                 /\ Offering(m).pc = "checking" /\ Offering(m).message = m
<1>1. Gone \in Worker /\ Gone.pc = "gone" /\ Gone.message = Nothing
  BY BatchStreamAssumption DEF Worker, Gone, Computing
<1>2. worker \in Worker
  BY DEF IInv, TypeOK
<1>3. ASSUME NEW m \in {Complete, Failed}
      PROVE  /\ Offering(m) \in Worker
             /\ Offering(m).pc = "checking" /\ Offering(m).message = m
  BY <1>2 DEF Worker, Offering, Messages
<1>4. QED
  BY <1>1, <1>3

\* The Complete message of an uncancelled stream comes after all its batches.
LEMMA ConcludeStep ==
    ASSUME IInv, Conclude
    PROVE  IInv'
<1>1. PICK w : w = IF cancelled THEN Gone ELSE Offering(Complete)
  OBVIOUS
<1>2. worker.pc = "ended" /\ WorkerMoves(w)
  BY <1>1 DEF Conclude, WorkerMoves
<1>3. /\ w \in Worker
      /\ \/ w.pc = "gone" /\ w.message = Nothing
         \/ w.pc = "checking" /\ w.message = Complete
  BY <1>1, WorkerShapes
<1>4. status = "active" => count = Total
  BY <1>2 DEF IInv, Flow, WorkerInStep
<1>5. Nothing # Complete /\ Nothing \notin Batches /\ Complete \notin Batches
  BY Distinct
<1>6. QED
  BY <1>2, <1>3, <1>4, <1>5, WorkerMovesStep

\* An error or a panic of the query keeps the invariant.
LEMMA CollectFailsStep ==
    ASSUME IInv, CollectFails
    PROVE  IInv'
<1>1. PICK w \in {Offering(Failed), Gone} : worker' = w
  BY DEF CollectFails
<1>2. worker.pc = "computing" /\ WorkerMoves(w)
  BY <1>1 DEF CollectFails, WorkerMoves
<1>3. /\ w \in Worker
      /\ \/ w.pc = "gone" /\ w.message = Nothing
         \/ w.pc = "checking" /\ w.message = Failed
  BY <1>1, WorkerShapes
<1>4. /\ Nothing # Complete /\ Nothing # Failed /\ Failed # Complete
      /\ Nothing \notin Batches /\ Failed \notin Batches
  BY Distinct
<1>5. QED
  BY <1>2, <1>3, <1>4, WorkerMovesStep

\* Neither the worker nor the batches are touched, and the stream is over.
OverStep ==
    /\ UNCHANGED <<worker, received>>
    /\ status' # "active"

\* Once the stream is over nothing more is asked of the flow.
LEMMA OverFlow ==
    ASSUME IInv, OverStep
    PROVE  Flow'
  BY DEF IInv, Flow, OverStep

\* A step of the handles and the commands only.
LEMMA QuietFlow ==
    ASSUME IInv, UNCHANGED <<worker, channel, cancelled, status, received>>
    PROVE  Flow'
  BY DEF IInv, Flow, WorkerInStep, InOrder, count

\* registry::insert, with or without room for the stream, keeps the invariant.
LEMMA InsertStreamStep ==
    ASSUME IInv, InsertStream
    PROVE  IInv'
<1>1. handle = "pending" /\ UNCHANGED <<worker, calls, received, failed>>
  BY DEF InsertStream
<1>2. CASE handle' = "live" /\ UNCHANGED <<channel, cancelled, status>>
  <2>1. Flow'
    BY <1>1, <1>2, QuietFlow
  <2>2. TypeOK' /\ Held'
    BY <1>1, <1>2 DEF IInv, TypeOK, Held, idle
  <2>3. QED
    BY <2>1, <2>2 DEF IInv
<1>3. CASE handle' = "gone" /\ drop
  <2>1. Flow'
    BY <1>1, <1>3, OverFlow DEF OverStep, drop
  <2>2. TypeOK' /\ Held'
    BY <1>1, <1>3, BatchStreamAssumption DEF IInv, TypeOK, Held, idle, drop
  <2>3. QED
    BY <2>1, <2>2 DEF IInv
<1>4. QED
  BY <1>1, <1>2, <1>3 DEF InsertStream

\* The release of the handle keeps the invariant, whoever still holds the
\* stream.
LEMMA ReleaseStep ==
    ASSUME IInv, Release
    PROVE  IInv'
<1>1. /\ handle = "live" /\ handle' = "gone"
      /\ UNCHANGED <<worker, calls, received, failed>>
  BY DEF Release
<1>2. CASE idle /\ drop
  <2>1. Flow'
    BY <1>1, <1>2, OverFlow DEF OverStep, drop
  <2>2. TypeOK' /\ Held'
    BY <1>1, <1>2, BatchStreamAssumption DEF IInv, TypeOK, Held, idle, drop
  <2>3. QED
    BY <2>1, <2>2 DEF IInv
<1>3. CASE UNCHANGED <<channel, cancelled, status>>
  <2>1. Flow'
    BY <1>1, <1>3, QuietFlow
  <2>2. TypeOK' /\ Held'
    BY <1>1, <1>3 DEF IInv, TypeOK, Held, idle
  <2>3. QED
    BY <2>1, <2>2 DEF IInv
<1>4. QED
  BY <1>2, <1>3 DEF Release, idle

\* A command cloning the stream's Arc keeps the invariant.
LEMMA LookupStep ==
    ASSUME IInv, NEW t \in Threads, NEW command \in {"poll", "cancel"},
           Lookup(t, command)
    PROVE  IInv'
<1>1. /\ handle = "live" /\ calls' = [calls EXCEPT ![t] = command]
      /\ UNCHANGED <<worker, channel, cancelled, status, handle, received, failed>>
  BY DEF Lookup, native
<1>2. Flow'
  BY <1>1, QuietFlow
<1>3. TypeOK' /\ Held'
  BY <1>1 DEF IInv, TypeOK, Held, idle
<1>4. QED
  BY <1>2, <1>3 DEF IInv

\* The end of a command, which may drop the stream, keeps the invariant.
LEMMA ReturnStep ==
    ASSUME IInv, NEW t \in Threads, Return(t)
    PROVE  IInv'
<1>1. /\ calls[t] = "returning" /\ calls' = [calls EXCEPT ![t] = "idle"]
      /\ UNCHANGED <<worker, handle, received, failed>>
  BY DEF Return
<1>2. CASE handle = "gone" /\ (\A u \in Threads \ {t} : calls[u] = "idle") /\ drop
  <2>1. Flow'
    BY <1>1, <1>2, OverFlow DEF OverStep, drop
  <2>2. TypeOK' /\ Held'
    BY <1>1, <1>2, BatchStreamAssumption DEF IInv, TypeOK, Held, idle, drop
  <2>3. QED
    BY <2>1, <2>2 DEF IInv
<1>3. CASE UNCHANGED <<channel, cancelled, status>>
  <2>1. Flow'
    BY <1>1, <1>3, QuietFlow
  <2>2. TypeOK' /\ Held'
    BY <1>1, <1>3 DEF IInv, TypeOK, Held, idle
  <2>3. QED
    BY <2>1, <2>2 DEF IInv
<1>4. QED
  BY <1>2, <1>3 DEF Return

\* A caller at work keeps the stream from being dropped.
LEMMA Busy ==
    ASSUME IInv, NEW t \in Threads, calls[t] # "idle"
    PROVE  status # "dropped" /\ handle # "pending"
  BY DEF IInv, Held, idle

\* batchStreamCancel keeps the invariant.
LEMMA CancelStep ==
    ASSUME IInv, NEW t \in Threads, Cancel(t)
    PROVE  IInv'
<1>1. /\ calls[t] = "cancel" /\ calls' = [calls EXCEPT ![t] = "returning"]
      /\ cancelled' = TRUE /\ status' = "cancelled"
      /\ UNCHANGED <<worker, channel, handle, received, failed>>
  BY DEF Cancel
<1>2. Flow'
  BY <1>1, OverFlow DEF OverStep
<1>3. TypeOK' /\ Held'
  BY <1>1, Busy DEF IInv, TypeOK, Held
<1>4. QED
  BY <1>2, <1>3 DEF IInv

\* The first message of an active stream.
LEMMA HeadFacts ==
    ASSUME IInv, status = "active", channel # <<>>
    PROVE  /\ Head(channel) \in Messages
           /\ Tail(channel) \in Seq(Messages)
           /\ Len(received) \in Nat /\ Len(channel) \in Nat \ {0}
           /\ Len(Tail(channel)) = Len(channel) - 1
           /\ \A i \in 1..Len(Tail(channel)) : Tail(channel)[i] = channel[i + 1]
           /\ Head(channel) \in Batches => Head(channel) = Len(received) + 1
           /\ Head(channel) = Complete => Len(received) = Total
<1>1. channel \in Seq(Messages) /\ received \in Seq(Batches)
  BY DEF IInv, TypeOK
<1>2. /\ Head(channel) \in Messages
      /\ Tail(channel) \in Seq(Messages)
      /\ Len(received) \in Nat /\ Len(channel) \in Nat \ {0}
      /\ Len(Tail(channel)) = Len(channel) - 1
      /\ \A i \in 1..Len(Tail(channel)) : Tail(channel)[i] = channel[i + 1]
      /\ Head(channel) = channel[1]
  BY <1>1, HeadTailProperties, LenProperties
<1>3. InOrder(1)
  BY <1>2 DEF IInv, Flow
<1>4. /\ Head(channel) \in Batches => Head(channel) = Len(received) + 1
      /\ Head(channel) = Complete => Len(received) = Total
  <2>1. \/ channel[1] = Len(received) + 1
        \/ channel[1] = Failed
        \/ /\ channel[1] = Complete /\ Len(channel) = 1
           /\ Len(received) + Len(channel) = Total + 1
    BY <1>3 DEF InOrder, count
  <2>2. Len(received) + 1 \in Nat
    BY <1>2
  <2>3. CASE channel[1] = Complete /\ Len(received) + Len(channel) = Total + 1
             /\ Len(channel) = 1
    BY <1>2, <2>3, Distinct
  <2>4. CASE channel[1] = Failed
    BY <1>2, <2>4, Distinct
  <2>5. CASE channel[1] = Len(received) + 1
    BY <1>2, <2>2, <2>5, Distinct
  <2>6. QED
    BY <2>1, <2>3, <2>4, <2>5
<1>5. QED
  BY <1>2, <1>4

\* Poll, under the lock of an active stream.
LEMMA TakeBatchStep ==
    ASSUME IInv, status = "active", TakeBatch,
           UNCHANGED <<worker, cancelled, handle>>
    PROVE  /\ Flow'
           /\ channel' \in Seq(Messages) /\ Len(channel') <= Capacity
           /\ received' \in Seq(Batches)
<1>1. /\ channel # <<>> /\ Head(channel) \in Batches
      /\ channel' = Tail(channel)
      /\ received' = Append(received, Head(channel))
      /\ UNCHANGED <<status, failed>>
  BY DEF TakeBatch
<1>2. /\ channel' \in Seq(Messages)
      /\ Len(received) \in Nat /\ Len(channel) \in Nat \ {0}
      /\ Len(channel') = Len(channel) - 1
      /\ \A i \in 1..Len(channel') : channel'[i] = channel[i + 1]
      /\ Head(channel) = Len(received) + 1
  BY <1>1, HeadFacts
<1>3. /\ received' \in Seq(Batches)
      /\ Len(received') = Len(received) + 1
      /\ \A i \in 1..Len(received) : received'[i] = received[i]
      /\ received'[Len(received) + 1] = Len(received) + 1
  BY <1>1, <1>2, AppendProperties DEF IInv, TypeOK
<1>4. count' = count /\ count \in Nat
  BY <1>2, <1>3 DEF count
<1>5. \A i \in 1..Len(received') : received'[i] = i
  <2> SUFFICES ASSUME NEW i \in 1..Len(received') PROVE received'[i] = i
    OBVIOUS
  <2>1. CASE i = Len(received) + 1
    BY <1>3, <2>1
  <2>2. CASE i # Len(received) + 1
    <3>1. i \in 1..Len(received)
      BY <1>2, <1>3, <2>2
    <3>2. QED
      BY <1>3, <3>1 DEF IInv, Flow
  <2>3. QED
    BY <2>1, <2>2
<1>6. WorkerInStep'
  BY <1>4 DEF IInv, Flow, WorkerInStep
<1>7. ASSUME NEW i \in 1..Len(channel')
      PROVE  InOrder(i)'
  <2>1. i + 1 \in 1..Len(channel) /\ channel'[i] = channel[i + 1]
    BY <1>2
  <2>2. InOrder(i + 1)
    BY <2>1 DEF IInv, Flow
  <2>3. QED
    BY <1>2, <1>3, <1>4, <2>1, <2>2 DEF InOrder
<1>8. Flow'
  BY <1>1, <1>5, <1>6, <1>7 DEF IInv, Flow
<1>9. Len(channel') <= Capacity
  BY <1>2, BatchStreamAssumption DEF IInv, TypeOK
<1>10. QED
  BY <1>2, <1>3, <1>8, <1>9

\* batchStreamPoll keeps the invariant whatever it finds in the channel.
LEMMA PollStep ==
    ASSUME IInv, NEW t \in Threads, Poll(t)
    PROVE  IInv'
<1>1. /\ calls[t] = "poll" /\ calls' = [calls EXCEPT ![t] = "returning"]
      /\ UNCHANGED <<worker, cancelled, handle>>
  BY DEF Poll
<1>2. status # "dropped" /\ handle # "pending"
  BY <1>1, Busy
<1>3. CASE UNCHANGED <<channel, status, received, failed>>
  <2>1. Flow'
    BY <1>1, <1>3, QuietFlow
  <2>2. TypeOK' /\ Held'
    BY <1>1, <1>2, <1>3 DEF IInv, TypeOK, Held
  <2>3. QED
    BY <2>1, <2>2 DEF IInv
<1>4. CASE status = "active" /\ TakeBatch
  <2>1. /\ Flow'
        /\ channel' \in Seq(Messages) /\ Len(channel') <= Capacity
        /\ received' \in Seq(Batches)
    BY <1>1, <1>4, TakeBatchStep
  <2>2. TypeOK' /\ Held'
    BY <1>1, <1>2, <1>4, <2>1 DEF IInv, TypeOK, Held, TakeBatch
  <2>3. QED
    BY <2>1, <2>2 DEF IInv
<1>5. CASE status = "active" /\ TakeVerdict
  <2>1. Flow'
    BY <1>1, <1>5, OverFlow DEF TakeVerdict, OverStep
  <2>2. channel' \in Seq(Messages) /\ Len(channel') <= Capacity
    <3>1. /\ channel' \in Seq(Messages) /\ Len(channel) \in Nat
          /\ Len(channel') = Len(channel) - 1
      BY <1>5, HeadFacts DEF TakeVerdict
    <3>2. QED
      BY <3>1, BatchStreamAssumption DEF IInv, TypeOK
  <2>3. TypeOK' /\ Held'
    BY <1>1, <1>2, <1>5, <2>2 DEF IInv, TypeOK, Held, TakeVerdict
  <2>4. QED
    BY <2>1, <2>3 DEF IInv
<1>6. CASE status = "active" /\ FindDisconnected
  <2>1. Flow'
    BY <1>1, <1>6, OverFlow DEF FindDisconnected, OverStep
  <2>2. TypeOK' /\ Held'
    BY <1>1, <1>2, <1>6 DEF IInv, TypeOK, Held, FindDisconnected
  <2>3. QED
    BY <2>1, <2>2 DEF IInv
<1>7. QED
  BY <1>3, <1>4, <1>5, <1>6 DEF Poll, FindEmpty

--------------------------------------------------------------------------------
(* The invariant *)

\* Every step of the worker, the callers and the handle keeps the invariant.
LEMMA StepInvariant == IInv /\ [Next]_vars => IInv'
<1> SUFFICES ASSUME IInv, [Next]_vars PROVE IInv'
  OBVIOUS
<1>1. CASE WorkerStep
  BY <1>1, ProduceStep, CheckStep, TrySendStep, CollectEndsStep, ConcludeStep,
     CollectFailsStep DEF WorkerStep
<1>2. CASE InsertStream \/ Release
  BY <1>2, InsertStreamStep, ReleaseStep
<1>3. ASSUME NEW t \in Threads, NEW command \in {"poll", "cancel"},
             Lookup(t, command)
      PROVE  IInv'
  BY <1>3, LookupStep
<1>4. ASSUME NEW t \in Threads, Proceed(t) PROVE IInv'
  BY <1>4, PollStep, CancelStep, ReturnStep DEF Proceed
<1>5. CASE UNCHANGED vars
  <2>1. Flow'
    BY <1>5, QuietFlow DEF vars
  <2>2. TypeOK' /\ Held'
    BY <1>5 DEF IInv, TypeOK, Held, idle, vars
  <2>3. QED
    BY <2>1, <2>2 DEF IInv
<1>6. QED
  BY <1>1, <1>2, <1>3, <1>4, <1>5 DEF Next

\* IInv is an invariant of the stream.
LEMMA Invariance == Spec => []IInv
<1>1. Init => IInv
  BY InitInvariant
<1>2. IInv /\ [Next]_vars => IInv'
  BY StepInvariant
<1>3. QED
  BY <1>1, <1>2, PTL DEF Spec

\* The state of a stream always has its type; in particular the channel never
\* exceeds the capacity asked for (batch_stream.rs: sync_channel).
THEOREM TypeCorrect == Spec => []TypeOK
<1>1. IInv => TypeOK
  BY DEF IInv
<1>2. QED
  BY <1>1, Invariance, PTL

--------------------------------------------------------------------------------
(* The flow of batches as one sequence *)

\* The batches 1..n in order.
LEMMA RunFacts ==
    ASSUME NEW n \in 0..Total
    PROVE  /\ run(n) \in Seq(Messages) /\ Len(run(n)) = n
           /\ \A i \in 1..n : run(n)[i] = i
<1>1. Total \in Nat
  BY Distinct
<1>2. run(n) \in [1..n -> Messages]
  BY <1>1 DEF run, Messages, Batches
<1>3. run(n) \in Seq(Messages) /\ Len(run(n)) = n
  BY <1>1, <1>2
<1>4. QED
  BY <1>3 DEF run

\* A sequence of messages whose first n members are the batches in order.
LEMMA RunOf ==
    ASSUME NEW s \in Seq(Messages), NEW n \in Nat, \A i \in 1..n : s[i] = i
    PROVE  /\ Len(s) = n => n \in 0..Total /\ s = run(n)
           /\ Len(s) = n + 1 => n \in 0..Total /\ s = Append(run(n), s[n + 1])
<1>1. Total \in Nat
  BY Distinct
<1>2. Len(s) \in Nat /\ \A i \in 1..Len(s) : s[i] \in Messages
  BY LenProperties, ElementOfSeq
<1>3. Len(s) \in {n, n + 1} => n \in 0..Total
  <2>1. CASE n = 0
    BY <1>1, <2>1
  <2>2. CASE n # 0 /\ Len(s) \in {n, n + 1}
    <3>1. n \in Messages
      BY <1>2, <2>2
    <3>2. QED
      BY <1>1, <3>1, Distinct DEF Messages, Batches
  <2>3. QED
    BY <2>1, <2>2
<1>4. ASSUME Len(s) = n PROVE s = run(n)
  <2>1. /\ run(n) \in Seq(Messages) /\ Len(run(n)) = n
        /\ \A i \in 1..n : run(n)[i] = i
    BY <1>3, <1>4, RunFacts
  <2>2. QED
    BY <1>4, <2>1, SeqEqual
<1>5. ASSUME Len(s) = n + 1 PROVE s = Append(run(n), s[n + 1])
  <2>1. /\ run(n) \in Seq(Messages) /\ Len(run(n)) = n
        /\ \A i \in 1..n : run(n)[i] = i
    BY <1>3, <1>5, RunFacts
  <2>2. s[n + 1] \in Messages
    BY <1>2, <1>5
  <2>3. /\ Append(run(n), s[n + 1]) \in Seq(Messages)
        /\ Len(Append(run(n), s[n + 1])) = n + 1
        /\ \A i \in 1..n : Append(run(n), s[n + 1])[i] = i
        /\ Append(run(n), s[n + 1])[n + 1] = s[n + 1]
    BY <2>1, <2>2, AppendProperties
  <2>4. \A i \in 1..Len(s) : s[i] = Append(run(n), s[n + 1])[i]
    <3> SUFFICES ASSUME NEW i \in 1..Len(s)
                 PROVE  s[i] = Append(run(n), s[n + 1])[i]
      OBVIOUS
    <3>1. i \in 1..n \/ i = n + 1
      BY <1>5
    <3>2. QED
      BY <2>3, <3>1
  <2>5. QED
    BY <1>5, <2>3, <2>4, SeqEqual
<1>6. QED
  BY <1>3, <1>4, <1>5

\* While a stream is active its received, buffered and offered batches are the
\* query's batches in order, each once, with a terminal message only at the end
\* (batch_stream.rs: send_while_active, poll).
THEOREM FlowCorrect == Spec => []FlowExact
<1>1. ASSUME IInv PROVE FlowExact
  <2> SUFFICES ASSUME status = "active"
               PROVE  \/ \E n \in 0..Total : sent \in {run(n), Append(run(n), Failed)}
                      \/ sent = Append(run(Total), Complete)
    BY DEF FlowExact
  <2>1. PICK flow : flow = received \o channel
    OBVIOUS
  <2>2. received \in Seq(Messages) /\ channel \in Seq(Messages)
    <3>1. Batches \subseteq Messages /\ received \in Seq(Batches)
      BY <1>1 DEF IInv, TypeOK, Messages
    <3>2. QED
      BY <1>1, <3>1, SeqMonotonic DEF IInv, TypeOK
  <2>3. /\ flow \in Seq(Messages) /\ Len(flow) = count
        /\ Len(received) \in Nat /\ Len(channel) \in Nat /\ count \in Nat
        /\ \A i \in 1..count : flow[i] = IF i <= Len(received) THEN received[i]
                                         ELSE channel[i - Len(received)]
    BY <2>1, <2>2, ConcatProperties, LenProperties DEF count
  <2>4. ASSUME NEW i \in 1..count
        PROVE  \/ flow[i] = i
               \/ /\ i = count /\ worker.pc = "gone"
                  /\ \/ flow[i] = Failed
                     \/ flow[i] = Complete /\ count = Total + 1
    <3>1. CASE i <= Len(received)
      BY <1>1, <2>3, <3>1 DEF IInv, Flow
    <3>2. CASE i > Len(received)
      <4>1. PICK k \in 1..Len(channel) : i = Len(received) + k
        <5>1. i - Len(received) \in 1..Len(channel)
          BY <2>3, <3>2 DEF count
        <5>2. i = Len(received) + (i - Len(received))
          BY <2>3
        <5>3. QED
          BY <5>1, <5>2
      <4>2. InOrder(k)
        BY <1>1, <4>1 DEF IInv, Flow
      <4>3. flow[i] = channel[k]
        <5>1. i - Len(received) = k
          BY <2>3, <4>1
        <5>2. ~(i <= Len(received))
          BY <2>3, <3>2
        <5>3. QED
          BY <2>3, <5>1, <5>2
      <4>4. k = Len(channel) => i = count
        BY <4>1 DEF count
      <4>5. QED
        BY <4>1, <4>2, <4>3, <4>4 DEF InOrder
    <3>3. QED
      BY <2>3, <3>1, <3>2
  <2>5. /\ worker.message = Nothing => sent = flow
        /\ worker.message # Nothing => sent = Append(flow, worker.message)
    BY <1>1, <2>1, <2>3, ConcatEmptySeq, AppendIsConcat
       DEF sent, offered, IInv, TypeOK, Worker
  <2>6. CASE worker.message # Nothing
    <3>1. /\ worker.pc # "gone" /\ worker.message \in Messages
          /\ worker.message \in Batches => worker.message = count + 1
          /\ worker.message = Complete => count = Total
      BY <1>1, <2>6 DEF IInv, TypeOK, Worker, Flow, WorkerInStep
    <3>2. \A i \in 1..count : flow[i] = i
      BY <2>4, <3>1
    <3>3. count \in 0..Total /\ flow = run(count)
      BY <2>3, <3>2, RunOf
    <3>4. CASE worker.message = Failed
      BY <2>5, <2>6, <3>3, <3>4
    <3>5. CASE worker.message = Complete
      BY <2>5, <2>6, <3>1, <3>3, <3>5
    <3>6. CASE worker.message \in Batches
      <4>1. /\ sent \in Seq(Messages) /\ Len(sent) = count + 1
            /\ \A i \in 1..count : sent[i] = flow[i]
            /\ sent[count + 1] = count + 1
        <5>1. sent = Append(flow, worker.message) /\ worker.message = count + 1
          BY <2>5, <2>6, <3>1, <3>6
        <5>2. /\ Append(flow, worker.message) \in Seq(Messages)
              /\ Len(Append(flow, worker.message)) = Len(flow) + 1
              /\ \A i \in 1..Len(flow) : Append(flow, worker.message)[i] = flow[i]
              /\ Append(flow, worker.message)[Len(flow) + 1] = worker.message
          BY <2>3, <3>1, AppendProperties
        <5>3. QED
          BY <2>3, <5>1, <5>2
      <4>2. \A i \in 1..(count + 1) : sent[i] = i
        <5> SUFFICES ASSUME NEW i \in 1..(count + 1) PROVE sent[i] = i
          OBVIOUS
        <5>1. i \in 1..count \/ i = count + 1
          BY <2>3
        <5>2. QED
          BY <3>2, <4>1, <5>1
      <4>3. count + 1 \in 0..Total /\ sent = run(count + 1)
        BY <2>3, <4>1, <4>2, RunOf
      <4>4. QED
        BY <4>3
    <3>7. QED
      BY <3>1, <3>4, <3>5, <3>6 DEF Messages
  <2>7. CASE worker.message = Nothing /\ \A i \in 1..count : flow[i] = i
    <3>1. count \in 0..Total /\ flow = run(count)
      BY <2>3, <2>7, RunOf
    <3>2. QED
      BY <2>5, <2>7, <3>1
  <2>8. CASE worker.message = Nothing /\ ~\A i \in 1..count : flow[i] = i
    <3>1. PICK m \in Nat : m + 1 = count
      <4>1. count # 0
        BY <2>3, <2>8
      <4>2. count - 1 \in Nat /\ (count - 1) + 1 = count
        BY <2>3, <4>1
      <4>3. QED
        BY <4>2
    <3>2. \A i \in 1..m : flow[i] = i
      <4> SUFFICES ASSUME NEW i \in 1..m PROVE flow[i] = i
        OBVIOUS
      <4>1. i \in 1..count /\ i # count
        BY <3>1
      <4>2. QED
        BY <2>4, <4>1
    <3>3. flow[count] = Failed \/ (flow[count] = Complete /\ count = Total + 1)
      <4>1. PICK i \in 1..count : flow[i] # i
        BY <2>8
      <4>2. /\ i = count
            /\ flow[i] = Failed \/ (flow[i] = Complete /\ count = Total + 1)
        BY <2>4, <4>1
      <4>3. QED
        BY <4>2
    <3>4. m \in 0..Total /\ flow = Append(run(m), flow[m + 1])
      BY <2>3, <3>1, <3>2, RunOf
    <3>5. CASE flow[count] = Failed
      BY <2>5, <2>8, <3>1, <3>4, <3>5
    <3>6. CASE flow[count] = Complete /\ count = Total + 1
      <4>1. m = Total
        BY <3>1, <3>6, Distinct
      <4>2. QED
        BY <2>5, <2>8, <3>1, <3>4, <3>6, <4>1
    <3>7. QED
      BY <3>3, <3>5, <3>6
  <2>9. QED
    BY <2>6, <2>7, <2>8
<1>2. QED
  BY <1>1, Invariance, PTL

--------------------------------------------------------------------------------
(* The refinement of PullStream *)

\* A new stream is an open one of which nothing was received.
LEMMA PullInitHolds == Init => Promise!PullInit
  BY DEF Init, Promise!PullInit, verdict

\* A step that touches neither the received batches nor the answer.
LEMMA Unseen ==
    ASSUME UNCHANGED <<received, status, failed>>
    PROVE  UNCHANGED <<received, verdict>>
  BY DEF verdict

\* BatchStream::drop closes the stream, if it was not closed.
LEMMA Dropping ==
    ASSUME drop, UNCHANGED received, status \in {"active", "complete", "cancelled", "dropped"}
    PROVE  Promise!Stop \/ UNCHANGED <<received, verdict>>
<1>1. CASE status = "dropped"
  BY <1>1 DEF drop, verdict
<1>2. CASE status # "dropped"
  <2>1. verdict' = "closed"
    BY DEF drop, verdict
  <2>2. verdict # "closed"
    BY <1>2 DEF verdict
  <2>3. QED
    BY <2>1, <2>2 DEF Promise!Stop
<1>3. QED
  BY <1>1, <1>2

\* A poll gives the next batch, ends the stream after the last one, fails it, or
\* changes nothing.
LEMMA PollRefines ==
    ASSUME IInv, NEW t \in Threads, Poll(t)
    PROVE  Promise!PullNext \/ UNCHANGED <<received, verdict>>
<1>1. CASE UNCHANGED <<received, status, failed>>
  BY <1>1, Unseen
<1>2. CASE status = "active" /\ TakeBatch
  <2>1. /\ channel # <<>> /\ Head(channel) \in Batches
        /\ received' = Append(received, Head(channel))
        /\ UNCHANGED <<status, failed>>
    BY <1>2 DEF TakeBatch
  <2>2. Head(channel) = Len(received) + 1 /\ Len(received) \in Nat
    BY <1>2, <2>1, HeadFacts
  <2>3. Len(received) < Total
    BY <2>1, <2>2, Distinct DEF Batches
  <2>4. verdict = "open" /\ verdict' = verdict
    BY <1>2, <2>1 DEF verdict
  <2>5. QED
    BY <2>1, <2>2, <2>3, <2>4 DEF Promise!PullNext, Promise!Give
<1>3. CASE status = "active" /\ TakeVerdict
  <2>1. /\ channel # <<>> /\ Head(channel) \in {Complete, Failed}
        /\ status' = "complete" /\ failed' = (Head(channel) = Failed)
        /\ received' = received /\ verdict = "open"
    BY <1>3 DEF TakeVerdict, verdict
  <2>2. CASE Head(channel) = Failed
    <3>1. verdict' = "failed"
      BY <2>1, <2>2 DEF verdict
    <3>2. QED
      BY <2>1, <3>1 DEF Promise!PullNext, Promise!Fail
  <2>3. CASE Head(channel) = Complete
    <3>1. verdict' = "complete"
      BY <2>1, <2>3, Distinct DEF verdict
    <3>2. Len(received) = Total
      BY <1>3, <2>1, <2>3, HeadFacts
    <3>3. QED
      BY <2>1, <3>1, <3>2 DEF Promise!PullNext, Promise!End
  <2>4. QED
    BY <2>1, <2>2, <2>3
<1>4. CASE status = "active" /\ FindDisconnected
  BY <1>4 DEF FindDisconnected, verdict, Promise!PullNext, Promise!Fail
<1>5. QED
  BY <1>1, <1>2, <1>3, <1>4 DEF Poll, FindEmpty

\* A cancellation stops the stream, which its caller keeps from being closed.
LEMMA CancelRefines ==
    ASSUME IInv, NEW t \in Threads, Cancel(t)
    PROVE  Promise!PullNext
<1>1. status # "dropped"
  BY Busy DEF Cancel
<1>2. verdict' = "cancelled" /\ received' = received
  BY DEF Cancel, verdict
<1>3. verdict # "closed"
  BY <1>1 DEF verdict, IInv, TypeOK
<1>4. QED
  BY <1>2, <1>3 DEF Promise!PullNext, Promise!Stop

\* Every step of the stream is one of PullStream or none.
LEMMA StepRefines == IInv /\ [Next]_vars => [Promise!PullNext]_<<received, verdict>>
<1> SUFFICES ASSUME IInv, [Next]_vars
             PROVE  Promise!PullNext \/ UNCHANGED <<received, verdict>>
  OBVIOUS
<1> USE DEF Promise!PullNext
<1>1. CASE WorkerStep
  BY <1>1, Unseen DEF WorkerStep, Produce, Check, TrySend, CollectEnds, Conclude,
                      CollectFails
<1>2. CASE InsertStream \/ Release
  <2>1. received' = received
    BY <1>2 DEF InsertStream, Release
  <2>2. drop \/ UNCHANGED <<received, status, failed>>
    BY <1>2 DEF InsertStream, Release
  <2>3. QED
    BY <2>1, <2>2, Unseen, Dropping DEF IInv, TypeOK
<1>3. ASSUME NEW t \in Threads, NEW command \in {"poll", "cancel"},
             Lookup(t, command)
      PROVE  UNCHANGED <<received, verdict>>
  BY <1>3, Unseen DEF Lookup, native
<1>4. ASSUME NEW t \in Threads, Proceed(t)
      PROVE  Promise!PullNext \/ UNCHANGED <<received, verdict>>
  <2>1. CASE Return(t)
    <3>1. received' = received
      BY <2>1 DEF Return
    <3>2. drop \/ UNCHANGED <<received, status, failed>>
      BY <2>1 DEF Return
    <3>3. QED
      BY <3>1, <3>2, Unseen, Dropping DEF IInv, TypeOK
  <2>2. QED
    BY <1>4, <2>1, PollRefines, CancelRefines DEF Proceed
<1>5. CASE UNCHANGED vars
  BY <1>5, Unseen DEF vars
<1>6. QED
  BY <1>1, <1>2, <1>3, <1>4, <1>5 DEF Next

\* A stream, its worker thread and its channel implement PullStream: batches in
\* order and at most once, complete only after the last, nothing after a
\* terminal answer.
THEOREM Refinement == Spec => ImplementsPull
<1>1. Init => Promise!PullInit
  BY PullInitHolds
<1>2. IInv /\ [Next]_vars => [Promise!PullNext]_<<received, verdict>>
  BY StepRefines
<1>3. QED
  BY <1>1, <1>2, Invariance, PTL DEF Spec, ImplementsPull, Promise!PullSpec, Promise!pull
================================================================================
