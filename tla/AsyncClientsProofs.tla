--------------------------- MODULE AsyncClientsProofs --------------------------
(***************************************************************************)
(* Theorems about AsyncClients, for every number of callers, batches and   *)
(* frames: what the Dart objects believe about the native query and stream *)
(* is so, and no frame is stranded or owned twice; and the query and the   *)
(* stream they drive keep the promises of Query and PullStream, so that    *)
(* each frame comes out of them in the one step that accounts for it.      *)
(***************************************************************************)
EXTENDS AsyncClients, Sequences, SequenceTheorems, FiniteSetTheorems, TLAPS

--------------------------------------------------------------------------------
(* The inductive invariant *)

Call == [op : QueryOps \cup StreamOps \cup {"none"},
         step : {"idle", "sent", "answered", "sleeping"},
         answer : Answers, frames : SUBSET Frames]

\* A caller is idle, has sent its command, sleeps between two polls of a wait,
\* or has an answer, which carries a frame only to a take or a next.
Shaped(k) ==
    /\ k.op = "none" <=> k.step = "idle"
    /\ k.step # "answered" => k.answer = "none" /\ k.frames = {}
    /\ k.step = "sleeping" => k.op = "wait"
    /\ k.frames # {} => k.op \in {"take", "next"}

Shape == \A c \in Callers : Shaped(calls[c])

\* One operation of the query at a time.
Exclusive ==
    \A c \in Callers : calls[c].op \in QueryOps =>
        /\ busy
        /\ \A d \in Callers : calls[d].op \in QueryOps => d = c

\* A handle is released when its owner is, and then no operation runs on it.
Phases ==
    /\ phase.query = "released" <=> job.state = "gone"
    /\ phase.stream = "released" <=> stream.state = "gone"
    /\ \A c \in Callers : /\ calls[c].op \in QueryOps => job.state # "gone"
                          /\ calls[c].op \in StreamOps => stream.state # "gone"

\* A result that was taken is on its way to the caller who took it.
Taker ==
    /\ job.state = "taken" => \E c \in Callers :
          calls[c].op = "take" /\ calls[c].step = "answered"
                               /\ calls[c].answer # "notReady"
    /\ \A c \in Callers : calls[c].answer # "taken"

\* Who believes that the stream has ended is right.
Ended ==
    /\ terminal => stream.state # "active"
    /\ \A c \in Callers :
          calls[c].op \in StreamOps /\ calls[c].answer \in {"complete", "cancelled"}
              => stream.state # "active"

\* FramesOwned without the cardinality, and which frames are still to come.
Frameful ==
    /\ \A f \in Frames : f \in registered <=>
          f \in owned \/ \E c \in Callers : f \in calls[c].frames
    /\ \A c \in Callers : owned \cap calls[c].frames = {}
    /\ \A c, d \in Callers : c # d => calls[c].frames \cap calls[d].frames = {}
    /\ job.state \notin {"taken", "gone"} => Result \notin registered
    /\ \A f \in registered : f <= Total - stream.left

IInv == TypeOK /\ Shape /\ Exclusive /\ Phases /\ Taker /\ Ended /\ Frameful

--------------------------------------------------------------------------------
(* One call at a time *)

\* The call of c becomes k.
Becomes(c, k) ==
    /\ k \in Call /\ Shaped(k)
    /\ calls'[c] = k
    /\ \A d \in Callers \ {c} : calls'[d] = calls[d]
    /\ calls' \in [Callers -> Call]

\* Every caller has a call of the right type and shape.
LEMMA CallTypes ==
  ASSUME IInv
  PROVE  /\ calls \in [Callers -> Call]
         /\ \A c \in Callers : calls[c] \in Call /\ Shaped(calls[c])
  BY DEF IInv, TypeOK, Call, Shape

\* An update of one call with one of the right type and shape.
LEMMA BecomesStep ==
  ASSUME IInv, NEW c \in Callers, NEW k \in Call, Shaped(k),
         calls' = [calls EXCEPT ![c] = k]
  PROVE  Becomes(c, k)
  BY CallTypes DEF Becomes

\* It leaves every call in shape.
LEMMA ShapeStep ==
  ASSUME IInv, NEW c \in Callers, NEW k, Becomes(c, k)
  PROVE  Shape'
<1>1. SUFFICES ASSUME NEW d \in Callers PROVE Shaped(calls'[d])
  BY DEF Shape, Shaped
<1>2. calls'[d] = IF d = c THEN k ELSE calls[d]
  BY DEF Becomes
<1>3. QED
  BY <1>2, CallTypes DEF Becomes

\* The call of an idle caller.
LEMMA IdleCall ==
    /\ Idle \in Call /\ Shaped(Idle) /\ Idle.op = "none" /\ Idle.frames = {}
    /\ Idle.answer = "none" /\ Idle.op \notin QueryOps /\ Idle.op \notin StreamOps
  BY DEF Idle, Call, Shaped, Answers, QueryOps, StreamOps

\* A call in shape without an operation is that of an idle caller.
LEMMA IdleIs ==
  ASSUME NEW k \in Call, Shaped(k), k.op = "none"
  PROVE  k = Idle
  BY DEF Call, Shaped, Idle

\* A call of a caller that is not idle is an operation of the query or of the
\* stream, and not of both.
LEMMA OpOfCall ==
  ASSUME NEW k \in Call
  PROVE  /\ k # Idle /\ Shaped(k) => k.op \in QueryOps \/ k.op \in StreamOps
         /\ k.op \in QueryOps => Of(k.op) = "query" /\ k # Idle
         /\ k.op \in StreamOps => Of(k.op) = "stream" /\ k # Idle
         /\ ~(k.op \in QueryOps /\ k.op \in StreamOps)
<1>1. k # Idle /\ Shaped(k) => k.op \in QueryOps \/ k.op \in StreamOps
  BY IdleIs DEF Call
<1>2. /\ k.op \in QueryOps => Of(k.op) = "query" /\ k # Idle
      /\ k.op \in StreamOps => Of(k.op) = "stream" /\ k # Idle
      /\ ~(k.op \in QueryOps /\ k.op \in StreamOps)
  BY DEF Of, QueryOps, StreamOps, Idle
<1>3. QED
  BY <1>1, <1>2

\* The callers that lease an owner are those with an operation of it.
LEMMA LeasesAre ==
  ASSUME IInv, NEW c \in Callers
  PROVE  /\ c \in Leases("query") <=> calls[c].op \in QueryOps
         /\ c \in Leases("stream") <=> calls[c].op \in StreamOps
<1>1. calls[c] \in Call /\ Shaped(calls[c])
  BY CallTypes
<1>2. QED
  BY <1>1, OpOfCall DEF Leases

--------------------------------------------------------------------------------
(* The parts of the invariant *)

\* A step that starts no operation of the query keeps them exclusive.
LEMMA ExclusiveStep ==
  ASSUME IInv, NEW c \in Callers, NEW k, Becomes(c, k), busy' = busy,
         k.op \in QueryOps => calls[c].op \in QueryOps
  PROVE  Exclusive'
<1>1. \A d \in Callers : calls'[d].op \in QueryOps => calls[d].op \in QueryOps
  BY DEF Becomes
<1>2. Exclusive
  BY DEF IInv
<1>3. QED
  BY <1>1, <1>2 DEF Exclusive

\* An operation that begins when the query is not busy is the only one.
LEMMA ExclusiveBegin ==
  ASSUME IInv, NEW c \in Callers, NEW k, Becomes(c, k), ~busy, busy'
  PROVE  Exclusive'
<1>1. \A d \in Callers : d # c => calls'[d].op \notin QueryOps
  BY DEF Becomes, IInv, Exclusive
<1>2. QED
  BY <1>1 DEF Exclusive

\* The query is not busy any more when its only operation ends.
LEMMA ExclusiveEnd ==
  ASSUME IInv, NEW c \in Callers, Becomes(c, Idle),
         busy' = IF Of(calls[c].op) = "query" THEN FALSE ELSE busy,
         calls[c] # Idle
  PROVE  Exclusive'
<1>1. \A d \in Callers : /\ calls'[d].op \in QueryOps => calls[d].op \in QueryOps
                         /\ calls'[d].op \in QueryOps => d # c
  BY IdleCall DEF Becomes
<1>2. Exclusive
  BY DEF IInv
<1>3. calls[c].op \in QueryOps \/ calls[c].op \in StreamOps
  BY CallTypes, OpOfCall
<1>4. CASE calls[c].op \in QueryOps
  BY <1>1, <1>2, <1>4 DEF Exclusive
<1>5. CASE calls[c].op \in StreamOps
  <2>1. busy' = busy
    BY <1>5, CallTypes, OpOfCall
  <2>2. Idle.op \in QueryOps => calls[c].op \in QueryOps
    BY IdleCall
  <2>3. QED
    BY <2>1, <2>2, ExclusiveStep
<1>6. QED
  BY <1>3, <1>4, <1>5

\* Who is told what, and what has become of the result.
LEMMA TakerStep ==
  ASSUME IInv, NEW c \in Callers, NEW k, Becomes(c, k), k.answer # "taken",
         job'.state = "taken" =>
            \/ k.op = "take" /\ k.step = "answered" /\ k.answer # "notReady"
            \/ job.state = "taken" /\ calls[c].op \notin QueryOps
  PROVE  Taker'
<1>1. Taker
  BY DEF IInv
<1>2. \A d \in Callers : calls'[d].answer # "taken"
  BY <1>1 DEF Becomes, Taker
<1>3. ASSUME job'.state = "taken"
      PROVE  \E d \in Callers : /\ calls'[d].op = "take"
                                /\ calls'[d].step = "answered"
                                /\ calls'[d].answer # "notReady"
  <2>1. CASE k.op = "take" /\ k.step = "answered" /\ k.answer # "notReady"
    BY <2>1 DEF Becomes
  <2>2. CASE job.state = "taken" /\ calls[c].op \notin QueryOps
    <3>1. PICK d \in Callers : /\ calls[d].op = "take" /\ calls[d].step = "answered"
                               /\ calls[d].answer # "notReady"
      BY <1>1, <2>2 DEF Taker
    <3>2. d # c
      BY <2>2, <3>1 DEF QueryOps
    <3>3. QED
      BY <3>1, <3>2 DEF Becomes
  <2>3. QED
    BY <1>3, <2>1, <2>2
<1>4. QED
  BY <1>2, <1>3 DEF Taker

\* A step that tells of the stream's end only when it has ended keeps the
\* beliefs of the clients true.
LEMMA EndedStep ==
  ASSUME IInv, NEW c \in Callers, NEW k, Becomes(c, k),
         stream.state # "active" => stream'.state # "active",
         terminal' => terminal \/ stream'.state # "active",
         k.op \in StreamOps /\ k.answer \in {"complete", "cancelled"}
            => stream'.state # "active"
  PROVE  Ended'
<1>1. Ended
  BY DEF IInv
<1>2. \A d \in Callers :
         calls'[d].op \in StreamOps /\ calls'[d].answer \in {"complete", "cancelled"}
            => stream'.state # "active"
  BY <1>1 DEF Becomes, Ended
<1>3. QED
  BY <1>1, <1>2 DEF Ended

\* No frame moves.
LEMMA FramefulStep ==
  ASSUME IInv, NEW c \in Callers, NEW k, Becomes(c, k), k.frames = calls[c].frames,
         registered' = registered, owned' = owned, stream'.left = stream.left,
         job'.state \notin {"taken", "gone"} => job.state \notin {"taken", "gone"}
  PROVE  Frameful'
<1>1. \A d \in Callers : calls'[d].frames = calls[d].frames
  BY DEF Becomes
<1>2. Frameful
  BY DEF IInv
<1>3. QED
  BY <1>1, <1>2 DEF Frameful

\* A new frame f is registered for the answer to c.
LEMMA FramefulDeliver ==
  ASSUME IInv, NEW c \in Callers, NEW k, Becomes(c, k), NEW f \in Frames,
         calls[c].frames = {}, k.frames = {f}, f \notin registered,
         registered' = registered \cup {f}, owned' = owned,
         \A g \in registered' : g <= Total - stream'.left,
         job'.state \notin {"taken", "gone"} =>
            job.state \notin {"taken", "gone"} /\ f # Result
  PROVE  Frameful'
<1>1. Frameful
  BY DEF IInv
<1>2. /\ f \notin owned /\ \A d \in Callers : f \notin calls[d].frames
  BY <1>1 DEF Frameful
<1>3. /\ calls'[c].frames = {f}
      /\ \A d \in Callers : d # c => calls'[d].frames = calls[d].frames
  BY DEF Becomes
<1>4. \A g \in Frames : g \in registered' <=>
         g \in owned' \/ \E d \in Callers : g \in calls'[d].frames
  <2>1. SUFFICES ASSUME NEW g \in Frames
                 PROVE  g \in registered' <=>
                          g \in owned' \/ \E d \in Callers : g \in calls'[d].frames
    OBVIOUS
  <2>2. CASE g = f
    BY <2>2, <1>3
  <2>3. CASE g # f
    <3>1. \A d \in Callers : g \in calls'[d].frames <=> g \in calls[d].frames
      BY <2>3, <1>3
    <3>2. QED
      BY <2>3, <3>1, <1>1 DEF Frameful
  <2>4. QED
    BY <2>2, <2>3
<1>5. \A d \in Callers : owned' \cap calls'[d].frames = {}
  BY <1>1, <1>2, <1>3 DEF Frameful
<1>6. \A d, e \in Callers : d # e => calls'[d].frames \cap calls'[e].frames = {}
  BY <1>1, <1>2, <1>3 DEF Frameful
<1>7. job'.state \notin {"taken", "gone"} => Result \notin registered'
  BY <1>1 DEF Frameful
<1>8. QED
  BY <1>4, <1>5, <1>6, <1>7 DEF Frameful

\* The frames of the answer to c become the program's.
LEMMA FramefulAdopt ==
  ASSUME IInv, NEW c \in Callers, Becomes(c, Idle),
         registered' = registered, owned' = owned \cup calls[c].frames,
         stream'.left = stream.left,
         job'.state \notin {"taken", "gone"} => job.state \notin {"taken", "gone"}
  PROVE  Frameful'
<1>1. Frameful
  BY DEF IInv
<1>2. /\ calls'[c].frames = {}
      /\ \A d \in Callers : d # c => calls'[d].frames = calls[d].frames
  BY IdleCall DEF Becomes
<1>3. \A g \in Frames : g \in registered' <=>
         g \in owned' \/ \E d \in Callers : g \in calls'[d].frames
  <2>1. SUFFICES ASSUME NEW g \in Frames
                 PROVE  g \in registered <=>
                          g \in owned' \/ \E d \in Callers : g \in calls'[d].frames
    OBVIOUS
  <2>2. g \in registered <=> g \in owned \/ \E d \in Callers : g \in calls[d].frames
    BY <1>1 DEF Frameful
  <2>3. QED
    BY <1>2, <2>2
<1>4. \A d \in Callers : owned' \cap calls'[d].frames = {}
  <2>1. \A d \in Callers : d # c => /\ owned \cap calls[d].frames = {}
                                    /\ calls[c].frames \cap calls[d].frames = {}
    BY <1>1 DEF Frameful
  <2>2. QED
    BY <1>2, <2>1
<1>5. \A d, e \in Callers : d # e => calls'[d].frames \cap calls'[e].frames = {}
  BY <1>1, <1>2 DEF Frameful
<1>6. QED
  BY <1>1, <1>3, <1>4, <1>5 DEF Frameful

JobType == [state : {"running", "complete", "failed", "cancelled", "taken", "gone"},
            requested : BOOLEAN]
StreamType == [state : {"active", "complete", "cancelled", "gone"}, left : 0..Total]
PhaseType == [query : {"open", "closing", "released"},
              stream : {"open", "closing", "released"}]

\* TypeOK but for the calls.
Rest ==
    /\ job \in JobType /\ stream \in StreamType
    /\ registered \subseteq Frames /\ Cardinality(registered) <= Room
    /\ phase \in PhaseType
    /\ busy \in BOOLEAN /\ terminal \in BOOLEAN
    /\ owned \subseteq Frames /\ lost \subseteq Frames

\* The type invariant is that of the calls and that of the rest.
LEMMA TypeParts ==
    TypeOK <=> Rest /\ calls \in [Callers -> Call]
  BY DEF TypeOK, Rest, JobType, StreamType, PhaseType, Call

\* The same after a step.
LEMMA TypePartsNext ==
    TypeOK' <=> Rest' /\ calls' \in [Callers -> Call]
  BY DEF TypeOK, Rest, JobType, StreamType, PhaseType, Call

\* The parts of the invariant.
LEMMA InvParts ==
  ASSUME IInv
  PROVE  Rest /\ Shape /\ Exclusive /\ Phases /\ Taker /\ Ended /\ Frameful
  BY TypeParts DEF IInv

\* A step that releases no handle keeps the owners consistent.
LEMMA PhasesStep ==
  ASSUME IInv, NEW c \in Callers, NEW k, Becomes(c, k), phase' = phase,
         job'.state = "gone" <=> job.state = "gone",
         stream'.state = "gone" <=> stream.state = "gone",
         k.op \in QueryOps => job.state # "gone",
         k.op \in StreamOps => stream.state # "gone"
  PROVE  Phases'
<1>1. Phases
  BY DEF IInv
<1>2. \A d \in Callers : /\ calls'[d].op \in QueryOps => job'.state # "gone"
                         /\ calls'[d].op \in StreamOps => stream'.state # "gone"
  BY <1>1 DEF Phases, Becomes
<1>3. QED
  BY <1>1, <1>2 DEF Phases

\* The invariant from its parts, after a step of one caller.
LEMMA Assemble ==
  ASSUME IInv, NEW c \in Callers, NEW k, Becomes(c, k), Rest',
         Exclusive', Phases', Taker', Ended', Frameful'
  PROVE  IInv'
<1>1. Shape' /\ calls' \in [Callers -> Call]
  BY ShapeStep DEF Becomes
<1>2. QED
  BY <1>1, TypePartsNext DEF IInv

--------------------------------------------------------------------------------
(* A caller begins, sleeps or wakes *)

\* Only the call of c changes, and perhaps busy.
Quiet(c, k) ==
    /\ Becomes(c, k) /\ k.frames = {} /\ calls[c].frames = {} /\ k.answer = "none"
    /\ UNCHANGED <<job, stream, registered, phase, terminal, owned, lost>>

\* A step that changes a call without an answer or a frame keeps the invariant.
LEMMA QuietKeeps ==
  ASSUME IInv, NEW c \in Callers, NEW k, Quiet(c, k),
         busy' \in BOOLEAN, Exclusive',
         k.op \in QueryOps => job.state # "gone",
         k.op \in StreamOps => stream.state # "gone",
         job.state = "taken" => calls[c].op \notin QueryOps
  PROVE  IInv'
<1>1. /\ Becomes(c, k) /\ k.frames = calls[c].frames /\ k.answer = "none"
      /\ job' = job /\ stream' = stream /\ registered' = registered
      /\ phase' = phase /\ terminal' = terminal /\ owned' = owned /\ lost' = lost
  BY DEF Quiet
<1>2. Rest'
  BY <1>1, InvParts DEF Rest
<1>3. Phases'
  BY <1>1, PhasesStep
<1>4. Taker'
  BY <1>1, TakerStep
<1>5. Ended'
  BY <1>1, EndedStep
<1>6. Frameful'
  BY <1>1, FramefulStep
<1>7. QED
  BY <1>1, <1>2, <1>3, <1>4, <1>5, <1>6, Assemble

\* A command that is sent has no answer and no frame.
LEMMA Sent ==
  ASSUME IInv, NEW c \in Callers, NEW op \in QueryOps \cup StreamOps, Send(c, op)
  PROVE  \E k : /\ Becomes(c, k) /\ k.frames = {} /\ k.answer = "none"
                /\ k.op = op
<1>1. PICK k : k = [Idle EXCEPT !.op = op, !.step = "sent"]
  OBVIOUS
<1>2. /\ k \in Call /\ k.op = op /\ k.step = "sent" /\ k.answer = "none"
      /\ k.frames = {}
  BY <1>1 DEF Idle, Call, Answers, QueryOps, StreamOps
<1>3. Shaped(k)
  BY <1>2 DEF Shaped, QueryOps, StreamOps
<1>4. calls' = [calls EXCEPT ![c] = k]
  BY <1>1 DEF Send
<1>5. Becomes(c, k)
  BY <1>2, <1>3, <1>4, BecomesStep
<1>6. QED
  BY <1>2, <1>5

\* An open owner has not released its handle.
LEMMA OpenIsLive ==
  ASSUME IInv
  PROVE  /\ phase.query = "open" => job.state # "gone"
         /\ phase.stream = "open" => stream.state # "gone"
  BY InvParts DEF Phases

\* Begin keeps the invariant.
LEMMA BeginKeeps ==
  ASSUME IInv, NEW c \in Callers, NEW op \in QueryOps, Begin(c, op)
  PROVE  IInv'
<1>1. /\ calls[c] = Idle /\ ~busy /\ phase.query = "open" /\ busy' = TRUE
      /\ Send(c, op)
      /\ UNCHANGED <<job, stream, registered, phase, terminal, owned, lost>>
  BY DEF Begin, native
<1>2. PICK k : /\ Becomes(c, k) /\ k.frames = {} /\ k.answer = "none"
               /\ k.op = op
  BY <1>1, Sent
<1>3. Quiet(c, k)
  BY <1>1, <1>2, IdleCall DEF Quiet
<1>4. Exclusive'
  BY <1>1, <1>2, ExclusiveBegin
<1>5. /\ k.op \in QueryOps => job.state # "gone"
      /\ k.op \in StreamOps => stream.state # "gone"
  BY <1>1, <1>2, OpenIsLive DEF QueryOps, StreamOps
<1>6. QED
  BY <1>1, <1>3, <1>4, <1>5, IdleCall, QuietKeeps

\* PollNext and Stop keep the invariant.
LEMMA StreamSendKeeps ==
  ASSUME IInv, NEW c \in Callers, NEW op \in StreamOps, calls[c] = Idle,
         phase.stream = "open", Send(c, op),
         UNCHANGED <<native, phase, busy, terminal, owned>>
  PROVE  IInv'
<1>1. /\ busy' = busy
      /\ UNCHANGED <<job, stream, registered, phase, terminal, owned, lost>>
  BY DEF native
<1>2. PICK k : /\ Becomes(c, k) /\ k.frames = {} /\ k.answer = "none"
               /\ k.op = op
  BY Sent
<1>3. Quiet(c, k)
  BY <1>1, <1>2, IdleCall DEF Quiet
<1>4. k.op \notin QueryOps
  BY <1>2 DEF QueryOps, StreamOps
<1>5. Exclusive'
  BY <1>1, <1>2, <1>4, ExclusiveStep
<1>6. /\ k.op \in QueryOps => job.state # "gone"
      /\ k.op \in StreamOps => stream.state # "gone"
  BY <1>4, OpenIsLive
<1>7. busy' \in BOOLEAN
  BY <1>1, InvParts DEF Rest
<1>8. QED
  BY <1>3, <1>5, <1>6, <1>7, IdleCall, QuietKeeps

\* The only query operation, if it is not a take with an answer, finds the
\* result where it was.
LEMMA NotTaken ==
  ASSUME IInv, NEW c \in Callers, calls[c].op \in QueryOps,
         calls[c].op # "take" \/ calls[c].step # "answered"
  PROVE  job.state # "taken"
<1>1. SUFFICES ASSUME job.state = "taken" PROVE FALSE
  OBVIOUS
<1>2. PICK d \in Callers : calls[d].op = "take" /\ calls[d].step = "answered"
  BY <1>1, InvParts DEF Taker
<1>3. d = c
  BY <1>2, InvParts DEF Exclusive, QueryOps
<1>4. QED
  BY <1>2, <1>3

\* Sleep keeps the invariant.
LEMMA SleepKeeps ==
  ASSUME IInv, NEW c \in Callers, Sleep(c)
  PROVE  IInv'
<1>1. /\ calls[c].op = "wait" /\ calls[c].step = "answered"
      /\ calls' = [calls EXCEPT ![c].step = "sleeping", ![c].answer = "none"]
      /\ UNCHANGED <<job, stream, registered, phase, terminal, owned, lost>>
      /\ busy' = busy
  BY DEF Sleep, Answered, native
<1>2. calls[c] \in Call /\ Shaped(calls[c])
  BY CallTypes
<1>3. PICK k : k = [calls[c] EXCEPT !.step = "sleeping", !.answer = "none"]
  OBVIOUS
<1>4. /\ k \in Call /\ k.op = "wait" /\ k.step = "sleeping" /\ k.answer = "none"
      /\ k.frames = calls[c].frames /\ calls' = [calls EXCEPT ![c] = k]
  BY <1>1, <1>2, <1>3 DEF Call, Answers
<1>5. k.frames = {}
  BY <1>1, <1>2, <1>4 DEF Shaped
<1>6. Shaped(k)
  BY <1>4, <1>5 DEF Shaped
<1>7. Becomes(c, k)
  BY <1>4, <1>6, BecomesStep
<1>8. Quiet(c, k)
  BY <1>1, <1>4, <1>5, <1>7 DEF Quiet
<1>9. calls[c].op \in QueryOps /\ k.op \in QueryOps /\ k.op \notin StreamOps
  BY <1>1, <1>4 DEF QueryOps, StreamOps
<1>10. Exclusive'
  BY <1>1, <1>7, <1>9, ExclusiveStep
<1>11. job.state # "gone" /\ job.state # "taken"
  BY <1>1, <1>9, NotTaken, InvParts DEF Phases
<1>12. busy' \in BOOLEAN
  BY <1>1, InvParts DEF Rest
<1>13. QED
  BY <1>8, <1>9, <1>10, <1>11, <1>12, QuietKeeps

\* A wait that polls again keeps the invariant.
LEMMA WakePollKeeps ==
  ASSUME IInv, NEW c \in Callers, calls[c].step = "sleeping", Send(c, "wait"),
         UNCHANGED <<native, phase, busy, terminal, owned>>
  PROVE  IInv'
<1>1. /\ busy' = busy
      /\ UNCHANGED <<job, stream, registered, phase, terminal, owned, lost>>
  BY DEF native
<1>2. calls[c].op = "wait" /\ calls[c].frames = {}
  BY CallTypes DEF Shaped
<1>3. "wait" \in QueryOps /\ "wait" \notin StreamOps
  BY DEF QueryOps, StreamOps
<1>4. PICK k : /\ Becomes(c, k) /\ k.frames = {} /\ k.answer = "none"
               /\ k.op = "wait"
  BY <1>3, Sent
<1>5. Quiet(c, k)
  BY <1>1, <1>2, <1>4 DEF Quiet
<1>6. Exclusive'
  BY <1>1, <1>2, <1>3, <1>4, ExclusiveStep
<1>7. job.state # "gone" /\ job.state # "taken"
  BY <1>2, <1>3, NotTaken, InvParts DEF Phases
<1>8. busy' \in BOOLEAN
  BY <1>1, InvParts DEF Rest
<1>9. QED
  BY <1>3, <1>4, <1>5, <1>6, <1>7, <1>8, QuietKeeps

--------------------------------------------------------------------------------
(* A command is answered *)

\* The command of c is answered, by k.
Replied(c, k) ==
    /\ Becomes(c, k) /\ k.op = calls[c].op /\ k.step = "answered"
    /\ calls[c].frames = {}

\* An answer without a frame.
LEMMA AnswerStep ==
  ASSUME IInv, NEW c \in Callers, calls[c].step = "sent", NEW a \in Answers,
         Answer(c, a)
  PROVE  \E k : Replied(c, k) /\ k.answer = a /\ k.frames = {}
<1>1. PICK k : k = [calls[c] EXCEPT !.step = "answered", !.answer = a]
  OBVIOUS
<1>2. calls[c] \in Call /\ Shaped(calls[c])
  BY CallTypes
<1>3. /\ k \in Call /\ k.op = calls[c].op /\ k.step = "answered"
      /\ k.answer = a /\ k.frames = calls[c].frames
  BY <1>1, <1>2 DEF Call
<1>4. k.frames = {} /\ Shaped(k)
  BY <1>2, <1>3 DEF Shaped
<1>5. calls' = [calls EXCEPT ![c] = k]
  BY <1>1 DEF Answer
<1>6. Becomes(c, k)
  BY <1>3, <1>4, <1>5, BecomesStep
<1>7. QED
  BY <1>3, <1>4, <1>6 DEF Replied

\* An answer with a frame.
LEMMA AnswerFrameStep ==
  ASSUME IInv, NEW c \in Callers, calls[c].step = "sent", NEW f \in Frames,
         calls[c].op \in {"take", "next"}, AnswerFrame(c, f)
  PROVE  \E k : Replied(c, k) /\ k.answer = "frame" /\ k.frames = {f}
<1>1. PICK k : k = [calls[c] EXCEPT !.step = "answered", !.answer = "frame",
                                    !.frames = {f}]
  OBVIOUS
<1>2. calls[c] \in Call /\ Shaped(calls[c])
  BY CallTypes
<1>3. /\ k \in Call /\ k.op = calls[c].op /\ k.step = "answered"
      /\ k.answer = "frame" /\ k.frames = {f}
  BY <1>1, <1>2 DEF Call, Answers
<1>4. calls[c].frames = {} /\ Shaped(k)
  BY <1>2, <1>3 DEF Shaped
<1>5. calls' = [calls EXCEPT ![c] = k]
  BY <1>1 DEF AnswerFrame
<1>6. Becomes(c, k)
  BY <1>3, <1>4, <1>5, BecomesStep
<1>7. QED
  BY <1>3, <1>4, <1>6 DEF Replied

\* What an answer may change: the native objects, but not whether their
\* handles are released, and what it may then say.
Native(c, k) ==
    /\ UNCHANGED <<phase, busy, terminal, owned>>
    /\ job' \in JobType /\ stream' \in StreamType
    /\ registered' \subseteq Frames /\ Cardinality(registered') <= Room
    /\ lost' \subseteq Frames
    /\ job'.state = "gone" <=> job.state = "gone"
    /\ stream'.state = "gone" <=> stream.state = "gone"
    /\ stream.state # "active" => stream'.state # "active"
    /\ k.answer # "taken"
    /\ job'.state = "taken" =>
          \/ k.op = "take" /\ k.answer # "notReady"
          \/ job.state = "taken" /\ k.op \notin QueryOps
    /\ k.op \in StreamOps /\ k.answer \in {"complete", "cancelled"}
          => stream'.state # "active"

\* An answer that tells no caller more than is so keeps the invariant.
LEMMA NativeKeeps ==
  ASSUME IInv, NEW c \in Callers, NEW k, Replied(c, k), Native(c, k), Frameful'
  PROVE  IInv'
<1>1. /\ Becomes(c, k) /\ k.op = calls[c].op /\ k.step = "answered"
      /\ busy' = busy /\ phase' = phase /\ terminal' = terminal /\ owned' = owned
  BY DEF Replied, Native
<1>2. Rest'
  BY <1>1, InvParts DEF Rest, Native
<1>3. Exclusive'
  BY <1>1, ExclusiveStep
<1>4. Phases'
  BY <1>1, PhasesStep, InvParts DEF Native, Phases
<1>5. Taker'
  BY <1>1, TakerStep DEF Native
<1>6. Ended'
  BY <1>1, EndedStep DEF Native
<1>7. QED
  BY <1>1, <1>2, <1>3, <1>4, <1>5, <1>6, Assemble

\* An operation on its way finds its native object.
LEMMA Live ==
  ASSUME IInv, NEW c \in Callers
  PROVE  /\ calls[c].op \in QueryOps => job.state # "gone"
         /\ calls[c].op \in StreamOps => stream.state # "gone"
  BY InvParts DEF Phases

\* TransportFails keeps the invariant.
LEMMA TransportFailsKeeps ==
  ASSUME IInv, NEW c \in Callers, TransportFails(c)
  PROVE  IInv'
<1>1. /\ calls[c].step = "sent" /\ Answer(c, "error")
      /\ UNCHANGED <<job, stream, registered, lost, phase, busy, terminal, owned>>
  BY DEF TransportFails, native
<1>2. PICK k : Replied(c, k) /\ k.answer = "error" /\ k.frames = {}
  BY <1>1, AnswerStep DEF Answers
<1>3. Native(c, k)
  BY <1>1, <1>2, NotTaken, InvParts DEF Native, Rest, Replied
<1>4. Frameful'
  BY <1>1, <1>2, FramefulStep DEF Replied
<1>5. QED
  BY <1>2, <1>3, <1>4, NativeKeeps

\* Finitely many frames are registered.
LEMMA FramesFinite ==
  ASSUME Rest
  PROVE  IsFiniteSet(registered)
<1>1. IsFiniteSet(1..Total)
  BY FS_Interval, AsyncClientsAssumption
<1>2. IsFiniteSet({Result} \cup (1..Total))
  BY <1>1, FS_AddElement, {Result} \cup (1..Total) = (1..Total) \cup {Result}
<1>3. QED
  BY <1>2, FS_Subset DEF Rest, Frames, Batches

\* Registering one more frame while there is room stays within the room.
LEMMA RoomStep ==
  ASSUME Rest, NEW f \in Frames, Cardinality(registered) < Room
  PROVE  /\ registered \cup {f} \subseteq Frames
         /\ Cardinality(registered \cup {f}) <= Room
<1>1. Cardinality(registered) \in Nat
  BY FramesFinite, FS_CardinalityType
<1>2. Cardinality(registered \cup {f}) \in
         {Cardinality(registered), Cardinality(registered) + 1}
  BY FramesFinite, FS_AddElement
<1>3. QED
  BY <1>1, <1>2, AsyncClientsAssumption DEF Rest

\* A frame is delivered, or lost for want of room.
LEMMA DeliverStep ==
  ASSUME IInv, NEW c \in Callers, calls[c].step = "sent", NEW f \in Frames,
         calls[c].op \in {"take", "next"}, Deliver(c, f)
  PROVE  /\ registered' \subseteq Frames /\ Cardinality(registered') <= Room
         /\ lost' \subseteq Frames
         /\ \E k : /\ Replied(c, k)
                   /\ \/ /\ k.answer = "frame" /\ k.frames = {f}
                         /\ registered' = registered \cup {f}
                      \/ /\ k.answer = "error" /\ k.frames = {}
                         /\ registered' = registered
<1>1. CASE Cardinality(registered) < Room
  <2>1. registered' = registered \cup {f} /\ AnswerFrame(c, f) /\ lost' = lost
    BY <1>1 DEF Deliver
  <2>2. \E k : Replied(c, k) /\ k.answer = "frame" /\ k.frames = {f}
    BY <2>1, AnswerFrameStep
  <2>3. QED
    BY <1>1, <2>1, <2>2, RoomStep, InvParts DEF Rest
<1>2. CASE ~(Cardinality(registered) < Room)
  <2>1. registered' = registered /\ Answer(c, "error") /\ lost' = lost \cup {f}
    BY <1>2 DEF Deliver
  <2>2. \E k : Replied(c, k) /\ k.answer = "error" /\ k.frames = {}
    BY <2>1, AnswerStep DEF Answers
  <2>3. QED
    BY <2>1, <2>2, InvParts DEF Rest
<1>3. QED
  BY <1>1, <1>2

\* JobPoll keeps the invariant: with one operation at a time it never finds the
\* result taken.
LEMMA JobPollKeeps ==
  ASSUME IInv, NEW c \in Callers, calls[c].step = "sent",
         calls[c].op \in {"poll", "wait"}, JobPoll(c),
         UNCHANGED <<phase, busy, terminal, owned>>
  PROVE  IInv'
<1>1. /\ Answer(c, job.state)
      /\ UNCHANGED <<job, stream, registered, lost>>
  BY DEF JobPoll, native
<1>2. calls[c].op \in QueryOps /\ calls[c].op \notin StreamOps
  BY DEF QueryOps, StreamOps
<1>3. job.state # "gone" /\ job.state # "taken" /\ job \in JobType
  BY <1>2, NotTaken, Live, InvParts DEF Rest
<1>4. job.state \in Answers
  BY <1>3 DEF JobType, Answers
<1>5. PICK k : Replied(c, k) /\ k.answer = job.state /\ k.frames = {}
  BY <1>1, <1>4, AnswerStep
<1>6. Native(c, k)
  BY <1>1, <1>2, <1>3, <1>5, InvParts DEF Native, Rest, Replied
<1>7. Frameful'
  BY <1>1, <1>5, FramefulStep DEF Replied
<1>8. QED
  BY <1>5, <1>6, <1>7, NativeKeeps

\* JobCancel keeps the invariant.
LEMMA JobCancelKeeps ==
  ASSUME IInv, NEW c \in Callers, calls[c].step = "sent",
         calls[c].op = "cancel", JobCancel(c),
         UNCHANGED <<phase, busy, terminal, owned>>
  PROVE  IInv'
<1>1. /\ Answer(c, "accepted")
      /\ job' = [job EXCEPT !.requested = @ \/ job.state = "running"]
      /\ UNCHANGED <<stream, registered, lost>>
  BY DEF JobCancel
<1>2. calls[c].op \in QueryOps /\ calls[c].op \notin StreamOps
  BY DEF QueryOps, StreamOps
<1>3. job.state # "taken" /\ job \in JobType
  BY <1>2, NotTaken, InvParts DEF Rest
<1>4. job' \in JobType /\ job'.state = job.state
  BY <1>1, <1>3 DEF JobType
<1>5. PICK k : Replied(c, k) /\ k.answer = "accepted" /\ k.frames = {}
  BY <1>1, AnswerStep DEF Answers
<1>6. Native(c, k)
  BY <1>1, <1>2, <1>3, <1>4, <1>5, InvParts DEF Native, Rest, Replied
<1>7. Frameful'
  BY <1>1, <1>4, <1>5, FramefulStep DEF Replied
<1>8. QED
  BY <1>5, <1>6, <1>7, NativeKeeps

\* JobTake keeps the invariant: the result was not registered before.
LEMMA JobTakeKeeps ==
  ASSUME IInv, NEW c \in Callers, calls[c].step = "sent",
         calls[c].op = "take", JobTake(c),
         UNCHANGED <<phase, busy, terminal, owned>>
  PROVE  IInv'
<1>1. stream' = stream
  BY DEF JobTake
<1>2. calls[c].op \in QueryOps /\ calls[c].op \notin StreamOps
  BY DEF QueryOps, StreamOps
<1>3. job.state # "taken" /\ job.state # "gone" /\ job \in JobType
  BY <1>2, NotTaken, Live, InvParts DEF Rest
<1>4. CASE job.state = "running"
  <2>1. Answer(c, "notReady") /\ UNCHANGED <<job, registered, lost>>
    BY <1>4 DEF JobTake, native
  <2>2. PICK k : Replied(c, k) /\ k.answer = "notReady" /\ k.frames = {}
    BY <2>1, AnswerStep DEF Answers
  <2>3. Native(c, k)
    BY <2>1, <2>2, <1>1, <1>2, <1>3, InvParts DEF Native, Rest, Replied
  <2>4. Frameful'
    BY <1>1, <2>1, <2>2, FramefulStep DEF Replied
  <2>5. QED
    BY <2>2, <2>3, <2>4, NativeKeeps
<1>5. CASE job.state = "complete"
  <2>1. job' = [job EXCEPT !.state = "taken"] /\ Deliver(c, Result)
    BY <1>5 DEF JobTake
  <2>2. job' \in JobType /\ job'.state = "taken"
    BY <2>1, <1>3 DEF JobType
  <2>3. Result \in Frames
    BY DEF Frames
  <2>4. /\ registered' \subseteq Frames /\ Cardinality(registered') <= Room
        /\ lost' \subseteq Frames
    BY <2>1, <2>3, DeliverStep
  <2>5. PICK k : /\ Replied(c, k)
                 /\ \/ /\ k.answer = "frame" /\ k.frames = {Result}
                       /\ registered' = registered \cup {Result}
                    \/ /\ k.answer = "error" /\ k.frames = {}
                       /\ registered' = registered
    BY <2>1, <2>3, DeliverStep
  <2>6. Native(c, k)
    BY <2>2, <2>4, <2>5, <1>1, <1>2, <1>3, InvParts DEF Native, Rest, Replied
  <2>7. CASE k.answer = "error" /\ k.frames = {} /\ registered' = registered
    <3>1. Frameful'
      BY <2>7, <2>2, <2>5, <1>1, FramefulStep DEF Replied
    <3>2. QED
      BY <3>1, <2>5, <2>6, NativeKeeps
  <2>8. CASE k.frames = {Result} /\ registered' = registered \cup {Result}
    <3>1. Result \notin registered /\ \A g \in registered : g <= Total - stream.left
      BY <1>5, InvParts DEF Frameful
    <3>2. Result <= Total - stream'.left
      BY <1>1, InvParts, AsyncClientsAssumption DEF Rest, StreamType, Result
    <3>3. \A g \in registered' : g <= Total - stream'.left
      BY <2>8, <3>1, <3>2, <1>1
    <3>4. owned' = owned
      OBVIOUS
    <3>5. Frameful'
      BY <2>2, <2>3, <2>5, <2>8, <3>1, <3>3, <3>4, FramefulDeliver DEF Replied
    <3>6. QED
      BY <3>5, <2>5, <2>6, NativeKeeps
  <2>9. QED
    BY <2>5, <2>7, <2>8
<1>6. CASE job.state \in {"failed", "cancelled"}
  <2>1. /\ job' = [job EXCEPT !.state = "taken"] /\ Answer(c, "error")
        /\ UNCHANGED <<registered, lost>>
    BY <1>6 DEF JobTake
  <2>2. job' \in JobType /\ job'.state = "taken"
    BY <2>1, <1>3 DEF JobType
  <2>3. PICK k : Replied(c, k) /\ k.answer = "error" /\ k.frames = {}
    BY <2>1, AnswerStep DEF Answers
  <2>4. Native(c, k)
    BY <2>1, <2>2, <2>3, <1>1, <1>2, <1>3, InvParts DEF Native, Rest, Replied
  <2>5. Frameful'
    BY <1>1, <2>1, <2>2, <2>3, FramefulStep DEF Replied
  <2>6. QED
    BY <2>3, <2>4, <2>5, NativeKeeps
<1>7. QED
  BY <1>3, <1>4, <1>5, <1>6 DEF JobType

\* BatchStreamPoll keeps the invariant: the batch was not registered before.
LEMMA BatchStreamPollKeeps ==
  ASSUME IInv, NEW c \in Callers, calls[c].step = "sent",
         calls[c].op = "next", BatchStreamPoll(c),
         UNCHANGED <<phase, busy, terminal, owned>>
  PROVE  IInv'
<1>1. job' = job
  BY DEF BatchStreamPoll
<1>2. calls[c].op \notin QueryOps /\ calls[c].op \in StreamOps
  BY DEF QueryOps, StreamOps
<1>3. stream.state # "gone" /\ stream \in StreamType /\ job \in JobType
  BY <1>2, Live, InvParts DEF Rest
<1>4. CASE stream.state # "active"
  <2>1. Answer(c, stream.state) /\ UNCHANGED <<stream, registered, lost>>
    BY <1>4 DEF BatchStreamPoll, native
  <2>2. stream.state \in Answers
    BY <1>3, <1>4 DEF StreamType, Answers
  <2>3. PICK k : Replied(c, k) /\ k.answer = stream.state /\ k.frames = {}
    BY <2>1, <2>2, AnswerStep
  <2>4. k.answer # "taken"
    BY <1>3, <2>3 DEF StreamType
  <2>5. Native(c, k)
    BY <2>1, <2>3, <2>4, <1>1, <1>2, <1>3, <1>4, InvParts DEF Native, Rest, Replied
  <2>6. Frameful'
    BY <1>1, <2>1, <2>3, FramefulStep DEF Replied
  <2>7. QED
    BY <2>3, <2>5, <2>6, NativeKeeps
<1>5. ASSUME Answer(c, "pending"), UNCHANGED <<stream, registered, lost>>
      PROVE  IInv'
  <2>1. PICK k : Replied(c, k) /\ k.answer = "pending" /\ k.frames = {}
    BY <1>5, AnswerStep DEF Answers
  <2>2. Native(c, k)
    BY <2>1, <1>1, <1>2, <1>3, <1>5, InvParts DEF Native, Rest, Replied
  <2>3. Frameful'
    BY <1>1, <1>5, <2>1, FramefulStep DEF Replied
  <2>4. QED
    BY <2>1, <2>2, <2>3, NativeKeeps
<1>6. ASSUME stream.state = "active", stream.left > 0,
             stream' = [stream EXCEPT !.left = @ - 1],
             Deliver(c, Total + 1 - stream.left)
      PROVE  IInv'
  <2>1. PICK f : f = Total + 1 - stream.left
    OBVIOUS
  <2>2. /\ stream.left \in 1..Total /\ f \in Batches
        /\ f = Total - (stream.left - 1)
    BY <1>3, <1>6, <2>1, AsyncClientsAssumption DEF StreamType, Batches
  <2>3. stream' \in StreamType /\ stream'.left = stream.left - 1
        /\ stream'.state = "active"
    BY <1>3, <1>6, <2>2, AsyncClientsAssumption DEF StreamType
  <2>4. f \in Frames /\ f # Result /\ Deliver(c, f)
    BY <1>6, <2>1, <2>2 DEF Frames, Batches, Result
  <2>5. /\ registered' \subseteq Frames /\ Cardinality(registered') <= Room
        /\ lost' \subseteq Frames
    BY <2>4, DeliverStep
  <2>6. PICK k : /\ Replied(c, k)
                 /\ \/ /\ k.answer = "frame" /\ k.frames = {f}
                       /\ registered' = registered \cup {f}
                    \/ /\ k.answer = "error" /\ k.frames = {}
                       /\ registered' = registered
    BY <2>4, DeliverStep
  <2>7. Native(c, k)
    BY <1>1, <1>2, <1>3, <1>6, <2>3, <2>5, <2>6, InvParts
       DEF Native, Rest, Replied
  <2>8. \A g \in registered : g <= Total - stream.left /\ g \in Int
    BY InvParts, AsyncClientsAssumption
       DEF Frameful, Rest, Frames, Batches, Result
  <2>9. f \notin registered
    BY <2>2, <2>8, AsyncClientsAssumption
  <2>10. \A g \in registered \cup {f} : g <= Total - stream'.left
    BY <2>2, <2>3, <2>8, AsyncClientsAssumption
  <2>11. Frameful'
    <3>1. CASE k.frames = {f} /\ registered' = registered \cup {f}
      <4>1. owned' = owned
        OBVIOUS
      <4>2. QED
        BY <1>1, <2>4, <2>6, <2>9, <2>10, <3>1, <4>1, FramefulDeliver DEF Replied
    <3>2. CASE k.frames = {} /\ registered' = registered
      <4>1. \A d \in Callers : calls'[d].frames = calls[d].frames
        BY <2>6, <3>2 DEF Replied, Becomes
      <4>2. \A g \in registered' : g <= Total - stream'.left
        BY <3>2, <2>10
      <4>3. QED
        BY <1>1, <3>2, <4>1, <4>2, InvParts DEF Frameful
    <3>3. QED
      BY <2>6, <3>1, <3>2
  <2>12. QED
    BY <2>6, <2>7, <2>11, NativeKeeps
<1>7. ASSUME stream.state = "active", stream' = [stream EXCEPT !.state = "complete"],
             UNCHANGED <<registered, lost>>,
             NEW a \in {"complete", "error"}, Answer(c, a)
      PROVE  IInv'
  <2>1. /\ stream' \in StreamType /\ stream'.state = "complete"
        /\ stream'.left = stream.left
    BY <1>3, <1>7 DEF StreamType
  <2>2. PICK k : Replied(c, k) /\ k.answer = a /\ k.frames = {}
    BY <1>7, AnswerStep DEF Answers
  <2>3. Native(c, k)
    BY <2>1, <2>2, <1>1, <1>2, <1>3, <1>7, InvParts DEF Native, Rest, Replied
  <2>4. Frameful'
    BY <1>1, <1>7, <2>1, <2>2, FramefulStep DEF Replied
  <2>5. QED
    BY <2>2, <2>3, <2>4, NativeKeeps
<1>8. QED
  BY <1>4, <1>5, <1>6, <1>7 DEF BatchStreamPoll, native

\* BatchStreamCancel keeps the invariant.
LEMMA BatchStreamCancelKeeps ==
  ASSUME IInv, NEW c \in Callers, calls[c].step = "sent",
         calls[c].op = "stop", BatchStreamCancel(c),
         UNCHANGED <<phase, busy, terminal, owned>>
  PROVE  IInv'
<1>1. /\ stream' = [stream EXCEPT !.state = "cancelled"] /\ Answer(c, "cancelled")
      /\ UNCHANGED <<job, registered, lost>>
  BY DEF BatchStreamCancel
<1>2. calls[c].op \notin QueryOps /\ calls[c].op \in StreamOps
  BY DEF QueryOps, StreamOps
<1>3. stream.state # "gone" /\ stream \in StreamType /\ job \in JobType
  BY <1>2, Live, InvParts DEF Rest
<1>4. /\ stream' \in StreamType /\ stream'.state = "cancelled"
      /\ stream'.left = stream.left
  BY <1>1, <1>3 DEF StreamType
<1>5. PICK k : Replied(c, k) /\ k.answer = "cancelled" /\ k.frames = {}
  BY <1>1, AnswerStep DEF Answers
<1>6. Native(c, k)
  BY <1>1, <1>2, <1>3, <1>4, <1>5, InvParts DEF Native, Rest, Replied
<1>7. Frameful'
  BY <1>1, <1>4, <1>5, FramefulStep DEF Replied
<1>8. QED
  BY <1>5, <1>6, <1>7, NativeKeeps

\* Whatever the worker isolate runs keeps the invariant.
LEMMA ExecuteKeeps ==
  ASSUME IInv, NEW c \in Callers, Execute(c)
  PROVE  IInv'
<1>1. calls[c].step = "sent" /\ UNCHANGED <<phase, busy, terminal, owned>>
  BY DEF Execute
<1>2. calls[c].op \in {"poll", "wait", "cancel", "take", "next", "stop"}
  BY <1>1, CallTypes DEF Shaped, Call, QueryOps, StreamOps
<1>3. CASE calls[c].op \in {"poll", "wait"}
  <2>1. JobPoll(c)
    BY <1>3 DEF Execute
  <2>2. QED
    BY <1>1, <1>3, <2>1, JobPollKeeps
<1>4. CASE calls[c].op = "cancel"
  <2>1. JobCancel(c)
    BY <1>4 DEF Execute
  <2>2. QED
    BY <1>1, <1>4, <2>1, JobCancelKeeps
<1>5. CASE calls[c].op = "take"
  <2>1. JobTake(c)
    BY <1>5 DEF Execute
  <2>2. QED
    BY <1>1, <1>5, <2>1, JobTakeKeeps
<1>6. CASE calls[c].op = "next"
  <2>1. BatchStreamPoll(c)
    BY <1>6 DEF Execute
  <2>2. QED
    BY <1>1, <1>6, <2>1, BatchStreamPollKeeps
<1>7. CASE calls[c].op = "stop"
  <2>1. BatchStreamCancel(c)
    BY <1>7 DEF Execute
  <2>2. QED
    BY <1>1, <1>7, <2>1, BatchStreamCancelKeeps
<1>8. QED
  BY <1>2, <1>3, <1>4, <1>5, <1>6, <1>7

--------------------------------------------------------------------------------
(* An operation ends, an object is closed *)

\* The query's handle is released, or nothing happens to the job.
LEMMA SettleQuery ==
  ASSUME IInv, NEW closing \in BOOLEAN, NEW others \in BOOLEAN,
         phase.query # "released", Settle("query", closing, others)
  PROVE  /\ job' \in JobType /\ stream' = stream /\ phase' \in PhaseType
         /\ phase'.stream = phase.stream
         /\ closing /\ ~others => phase'.query = "released" /\ job'.state = "gone"
         /\ ~(closing /\ ~others) => phase'.query # "released" /\ job' = job
<1>1. job \in JobType /\ phase \in PhaseType
  BY InvParts DEF Rest
<1>2. CASE closing /\ ~others
  BY <1>1, <1>2 DEF Settle, JobType, PhaseType
<1>3. CASE closing /\ others
  BY <1>1, <1>3 DEF Settle, PhaseType
<1>4. CASE ~closing
  BY <1>1, <1>4 DEF Settle, PhaseType
<1>5. QED
  BY <1>2, <1>3, <1>4

\* The same for the stream.
LEMMA SettleStream ==
  ASSUME IInv, NEW closing \in BOOLEAN, NEW others \in BOOLEAN,
         phase.stream # "released", Settle("stream", closing, others)
  PROVE  /\ stream' \in StreamType /\ job' = job /\ phase' \in PhaseType
         /\ phase'.query = phase.query /\ stream'.left = stream.left
         /\ closing /\ ~others =>
               phase'.stream = "released" /\ stream'.state = "gone"
         /\ ~(closing /\ ~others) =>
               phase'.stream # "released" /\ stream' = stream
<1>1. stream \in StreamType /\ phase \in PhaseType
  BY InvParts DEF Rest
<1>2. CASE closing /\ ~others
  BY <1>1, <1>2 DEF Settle, StreamType, PhaseType
<1>3. CASE closing /\ others
  BY <1>1, <1>3 DEF Settle, PhaseType
<1>4. CASE ~closing
  BY <1>1, <1>4 DEF Settle, PhaseType
<1>5. QED
  BY <1>2, <1>3, <1>4

\* The end of an operation: its frames, if any, become the program's, and a
\* take that has taken the result closes the query.
EndOf(c, close) ==
    /\ End(c, close)
    /\ owned' = owned \cup calls[c].frames
    /\ UNCHANGED <<registered, lost>>
    /\ terminal' \in BOOLEAN
    /\ terminal' => \/ terminal
                    \/ /\ calls[c].op \in StreamOps
                       /\ calls[c].answer \in {"complete", "cancelled"}
    /\ calls[c].op = "take" => close = (calls[c].answer # "notReady")

\* An operation that ends keeps the invariant: its frames pass from the answer
\* to the program, and the handle is released when it was the last.
LEMMA EndKeeps ==
  ASSUME IInv, NEW c \in Callers, NEW close \in BOOLEAN, EndOf(c, close),
         calls[c].op \in QueryOps \cup StreamOps
  PROVE  IInv'
<1>1. calls[c] \in Call /\ Shaped(calls[c])
  BY CallTypes
<1>2. calls[c] # Idle
  BY <1>1, OpOfCall
<1>3. Becomes(c, Idle)
  BY BecomesStep, IdleCall DEF EndOf, End
<1>4. busy' = IF Of(calls[c].op) = "query" THEN FALSE ELSE busy
  BY DEF EndOf, End
<1>5. Exclusive' /\ busy' \in BOOLEAN
  BY <1>2, <1>3, <1>4, ExclusiveEnd, InvParts DEF Rest
<1>6. /\ registered' = registered /\ lost' = lost
      /\ owned' = owned \cup calls[c].frames /\ owned' \subseteq Frames
  BY <1>1, InvParts DEF EndOf, Rest, Call
<1>7. CASE calls[c].op \in QueryOps
  <2>1. PICK closing \in BOOLEAN, others \in BOOLEAN :
           /\ Settle("query", closing, others)
           /\ others <=> Leases("query") # {c}
           /\ close => closing
    <3>1. Of(calls[c].op) = "query"
      BY <1>1, <1>7, OpOfCall
    <3>2. Settle("query", close \/ phase["query"] = "closing", Leases("query") # {c})
      BY <3>1 DEF EndOf, End
    <3>3. PICK closing : closing = (close \/ phase["query"] = "closing")
      OBVIOUS
    <3>4. PICK others : others = (Leases("query") # {c})
      OBVIOUS
    <3>5. closing \in BOOLEAN /\ others \in BOOLEAN /\ (close => closing)
      BY <3>3, <3>4
    <3>6. QED
      BY <3>2, <3>3, <3>4, <3>5
  <2>2. ~others
    <3>1. \A d \in Callers : d \in Leases("query") <=> d = c
      BY <1>7, LeasesAre, InvParts DEF Exclusive
    <3>2. Leases("query") \subseteq Callers
      BY DEF Leases
    <3>3. Leases("query") = {c}
      BY <3>1, <3>2
    <3>4. QED
      BY <2>1, <3>3
  <2>3. phase.query # "released" /\ job.state # "gone"
    BY <1>7, Live, InvParts DEF Phases
  <2>4. /\ job' \in JobType /\ stream' = stream /\ phase' \in PhaseType
        /\ phase'.stream = phase.stream
        /\ closing => phase'.query = "released" /\ job'.state = "gone"
        /\ ~closing => phase'.query # "released" /\ job' = job
    BY <2>1, <2>2, <2>3, SettleQuery
  <2>5. terminal' \in BOOLEAN /\ (terminal' => terminal)
    BY <1>1, <1>7, OpOfCall DEF EndOf
  <2>6. Rest'
    BY <1>5, <1>6, <2>4, <2>5, InvParts DEF Rest
  <2>7. Phases'
    <3>1. \A d \in Callers : calls'[d].op \notin QueryOps
      BY <1>3, <1>7, IdleCall, InvParts DEF Becomes, Exclusive
    <3>2. \A d \in Callers : calls'[d].op \in StreamOps => calls[d].op \in StreamOps
      BY <1>3, IdleCall DEF Becomes
    <3>3. phase'.query = "released" <=> job'.state = "gone"
      BY <2>3, <2>4
    <3>4. QED
      BY <3>1, <3>2, <3>3, <2>4, InvParts DEF Phases
  <2>8. Taker'
    <3>1. SUFFICES ASSUME job.state = "taken" PROVE closing
      <4>1. Idle.answer # "taken"
        BY IdleCall
      <4>2. job'.state # "taken"
        BY <3>1, <2>4
      <4>3. QED
        BY <4>1, <4>2, <1>3, TakerStep
    <3>2. PICK d \in Callers : /\ calls[d].op = "take" /\ calls[d].step = "answered"
                               /\ calls[d].answer # "notReady"
      BY <3>1, InvParts DEF Taker
    <3>3. d = c
      BY <1>7, <3>2, InvParts DEF Exclusive, QueryOps
    <3>4. QED
      BY <2>1, <3>2, <3>3 DEF EndOf
  <2>9. Ended'
    BY <1>3, <2>4, <2>5, EndedStep, IdleCall
  <2>10. Frameful'
    BY <1>3, <1>6, <2>3, <2>4, FramefulAdopt
  <2>11. QED
    BY <1>3, <1>5, <2>6, <2>7, <2>8, <2>9, <2>10, Assemble
<1>8. CASE calls[c].op \in StreamOps
  <2>1. PICK closing \in BOOLEAN, others \in BOOLEAN :
           /\ Settle("stream", closing, others)
           /\ others <=> Leases("stream") # {c}
    <3>1. Of(calls[c].op) = "stream"
      BY <1>1, <1>8, OpOfCall
    <3>2. Settle("stream", close \/ phase["stream"] = "closing", Leases("stream") # {c})
      BY <3>1 DEF EndOf, End
    <3>3. PICK closing : closing = (close \/ phase["stream"] = "closing")
      OBVIOUS
    <3>4. PICK others : others = (Leases("stream") # {c})
      OBVIOUS
    <3>5. closing \in BOOLEAN /\ others \in BOOLEAN
      BY <3>3, <3>4
    <3>6. QED
      BY <3>2, <3>3, <3>4, <3>5
  <2>2. ~others => \A d \in Callers : d # c => calls[d].op \notin StreamOps
    BY <2>1, LeasesAre
  <2>3. phase.stream # "released" /\ stream.state # "gone" /\ calls[c].op \notin QueryOps
    BY <1>1, <1>8, Live, OpOfCall, InvParts DEF Phases
  <2>4. /\ stream' \in StreamType /\ job' = job /\ phase' \in PhaseType
        /\ phase'.query = phase.query /\ stream'.left = stream.left
        /\ closing /\ ~others =>
              phase'.stream = "released" /\ stream'.state = "gone"
        /\ ~(closing /\ ~others) =>
              phase'.stream # "released" /\ stream' = stream
    BY <2>1, <2>3, SettleStream
  <2>5. /\ stream.state # "active" => stream'.state # "active"
        /\ terminal' => terminal \/ stream'.state # "active"
    <3>1. stream.state # "active" => stream'.state # "active"
      BY <2>4
    <3>2. calls[c].answer \in {"complete", "cancelled"} => stream.state # "active"
      BY <1>8, InvParts DEF Ended
    <3>3. QED
      BY <3>1, <3>2 DEF EndOf
  <2>6. Rest'
    BY <1>5, <1>6, <2>4, InvParts DEF Rest, EndOf
  <2>7. Phases'
    <3>1. \A d \in Callers : calls'[d].op \in QueryOps => calls[d].op \in QueryOps
      BY <1>3, IdleCall DEF Becomes
    <3>2. \A d \in Callers : calls'[d].op \in StreamOps =>
             calls[d].op \in StreamOps /\ d # c
      BY <1>3, IdleCall DEF Becomes
    <3>3. phase'.stream = "released" <=> stream'.state = "gone"
      BY <2>3, <2>4
    <3>4. \A d \in Callers : calls'[d].op \in StreamOps => stream'.state # "gone"
      BY <3>2, <2>2, <2>3, <2>4
    <3>5. QED
      BY <3>1, <3>3, <3>4, <2>4, InvParts DEF Phases
  <2>8. Taker'
    BY <1>3, <2>3, <2>4, IdleCall, TakerStep
  <2>9. Ended'
    BY <1>3, <2>5, EndedStep, IdleCall
  <2>10. Frameful'
    BY <1>3, <1>6, <2>4, FramefulAdopt
  <2>11. QED
    BY <1>3, <1>5, <2>6, <2>7, <2>8, <2>9, <2>10, Assemble
<1>9. QED
  BY <1>7, <1>8

\* An operation that is not a take or a next ends with no frame.
LEMMA NoFrames ==
  ASSUME IInv, NEW c \in Callers, calls[c].op \notin {"take", "next"}
  PROVE  calls[c].frames = {}
  BY CallTypes DEF Shaped

\* EndPoll, EndWait and EndCancel keep the invariant.
LEMMA EndQueryKeeps ==
  ASSUME IInv, NEW c \in Callers, EndPoll(c) \/ EndWait(c) \/ EndCancel(c)
  PROVE  IInv'
<1>1. \E close \in BOOLEAN : End(c, close)
  <2>1. CASE EndPoll(c)
    <3>1. PICK close : close = (calls[c].answer \in {"failed", "cancelled",
                                                      "taken", "error"})
      OBVIOUS
    <3>2. close \in BOOLEAN /\ End(c, close)
      BY <2>1, <3>1 DEF EndPoll
    <3>3. QED
      BY <3>2
  <2>2. CASE EndWait(c)
    <3>1. PICK close : close = (calls[c].answer \in {"failed", "cancelled",
                                                      "error"})
      OBVIOUS
    <3>2. close \in BOOLEAN /\ End(c, close)
      BY <2>2, <3>1 DEF EndWait
    <3>3. QED
      BY <3>2
  <2>3. CASE EndCancel(c)
    BY <2>3 DEF EndCancel
  <2>4. QED
    BY <2>1, <2>2, <2>3
<1>2. PICK close \in BOOLEAN : End(c, close)
  BY <1>1
<1>3. /\ calls[c].op \in {"poll", "wait", "cancel"}
      /\ UNCHANGED <<registered, terminal, owned, lost>>
  BY DEF EndPoll, EndWait, EndCancel, Answered
<1>4. calls[c].frames = {}
  BY <1>3, NoFrames
<1>5. calls[c].op \in QueryOps \cup StreamOps
  BY <1>3 DEF QueryOps
<1>6. terminal' \in BOOLEAN /\ (terminal' => terminal)
  BY <1>3, InvParts DEF Rest
<1>7. owned' = owned \cup calls[c].frames
  BY <1>3, <1>4
<1>8. EndOf(c, close)
  BY <1>2, <1>3, <1>6, <1>7 DEF EndOf
<1>9. QED
  BY <1>5, <1>8, EndKeeps

\* Wake keeps the invariant.
LEMMA WakeKeeps ==
  ASSUME IInv, NEW c \in Callers, Wake(c)
  PROVE  IInv'
<1>1. calls[c].step = "sleeping" /\ UNCHANGED <<registered, terminal, owned, lost>>
  BY DEF Wake
<1>2. CASE phase.query = "open"
  <2>1. Send(c, "wait") /\ UNCHANGED <<native, phase, busy, terminal, owned>>
    BY <1>1, <1>2 DEF Wake, native
  <2>2. QED
    BY <1>1, <2>1, WakePollKeeps
<1>3. CASE phase.query # "open"
  <2>1. End(c, TRUE)
    BY <1>3 DEF Wake
  <2>2. calls[c].op = "wait"
    BY <1>1, CallTypes DEF Shaped
  <2>3. owned' = owned \cup calls[c].frames
    BY <1>1, <2>2, NoFrames
  <2>4. terminal' \in BOOLEAN /\ (terminal' => terminal)
    BY <1>1, InvParts DEF Rest
  <2>5. EndOf(c, TRUE)
    BY <1>1, <2>1, <2>2, <2>3, <2>4 DEF EndOf
  <2>6. calls[c].op \in QueryOps \cup StreamOps
    BY <2>2 DEF QueryOps
  <2>7. QED
    BY <2>5, <2>6, EndKeeps
<1>4. QED
  BY <1>2, <1>3

\* EndTake keeps the invariant.
LEMMA EndTakeKeeps ==
  ASSUME IInv, NEW c \in Callers, EndTake(c)
  PROVE  IInv'
<1>1. PICK close : close = (calls[c].answer # "notReady")
  OBVIOUS
<1>2. close \in BOOLEAN
  BY <1>1
<1>3. /\ calls[c].op = "take" /\ owned' = owned \cup calls[c].frames
      /\ End(c, close) /\ UNCHANGED <<registered, terminal, lost>>
  BY <1>1 DEF EndTake, Answered
<1>4. terminal' \in BOOLEAN /\ (terminal' => terminal)
  BY <1>3, InvParts DEF Rest
<1>5. EndOf(c, close)
  BY <1>1, <1>3, <1>4 DEF EndOf
<1>6. calls[c].op \in QueryOps \cup StreamOps
  BY <1>3 DEF QueryOps
<1>7. QED
  BY <1>2, <1>5, <1>6, EndKeeps

\* EndNext and EndStop keep the invariant.
LEMMA EndStreamKeeps ==
  ASSUME IInv, NEW c \in Callers, EndNext(c) \/ EndStop(c)
  PROVE  IInv'
<1>1. /\ calls[c].op \in {"next", "stop"} /\ End(c, FALSE)
      /\ UNCHANGED <<registered, lost>>
  BY DEF EndNext, EndStop, Answered
<1>2. owned' = owned \cup calls[c].frames
  BY NoFrames DEF EndNext, EndStop, Answered
<1>3. calls[c].op \in StreamOps
  BY <1>1 DEF StreamOps
<1>4. terminal \in BOOLEAN
  BY InvParts DEF Rest
<1>5. \/ terminal' = (terminal \/ calls[c].answer \in {"complete", "cancelled"})
      \/ terminal' = (terminal \/ calls[c].answer = "cancelled")
  BY DEF EndNext, EndStop
<1>6. /\ terminal' \in BOOLEAN
      /\ terminal' => terminal \/ calls[c].answer \in {"complete", "cancelled"}
  BY <1>4, <1>5
<1>7. EndOf(c, FALSE)
  BY <1>1, <1>2, <1>3, <1>6 DEF EndOf
<1>8. QED
  BY <1>3, <1>7, EndKeeps

\* A step that leaves every call as it is.
LEMMA CallsSame ==
  ASSUME IInv, UNCHANGED <<calls, busy>>, Rest', Phases', Taker', Ended', Frameful'
  PROVE  IInv'
<1>1. calls' \in [Callers -> Call] /\ Shape' /\ Exclusive'
  BY CallTypes, InvParts DEF Shape, Shaped, Exclusive
<1>2. QED
  BY <1>1, TypePartsNext DEF IInv

\* JobEnds keeps the invariant.
LEMMA JobEndsKeeps ==
  ASSUME IInv, JobEnds
  PROVE  IInv'
<1>1. PICK state \in {"cancelled", "complete", "failed"} :
         job' = [job EXCEPT !.state = state]
  BY DEF JobEnds
<1>2. /\ job.state = "running"
      /\ UNCHANGED <<stream, registered, phase, busy, terminal, calls, owned, lost>>
  BY DEF JobEnds
<1>3. job' \in JobType /\ job'.state \in {"cancelled", "complete", "failed"}
  BY <1>1, InvParts DEF Rest, JobType
<1>4. Rest'
  BY <1>2, <1>3, InvParts DEF Rest
<1>5. Phases'
  BY <1>2, <1>3, InvParts DEF Phases
<1>6. Taker'
  BY <1>2, <1>3, InvParts DEF Taker
<1>7. Ended'
  BY <1>2, InvParts DEF Ended
<1>8. Frameful'
  BY <1>2, <1>3, InvParts DEF Frameful
<1>9. QED
  BY <1>2, <1>4, <1>5, <1>6, <1>7, <1>8, CallsSame

\* CloseQuery keeps the invariant.
LEMMA CloseQueryKeeps ==
  ASSUME IInv, CloseQuery
  PROVE  IInv'
<1>1. PICK others : others = (Leases("query") # {})
  OBVIOUS
<1>2. /\ phase.query = "open" /\ others \in BOOLEAN /\ TRUE \in BOOLEAN
      /\ Settle("query", TRUE, others)
      /\ UNCHANGED <<registered, busy, terminal, calls, owned, lost>>
  BY <1>1 DEF CloseQuery
<1>3. /\ job' \in JobType /\ stream' = stream /\ phase' \in PhaseType
      /\ phase'.stream = phase.stream
      /\ ~others => phase'.query = "released" /\ job'.state = "gone"
      /\ others => phase'.query # "released" /\ job' = job
  BY <1>2, SettleQuery
<1>4. ~others => \A c \in Callers : calls[c].op \notin QueryOps
  BY <1>1, LeasesAre
<1>5. job.state # "gone"
  BY <1>2, OpenIsLive
<1>6. Rest'
  BY <1>2, <1>3, InvParts DEF Rest
<1>7. Phases'
  <2>1. CASE others
    BY <2>1, <1>2, <1>3, <1>5, InvParts DEF Phases
  <2>2. CASE ~others
    BY <2>2, <1>2, <1>3, <1>4, InvParts DEF Phases
  <2>3. QED
    BY <2>1, <2>2, <1>2
<1>8. Taker'
  BY <1>2, <1>3, InvParts DEF Taker
<1>9. Ended'
  BY <1>2, <1>3, InvParts DEF Ended
<1>10. Frameful'
  BY <1>2, <1>3, <1>5, InvParts DEF Frameful
<1>11. QED
  BY <1>2, <1>6, <1>7, <1>8, <1>9, <1>10, CallsSame

\* CloseStream keeps the invariant.
LEMMA CloseStreamKeeps ==
  ASSUME IInv, CloseStream
  PROVE  IInv'
<1>1. PICK cancelled \in BOOLEAN :
         /\ terminal' = (terminal \/ cancelled)
         /\ stream' = [stream EXCEPT !.state =
                          CASE Leases("stream") = {} -> "gone"
                            [] Leases("stream") # {} /\ cancelled -> "cancelled"
                            [] OTHER -> @]
  BY DEF CloseStream
<1>2. /\ phase.stream = "open"
      /\ phase' = [phase EXCEPT !.stream = IF Leases("stream") = {} THEN "released"
                                                                    ELSE "closing"]
      /\ UNCHANGED <<job, registered, busy, calls, owned, lost>>
  BY DEF CloseStream
<1>3. stream \in StreamType /\ phase \in PhaseType /\ terminal \in BOOLEAN
  BY InvParts DEF Rest
<1>4. stream.state # "gone"
  BY <1>2, OpenIsLive
<1>5. /\ stream' \in StreamType /\ phase' \in PhaseType /\ phase'.query = phase.query
      /\ stream'.left = stream.left /\ terminal' \in BOOLEAN
      /\ phase'.stream = "released" <=> stream'.state = "gone"
      /\ stream.state # "active" => stream'.state # "active"
      /\ terminal' => terminal \/ stream'.state # "active"
      /\ Leases("stream") # {} => stream'.state # "gone"
  <2>1. CASE Leases("stream") = {}
    BY <2>1, <1>1, <1>2, <1>3 DEF StreamType, PhaseType
  <2>2. CASE Leases("stream") # {} /\ cancelled
    BY <2>2, <1>1, <1>2, <1>3 DEF StreamType, PhaseType
  <2>3. CASE Leases("stream") # {} /\ ~cancelled
    BY <2>3, <1>1, <1>2, <1>3, <1>4 DEF StreamType, PhaseType
  <2>4. QED
    BY <2>1, <2>2, <2>3
<1>6. Rest'
  BY <1>2, <1>5, InvParts DEF Rest
<1>7. Phases'
  <2>1. \A c \in Callers : calls[c].op \in StreamOps => Leases("stream") # {}
    BY LeasesAre
  <2>2. QED
    BY <2>1, <1>2, <1>5, InvParts DEF Phases
<1>8. Taker'
  BY <1>2, InvParts DEF Taker
<1>9. Ended'
  BY <1>2, <1>5, InvParts DEF Ended
<1>10. Frameful'
  BY <1>2, <1>5, InvParts DEF Frameful
<1>11. QED
  BY <1>2, <1>6, <1>7, <1>8, <1>9, <1>10, CallsSame

\* CloseFrame keeps the invariant.
LEMMA CloseFrameKeeps ==
  ASSUME IInv, NEW f \in Frames, CloseFrame(f)
  PROVE  IInv'
<1>1. /\ f \in owned /\ owned' = owned \ {f} /\ registered' = registered \ {f}
      /\ UNCHANGED <<job, stream, phase, busy, terminal, calls, lost>>
  BY DEF CloseFrame
<1>2. Cardinality(registered') <= Room
  <2>1. IsFiniteSet(registered)
    BY InvParts, FramesFinite
  <2>2. /\ Cardinality(registered) \in Nat /\ Cardinality(registered') \in Nat
        /\ Cardinality(registered') <= Cardinality(registered)
    BY <2>1, <1>1, FS_Subset, FS_CardinalityType, registered' \subseteq registered
  <2>3. QED
    BY <2>2, InvParts, AsyncClientsAssumption DEF Rest
<1>3. Rest'
  BY <1>1, <1>2, InvParts DEF Rest
<1>4. Phases' /\ Taker' /\ Ended'
  BY <1>1, InvParts DEF Phases, Taker, Ended
<1>5. Frameful'
  <2>1. \A c \in Callers : f \notin calls[c].frames
    BY <1>1, InvParts DEF Frameful
  <2>2. QED
    BY <1>1, <2>1, InvParts DEF Frameful
<1>6. QED
  BY <1>1, <1>3, <1>4, <1>5, CallsSame

--------------------------------------------------------------------------------
(* Theorems *)

\* Nobody has called anything at first.
LEMMA InitHolds ==
  ASSUME Init
  PROVE  IInv
<1>1. \A c \in Callers : calls[c] = Idle
  BY DEF Init
<1>2. calls \in [Callers -> Call]
  BY IdleCall DEF Init
<1>3. Rest
  <2>1. Cardinality({}) = 0 /\ 0 <= Room
    BY FS_EmptySet, AsyncClientsAssumption
  <2>2. Total \in 0..Total
    BY AsyncClientsAssumption
  <2>3. QED
    BY <2>1, <2>2 DEF Init, Rest, JobType, StreamType, PhaseType
<1>4. Shape
  BY <1>1, IdleCall DEF Shape
<1>5. Exclusive /\ Phases /\ Ended
  BY <1>1, IdleCall DEF Init, Exclusive, Phases, Ended
<1>6. Taker
  BY <1>1, IdleCall DEF Init, Taker
<1>7. Frameful
  BY <1>1, IdleCall DEF Init, Frameful
<1>8. QED
  BY <1>2, <1>3, <1>4, <1>5, <1>6, <1>7, TypeParts DEF IInv

\* Every step keeps the invariant.
LEMMA StepKeeps ==
  ASSUME IInv, [Next]_vars
  PROVE  IInv'
<1>1. ASSUME NEW c \in Callers, \E op \in QueryOps : Begin(c, op)
      PROVE  IInv'
  BY <1>1, BeginKeeps
<1>2. ASSUME NEW c \in Callers, PollNext(c) \/ Stop(c)
      PROVE  IInv'
  <2>1. PICK op \in StreamOps : Send(c, op)
    BY <1>2 DEF PollNext, Stop, StreamOps
  <2>2. /\ calls[c] = Idle /\ phase.stream = "open"
        /\ UNCHANGED <<native, phase, busy, terminal, owned>>
    BY <1>2 DEF PollNext, Stop
  <2>3. QED
    BY <2>1, <2>2, StreamSendKeeps
<1>3. ASSUME NEW c \in Callers, Proceed(c)
      PROVE  IInv'
  BY <1>3, ExecuteKeeps, TransportFailsKeeps, EndQueryKeeps, SleepKeeps, WakeKeeps,
     EndTakeKeeps, EndStreamKeeps DEF Proceed
<1>4. CASE UNCHANGED vars
  <2>1. /\ calls' = calls /\ busy' = busy
        /\ UNCHANGED <<job, stream, registered, phase, terminal, owned, lost>>
    BY <1>4 DEF vars
  <2>2. Rest' /\ Phases' /\ Taker' /\ Ended' /\ Frameful'
    BY <2>1, InvParts DEF Rest, Phases, Taker, Ended, Frameful
  <2>3. QED
    BY <2>1, <2>2, CallsSame
<1>5. QED
  BY <1>1, <1>2, <1>3, <1>4, JobEndsKeeps, CloseQueryKeeps, CloseStreamKeeps,
     CloseFrameKeeps DEF Next

\* IInv holds in every state.
LEMMA Invariant == Spec => []IInv
<1>1. Init => IInv
  BY InitHolds
<1>2. IInv /\ [Next]_vars => IInv'
  BY StepKeeps
<1>3. QED
  BY <1>1, <1>2, PTL DEF Spec

\* Types, and the registry never holds more than it has room for, for every
\* number of callers, batches and frames.
THEOREM TypeCorrect == Spec => []TypeOK
<1>1. IInv => TypeOK
  BY DEF IInv
<1>2. QED
  BY <1>1, Invariant, PTL

\* Every frame native code registered is the program's, or is in the one answer
\* that will make it so, whatever is cancelled, closed or failing in between
\* (batch_stream.dart, plan.dart).
THEOREM FramesCorrect == Spec => []FramesOwned
<1>1. ASSUME IInv
      PROVE  FramesOwned
  <2>1. Frameful /\ registered \subseteq Frames /\ owned \subseteq Frames
    BY <1>1, InvParts DEF Rest
  <2>2. \A f, c : c \in answering(f) <=> c \in Callers /\ f \in calls[c].frames
    BY DEF answering
  <2>3. \A f \in Frames : f \in owned => answering(f) = {}
    BY <2>1, <2>2 DEF Frameful
  <2>4. owned \cup {f \in Frames : answering(f) # {}} = registered
    <3>1. \A f \in Frames : answering(f) # {} <=>
                               \E c \in Callers : f \in calls[c].frames
      BY <2>2
    <3>2. QED
      BY <2>1, <3>1 DEF Frameful
  <2>5. \A f \in Frames : Cardinality(answering(f)) <= 1
    <3>1. SUFFICES ASSUME NEW f \in Frames PROVE Cardinality(answering(f)) <= 1
      OBVIOUS
    <3>2. CASE answering(f) = {}
      BY <3>2, FS_EmptySet
    <3>3. CASE answering(f) # {}
      <4>1. PICK c \in Callers : c \in answering(f)
        BY <3>3, <2>2
      <4>2. answering(f) = {c}
        BY <4>1, <2>1, <2>2 DEF Frameful
      <4>3. QED
        BY <4>2, FS_Singleton
    <3>4. QED
      BY <3>2, <3>3
  <2>6. QED
    BY <2>3, <2>4, <2>5 DEF FramesOwned
<1>2. QED
  BY <1>1, Invariant, PTL

\* A stream that its Dart object believes ended has ended, and no caller is told
\* that another has taken the result (batch_stream.dart: _terminal; plan.dart:
\* _busy).
THEOREM ClientsCorrect == Spec => []ClientsAgree
<1>1. IInv => ClientsAgree
  BY InvParts DEF ClientsAgree, Taker, Ended
<1>2. QED
  BY <1>1, Invariant, PTL

--------------------------------------------------------------------------------
(* The promises of Query.tla and PullStream.tla *)

\* The two native objects in the terms of their promises.
seen(k) == IF k.state = "running" /\ k.requested THEN "cancelling" ELSE k.state

upTo(n) == [i \in 1..n |-> i]

ending(s) ==
    CASE s.state = "active" -> "open"
      [] s.state = "complete" -> IF s.left = 0 THEN "complete" ELSE "failed"
      [] s.state = "cancelled" -> "cancelled"
      [] OTHER -> "closed"

PromisedQuery == INSTANCE Query WITH state <- seen(job)

PromisedStream == INSTANCE PullStream WITH received <- upTo(Total - stream.left),
                                           verdict <- ending(stream)

\* What a step may do to the job ...
JobMoves ==
    \/ seen(job') = seen(job)
    \/ seen(job) = "running" /\ seen(job') \in {"complete", "failed", "cancelling"}
    \/ seen(job) = "cancelling" /\ seen(job') = "cancelled"
    \/ seen(job) \in {"complete", "failed", "cancelled"} /\ seen(job') = "taken"
    \/ seen(job) # "gone" /\ seen(job') = "gone"

\* ... to the stream ...
Given ==
    /\ stream.state = "active" /\ stream.left > 0
    /\ stream'.state = "active" /\ stream'.left = stream.left - 1

StreamMoves ==
    \/ stream' = stream
    \/ Given
    \/ stream'.left = stream.left /\ stream.state = "active"
                                  /\ stream'.state = "complete"
    \/ stream'.left = stream.left /\ stream.state # "gone"
                                  /\ stream'.state \in {"cancelled", "gone"}

\* ... and which frames it may bring out of them.
handedOut == registered \cup lost

FramesMove ==
    \A f \in Frames : f \in handedOut' =>
        \/ f \in handedOut
        \/ f = Result /\ seen(job) = "complete" /\ seen(job') = "taken"
        \/ f = Total + 1 - stream.left /\ Given

Moves == JobMoves /\ StreamMoves /\ FramesMove

\* A step that touches neither object.
LEMMA NativeSame ==
    ASSUME UNCHANGED native
    PROVE  Moves
  BY DEF native, Moves, JobMoves, StreamMoves, FramesMove, handedOut

\* The end of a lease may release the handle of its owner.
LEMMA SettleMoves ==
    ASSUME IInv, NEW who \in {"query", "stream"}, NEW closing, NEW others,
           Settle(who, closing, others), UNCHANGED <<registered, lost>>,
           who = "stream" => stream.state # "gone"
    PROVE  Moves
<1>1. job \in JobType /\ stream \in StreamType
  BY InvParts DEF Rest
<1>2. FramesMove
  BY DEF FramesMove, handedOut
<1>3. \/ job' = job
      \/ job' = [job EXCEPT !.state = "gone"]
  BY DEF Settle
<1>4. JobMoves
  BY <1>1, <1>3 DEF JobMoves, seen, JobType
<1>5. \/ stream' = stream
      \/ stream' = [stream EXCEPT !.state = "gone"] /\ stream.state # "gone"
  BY DEF Settle
<1>6. StreamMoves
  BY <1>1, <1>5 DEF StreamMoves, StreamType
<1>7. QED
  BY <1>2, <1>4, <1>6 DEF Moves

\* The end of an operation.
LEMMA EndMoves ==
    ASSUME IInv, NEW c \in Callers, NEW close, End(c, close),
           calls[c].op \in QueryOps \cup StreamOps, UNCHANGED <<registered, lost>>
    PROVE  Moves
<1>1. Of(calls[c].op) = "stream" => calls[c].op \in StreamOps
  BY DEF Of
<1>2. Of(calls[c].op) = "stream" => stream.state # "gone"
  BY <1>1, Live
<1>3. Of(calls[c].op) \in {"query", "stream"}
  BY DEF Of
<1>4. QED
  BY <1>2, <1>3, SettleMoves DEF End

\* What leaves its job or stream is registered or lost, and nothing else is.
LEMMA DeliverMoves ==
    ASSUME NEW c, NEW f, Deliver(c, f)
    PROVE  handedOut' = handedOut \cup {f}
  BY DEF Deliver, handedOut

\* jobTake finds the query running, already taken, or at its end.
LEMMA JobTakeMoves ==
    ASSUME IInv, NEW c \in Callers, calls[c].op = "take", JobTake(c)
    PROVE  Moves
<1>1. /\ stream' = stream
      /\ job \in JobType /\ job.state # "gone"
  BY Live, InvParts DEF JobTake, Rest, QueryOps
<1>2. StreamMoves
  BY <1>1 DEF StreamMoves
<1>3. CASE job.state \in {"running", "taken"}
  BY <1>3, NativeSame DEF JobTake
<1>4. CASE job.state = "complete"
  <2>1. job' = [job EXCEPT !.state = "taken"] /\ Deliver(c, Result)
    BY <1>4 DEF JobTake
  <2>2. seen(job) = "complete" /\ seen(job') = "taken"
    BY <1>1, <1>4, <2>1 DEF seen, JobType
  <2>3. FramesMove
    BY <2>1, <2>2, DeliverMoves DEF FramesMove
  <2>4. QED
    BY <1>2, <2>2, <2>3 DEF Moves, JobMoves
<1>5. CASE job.state \in {"failed", "cancelled"}
  <2>1. job' = [job EXCEPT !.state = "taken"] /\ UNCHANGED <<registered, lost>>
    BY <1>5 DEF JobTake
  <2>2. seen(job) \in {"failed", "cancelled"} /\ seen(job') = "taken"
    BY <1>1, <1>5, <2>1 DEF seen, JobType
  <2>3. FramesMove
    BY <2>1 DEF FramesMove, handedOut
  <2>4. QED
    BY <1>2, <2>2, <2>3 DEF Moves, JobMoves
<1>6. QED
  BY <1>1, <1>3, <1>4, <1>5 DEF JobType

\* A poll of the stream gives a batch, ends it or changes nothing.
LEMMA BatchStreamPollMoves ==
    ASSUME IInv, NEW c \in Callers, BatchStreamPoll(c)
    PROVE  Moves
<1>1. job' = job /\ stream \in StreamType
  BY InvParts DEF BatchStreamPoll, Rest
<1>2. JobMoves
  BY <1>1 DEF JobMoves
<1>3. CASE UNCHANGED native
  BY <1>3, NativeSame
<1>4. ASSUME stream.state = "active", stream.left > 0,
             stream' = [stream EXCEPT !.left = @ - 1],
             Deliver(c, Total + 1 - stream.left)
      PROVE  Moves
  <2>1. Given
    BY <1>1, <1>4 DEF Given, StreamType
  <2>2. FramesMove
    BY <1>4, <2>1, DeliverMoves DEF FramesMove
  <2>3. QED
    BY <1>2, <2>1, <2>2 DEF Moves, StreamMoves
<1>5. ASSUME stream.state = "active", stream' = [stream EXCEPT !.state = "complete"],
             UNCHANGED <<registered, lost>>
      PROVE  Moves
  <2>1. StreamMoves
    BY <1>1, <1>5 DEF StreamMoves, StreamType
  <2>2. FramesMove
    BY <1>5 DEF FramesMove, handedOut
  <2>3. QED
    BY <1>2, <2>1, <2>2 DEF Moves
<1>6. QED
  BY <1>3, <1>4, <1>5 DEF BatchStreamPoll

\* A command of the worker isolate.
LEMMA ExecuteMoves ==
    ASSUME IInv, NEW c \in Callers, Execute(c)
    PROVE  Moves
<1>1. calls[c].op \in {"poll", "wait", "cancel", "take", "next", "stop"}
  BY CallTypes DEF Execute, Shaped, Call, QueryOps, StreamOps
<1>2. job \in JobType /\ stream \in StreamType
  BY InvParts DEF Rest
<1>3. CASE calls[c].op \in {"poll", "wait"}
  BY <1>3, NativeSame DEF Execute, JobPoll
<1>4. CASE calls[c].op = "cancel"
  <2>1. /\ job' = [job EXCEPT !.requested = @ \/ job.state = "running"]
        /\ UNCHANGED <<stream, registered, lost>>
    BY <1>4 DEF Execute, JobCancel
  <2>2. JobMoves
    BY <1>2, <2>1 DEF JobMoves, seen, JobType
  <2>3. QED
    BY <2>1, <2>2 DEF Moves, StreamMoves, FramesMove, handedOut
<1>5. CASE calls[c].op = "take"
  BY <1>5, JobTakeMoves DEF Execute
<1>6. CASE calls[c].op = "next"
  BY <1>6, BatchStreamPollMoves DEF Execute
<1>7. CASE calls[c].op = "stop"
  <2>1. /\ stream' = [stream EXCEPT !.state = "cancelled"]
        /\ UNCHANGED <<job, registered, lost>>
    BY <1>7 DEF Execute, BatchStreamCancel
  <2>2. stream.state # "gone"
    BY <1>7, Live DEF StreamOps
  <2>3. StreamMoves
    BY <1>2, <2>1, <2>2 DEF StreamMoves, StreamType
  <2>4. QED
    BY <2>1, <2>3 DEF Moves, JobMoves, FramesMove, handedOut
<1>8. QED
  BY <1>1, <1>3, <1>4, <1>5, <1>6, <1>7

\* The parts of the Dart objects after the await.
LEMMA AnswersMove ==
    ASSUME IInv, NEW c \in Callers,
           \/ EndPoll(c) \/ EndWait(c) \/ Sleep(c) \/ Wake(c) \/ EndCancel(c)
           \/ EndTake(c) \/ EndNext(c) \/ EndStop(c)
    PROVE  Moves
<1>1. CASE EndPoll(c)
  BY <1>1, EndMoves DEF EndPoll, Answered, QueryOps
<1>2. CASE EndWait(c)
  BY <1>2, EndMoves DEF EndWait, Answered, QueryOps
<1>3. CASE Sleep(c)
  BY <1>3, NativeSame DEF Sleep
<1>4. CASE Wake(c)
  <2>1. calls[c].op = "wait"
    BY <1>4, CallTypes DEF Wake, Shaped
  <2>2. CASE phase.query = "open"
    BY <1>4, <2>2, NativeSame DEF Wake, native
  <2>3. CASE phase.query # "open"
    BY <1>4, <2>1, <2>3, EndMoves DEF Wake, QueryOps
  <2>4. QED
    BY <2>2, <2>3
<1>5. CASE EndCancel(c)
  BY <1>5, EndMoves DEF EndCancel, Answered, QueryOps
<1>6. CASE EndTake(c)
  BY <1>6, EndMoves DEF EndTake, Answered, QueryOps
<1>7. CASE EndNext(c)
  BY <1>7, EndMoves DEF EndNext, Answered, StreamOps
<1>8. CASE EndStop(c)
  BY <1>8, EndMoves DEF EndStop, Answered, StreamOps
<1>9. QED
  BY <1>1, <1>2, <1>3, <1>4, <1>5, <1>6, <1>7, <1>8

\* What the program closes.
LEMMA CloseMoves ==
    ASSUME IInv, \/ CloseQuery \/ CloseStream \/ \E f \in Frames : CloseFrame(f)
    PROVE  Moves
<1>1. stream \in StreamType
  BY InvParts DEF Rest
<1>2. CASE CloseQuery
  BY <1>2, SettleMoves DEF CloseQuery
<1>3. CASE CloseStream
  <2>1. stream.state # "gone" /\ UNCHANGED <<job, registered, lost>>
    BY <1>3, OpenIsLive DEF CloseStream
  <2>2. PICK s \in {"cancelled", "gone", stream.state} :
           stream' = [stream EXCEPT !.state = s]
    BY <1>3 DEF CloseStream
  <2>3. StreamMoves
    BY <1>1, <2>1, <2>2 DEF StreamMoves, StreamType
  <2>4. QED
    BY <2>1, <2>3 DEF Moves, JobMoves, FramesMove, handedOut
<1>4. CASE \E f \in Frames : CloseFrame(f)
  BY <1>4 DEF CloseFrame, Moves, JobMoves, StreamMoves, FramesMove, handedOut
<1>5. QED
  BY <1>2, <1>3, <1>4

\* Every step moves the two objects as Moves says.
LEMMA StepMoves ==
    ASSUME IInv, [Next]_vars
    PROVE  Moves
<1>1. CASE JobEnds
  <2>1. job \in JobType /\ UNCHANGED <<stream, registered, lost>>
    BY <1>1, InvParts DEF Rest, JobEnds
  <2>2. PICK s \in IF job.requested THEN {"cancelled"} ELSE {"complete", "failed"} :
           job' = [job EXCEPT !.state = s]
    BY <1>1 DEF JobEnds
  <2>3. JobMoves
    BY <1>1, <2>1, <2>2 DEF JobEnds, JobMoves, seen, JobType
  <2>4. QED
    BY <2>1, <2>3 DEF Moves, StreamMoves, FramesMove, handedOut
<1>2. ASSUME NEW c \in Callers,
             \/ \E op \in QueryOps : Begin(c, op)
             \/ PollNext(c) \/ Stop(c) \/ TransportFails(c)
      PROVE  Moves
  BY <1>2, NativeSame DEF Begin, PollNext, Stop, TransportFails
<1>3. ASSUME NEW c \in Callers, Proceed(c), ~TransportFails(c) PROVE Moves
  BY <1>3, ExecuteMoves, AnswersMove DEF Proceed
<1>4. CASE UNCHANGED vars
  BY <1>4, NativeSame DEF vars, native
<1>5. QED
  BY <1>1, <1>2, <1>3, <1>4, CloseMoves DEF Next, Proceed

\* The batches 1..n in order, and one more.
LEMMA UpToFacts ==
    ASSUME NEW n \in Nat
    PROVE  /\ Len(upTo(n)) = n
           /\ upTo(n + 1) = Append(upTo(n), n + 1)
           /\ upTo(0) = <<>>
<1>1. upTo(n) \in [1..n -> Nat] /\ upTo(n + 1) \in [1..(n + 1) -> Nat]
  BY DEF upTo
<1>2. upTo(n) \in Seq(Nat) /\ Len(upTo(n)) = n
  BY <1>1
<1>3. upTo(n + 1) \in Seq(Nat) /\ Len(upTo(n + 1)) = n + 1
  BY <1>1
<1>4. /\ Append(upTo(n), n + 1) \in Seq(Nat)
      /\ Len(Append(upTo(n), n + 1)) = n + 1
      /\ \A i \in 1..n : Append(upTo(n), n + 1)[i] = upTo(n)[i]
      /\ Append(upTo(n), n + 1)[n + 1] = n + 1
  BY <1>2, AppendProperties
<1>5. \A i \in 1..(n + 1) : upTo(n + 1)[i] = Append(upTo(n), n + 1)[i]
  BY <1>4 DEF upTo
<1>6. upTo(n + 1) = Append(upTo(n), n + 1)
  BY <1>3, <1>4, <1>5, SeqEqual
<1>7. upTo(0) = <<>>
  BY DEF upTo
<1>8. QED
  BY <1>2, <1>6, <1>7

\* The job as the Dart objects drive it, by polls, takes, cancellations and the
\* release of its handle, is a query as Query.tla promises one: the object that
\* Jobs.tla implements, seen from the other side of the ABI (plan.dart:
\* CancellableQuery over jobs.rs).
THEOREM QueryRefinement == Spec => PromisedQuery!QuerySpec
<1>1. Init => PromisedQuery!QueryInit
  BY DEF Init, PromisedQuery!QueryInit, seen
<1>2. IInv /\ [Next]_vars => [PromisedQuery!QueryNext]_(seen(job))
  <2> SUFFICES ASSUME IInv, [Next]_vars
               PROVE  [PromisedQuery!QueryNext]_(seen(job))
    OBVIOUS
  <2>1. JobMoves
    BY StepMoves DEF Moves
  <2>2. seen(job)' = seen(job') /\ seen(job) # "none"
    BY InvParts DEF seen, Rest, JobType
  <2>3. QED
    BY <2>1, <2>2 DEF JobMoves, PromisedQuery!QueryNext, PromisedQuery!Finish,
       PromisedQuery!Cancel, PromisedQuery!Discard, PromisedQuery!Take,
       PromisedQuery!Abandon
<1>3. QED
  BY <1>1, <1>2, Invariant, PTL DEF Spec, PromisedQuery!QuerySpec

\* One step of the stream, in the terms of PullStream.
LEMMA PullStep ==
    ASSUME IInv, [Next]_vars
    PROVE  PromisedStream!PullNext
              \/ UNCHANGED <<upTo(Total - stream.left), ending(stream)>>
<1>1. /\ StreamMoves
      /\ stream \in StreamType /\ Total \in Nat
  BY StepMoves, InvParts, AsyncClientsAssumption DEF Moves, Rest
<1>2. CASE stream' = stream
  BY <1>2
<1>3. CASE Given
  <2>1. PICK n : n = Total - stream.left
    OBVIOUS
  <2>2. n \in Nat /\ n < Total /\ Total - stream'.left = n + 1
    BY <1>1, <1>3, <2>1 DEF Given, StreamType
  <2>3. upTo(Total - stream.left)' = upTo(n + 1)
    BY <2>2
  <2>4. /\ Len(upTo(Total - stream.left)) = n
        /\ upTo(Total - stream.left)' = Append(upTo(Total - stream.left), n + 1)
    BY <2>1, <2>2, <2>3, UpToFacts
  <2>5. ending(stream) = "open" /\ ending(stream)' = "open"
    BY <1>3 DEF Given, ending
  <2>6. PromisedStream!Give
    BY <2>2, <2>4, <2>5 DEF PromisedStream!Give
  <2>7. QED
    BY <2>6 DEF PromisedStream!PullNext
<1>4. CASE /\ stream'.left = stream.left
           /\ stream.state = "active" /\ stream'.state = "complete"
  <2>1. /\ upTo(Total - stream.left)' = upTo(Total - stream.left)
        /\ ending(stream) = "open"
        /\ ending(stream)' = IF stream.left = 0 THEN "complete" ELSE "failed"
    BY <1>4 DEF ending
  <2>2. CASE stream.left = 0
    <3>1. Len(upTo(Total - stream.left)) = Total
      BY <1>1, <2>2, UpToFacts
    <3>2. PromisedStream!End
      BY <2>1, <2>2, <3>1 DEF PromisedStream!End
    <3>3. QED
      BY <3>2 DEF PromisedStream!PullNext
  <2>3. CASE stream.left # 0
    BY <2>1, <2>3 DEF PromisedStream!PullNext, PromisedStream!Fail
  <2>4. QED
    BY <2>2, <2>3
<1>5. CASE /\ stream'.left = stream.left
           /\ stream.state # "gone" /\ stream'.state \in {"cancelled", "gone"}
  <2>1. /\ upTo(Total - stream.left)' = upTo(Total - stream.left)
        /\ ending(stream) # "closed"
        /\ ending(stream)' \in {"cancelled", "closed"}
    BY <1>1, <1>5 DEF ending, StreamType
  <2>2. QED
    BY <2>1 DEF PromisedStream!PullNext, PromisedStream!Stop
<1>6. QED
  BY <1>1, <1>2, <1>3, <1>4, <1>5 DEF StreamMoves

\* The stream as the Dart objects drive it is a stream as PullStream.tla promises
\* one and BatchStream.tla implements one: in order, nothing after the end, and an
\* end of its own accord only after the last batch (batch_stream.dart over
\* batch_stream.rs).
THEOREM StreamRefinement == Spec => PromisedStream!PullSpec
<1>1. Init => PromisedStream!PullInit
  <2> SUFFICES ASSUME Init PROVE PromisedStream!PullInit
    OBVIOUS
  <2>1. Total - stream.left = 0 /\ ending(stream) = "open"
    BY AsyncClientsAssumption DEF Init, ending
  <2>2. upTo(Total - stream.left) = <<>>
    BY <2>1, UpToFacts
  <2>3. QED
    BY <2>1, <2>2 DEF PromisedStream!PullInit
<1>2. IInv /\ [Next]_vars =>
         [PromisedStream!PullNext]_<<upTo(Total - stream.left), ending(stream)>>
  BY PullStep
<1>3. QED
  BY <1>1, <1>2, Invariant, PTL DEF Spec, PromisedStream!PullSpec, PromisedStream!pull

\* A frame comes out of its native object, to be registered or lost, in one step
\* with the move of that object it belongs to: the result with the one take that
\* finds the query complete, a batch with the poll that makes it the next one.
\* Nothing a cancelled query computed and no batch out of turn is ever registered.
FramesInStep ==
    [][\A f \in Frames : f \in handedOut' \ handedOut =>
          \/ f = Result /\ seen(job) = "complete" /\ seen(job') = "taken"
          \/ /\ f = Len(upTo(Total - stream.left)) + 1
             /\ ending(stream) = "open"
             /\ upTo(Total - stream'.left) = Append(upTo(Total - stream.left), f)]_vars

\* FramesInStep, for any number of callers and batches.
THEOREM FramesComeInStep == Spec => FramesInStep
<1>1. IInv /\ [Next]_vars =>
         [\A f \in Frames : f \in handedOut' \ handedOut =>
            \/ f = Result /\ seen(job) = "complete" /\ seen(job') = "taken"
            \/ /\ f = Len(upTo(Total - stream.left)) + 1
               /\ ending(stream) = "open"
               /\ upTo(Total - stream'.left) = Append(upTo(Total - stream.left), f)]_vars
  <2> SUFFICES ASSUME IInv, [Next]_vars, NEW f \in Frames, f \in handedOut' \ handedOut,
                      ~(f = Result /\ seen(job) = "complete" /\ seen(job') = "taken")
               PROVE  /\ f = Len(upTo(Total - stream.left)) + 1
                      /\ ending(stream) = "open"
                      /\ upTo(Total - stream'.left) = Append(upTo(Total - stream.left), f)
    OBVIOUS
  <2>1. f = Total + 1 - stream.left /\ Given
    BY StepMoves DEF Moves, FramesMove
  <2>2. PICK n : n = Total - stream.left
    OBVIOUS
  <2>3. n \in Nat /\ f = n + 1 /\ Total - stream'.left = n + 1
    BY <2>1, <2>2, InvParts, AsyncClientsAssumption DEF Rest, StreamType, Given
  <2>4. ending(stream) = "open"
    BY <2>1 DEF Given, ending
  <2>5. QED
    BY <2>2, <2>3, <2>4, UpToFacts
<1>2. QED
  BY <1>1, Invariant, PTL DEF Spec, FramesInStep
================================================================================
