-------------------------------- MODULE Session --------------------------------
(***************************************************************************)
(* The methods of the Dart package against the commands of the native      *)
(* library.  A method sends a request, which the library accepts or        *)
(* refuses by its tables; an accepted one may still fail in Polars or find *)
(* the registry full; a handle that comes back is put into a wrapper of    *)
(* the class of the method.  A composite method first makes wrappers of    *)
(* its own (literals for operands, a scan to be read, a job to be awaited, *)
(* a plan of a DataFrame to be registered) and closes them at its end,     *)
(* whatever happened.                                                      *)
(*                                                                         *)
(* One isolate calls; a method that awaits leaves room for the others.     *)
(* What a closed wrapper or a lease means is HandleOwner's, what a handle  *)
(* is, Registry's.                                                         *)
(***************************************************************************)
EXTENDS NativeCommands, Sequences

CONSTANTS
    Slots,       \* handles the registry has room for
    Deviations   \* fields of a request that differ from its usual values

ASSUME SlotsAssumption == IsFiniteSet(Slots) /\ Slots # {}
ASSUME DeviationsAssumption == Deviations \in Nat

Dart == INSTANCE DartMethods

VARIABLES
    registry,   \* slot -> the kind of its resource, or "free"
    wrappers,   \* slot -> the class of the open wrapper a caller has, or "none"
    pending,    \* the composite method under way, with the slots of the wrappers
                \* it made for itself, or the empty set
    answer,     \* how the last request ended
    file        \* the file a write names: "old", "new", "partial" or "empty"

session == <<registry, wrappers, pending, answer, file>>

--------------------------------------------------------------------------------
(* What the requests of a method come to *)

\* The kinds of handle a request carries.
Carried(request) ==
    {k \in Kinds : \E f \in DOMAIN request : request[f].class = k /\ request[f].size # 0}

Results(command, request) ==
    {schema.result : schema \in {s \in Schemas[command] : Fits(s, request)}}

\* A request with a value the method is known not to check may be refused, any other
\* may not.
Verdict(method, request) ==
    CASE Accepts(method.command, request) -> "accepted"
      [] \E f \in DOMAIN request \cap DOMAIN method.lets :
            request[f] \in method.lets[f] -> "refused"
      [] OTHER -> "mismatch"

\* All a step needs to know of a call; most requests are alike.
Call(method, request, made) ==
    [class   |-> method.class,
     verdict |-> Verdict(method, request),
     results |-> IF Accepts(method.command, request)
                 THEN Results(method.command, request) ELSE {},
     given   |-> IF made = <<>> THEN Carried(request) \cup method.given
                 ELSE method.given,
     made    |-> made,
     writes  |-> method.command \in DOMAIN WriteCommands \cup DOMAIN SinkCommands,
     late    |-> RefusedTooLate(method.command, request)]

Calls ==
    UNION {{Call(method, request, made) :
                request \in Dart!Requests(method, Deviations), made \in method.made} :
            method \in Dart!Methods}

Async(call) == "job" \in {call.made[i] : i \in 1..Len(call.made)}

--------------------------------------------------------------------------------

NothingUnderway == pending = {}

SessionInit ==
    /\ registry = [s \in Slots |-> "free"]
    /\ wrappers = [s \in Slots |-> "none"]
    /\ pending = {}
    /\ answer = "none"
    /\ file = "old"

Free == {s \in Slots : registry[s] = "free"}

Open(kinds) == \A k \in kinds : \E s \in Slots : wrappers[s] = k

\* A handle of a kind is issued and put into a wrapper of a class.
Adopt(s, kind, class) ==
    /\ registry' = [registry EXCEPT ![s] = kind]
    /\ wrappers' = [wrappers EXCEPT ![s] = class]

NoHandle == UNCHANGED <<registry, wrappers>>

\* Refused by the library.
Refuse(call) ==
    /\ answer' = call.verdict
    /\ file' = IF call.late THEN "empty" ELSE file
    /\ NoHandle

\* Polars fails, which may leave the file half written.
Fail(call) ==
    /\ answer' = "failed"
    /\ file' \in IF call.writes THEN {file, "partial"} ELSE {file}
    /\ NoHandle

\* insert and insert_pair: the result has no room.
Overflow(result) ==
    /\ Cardinality(Free) < (CASE result = "value" -> 0
                              [] result = "frames" -> 2
                              [] OTHER -> 1)
    /\ answer' = "full"
    /\ NoHandle
    /\ UNCHANGED file

\* Mutant of Succeed: an answer without a handle is wrapped like any other.
SucceedAdoptingAll(call, result) ==
    /\ answer' = "done"
    /\ file' = IF call.writes THEN "new" ELSE file
    /\ \E s \in Free : Adopt(s, result, call.class)

Succeed(call, result) ==
    /\ answer' = "done"
    /\ file' = IF call.writes THEN "new" ELSE file
    /\ \/ result = "value" /\ NoHandle
       \/ result = "frames" /\ \E s, t \in Free :
             /\ s # t
             /\ registry' = [registry EXCEPT ![s] = "frame", ![t] = "frame"]
             /\ wrappers' = [wrappers EXCEPT ![s] = "frame", ![t] = "frame"]
       \/ result \in Kinds /\ \E s \in Free : Adopt(s, result, call.class)

\* One request and its answer.
Perform(call) ==
    \/ call.verdict # "accepted" /\ Refuse(call)
    \/ call.verdict = "accepted" /\ Fail(call)
    \/ \E result \in call.results : Overflow(result) \/ Succeed(call, result)

\* A method that makes nothing on the way.
CallMethod ==
    /\ NothingUnderway \/ \E p \in pending : Async(p.call)
    /\ \E call \in Calls :
          /\ call.made = <<>>
          /\ Open(call.given)
          /\ Perform(call)
    /\ UNCHANGED pending

--------------------------------------------------------------------------------
(* Composite methods *)

BeginComposite ==
    /\ NothingUnderway
    /\ \E call \in Calls :
          /\ call.made # <<>>
          /\ Open(call.given)
          /\ pending' = {[call |-> call, phase |-> "make", temporaries |-> <<>>]}
    /\ UNCHANGED <<registry, wrappers, answer, file>>

Phase(p, phase) == pending' = {[p EXCEPT !.phase = phase]}

\* The next wrapper of the method's own.
MakeTemporary ==
    \E p \in pending :
        /\ p.phase = "make"
        /\ Len(p.temporaries) < Len(p.call.made)
        /\ LET kind == p.call.made[Len(p.temporaries) + 1]
           IN  \E s \in Free :
                  /\ registry' = [registry EXCEPT ![s] = kind]
                  /\ pending' = {[p EXCEPT !.temporaries = Append(@, s)]}
        /\ answer' = "done"
        /\ UNCHANGED <<wrappers, file>>

\* Mutant of MakeTemporaryFails: the exception leaves the method at once.
MakeTemporaryFailsBare ==
    \E p \in pending :
        /\ p.phase = "make"
        /\ Len(p.temporaries) < Len(p.call.made)
        /\ pending' = {}
        /\ answer' = "failed"
        /\ UNCHANGED <<registry, wrappers, file>>

\* Making one throws: a literal of no known type, a path with no file, a full registry.
MakeTemporaryFails ==
    \E p \in pending :
        /\ p.phase = "make"
        /\ Len(p.temporaries) < Len(p.call.made)
        /\ Phase(p, "close")
        /\ answer' = "failed"
        /\ UNCHANGED <<registry, wrappers, file>>

PerformMain ==
    \E p \in pending :
        /\ p.phase = "make"
        /\ Len(p.temporaries) = Len(p.call.made)
        /\ Perform(p.call)
        /\ Phase(p, "close")

\* The finally of the method, in reverse order.
CloseTemporary ==
    \E p \in pending :
        /\ p.phase = "close"
        /\ p.temporaries # <<>>
        /\ LET last == Len(p.temporaries)
               s == p.temporaries[last]
           IN  /\ registry' = [registry EXCEPT ![s] = "free"]
               /\ pending' = {[p EXCEPT !.temporaries = SubSeq(@, 1, last - 1)]}
        /\ UNCHANGED <<wrappers, answer, file>>

EndComposite ==
    /\ \E p \in pending : p.phase = "close" /\ p.temporaries = <<>>
    /\ pending' = {}
    /\ UNCHANGED <<registry, wrappers, answer, file>>

--------------------------------------------------------------------------------

\* close() of a wrapper the caller has.
CloseWrapper ==
    /\ NothingUnderway \/ \E p \in pending : Async(p.call)
    /\ \E s \in Slots :
          /\ wrappers[s] # "none"
          /\ registry' = [registry EXCEPT ![s] = "free"]
          /\ wrappers' = [wrappers EXCEPT ![s] = "none"]
    /\ UNCHANGED <<pending, answer, file>>

SessionNext ==
    \/ CallMethod \/ BeginComposite \/ MakeTemporary \/ MakeTemporaryFails
    \/ PerformMain \/ CloseTemporary \/ EndComposite \/ CloseWrapper

SessionSpec == SessionInit /\ [][SessionNext]_session

--------------------------------------------------------------------------------
(* Properties *)

\* The tables name the same kinds: what a method makes on the way are handles, and
\* a handle its command answers with, to whatever request, is of the class the
\* method wraps it in.
TablesAgree ==
    \A method \in Dart!Methods :
        /\ \A made \in method.made : made \in Seq(Kinds)
        /\ \A schema \in Schemas[method.command] :
              schema.result \in Kinds => schema.result = method.class

\* Slots, wrappers and the composite method keep their types; there is at most
\* one composite method at a time.
SessionType ==
    /\ TablesAgree
    /\ registry \in [Slots -> Kinds \cup {"free"}]
    /\ wrappers \in [Slots -> Kinds \cup {"none"}]
    /\ answer \in {"none", "done", "failed", "full", "refused", "mismatch"}
    /\ file \in {"old", "new", "partial", "empty"}
    /\ Cardinality(pending) <= 1
    /\ \A p \in pending :
          /\ p.phase \in {"make", "close"}
          /\ Len(p.temporaries) <= Len(p.call.made)
          /\ \A i \in 1..Len(p.temporaries) : p.temporaries[i] \in Slots

\* The two sides agree on the wire but for known gaps: when the tables of the native
\* library refuse a request a method sends, it has a value the method is listed as
\* not checking (its lets: the names of operations and what aggregate is given along
\* with one, some formats and suffixes, lists of more than 10,000 items, paths of
\* more than 1,048,576 bytes, batches of more than 100,000 columns).  It compares
\* the methods of the Dart package with validate_fields, ensure_only_fields and the
\* reads of each command.
NoMismatch == answer # "mismatch"

\* The class a method wraps an answer in (_adoptExpr, _adoptLazy, ...) is the kind
\* the command registered: no later call finds a handle of another kind under it.
KindsAgree == \A s \in Slots : wrappers[s] # "none" => wrappers[s] = registry[s]

Temporaries == UNION {{p.temporaries[i] : i \in 1..Len(p.temporaries)} : p \in pending}

\* Nothing is left behind in the registry: every resource is behind a wrapper the
\* caller has or one the method under way still closes, whichever step of which
\* method threw (_withOperands, readCsv, collect, register, registerAll,
\* _intoSelector, _adoptProfile).
NothingLost ==
    \A s \in Slots : registry[s] # "free" => wrappers[s] # "none" \/ s \in Temporaries

\* A call that is refused leaves the file it names as it was: nothing a Dart write
\* method lets through is refused by an option the native writer reads only after
\* it has created, and so emptied, the file.
RefusedWriteKeepsFile == [][answer' \in {"refused", "mismatch"} => file' = file]_session

================================================================================
