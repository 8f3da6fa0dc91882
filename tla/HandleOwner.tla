------------------------------ MODULE HandleOwner ------------------------------
(***************************************************************************)
(* The Dart side of a native handle: _HandleOwner and _HandleLease of      *)
(* lib/src/handle.dart, the commands that lease their inputs and adopt     *)
(* their results (plan.dart, polars.dart, batch_stream.dart ...), the      *)
(* finalizer tokens of lib/src/native.dart, and the garbage collector.     *)
(* The native registry is the handle table that Registry.tla implements.   *)
(*                                                                         *)
(* Dart code runs between awaits without interruption, so the actions are  *)
(* the stretches from one await to the next; finalizers run at any time.   *)
(* A handle has at most one owner, so owners are indexed by their handle.  *)
(***************************************************************************)
EXTENDS HandleTable, Integers, Sequences, FiniteSets

CONSTANTS Commands,        \* the calls a program makes side by side
          Representable    \* handles below 2^63, which Dart's int.tryParse reads

ASSUME HandleOwnerAssumption ==
    /\ Representable \subseteq Handles
    /\ IsFiniteSet(Handles)
    /\ Entry # {}
    /\ Unissued # Spent
    /\ {Unissued, Spent} \cap Entry = {}

VARIABLES owners,     \* the owner of each handle
          commands,   \* where each command is
          failures    \* history: handles whose release reported failure

vars == <<table, owners, commands, failures>>

\* phase: "closing" is closeRequested with leases outstanding.  token: whether
\* the transport gave a finalizer token.  reachable: to the garbage collector.
Owner == [phase     : {"none", "open", "closing", "released"},
          leases    : Nat,
          token     : BOOLEAN,
          reachable : BOOLEAN]

NoOwner == [phase |-> "none", leases |-> 0, token |-> FALSE, reachable |-> FALSE]

NewOwner(token) ==
    [phase |-> "open", leases |-> 0, token |-> token, reachable |-> TRUE]

\* One input or two stand for any number of them; the same may come twice.
Inputs == UNION {[1..n -> Handles] : n \in 0..2}

Idle == [phase |-> "idle", inputs |-> <<>>, results |-> {}]

live == {h \in Handles : table[h] \in Entry}

\* What releasing some handles makes of the table; one that is not live is
\* refused by the registry, and nothing happens.
spend(released) ==
    [h \in Handles |-> IF h \in released \cap live THEN Spent ELSE table[h]]

--------------------------------------------------------------------------------
(* Owners *)

uses(inputs, h) == Cardinality({k \in DOMAIN inputs : inputs[k] = h})

\* ensureUsable, for the code that can still name the owner.
usable(h) == owners[h].phase = "open" /\ owners[h].reachable

\* Mutants of endLeases: a lease that has ended can be ended again; a close
\* that was put off is forgotten.
EndLeasesTwice(inputs) ==
    [h \in Handles |-> [owners[h] EXCEPT !.leases = @ - 2 * uses(inputs, h)]]

EndLeasesForgetsClose(inputs) ==
    [h \in Handles |-> [owners[h] EXCEPT !.leases = @ - uses(inputs, h)]]

\* _releaseAll: the leases of a command end, and an owner whose close was
\* waiting for the last of them is released.
endLeases(inputs) ==
    [h \in Handles |->
        LET o == owners[h]
            left == o.leases - uses(inputs, h)
        IN  [o EXCEPT !.leases = left,
                      !.phase = IF @ = "closing" /\ left = 0
                                THEN "released" ELSE @]]

\* The owners a step released.
newlyReleased(after) ==
    {h \in Handles : /\ after[h].phase = "released"
                     /\ owners[h].phase # "released"}

\* _release: through the token if there is one, which ignores the registry's
\* answer, otherwise by releaseHandle, which throws when it is not OK.
release(released) ==
    /\ table' = spend(released)
    /\ failures' = failures \cup {h \in released \ live : ~owners[h].token}

\* Mutants of Close: leases are not waited for; a closed owner closes again.
CloseAtOnce(h) ==
    /\ usable(h)
    /\ owners' = [owners EXCEPT ![h].phase = "released"]
    /\ release({h})
    /\ UNCHANGED commands

CloseAgain(h) ==
    /\ owners[h].phase # "none" /\ owners[h].reachable
    /\ owners[h].leases = 0
    /\ owners' = [owners EXCEPT ![h].phase = "released"]
    /\ release({h})
    /\ UNCHANGED commands

\* close(), possibly from a finally block of the command's own caller.
Close(h) ==
    /\ usable(h)
    /\ LET after == [owners EXCEPT ![h].phase = IF owners[h].leases = 0
                                                THEN "released" ELSE "closing"]
       IN  /\ owners' = after
           /\ release(newlyReleased(after))
    /\ UNCHANGED commands

\* The program drops its last reference; a command in flight holds a lease,
\* and the lease its owner.
Forget(h) ==
    /\ usable(h)
    /\ owners[h].leases = 0
    /\ owners' = [owners EXCEPT ![h].reachable = FALSE]
    /\ UNCHANGED <<table, commands, failures>>

\* The collector finds the owner gone and runs df_handle_token_release.
Finalize(h) ==
    /\ owners[h].phase = "open"
    /\ owners[h].token
    /\ ~owners[h].reachable
    /\ owners' = [owners EXCEPT ![h].phase = "released"]
    /\ table' = spend({h})
    /\ UNCHANGED <<commands, failures>>

--------------------------------------------------------------------------------
(* Commands *)

\* Mutant of Start: an owner listed twice is leased once.
StartLeasesOnce(c) ==
    /\ commands[c] = Idle
    /\ \E inputs \in Inputs :
          /\ \A k \in DOMAIN inputs : usable(inputs[k])
          /\ owners' = [h \in Handles |->
                          IF uses(inputs, h) > 0
                          THEN [owners[h] EXCEPT !.leases = @ + 1]
                          ELSE owners[h]]
          /\ commands' = [commands EXCEPT ![c].phase = "sent",
                                          ![c].inputs = inputs]
    /\ UNCHANGED <<table, failures>>

\* _leaseAll and the call of the transport.  If any owner is closed the leases
\* taken so far are given back before anything else can happen.
Start(c) ==
    /\ commands[c] = Idle
    /\ \E inputs \in Inputs :
          /\ \A k \in DOMAIN inputs : usable(inputs[k])
          /\ owners' = [h \in Handles |->
                          [owners[h] EXCEPT !.leases = @ + uses(inputs, h)]]
          /\ commands' = [commands EXCEPT ![c].phase = "sent",
                                          ![c].inputs = inputs]
    /\ UNCHANGED <<table, failures>>

\* df_invoke: with all inputs live, one result or two related ones (a profile)
\* get fresh handles; a stale input, or any other error, gives none.
Serve(c) ==
    /\ commands[c].phase = "sent"
    /\ \E new \in {s \in SUBSET Handles : Cardinality(s) <= 2}, e \in Entry :
          /\ \A h \in new : table[h] = Unissued
          /\ new # {} => {commands[c].inputs[k] :
                             k \in DOMAIN commands[c].inputs} \subseteq live
          /\ table' = [h \in Handles |-> IF h \in new THEN e ELSE table[h]]
          /\ commands' = [commands EXCEPT ![c].phase = "answered",
                                          ![c].results = new]
    /\ UNCHANGED <<owners, failures>>

\* Mutant of Finish: an adoption that fails releases nothing.
FinishDropsResults(c) ==
    /\ commands[c].phase = "answered"
    /\ LET results == commands[c].results
           before == endLeases(commands[c].inputs)
       IN  /\ \/ \E token \in BOOLEAN :
                    owners' = [h \in Handles |-> IF h \in results
                                                 THEN NewOwner(token)
                                                 ELSE before[h]]
              \/ owners' = before
           /\ release(newlyReleased(before))
    /\ commands' = [commands EXCEPT ![c] = Idle]

\* _adoptX: if every handle can be read and gets its finalizer each has an
\* owner; if not, the readable ones are released and the command throws.  A
\* handle that cannot be read is out of everybody's hands.  Then the leases
\* end, whatever happened.
Finish(c) ==
    /\ commands[c].phase = "answered"
    /\ LET results == commands[c].results
           before == endLeases(commands[c].inputs)
       IN  \/ /\ results \subseteq Representable
              /\ \E token \in BOOLEAN :
                    owners' = [h \in Handles |-> IF h \in results
                                                 THEN NewOwner(token)
                                                 ELSE before[h]]
              /\ release(newlyReleased(before))
           \/ /\ results # {}
              /\ owners' = before
              /\ release(newlyReleased(before)
                            \cup (results \cap Representable))
    /\ commands' = [commands EXCEPT ![c] = Idle]

--------------------------------------------------------------------------------
Init ==
    /\ TableInit
    /\ owners = [h \in Handles |-> NoOwner]
    /\ commands = [c \in Commands |-> Idle]
    /\ failures = {}

Next ==
    \/ \E h \in Handles : Close(h) \/ Forget(h) \/ Finalize(h)
    \/ \E c \in Commands : Start(c) \/ Serve(c) \/ Finish(c)

Spec == Init /\ [][Next]_vars

\* A transport answers in the end and its Future completes.  No program has
\* to close anything, and no collector has to run.
FairSpec == Spec /\ \A c \in Commands : WF_vars(Serve(c)) /\ WF_vars(Finish(c))

--------------------------------------------------------------------------------
(* Properties *)

\* Types.
TypeOK ==
    /\ TableType
    /\ owners \in [Handles -> Owner]
    /\ \A c \in Commands :
          /\ commands[c].phase \in {"idle", "sent", "answered"}
          /\ commands[c].inputs \in Inputs
          /\ commands[c].results \subseteq Handles
    /\ failures \subseteq Handles

\* Every lease belongs to an input of a command under way, and every such
\* input has its lease: an exception anywhere between the two leaves the
\* counts right (handle.dart: _leaseAll, _releaseAll, end).
held(h) == {lease \in Commands \X (1..2) :
               LET inputs == commands[lease[1]].inputs
               IN  lease[2] \in DOMAIN inputs /\ inputs[lease[2]] = h}

LeasesExact == \A h \in Handles : owners[h].leases = Cardinality(held(h))

\* The inputs of a command the transport has not answered are live, whatever
\* the program closed and the collector found in the meantime
\* (handle.dart: close, _endLease).
InputsLive ==
    \A c \in Commands : commands[c].phase = "sent" =>
        \A k \in DOMAIN commands[c].inputs : commands[c].inputs[k] \in live

\* The releases that _release asks for are never refused, so it never throws in
\* the middle of _releaseAll and never leaves the leases after it unended.
ReleaseNeverFails == failures = {}

owned == {h \in Handles : owners[h].phase \in {"open", "closing"}}

\* Every live handle has one owner or is in an answer not adopted yet, and
\* owners own live handles: no failed adoption leaks a native object (polars.dart:
\* _adoptProfile, handle.dart: attach; protocol/README.md: handles "each have
\* one owner").
OwnershipExact ==
    /\ live = owned \cup UNION {commands[c].results : c \in Commands}
    /\ \A c \in Commands : owned \cap commands[c].results = {}

\* A handle closed during commands is released once they are over.
ClosedIsReleased ==
    \A h \in Handles : owners[h].phase = "closing" ~> table[h] = Spent

================================================================================
