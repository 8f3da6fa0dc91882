------------------------------ MODULE AssetCache -------------------------------
(***************************************************************************)
(* acquirePinnedNativeLibrary of tool/native_asset_download.dart: build    *)
(* hooks that need the same native library share one cache file.  Calls in *)
(* one isolate wait for each other in a queue, processes exclude each      *)
(* other with a lock file, and a library is downloaded to a temporary that *)
(* is verified and renamed.  A process may die between any two steps.      *)
(*                                                                         *)
(* The lock is the advisory record lock that Dart takes on Linux and       *)
(* macOS.  It belongs to a process: another isolate of the holder gets it  *)
(* as well, and any close of the lock file by the holder gives it up.      *)
(* FileLock.exclusive does not wait, it throws.                            *)
(***************************************************************************)
EXTENDS Naturals, FiniteSets

CONSTANTS Callers,      \* bound: calls of acquirePinnedNativeLibrary
          isolateOf,    \* the isolate of each call
          processOf,    \* and its process
          Nobody

Isolates == {isolateOf[c] : c \in Callers}
Processes == {processOf[c] : c \in Callers}

ASSUME AssetCacheAssumption ==
    /\ Nobody \notin Callers \cup Processes
    /\ \A c, d \in Callers :
          isolateOf[c] = isolateOf[d] => processOf[c] = processOf[d]

VARIABLES pc,          \* what each call is about to do
          previous,    \* the call each one waits for in the queue
          queue,       \* _cacheQueues of each isolate: the last call
          holder,      \* the process that has the lock
          cache,       \* the file under the cache name
          temporary,   \* the temporary of each call
          result       \* how each call ends

vars == <<pc, previous, queue, holder, cache, temporary, result>>

files == <<cache, temporary>>
order == <<previous, queue>>

At(c, step) == pc[c] = step

Goto(c, step) == pc' = [pc EXCEPT ![c] = step]

\* An exception unwinds to the finally clause that begins at the given step.
Throw(c, step) == Goto(c, step) /\ result' = [result EXCEPT ![c] = "failed"]

Finish(c, step) == Goto(c, step) /\ result' = [result EXCEPT ![c] = "returned"]

--------------------------------------------------------------------------------
(* The queue of an isolate *)

\* The call joins the queue behind the last one, before its first await.
Enter(c) ==
    /\ At(c, "idle")
    /\ previous' = [previous EXCEPT ![c] = queue[isolateOf[c]]]
    /\ queue' = [queue EXCEPT ![isolateOf[c]] = c]
    /\ Goto(c, "queued")
    /\ UNCHANGED <<holder, files, result>>

\* await previous; a failed predecessor completes its Future as well.
Proceed(c) ==
    /\ At(c, "queued")
    /\ previous[c] # Nobody => At(previous[c], "done")
    /\ Goto(c, "opening")
    /\ UNCHANGED <<order, holder, files, result>>

\* Mutant of Leave: only a call that returned lets the next one go.
LeaveOnSuccess(c) ==
    /\ At(c, "leaving")
    /\ result[c] = "returned"
    /\ Goto(c, "done")
    /\ queue' = [queue EXCEPT ![isolateOf[c]] = IF @ = c THEN Nobody ELSE @]
    /\ UNCHANGED <<previous, holder, files, result>>

\* The successor may go; the queue forgets the call if it is still the last.
Leave(c) ==
    /\ At(c, "leaving")
    /\ Goto(c, "done")
    /\ queue' = [queue EXCEPT ![isolateOf[c]] = IF @ = c THEN Nobody ELSE @]
    /\ UNCHANGED <<previous, holder, files, result>>

--------------------------------------------------------------------------------
(* The lock file *)

\* The directory and the lock file are created, or cannot be.
Open(c) ==
    /\ At(c, "opening")
    /\ \/ Goto(c, "locking") /\ UNCHANGED result
       \/ Throw(c, "leaving")
    /\ UNCHANGED <<order, holder, files>>

\* Mutant of Lock: the lock is not taken.
LockTakesNothing(c) ==
    /\ At(c, "locking")
    /\ Goto(c, "checking")
    /\ UNCHANGED <<order, holder, files, result>>

Lock(c) ==
    /\ At(c, "locking")
    /\ IF holder \in {Nobody, processOf[c]}
       THEN /\ holder' = processOf[c]
            /\ Goto(c, "checking")
            /\ UNCHANGED result
       ELSE Throw(c, "closing") /\ UNCHANGED holder
    /\ UNCHANGED <<order, files>>

\* unlock() and close() both give up the lock of the process.
LetGo(c) == holder' = IF holder = processOf[c] THEN Nobody ELSE holder

Unlock(c) ==
    /\ At(c, "unlocking")
    /\ LetGo(c)
    /\ Goto(c, "closing")
    /\ UNCHANGED <<order, files, result>>

Close(c) ==
    /\ At(c, "closing")
    /\ LetGo(c)
    /\ Goto(c, "leaving")
    /\ UNCHANGED <<order, files, result>>

--------------------------------------------------------------------------------
(* _acquirePinnedNativeLibraryLocked *)

\* _validFile: size and digest of what is under the cache name.
Check(c) ==
    /\ At(c, "checking")
    /\ IF cache = "valid"
       THEN Finish(c, "unlocking")
       ELSE Goto(c, "looking") /\ UNCHANGED result
    /\ UNCHANGED <<order, holder, files>>

Look(c) ==
    /\ At(c, "looking")
    /\ Goto(c, IF cache = "absent" THEN "downloading" ELSE "deleting")
    /\ UNCHANGED <<order, holder, files, result>>

\* Deleting what is not there any more throws.
Delete(c) ==
    /\ At(c, "deleting")
    /\ IF cache = "absent"
       THEN Throw(c, "unlocking")
       ELSE Goto(c, "downloading") /\ UNCHANGED result
    /\ cache' = "absent"
    /\ UNCHANGED <<order, holder, temporary>>

\* The temporary is there, with part of the library in it.
Write(c) ==
    /\ At(c, "downloading")
    /\ temporary[c] = "absent"
    /\ temporary' = [temporary EXCEPT ![c] = "partial"]
    /\ UNCHANGED <<pc, order, holder, cache, result>>

\* Mutant of EndDownload: a download that breaks off counts as complete.
EndDownloadEarly(c) ==
    /\ At(c, "downloading")
    /\ temporary[c] = "partial"
    /\ Goto(c, "renaming")
    /\ UNCHANGED <<order, holder, files, result>>

\* downloadNativeAsset: all the bytes arrive, the right ones or others; or it
\* throws, having written some or none.  Its deadline makes it end.
EndDownload(c) ==
    /\ At(c, "downloading")
    /\ \/ /\ temporary[c] = "partial"
          /\ \E bytes \in {"valid", "corrupt"} :
                temporary' = [temporary EXCEPT ![c] = bytes]
          /\ Goto(c, "verifying")
          /\ UNCHANGED result
       \/ Throw(c, "cleaning") /\ UNCHANGED temporary
    /\ UNCHANGED <<order, holder, cache>>

\* Mutant of Verify: the size is compared, the digest is not.
VerifySizeOnly(c) ==
    /\ At(c, "verifying")
    /\ IF temporary[c] \in {"valid", "corrupt"}
       THEN Goto(c, "renaming") /\ UNCHANGED result
       ELSE Throw(c, "cleaning")
    /\ UNCHANGED <<order, holder, files>>

Verify(c) ==
    /\ At(c, "verifying")
    /\ IF temporary[c] = "valid"
       THEN Goto(c, "renaming") /\ UNCHANGED result
       ELSE Throw(c, "cleaning")
    /\ UNCHANGED <<order, holder, files>>

\* The rename replaces whatever is under the cache name, or fails.
Rename(c) ==
    /\ At(c, "renaming")
    /\ \/ /\ cache' = temporary[c]
          /\ temporary' = [temporary EXCEPT ![c] = "absent"]
          /\ Finish(c, "cleaning")
       \/ Throw(c, "cleaning") /\ UNCHANGED files
    /\ UNCHANGED <<order, holder>>

Clean(c) ==
    /\ At(c, "cleaning")
    /\ temporary' = [temporary EXCEPT ![c] = "absent"]
    /\ Goto(c, "unlocking")
    /\ UNCHANGED <<order, holder, cache, result>>

--------------------------------------------------------------------------------
\* A process dies: its calls never go on, the system takes its lock back, and
\* its temporaries stay.
Crash(p) ==
    /\ pc' = [c \in Callers |-> IF processOf[c] = p /\ ~At(c, "done")
                                THEN "dead" ELSE pc[c]]
    /\ holder' = IF holder = p THEN Nobody ELSE holder
    /\ UNCHANGED <<order, files, result>>

Step(c) ==
    \/ Proceed(c) \/ Open(c) \/ Lock(c) \/ Check(c) \/ Look(c) \/ Delete(c)
    \/ EndDownload(c) \/ Verify(c) \/ Rename(c) \/ Clean(c)
    \/ Unlock(c) \/ Close(c) \/ Leave(c)

Init ==
    /\ pc = [c \in Callers |-> "idle"]
    /\ previous = [c \in Callers |-> Nobody]
    /\ queue = [i \in Isolates |-> Nobody]
    /\ holder = Nobody
    /\ cache \in {"absent", "valid", "corrupt"}
    /\ temporary = [c \in Callers |-> "absent"]
    /\ result = [c \in Callers |-> "none"]

Next ==
    \/ \E c \in Callers : Enter(c) \/ Write(c) \/ Step(c)
    \/ \E p \in Processes : Crash(p)

Spec == Init /\ [][Next]_vars

\* A process that lives runs its calls to the end, and every await in them
\* completes.
FairSpec == Spec /\ \A c \in Callers : WF_vars(Step(c))

--------------------------------------------------------------------------------
(* Properties *)

\* Types.  What is under the cache name is never part of a library.
TypeOK ==
    /\ pc \in [Callers -> {"idle", "queued", "opening", "locking", "checking",
                           "looking", "deleting", "downloading", "verifying",
                           "renaming", "cleaning", "unlocking", "closing",
                           "leaving", "done", "dead"}]
    /\ previous \in [Callers -> Callers \cup {Nobody}]
    /\ queue \in [Isolates -> Callers \cup {Nobody}]
    /\ holder \in Processes \cup {Nobody}
    /\ cache \in {"absent", "valid", "corrupt"}
    /\ temporary \in [Callers -> {"absent", "partial", "valid", "corrupt"}]
    /\ result \in [Callers -> {"none", "returned", "failed"}]

\* Nobody ever puts a wrong library under the cache name, whatever arrives
\* from the network and whoever dies (native_asset_download.dart: verification
\* before rename).
OnlyVerified == [][cache' = "corrupt" => cache = "corrupt"]_vars

\* A call that returned gave its caller a verified library, and nobody takes it
\* away again (native_asset_download.dart:26: "Returns a verified cache entry").
ReturnedIsVerified ==
    \A c \in Callers : result[c] = "returned" => cache = "valid"

\* A call in a live process ends: neither a failed predecessor nor the death of
\* another process keeps it waiting (native_asset_download.dart: release,
\* unlock and close in finally clauses).
CallsEnd == \A c \in Callers : At(c, "queued") ~> (At(c, "done") \/ At(c, "dead"))

================================================================================
