--------------------------------- MODULE Query ---------------------------------
(***************************************************************************)
(* What a submitted query promises whoever holds it, without saying how:   *)
(* it ends once, in one of three ways; a cancellation accepted while it    *)
(* runs leaves only one of them, so its result is never seen; one take     *)
(* finds the end, whichever it is; and when the last holder lets go it is  *)
(* gone for good.  Jobs.tla implements this with a worker, an observer     *)
(* thread, a channel and a lock (JobsProofs), and AsyncClients.tla, which  *)
(* sees the job from the Dart side, keeps to it (AsyncClientsProofs).      *)
(***************************************************************************)
VARIABLE state   \* "none", "running", "cancelling", "complete", "failed",
                 \* "cancelled", "taken" or "gone"

\* A holder may come before the submission or after it.
QueryInit == state \in {"none", "running"}

Submit == state = "none" /\ state' = "running"

Finish == state = "running" /\ state' \in {"complete", "failed"}

\* Accepted: the query is still running, and will be seen to until it ends.
Cancel == state = "running" /\ state' = "cancelling"

Discard == state = "cancelling" /\ state' = "cancelled"

Take == state \in {"complete", "failed", "cancelled"} /\ state' = "taken"

Abandon == state \notin {"none", "gone"} /\ state' = "gone"

QueryNext == Submit \/ Finish \/ Cancel \/ Discard \/ Take \/ Abandon

QuerySpec == QueryInit /\ [][QueryNext]_state

================================================================================
