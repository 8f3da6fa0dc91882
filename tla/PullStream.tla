------------------------------ MODULE PullStream -------------------------------
(***************************************************************************)
(* What a batch stream promises the one who polls it: the batches in the   *)
(* order they were computed, none twice and none left out; "complete" only *)
(* when there are no more of them; and nothing after the first terminal    *)
(* answer.  BatchStream.tla implements this with a worker thread, a        *)
(* bounded channel and a cancellation flag.                                *)
(***************************************************************************)
EXTENDS Naturals, Sequences

CONSTANT Total           \* the batches the query has

VARIABLES received,      \* the batches handed out so far
          verdict        \* the terminal answer, once there is one

pull == <<received, verdict>>

PullInit == received = <<>> /\ verdict = "open"

Give ==
    /\ verdict = "open"
    /\ Len(received) < Total
    /\ received' = Append(received, Len(received) + 1)
    /\ UNCHANGED verdict

End ==
    /\ verdict = "open"
    /\ Len(received) = Total
    /\ verdict' = "complete"
    /\ UNCHANGED received

Fail ==
    /\ verdict = "open"
    /\ verdict' = "failed"
    /\ UNCHANGED received

\* A stream can be cancelled or closed at any time, even one that has ended.
Stop ==
    /\ verdict' \in {"cancelled", "closed"}
    /\ verdict # "closed"
    /\ UNCHANGED received

PullNext == Give \/ End \/ Fail \/ Stop

PullSpec == PullInit /\ [][PullNext]_pull

================================================================================
