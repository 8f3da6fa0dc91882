-------------------------------- MODULE MCJobs ---------------------------------
(***************************************************************************)
(* The instance of Jobs that TLC checks: two callers, two jobs and one     *)
(* permit.  Two callers can race for the permit, and for one job as two    *)
(* takes, a take and a cancellation, or a poll and a release; a second job *)
(* finds the permit taken or given back.  The run checks liveness, so the  *)
(* callers and the jobs are not declared symmetric.                        *)
(***************************************************************************)
EXTENDS Jobs

================================================================================
