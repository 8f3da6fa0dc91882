----------------------------- MODULE MCBatchStream -----------------------------
(***************************************************************************)
(* The instance of BatchStream that TLC checks: two callers of one stream  *)
(* whose channel holds two of the query's four batches.  The channel can   *)
(* be empty, half full, and full with two batches and the terminal message *)
(* still to come.  The run checks liveness, so the callers are not         *)
(* declared symmetric.                                                     *)
(***************************************************************************)
EXTENDS BatchStream

================================================================================
