----------------------------- MODULE MCHandleOwner -----------------------------
(***************************************************************************)
(* The instance of HandleOwner that TLC checks: two commands in flight at  *)
(* once over three handles, so that a command may have two inputs and a    *)
(* result, or one input and two related results.  Two configurations:      *)
(* every handle below 2^63, and one handle that has grown beyond it.  The  *)
(* first checks liveness, so nothing is declared symmetric.                *)
(***************************************************************************)
EXTENDS HandleOwner

================================================================================
