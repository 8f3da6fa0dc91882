----------------------------- MODULE MCAsyncClients ----------------------------
(* TLC instance of AsyncClients. *)
EXTENDS AsyncClients

================================================================================
