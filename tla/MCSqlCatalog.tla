------------------------------ MODULE MCSqlCatalog -----------------------------
(* TLC instance of SqlCatalog. *)
EXTENDS SqlCatalog

================================================================================
