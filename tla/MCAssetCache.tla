----------------------------- MODULE MCAssetCache ------------------------------
(***************************************************************************)
(* The instances of AssetCache that TLC checks: three calls.  In the first *)
(* two share an isolate and the third is in a process of its own, as hooks *)
(* of two builds are; in the second two are in different isolates of one   *)
(* process.                                                                *)
(***************************************************************************)
EXTENDS AssetCache

CONSTANTS a, b, c     \* the calls

\* Processes of one isolate each.
HooksIsolate == [x \in {a, b, c} |-> IF x = c THEN 2 ELSE 1]
HooksProcess == HooksIsolate

\* Two isolates in one process.
PoolIsolate == [x \in {a, b} |-> IF x = a THEN 1 ELSE 2]
PoolProcess == [x \in {a, b} |-> 1]

================================================================================
