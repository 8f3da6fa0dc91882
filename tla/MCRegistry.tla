------------------------------ MODULE MCRegistry -------------------------------
(* A registry of two slots and two generations, shared by two threads. *)
EXTENDS Registry, TLC

Symmetry == Permutations(Threads) \cup Permutations(Kinds)
                                  \cup Permutations(Payloads)

================================================================================
