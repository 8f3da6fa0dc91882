-------------------------------- MODULE MCArrowC -------------------------------
(* TLC instance of ArrowC: objects, handles and structs are interchangeable.  *)
EXTENDS ArrowC, TLC

Symmetry == Permutations(Structs) \cup Permutations(Objects)
               \cup Permutations(Handles)

================================================================================
