------------------------------- MODULE MCSession -------------------------------
(* Every request that differs from a method's usual one in at most two fields, in a *)
(* registry of three slots: room for a scan, its job and the frame that comes of it. *)
EXTENDS Session

Symmetry == Permutations(Slots)

================================================================================
