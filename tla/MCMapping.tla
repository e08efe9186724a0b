------------------------------ MODULE MCMapping ------------------------------
(* Instances of Mapping for TLC. *)
EXTENDS Mapping, TLC

(* Handles are interchangeable. *)
HandleSymmetry == Permutations(Obj)
=============================================================================
