----------------------------- MODULE MCDirectory -----------------------------
(* Instances of Directory for TLC. *)
EXTENDS Directory, TLC

(* Handles of one class are interchangeable. *)
ClassSymmetry ==
  Permutations(FileObj) \cup Permutations(FdObj \ FileObj) \cup Permutations(DirObj)
=============================================================================
