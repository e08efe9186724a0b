---------------------------- MODULE MCDescriptor ----------------------------
(* Instances of Descriptor for TLC. *)
EXTENDS Descriptor, TLC

(* Handles of one class are interchangeable. *)
HandleSymmetry == Permutations(FileObj) \cup Permutations(Obj \ FileObj)
=============================================================================
