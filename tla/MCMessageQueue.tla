--------------------------- MODULE MCMessageQueue ---------------------------
(* Instances of MessageQueue for TLC. *)
EXTENDS MessageQueue, TLC

(* Handles are interchangeable; not used in the run with a liveness        *)
(* property.                                                               *)
HandleSymmetry == Permutations(Handle)
=============================================================================
