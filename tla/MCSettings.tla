----------------------------- MODULE MCSettings -----------------------------
(* Instances of Settings for TLC. *)
EXTENDS Settings

(* A negative time and a positive one. *)
MCSeconds == {-1, 5}
=============================================================================
