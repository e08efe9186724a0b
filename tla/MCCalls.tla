------------------------------- MODULE MCCalls -------------------------------
(* Instances of Calls for TLC. *)
EXTENDS Calls

(* One wrapper of every shape that reports what happened. *)
OneOfEach ==
  {CHOOSE c \in Call : c.shape = s : s \in Shape \ {"widened"}}

(* The wrappers that return an error_code as a result<int>. *)
Widened == {c \in Call : c.shape = "widened"}

(* Every function but ::confstr may change errno when it succeeds. *)
AnyButConfstr == Shape \ {"confstr"}
=============================================================================
