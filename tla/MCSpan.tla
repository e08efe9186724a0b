------------------------------- MODULE MCSpan -------------------------------
(* An instance of Span for TLC. *)
EXTENDS Span, TLC

SlotSymmetry == Permutations(Slot)
=============================================================================
