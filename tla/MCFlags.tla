------------------------------ MODULE MCFlags ------------------------------
EXTENDS Flags

(* Upper and lower case, repeated, mixed with characters that mean nothing. *)
MCText == {<<"r">>, <<"W", "r">>, <<"-", "x">>, <<"x", "X", "w">>}
=============================================================================
