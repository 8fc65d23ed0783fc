---------------------------- MODULE MCLocation ----------------------------
(* A small instance of Location for TLC. *)
EXTENDS Location

TwoRates == {30, 60}
=============================================================================
