---------------------------- MODULE MCOwnership ----------------------------
(* A small instance of Ownership for TLC. *)
EXTENDS Ownership
=============================================================================
