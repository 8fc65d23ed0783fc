---------------------------- MODULE MCRelayTask ----------------------------
(* A small instance of RelayTask for TLC. *)
EXTENDS RelayTask

CONSTANT f1

OneFilter == {f1}
=============================================================================
