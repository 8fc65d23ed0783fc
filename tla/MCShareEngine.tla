---------------------------- MODULE MCShareEngine ----------------------------
(* A small instance of ShareEngine for TLC. *)
EXTENDS ShareEngine

CONSTANTS g1, g2

OneGroup  == {g1}
TwoGroups == {g1, g2}
TwoUnits  == {2}
=============================================================================
