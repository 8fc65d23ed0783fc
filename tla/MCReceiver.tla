----------------------------- MODULE MCReceiver -----------------------------
(* Small instances of Receiver for TLC. *)
EXTENDS Receiver, TLC

CONSTANTS s1, s2, n1

TwoSessions == {s1, s2}
OneName     == {n1}

SessionSymmetry == Permutations({s1, s2})
=============================================================================
