--------------------------- MODULE MCTrackExport ---------------------------
(* A small instance of TrackExport for TLC. *)
EXTENDS TrackExport, TLC

CONSTANTS r1, r2, s1, a, b

\* A fix for both groups, an earlier broadcast of it, a later fix for the other group.
Broadcasts == <<
    [sender |-> s1, groups |-> {a, b}, ts |-> 1, at |-> 2],
    [sender |-> s1, groups |-> {a},    ts |-> 1, at |-> 1],
    [sender |-> s1, groups |-> {b},    ts |-> 2, at |-> 3] >>

Keeps == (r1 :> {1, 3}) @@ (r2 :> {2})

TwoRelays == {r1, r2}
Ids       == 1..3
Tracks    == {[sender |-> s1, group |-> a]}
=============================================================================
