----------------------------- MODULE MCLiveMap -----------------------------
(* A small instance of LiveMap for TLC: a world of two by two tiles, or of *)
(* four by four, and a window that is turned.                              *)
EXTENDS LiveMap, TLC

CONSTANTS p1, p2

TwoPeers == {p1, p2}
Places   == {[x |-> 8, y |-> 8], [x |-> 16, y |-> 8], [x |-> 24, y |-> 8]}
Turned   == {[w |-> 10, h |-> 4], [w |-> 4, h |-> 10]}
Gestures == {[x |-> 16, y |-> 0], [x |-> -16, y |-> 16]}
Alike    == Permutations(TwoPeers)
Middle   == [x |-> 44, y |-> 8]
=============================================================================
