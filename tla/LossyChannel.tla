---------------------------- MODULE LossyChannel ----------------------------
(***************************************************************************)
(* What the engine may expect of publishing to a relay (src/core/src/      *)
(* relay.rs), without tasks, sockets and queues: each line, a relay for as *)
(* long as it stays listed, is a first-in first-out channel that hands     *)
(* over a message at most once, loses only the oldest of those it holds,   *)
(* and forgets everything when it ends.  RelayTask implements it.          *)
(*                                                                         *)
(* Messages are numbers in the order they are published, so first in is    *)
(* least, and delivered is always an increasing sequence.                  *)
(***************************************************************************)
EXTENDS Naturals, Sequences, Functions

CONSTANTS
    Lines,      \* the successive connections to one relay
    Messages    \* what is published

VARIABLES
    pending,    \* per line: accepted, neither handed over nor lost
    delivered   \* per line: handed over to the socket

vars == <<pending, delivered>>

Init ==
    /\ pending = [l \in Lines |-> {}]
    /\ delivered = [l \in Lines |-> <<>>]

Accept(l) ==
    \E m \in Messages :
        /\ \A n \in pending[l] \cup Range(delivered[l]) : n < m
        /\ pending' = [pending EXCEPT ![l] = @ \cup {m}]
        /\ UNCHANGED delivered

LeavesFirst(l, m) ==
    /\ \A n \in pending[l] : m <= n
    /\ pending' = [pending EXCEPT ![l] = @ \ {m}]

Deliver(l) ==
    \E m \in pending[l] :
        /\ LeavesFirst(l, m)
        /\ delivered' = [delivered EXCEPT ![l] = Append(@, m)]

LoseOldest(l) == \E m \in pending[l] : LeavesFirst(l, m) /\ UNCHANGED delivered

End(l) ==
    /\ pending' = [pending EXCEPT ![l] = {}]
    /\ delivered' = [delivered EXCEPT ![l] = <<>>]

Next == \E l \in Lines : Accept(l) \/ Deliver(l) \/ LoseOldest(l) \/ End(l)

Spec == Init /\ [][Next]_vars

(* What was handed over is in the order of publishing, nothing of it twice, *)
(* and nothing is pending that it has overtaken.                            *)
Fifo ==
    \A l \in Lines :
        /\ \A i, j \in DOMAIN delivered[l] : i < j => delivered[l][i] < delivered[l][j]
        /\ \A n \in Range(delivered[l]), m \in pending[l] : n < m
=============================================================================
