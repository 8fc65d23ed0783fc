------------------------------- MODULE Lists -------------------------------
(***************************************************************************)
(* What the code's `retain` and `filter` leave of a list, as a recursive   *)
(* function that can be reasoned about.                                    *)
(***************************************************************************)
EXTENDS Naturals, Sequences

(* The elements of s at the places in I, in their order. *)
Keep(s, I) ==
    LET kept[n \in 0..Len(s)] ==
            IF n = 0 THEN <<>>
            ELSE IF n \in I THEN Append(kept[n - 1], s[n]) ELSE kept[n - 1]
    IN  kept[Len(s)]

Without(s, S) == Keep(s, {i \in DOMAIN s : s[i] \notin S})
=============================================================================
