------------------------------ MODULE MCGroups ------------------------------
(* Two groups with relays of their own and one in common; one has a member *)
(* and a send-only key; one invite spells a relay in another case.         *)
EXTENDS Groups

Member(k)   == [public |-> k, secret |-> TRUE]
SendOnly(k) == [public |-> k, secret |-> FALSE]
Junk        == [public |-> "", secret |-> FALSE]

MCCanonical == [u \in {"d", "r", "s", "R", "bad"} |->
                   CASE u = "R" -> "r" [] u = "bad" -> "none" [] OTHER -> u]
MCTexts == {[key |-> Member("g1"), urls |-> <<"bad", "R", "r">>],
            [key |-> SendOnly("g1"), urls |-> <<"s">>],
            [key |-> Member("g2"), urls |-> <<"s", "d", "r">>],
            [key |-> Junk, urls |-> <<>>]}
MCDefaultRelays == <<"d">>
MCStored == {[relays |-> <<"d">>, auto |-> {}, groups |-> <<>>],
             [relays |-> <<"d", "R", "r">>, auto |-> {"R"},
              groups |-> <<[public |-> "g1", secret |-> TRUE, selected |-> TRUE,
                            relays |-> <<"R">>]>>]}
=============================================================================
