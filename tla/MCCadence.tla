----------------------------- MODULE MCCadence -----------------------------
(* Three presets as the code has them, in small; two names for schemes.    *)
EXTENDS Cadence

S(name, resolution, min, max) ==
    [name |-> name, resolution |-> resolution, min |-> min, max |-> max]

MCPresets == <<[resolution |-> 6, min |-> 3, max |-> 4],
               [resolution |-> 4, min |-> 2, max |-> 3],
               [resolution |-> 2, min |-> 1, max |-> 2]>>
MCNames == {"slow", "fast"}
MCForms == {S("slow", 6, 4, 5), S("slow", 2, 1, 1), S("fast", 2, 1, 4),
            S("fast", 2, 4, 1), S("fast", 2, 0, 9)}
MCStored == {[mode |-> 2, customs |-> <<>>, selected |-> "none"],
             [mode |-> 3, customs |-> <<S("slow", 4, 9, 0), S("slow", 4, 1, 1)>>,
              selected |-> "slow"]}
=============================================================================
