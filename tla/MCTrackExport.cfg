\* Two relays, three broadcasts, two exports.
SPECIFICATION FairSpec
CONSTANTS
    r1 = r1
    r2 = r2
    s1 = s1
    a = a
    b = b
    Relays <- TwoRelays
    Events <- Ids
    Log <- Broadcasts
    Stored <- Keeps
    Targets <- Tracks
    MaxExports = 2
    MaxInbox = 2
\* Exports are bounded, and a relay may stay away.
CHECK_DEADLOCK FALSE
INVARIANTS
    Whole
    AwaitsReached
PROPERTIES
    EveryExportEnds
