\* Six engines: UI and service take turns, with late engines lingering on.
SPECIFICATION FairSpec
CONSTANTS
    MaxEngines = 6
    Timely = FALSE
\* The number of engines is bounded.
CHECK_DEADLOCK FALSE
INVARIANTS
    TypeOK
    SoleOwner
    StreamFollowsOwner
PROPERTIES
    NoStranded
    HandedOver
