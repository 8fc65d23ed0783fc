\* Two engines at once, although each ends within its grace.
SPECIFICATION Spec
CONSTANTS
    MaxEngines = 3
    Timely = TRUE
CHECK_DEADLOCK FALSE
INVARIANT
    OneEngineAlive
