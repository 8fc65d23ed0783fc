\* Two senders, three broadcasts within two seconds, one restart.
SPECIFICATION Spec
CONSTANTS
    s1 = s1
    s2 = s2
    n1 = n1
    NoName = NoName
    Sessions <- TwoSessions
    Names <- OneName
    MaxEvents = 3
    Clock = 2
    MaxStarts = 2
    Capacity = 2
    MaxPoints = 1
    Window = 1
    MaxSessions = 1
SYMMETRY SessionSymmetry
\* The engine starts at most MaxStarts times.
CHECK_DEADLOCK FALSE
INVARIANTS
    DisplayIsNewest
    AlertNotSilent
    RenotifiedOnlyForgotten
    StopKeepsLastKnown
    HistoryIsNewest
