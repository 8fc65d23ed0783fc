\* Two cadences and the alert's, four taps.
SPECIFICATION Spec
CONSTANTS
    Rates <- TwoRates
    MinRate = 30
    AlertRate = 15
    AcquireRate = 1
    MaxTaps = 4
    MaxTunes = 2
\* Taps are bounded.
CHECK_DEADLOCK FALSE
INVARIANTS
    GpsOnlyForShare
    TapsAnswered
    RateFollows
