SPECIFICATION Spec
CONSTANTS
    g1 = g1
    g2 = g2
    NoDeadline = NoDeadline
    Groups <- OneGroup
    Periods <- TwoUnits
    Grace = 2
    LeadDivisor = 2
INVARIANT
    EscalationSurvivesCrash
