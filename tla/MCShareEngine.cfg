\* Two groups, a two-unit check-in period and grace window, every fault.
SPECIFICATION FairSpec
CONSTANTS
    g1 = g1
    g2 = g2
    NoDeadline = NoDeadline
    Groups <- TwoGroups
    Periods <- TwoUnits
    Grace = 2
    LeadDivisor = 2
INVARIANTS
    TypeOK
    DiskFollowsMemory
    ResumeMatchesShare
    CheckinMatchesConfig
    NoRevival
    AlertSurvives
    UnreadConfigKept
    ServiceWhileNeeded
PROPERTIES
    GraceBeforeAlarm
    LapsedCheckinResolves
