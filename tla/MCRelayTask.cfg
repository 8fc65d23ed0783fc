\* The relay is added twice; more events than the queue holds.
SPECIFICATION FairSpec
CONSTANTS
    f1 = f1
    NoFilter = NoFilter
    Filters <- OneFilter
    QueueCap = 1
    MaxTasks = 2
    MaxEvents = 2
    MaxCmds = 1
\* The engine may stop using the pool.
CHECK_DEADLOCK FALSE
INVARIANTS
    NewestKept
    SubscriptionCurrent
    OnlyListedRuns
PROPERTIES
    ImplementsChannel
    QueueDrains
    RemovedEnds
