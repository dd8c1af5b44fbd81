CONSTANTS
    MAX_TASKS = 3
    MaxAge = 1
    LastId = 4
    LastTime = 4
SPECIFICATION Spec
INVARIANTS
    TypeOK
    QueueOrdered
    StatisticsBalance
    ExecutingIsRunning
PROPERTIES
    LifecycleOnly
    OnlyOutdatedLeave
    ImplementsSchedule
