SPECIFICATION FairSpec
CONSTANTS
    Jobs = {j1, j2}
    Workers = {w1}
    Concurrency = 2
    LlmJobs = {j1}
    Lifecycle = FALSE
    Stoppable = {w1}
    MaxFaults = 1
    MaxDrops = 1
    MaxCrashes = 0
INVARIANTS
    TypeOK
    SettledIsAnswered
    EveryDeliveryHasOneOwner
    DrainedStopHoldsNothing
PROPERTIES
    ImplementsDelivery
    
CHECK_DEADLOCK FALSE
