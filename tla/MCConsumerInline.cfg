SPECIFICATION FairSpec
CONSTANTS
    Jobs = {j1}
    Workers = {w1, w2}
    Concurrency = 1
    LlmJobs = {j1}
    Lifecycle = TRUE
    Stoppable = {w1}
    MaxFaults = 2
    MaxDrops = 1
    MaxCrashes = 1
INVARIANTS
    DeadLetterIsLastResort
    
PROPERTY
    EveryJobIsDelivered
CHECK_DEADLOCK FALSE
