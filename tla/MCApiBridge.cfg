SPECIFICATION Spec
CONSTANTS
    Jobs = {j1}
    LlmJobs = {j1}
    None = None
    MaxRuns = 2
    MaxDbErrors = 1
    MaxDrops = 2
    MaxCrashes = 1
INVARIANTS
    TypeOK
    QueuedJobIsBacked
    CreatedMeansEnqueued
    ProjectionIsJustified
PROPERTY
    FinishedStaysFinished
CHECK_DEADLOCK FALSE
