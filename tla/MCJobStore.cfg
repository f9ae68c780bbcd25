SPECIFICATION FairSpec
CONSTANTS
    Jobs = {j1, j2}
    BatchSize = 2
    MaxEvents = 4
    MaxFlushFailures = 1
    MaxCrashes = 1
INVARIANTS
    TypeOK
    EveryEventHasOneFate
    RowIsNewestCommitted
    FinishedJobIsCounted
    ReplayCountedOnce
    StopKeepsEarlierEvents
PROPERTIES
    EveryEventIsResolved
CHECK_DEADLOCK FALSE
