SPECIFICATION Spec
CONSTANTS
    Jobs = {j1}
    BatchSize = 1
    MaxEvents = 5
    MaxFlushFailures = 0
    MaxCrashes = 0
INVARIANT
    ReplayAfterSuccessNotRecounted
CHECK_DEADLOCK FALSE
