SPECIFICATION Spec
CONSTANTS
    Jobs = {j1}
    LlmJobs = {}
    None = None
    MaxRuns = 1
    MaxDbErrors = 0
    MaxDrops = 1
    MaxCrashes = 0
INVARIANT
    UpdatesAreIdempotent
CHECK_DEADLOCK FALSE
