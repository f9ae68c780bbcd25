SPECIFICATION FairSpec
CONSTANTS
    Deliveries = {d1}
    Concurrency = 2
    None = None
    MaxSignals = 1
    MaxLosses = 0
PROPERTY SignalEndsWorker
CHECK_DEADLOCK FALSE
