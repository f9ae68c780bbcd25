SPECIFICATION FairSpec
CONSTANTS
    Deliveries = {d1, d2}
    Concurrency = 2
    None = None
    MaxSignals = 2
    MaxLosses = 1
INVARIANTS
    TypeOK
    AnsweredOnce
    OnlyInterruptedIsGivenBack
PROPERTIES
    SignalEndsUnlessCaught
    DoneIsAnswered
CHECK_DEADLOCK FALSE
