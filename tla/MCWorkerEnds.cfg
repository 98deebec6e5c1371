SPECIFICATION FairWorkerSpec
CONSTANTS
    Budget <- MCBudget
    Idle = {0}
    LastDrain = 100
    Delays <- MCDelays
    Repeats = {FALSE, TRUE}
    MinPeriod = 1
    MaxTimers = 1
    MaxCalls = 2
    BadParams = TRUE
    BadDelays = TRUE
    MaxJobs = 2
    MaxQueue = 1
    MaxDispatches = 1
    Cancellable = TRUE
PROPERTIES
    ImplementsTimers
    ImplementsBindings
    ExecEnds
