SPECIFICATION WorkerSpec
CONSTANTS
    Budget <- MCBudget
    Idle = {0}
    LastDrain = 100
    Delays <- MCDelays
    Repeats = {FALSE, TRUE}
    BadDelays = FALSE
    MinPeriod = 1
    MaxTimers = 1
    MaxCalls = 1
    BadParams = FALSE
    MaxJobs = 2
    MaxQueue = 1
    MaxDispatches = 2
    Cancellable = TRUE
INVARIANTS
    OwnReply
    QuiescentOnOk
    OnlyThrowsLeaveJobs
    SettledFetchIsAnswered
PROPERTIES
    ImplementsService
