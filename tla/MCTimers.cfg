SPECIFICATION TimersSpec
CONSTANTS
    Budget <- MCBudget
    Idle = {0}
    LastDrain = 1
    Delays <- MCDelays
    Repeats = {FALSE, TRUE}
    MinPeriod = 1
    BadDelays = TRUE
    MaxTimers = 3
INVARIANTS
    TimersTypeOK
    FiresInOrder
    HostBacked
PROPERTIES
    StrandedOnlyByFailure
