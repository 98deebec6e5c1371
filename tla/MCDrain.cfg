SPECIFICATION Spec
CONSTANTS
    Limit = 3
    Delays <- MCDelays
    MinPeriod = 1
    MaxJobs = 3
    MaxPending = 2
    MaxTimers = 2
PROPERTIES
    DrainEndsUnlessAnswered
