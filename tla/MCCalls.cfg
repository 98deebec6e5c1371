SPECIFICATION FairCallsSpec
CONSTANTS
    Budget <- MCBudget
    Idle = {}
    LastDrain = 1
    MaxCalls = 2
    BadParams = TRUE
    Declarations <- MCDeclarations
    MaxRequests = 2
    MaxChunks = 2
INVARIANTS
    CallsTypeOK
    AskedOnce
    AsksAsDeclared
    WholeAnswer
PROPERTIES
    ForgottenOnlyByFailure
    NoWaitHangs
CHECK_DEADLOCK FALSE
