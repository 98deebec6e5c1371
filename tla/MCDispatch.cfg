SPECIFICATION Spec
CONSTANTS
    p1 = p1
    p2 = p2
    p3 = p3
    Promises <- MCPromises
    MaxListeners = 2
INVARIANTS
    DispatchTypeOK
    BackgroundAwaited
    FailureHasCause
    TaskErrorsAreResults
    LastRespondCounts
PROPERTIES
    EventSettles
