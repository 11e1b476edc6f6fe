SPECIFICATION Spec
CONSTANTS
    t = t
    p = p
    Message <- MCMessage
    Transactional <- MCTransactional
    Oversized <- MCOversized
    MaxChecks = 2
    MaxReconsumeTimes = 1
    BatchMax = 2
    Deployments <- MCDeployments
    MaxRuns = 2
    MaxRequests = 1
INVARIANTS
    Inv
    VisibleOnlyIfCommitted
    StopIsClean
PROPERTIES
    StartIsEarned
    CancelledStartEnds
    PhasesEnd
CHECK_DEADLOCK FALSE
