SPECIFICATION Spec
CONSTANTS
    r1 = r1
    r2 = r2
    h1 = h1
    Request <- MCRequest
    Header <- MCHeader
    Of <- MCOf
    Services <- MCServices
    Policies <- MCPolicies
    MaxAge = 1
    Skew = 3
    Drift = 1
    Stall = 1
    Horizon = 9
    CustomCode <- MCCustomCode
    Hit <- MCHit
    Failures <- MCFailures
    Registered <- MCRegistered
    Resolvers <- MCResolvers
    Limit = 1
INVARIANTS
    Inv
    AcceptedOnce
    StatusIsCurrent
    AnswersAreFaithful
SYMMETRY Symmetry
CHECK_DEADLOCK FALSE
