SPECIFICATION Spec
CONSTANTS
    a = a
    b = b
    Member <- MCMember
    Last = 2
    MaxRetries = 2
    MaxRuns = 2
    Config <- DefaultConfig
    Nobody = Nobody
INVARIANTS
    RefusedIsNotLost
CHECK_DEADLOCK FALSE
