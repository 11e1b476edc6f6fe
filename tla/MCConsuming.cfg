SPECIFICATION Spec
CONSTANTS
    a = a
    b = b
    Member <- MCMember
    Last = 2
    MaxRetries = 2
    MaxRuns = 2
    Config <- MCConfig
    Nobody = Nobody
INVARIANTS
    Inv
    NothingPassedOver
    AnsweredTookEffect
PROPERTIES
    RepeatsAreRaces
SYMMETRY Symmetry
CHECK_DEADLOCK FALSE
