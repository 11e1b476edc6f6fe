SPECIFICATION Spec
CONSTANTS
    a = a
    b = b
    Member <- MCMember
    Last = 2
    MaxRetries = 2
    MaxRuns = 2
    Config <- RecommendedConfig
    Nobody = Nobody
PROPERTIES
    ExistsMeansProcessed
CHECK_DEADLOCK FALSE
