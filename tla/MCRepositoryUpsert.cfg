SPECIFICATION Spec
CONSTANTS
    a = a
    b = b
    i1 = i1
    i2 = i2
    t1 = t1
    t2 = t2
    d1 = d1
    d2 = d2
    Caller <- MCCaller
    Id <- MCId
    Tenant <- MCTenant
    Dept <- MCDept
    NoTenant = NoTenant
    NoDept = NoDept
    MaxVal = 2
    Batches <- MCBatches
    Vals <- MCVals
    Models <- MCModels
    Requests <- MCRequests
    Claims <- MCClaims
    Seeds <- MCSeeds
    MaxStatements <- MCStatements
    MaxDepth <- MCDepth
    Absent = Absent
    Same = Same
PROPERTIES
    WritesStayInTenant
CHECK_DEADLOCK FALSE
