SPECIFICATION Safety
SYMMETRY Symmetry
CONSTANTS
    la = la
    lb = lb
    s1 = s1
    s2 = s2
    Lock <- MCLock
    Slot <- MCSlot
    TTL = 2
    RetryTimes = 1
    ExtendTries = 1
    AutoExtend <- MCAutoExtend
    MaxValue <- MCMaxValue
    User = User
    Nobody = Nobody
INVARIANTS
    Inv
    LeaseBacked
    MutualExclusion
CHECK_DEADLOCK FALSE
PROPERTY ImplementsLease
