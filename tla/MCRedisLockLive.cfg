SPECIFICATION Spec
CONSTANTS
    la = la
    lb = lb
    s1 = s1
    s2 = s2
    Lock <- MCAlone
    Slot <- MCSlot
    TTL = 2
    RetryTimes = 2
    ExtendTries = 1
    AutoExtend <- MCAutoExtendAlone
    MaxValue <- MCMaxValueAlone
    User = User
    Nobody = Nobody
PROPERTIES
    LossIsNoticed
    NoEternalLock
CHECK_DEADLOCK FALSE
