SPECIFICATION Spec
CONSTANTS
    s1 = s1
    s2 = s2
    a1 = a1
    c1 = c1
    c2 = c2
    SyncSender <- MCSync
    AsyncSender <- MCAsync
    Bounded <- MCBounded
    Closer <- MCCloser
    Nobody = Nobody
INVARIANTS
    Inv
PROPERTIES
    EveryMessageIsAnswered
    BoundedSendsReturn
    CloseEnds
CHECK_DEADLOCK FALSE
