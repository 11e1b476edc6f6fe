SPECIFICATION Spec
CONSTANTS
    r1 = r1
    r2 = r2
    r3 = r3
    c1 = c1
    c2 = c2
    Run <- MCRun
    After <- MCAfter
    Closer <- MCCloser
    Nobody = Nobody
INVARIANTS
    Inv
    StartedMeansRunning
PROPERTIES
    CallsEnd
CHECK_DEADLOCK FALSE
