SPECIFICATION Spec
CONSTANTS
    h1 = h1
    h2 = h2
    h3 = h3
    c1 = c1
    c2 = c2
    Hook <- MCHook
    Caller <- MCCaller
    Prio <- MCPrio
INVARIANTS
    Inv
    PriorityOrder
    SuccessMeansAllRan
PROPERTIES
    NeverRestarted
    ShutdownEnds
    EveryHookGetsItsTurn
    ImplementsStaged
CHECK_DEADLOCK FALSE
