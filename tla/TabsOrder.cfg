SPECIFICATION Spec
CONSTANTS
    MaxSessions = 3
    CloseLast = FALSE
INVARIANTS PointersValid ShownAlive TabsInfoFresh
PROPERTIES WindowCloses
CHECK_DEADLOCK FALSE
