SPECIFICATION FairSpec
CONSTANTS
    None = None
    MaxId = 3
    Window = 2
    MaxActive = 2
    Busy <- MCBusy
    MaxOp = 2
    MaxCalls = 2
CHECK_DEADLOCK FALSE
INVARIANTS
    SessionsInv
    ReservedIsNear
PROPERTIES
    ImplementsLife
    RunsOnce
    OperationsEnd
