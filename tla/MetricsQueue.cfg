SPECIFICATION FairSpec
CONSTANTS
    MaxItems = 4
    MaxCloses = 2
    Faults = {"raise", "hang"}
INVARIANTS
    TypeOK
    InOrder
PROPERTIES
    Delivered
    CloseReturns
    WorkerEnds
CHECK_DEADLOCK FALSE
