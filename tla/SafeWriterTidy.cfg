SPECIFICATION FairSpec
CONSTANTS
    Keyings <- AnyKeying
    UseDurable = TRUE
    Track = TRUE
    Faults <- Tidy
    MaxInvocations = 4
    Total = 5
    Interval = 2
INVARIANTS
    AppliedOnce
    RollbackClosure
PROPERTIES
    RollbackTakesOnlyNew
    UnreadableIsKept
    JobCompletes
CHECK_DEADLOCK FALSE
