SPECIFICATION FairSpec
CONSTANTS
    Keyings <- AnyKeying
    UseDurable = TRUE
    Track = TRUE
    Faults <- SavesLand
    MaxInvocations = 3
    Total = 5
    Interval = 2
INVARIANTS
    TypeOK
    CheckpointBacked
    SuccessLasts
PROPERTIES
    KeepsPromise
    JobCompletes
    InterruptedChunkRollsBack
    LowTimeNoticed
CHECK_DEADLOCK FALSE
