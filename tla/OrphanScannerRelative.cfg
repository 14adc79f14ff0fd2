SPECIFICATION Spec
CONSTANTS
    Files = {f1, f2, f3}
    Absolute = {}
    MaxEntries = 2
    TableFormats = {"delta"}
    CommitPerChunk = FALSE
    Punctual = TRUE
    Faults <- NoFaults
INVARIANT
    OnlyUncommitted
CHECK_DEADLOCK FALSE
