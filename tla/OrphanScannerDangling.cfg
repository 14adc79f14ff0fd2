SPECIFICATION Spec
CONSTANTS
    Files = {f1, f2, f3}
    Absolute = {f1, f2, f3}
    MaxEntries = 3
    TableFormats = {"delta"}
    CommitPerChunk = TRUE
    Punctual = TRUE
    Faults <- NoFaults
INVARIANT
    LiveKept
CHECK_DEADLOCK FALSE
