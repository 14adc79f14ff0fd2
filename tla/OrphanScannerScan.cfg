SPECIFICATION FairSpec
CONSTANTS
    Files = {f1, f2, f3}
    Absolute = {f1, f2}
    MaxEntries = 2
    TableFormats = {"delta", "hudi", "catalog", "bare"}
    CommitPerChunk = FALSE
    Punctual = TRUE
    Faults <- OnlyDelete
INVARIANT
    LiveKept
PROPERTY
    OrphansGo
CHECK_DEADLOCK FALSE
