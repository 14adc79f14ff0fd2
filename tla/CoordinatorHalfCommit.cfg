SPECIFICATION Spec
CONSTANTS
    N = 2
    Coordinators <- One
    MaxCalls = 3
    Reuse = FALSE
    Faults <- OnlyCommitRaises
INVARIANT
    Atomic
CHECK_DEADLOCK FALSE
