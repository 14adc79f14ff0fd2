SPECIFICATION FairSpec
CONSTANTS
    N = 3
    Coordinators <- One
    MaxCalls = 6
    Reuse = TRUE
    Faults <- OneFaults
INVARIANTS
    TypeOK
    AtomicUnlessBroken
    PreparedIsUnanimous
PROPERTIES
    ImplementsAtomicCommit
    CommitsOnlyPrepared
    CallsReturn
CHECK_DEADLOCK FALSE
