SPECIFICATION LedSpec
CONSTANTS
    c1 = c1
    c2 = c2
    Coordinators <- Two
    Owners <- Two
    N = 2
    MaxCalls = 4
    Reuse = FALSE
    Faults <- LedFaults
    Lease = 2
    LockFaults <- SightedFaults
SYMMETRY AnyOrder
CONSTRAINT NoneStrayed
INVARIANTS
    OneLeaderUnlessRaced
    LedDecisionReachesAll
    
PROPERTIES
    LeaderIsStable
    LedTerminalIsFinal
CHECK_DEADLOCK FALSE
