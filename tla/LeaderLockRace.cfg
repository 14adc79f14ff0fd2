SPECIFICATION LockSpec
CONSTANTS
    Owners = {o1, o2}
    Lease = 2
    LockFaults = {}
INVARIANT
    OneLeader
CHECK_DEADLOCK FALSE
