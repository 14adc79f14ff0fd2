SPECIFICATION Spec
CONSTANTS
    Keyings <- OnlyKeyed
    UseDurable = FALSE
    Track = FALSE
    Faults <- NoFaults
    MaxInvocations = 2
    Total = 5
    Interval = 2
PROPERTY
    MonotonicOffset
CHECK_DEADLOCK FALSE
