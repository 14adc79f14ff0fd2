SPECIFICATION Spec
CONSTANTS
    Keyings <- OnlyKeyed
    UseDurable = FALSE
    Track = TRUE
    Faults <- OnlyPut
    MaxInvocations = 2
    Total = 5
    Interval = 2
INVARIANT
    SuccessLasts
CHECK_DEADLOCK FALSE
