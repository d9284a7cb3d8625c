CONSTANTS
    NumKeys = 2
    MaxFragments = 3
    MaxOpen = 1
    Timeout = 2
    Count <- MCCount
    Horizon = 6
    MaxSpread = 2
SPECIFICATION Spec
CHECK_DEADLOCK FALSE
INVARIANTS
    FatesSound
    GroupAgreesWithBuffer
    ResolvedByDeadline
