CONSTANTS
    NumKeys = 2
    MaxFragments = 3
    MaxOpen = 1
    Timeout = 2
    Fragments <- MCFragments
    MaxTime = 3
SPECIFICATION WatchSpec
CHECK_DEADLOCK FALSE
INVARIANTS
    BufferSound
PROPERTIES
    CompleteIsFresh
