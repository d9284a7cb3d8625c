CONSTANTS
    MaxTime = 1
    MaxPriority = 2
    MaxSeq = 4
    CompactFloor = 1
    DebugBuild = TRUE
SPECIFICATION Spec
INVARIANTS
    HeapBounded
    DispatchAssertion
PROPERTIES
    CalendarSpec
