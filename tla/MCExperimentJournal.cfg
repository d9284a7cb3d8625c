CONSTANTS
    NumRuns = 4
    Concurrency = 2
    Plans = {p1, p2}
    NoPlan = NoPlan
    Faults = {"kill", "run", "disk", "edit"}
    MaxFaults = 4
SPECIFICATION FairSpec
INVARIANTS
    JournalSound
PROPERTIES
    FinishedStays
    SweepEnds
