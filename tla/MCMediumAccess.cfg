CONSTANTS
    a = a
    b = b
    c = c
    Nodes = {a, b, c}
    Power <- Star
    Threshold = 3
    Slot = 1
    Aifs = 2
    Air = 2
    Cw = 1
    QueueDepth = 2
    MaxGrants = 2
    Window = 3
    SignTimes = {1, 2}
    StepPeriod = 4
    MaxBurst = 2
    MaxFrames = 3
    Vehicles = {c}
    Horizon = 9
SPECIFICATION Spec
CHECK_DEADLOCK FALSE
SYMMETRY AAndB
INVARIANTS
    TimersSound
    OverlapsAreHidden
    SentInTurn
    LoadIsReal
