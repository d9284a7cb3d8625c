CONSTANTS
    Bytes <- SmallFrames
    MinFrames = 6
    RingFrames = 8
    RingBytes = 4
    QueueFrames = 5
    QueueBytes = 8
    LastStep = 5
    Period = 2
    ChanCap = 2
    Workloads <- FollowOrRevisit
    Companions <- NoneOrAll
    MaxGen = 0
    NetCap = 2
SPECIFICATION Spec
CHECK_DEADLOCK FALSE
INVARIANTS
    ResumeSound
    TablesAgree
    ShowsPosition
