CONSTANTS
    Bytes <- LargeData
    MinFrames = 8
    RingFrames = 9
    RingBytes = 7
    QueueFrames = 4
    QueueBytes = 4
    LastStep = 4
    Period = 3
    ChanCap = 1
    Workloads <- SeekOrRestart
    Companions <- NoneOrOne
    MaxGen = 1
    NetCap = 1
SPECIFICATION Spec
CHECK_DEADLOCK FALSE
INVARIANTS
    DeltaOnItsBase
    SeekIsComplete
    OneRunAtATime
