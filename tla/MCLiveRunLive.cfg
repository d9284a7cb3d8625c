CONSTANTS
    LastIndex = 1
    EndIndex = 1
    Lookahead = 1
    Retain = 2
    Gop = 2
    StallLimit = 1
    Exporters = FALSE
    Workloads = {{"seek", "stop"}, {"seek", "start"}, {"start", "speed"}}
    Faults = {"abort", "build"}
    MaxGen = 1
SPECIFICATION FairSpec
PROPERTIES
    ShutdownEnds
    RunEnds
    SeekEnds
