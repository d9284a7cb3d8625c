CONSTANTS
    LastIndex = 2
    EndIndex = 2
    Lookahead = 1
    Retain = 2
    Gop = 2
    StallLimit = 1
    Exporters = TRUE
    Workloads = {{"pause", "step", "seek", "start"}, {"seek", "stop"}}
    Faults = {"abort", "build"}
    MaxGen = 1
SPECIFICATION Spec
INVARIANTS
    WindowSound
PROPERTIES
    StreamFollowsWindow
    OnlyLastStepMissed
