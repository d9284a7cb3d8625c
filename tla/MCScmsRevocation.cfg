CONSTANTS
    Devices = {v1, v2}
    Pool = 1
    MaxPeriod = 1
    MaxPolls = 0
    MaxTopups = 1
    Attackers = {}
    Suspects = {v1}
    Listeners = {v1, v2}
    Cellular = {v2}
    MaxForward = 1
    PerFrame = 1
    OnCadence = TRUE
    MaxReports = 2
SPECIFICATION FairSpec
INVARIANTS
    CasesSound
    NewestIsWhole
PROPERTIES
    DecisionsCarriedOut
    ListReachesVehicles
