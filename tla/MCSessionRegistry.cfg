CONSTANTS
    Conn = {c1, c2}
    Token = {t1, t2}
    MaxParked = 1
    ClaimSlots = 2
    ResumeTtl = 1
    MaxLeaked = 1
    NoToken = NoToken
    Gone = Gone
SPECIFICATION FairSpec
INVARIANTS
    SingleOwner
PROPERTIES
    InUseKept
    OnlyDroppedSessionsLeak
    OnlyStuckOwnerBlocks
    EvictedTaskEnds
