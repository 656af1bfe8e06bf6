CONSTANTS
    b1 = b1
    b2 = b2
    None = None
    Orphan = Orphan
    Buffers <- TwoBuffers
    Metas <- AllMetas
    DebugLogged = TRUE
SPECIFICATION FairSpec
CHECK_DEADLOCK FALSE
INVARIANTS
    PoolIsSound
    CaptureTargetsCurrent
    StallHasCause
PROPERTIES
    GoodIsCaptured
    DamageReported
    LoanSpec
    BuffersKeepFlowing
