SPECIFICATION FairSpec
CONSTANTS
    h1 = h1
    h2 = h2
    None = None
    Handles <- MCHandles
    MaxCalls = 3
    Seconds = 1
CHECK_DEADLOCK FALSE
INVARIANTS
    DialogsAreConsistent
    CloseReachesDialog
    SuccessIsConsent
PROPERTIES
    NestedSpec
    AccessEnds
