SPECIFICATION Spec
CONSTANTS
    h1 = h1
    h2 = h2
    None = None
    Handles <- MCHandles
    MaxCalls = 2
    Seconds = 2
CHECK_DEADLOCK FALSE
INVARIANTS
    TimeoutDenies
