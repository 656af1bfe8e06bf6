SPECIFICATION Spec
CONSTANTS
    s1 = s1
    s2 = s2
    s3 = s3
    None = None
    Sessions <- MCSessions
    MaxStreams = 1
    MaxReplies = 1
    Impatient = {}
CHECK_DEADLOCK FALSE
INVARIANTS
    StopEndsSharing
