SPECIFICATION FairPartsSpec
CONSTANTS
    s1 = s1
    s2 = s2
    s3 = s3
    None = None
    Sessions <- MCSessions
    MaxStreams = 3
    MaxReplies = 1
    Impatient <- MCSessions
    Hasty = {"one"}
CHECK_DEADLOCK FALSE
PROPERTIES
    StartIsAnswered
