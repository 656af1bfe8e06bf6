SPECIFICATION PartsSpec
CONSTANTS
    s1 = s1
    s2 = s2
    s3 = s3
    None = None
    Sessions <- MCSessions
    MaxStreams = 3
    MaxReplies = 2
    Impatient <- MCSessions
    Hasty = {"one", "two"}
CHECK_DEADLOCK FALSE
SYMMETRY Symmetry
INVARIANTS
    TrayIsTruthful
    ListIsLive
    OutOfReachHasCause
PROPERTIES
    SecondAnswerNeedsDialog
    SuccessIsStoppable
    CloseStopsStreams
