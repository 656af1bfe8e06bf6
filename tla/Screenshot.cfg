SPECIFICATION FairSpec
CONSTANTS
    left = left
    right = right
    Selection = Selection
    Screens <- MCScreens
    MaxCalls = 2
CHECK_DEADLOCK FALSE
INVARIANTS
    CaptureCountIsSound
    PictureIsComplete
PROPERTIES
    NestedSpec
    ScreenshotIsAnswered
