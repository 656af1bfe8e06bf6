SPECIFICATION WaylandSpec
CONSTANTS
    w1 = w1
    w2 = w2
    o1 = o1
    s1 = s1
    s2 = s2
    c1 = c1
    c2 = c2
    m1 = m1
    v1 = v1
    v2 = v2
    x1 = x1
    None = None
    Windows <- MCWindows
    Shown <- MCShown
    NoSource = NoSource
    OwnWindows <- MCOwnWindows
    Starts <- MCStarts
    Screens <- MCScreens
    MaxBound = 2
    Second = 12
    Millisecond = 2
    Early = 1
    Rates <- MCRates
    NoFile = NoFile
    Monitors = {m1}
    Pictures = {v1, v2}
    OtherFiles = {x1}
    MaxWire = 2
SYMMETRY Symmetry
CHECK_DEADLOCK FALSE
INVARIANTS
    WindowsAreTracked
    ViewFollowsModel
    AcceptTakesClicked
    PacingIsKept
    WallpaperIsAsWanted
PROPERTIES
    ClosedWindowEndsShare
