SPECIFICATION X11Spec
CONSTANTS
    a1 = a1
    a2 = a2
    i1 = i1
    i2 = i2
    Calls = {c1, c2, c3}
    Paths = {p1, p2}
    None = None
    Apps <- MCApps
    Ids <- MCIds
    MaxNumber = 2
    defaultTimeout = 1
    Labels = {l1, l2}
    Patterns = {g1}
    MimeTypes = {t1}
    NoFilter = NoFilter
    MaxLists = 2
    MaxFilters = 2
    Applications = {f1, f2}
    NoApplication = NoApplication
SYMMETRY Symmetry
CHECK_DEADLOCK FALSE
INVARIANTS
    InhibitionIsOwned
    NotificationsKeepTheirOwner
    FiltersComeBack
    ChoiceIsMarkedByHand
PROPERTIES
    ClosedIsReleased
