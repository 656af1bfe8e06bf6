SPECIFICATION FairSpec
CONSTANTS
    argb = argb
    xrgb = xrgb
    rg88 = rg88
    tiled = tiled
    implicit = implicit
    card0 = card0
    card1 = card1
    None = None
    Invalid = implicit
    Fourccs <- MCFourccs
    Convertible <- MCConvertible
    WithBpp <- MCWithBpp
    Opaque <- MCOpaque
    Modifiers <- MCModifiers
    Announced <- MCAnnounced
    Renderable <- MCRenderable
    Devices <- MCDevices
    Accepted = {"shm", "dmabuf"}
CHECK_DEADLOCK FALSE
INVARIANTS
    NegotiationIsSound
    DevicesAccounted
PROPERTIES
    CurrentOffersAreSafe
    OfferedFormatsHavePlanes
    Settles
