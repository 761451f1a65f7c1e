SPECIFICATION Spec
CONSTANTS
    t1 = t1
    x1 = x1
    p1 = p1
    p2 = p2
    None = None
    Toplevels <- MCToplevels
    X11Surfaces <- MCX11Surfaces
    PopupSurfaces <- MCPopupSurfaces
    MaxIds = 3
    MaxQueue = 2
INVARIANT ShellConverges
CHECK_DEADLOCK FALSE
 
