SPECIFICATION Spec
CONSTANTS
    k1 = k1
    k2 = k2
    Slots = {k1, k2}
    Apis <- BothApis
    Screens <- BothScreens
    Menus <- BothMenus
    Frame <- BothFrames
INVARIANT ClientsTypeOK
INVARIANT ScreensKeepUp
INVARIANT OffersAreAllowed
SYMMETRY Interchangeable
CHECK_DEADLOCK FALSE
