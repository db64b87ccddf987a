\* The output changes its scale while a window is shown.
CONSTANTS
    MaxInt = 15
    Width = 2
    Height = 1
    MaxPixels = 2
    Ids = {1}
    Parents <- Alone
    Regions <- InputRegions
    Scales <- FractionScales
    Rescales <- UnitScales
    Kinds = {}
    ActivateWaits = TRUE
    PointerButtons = {}
    CursorPoints <- TwoPoints
    Keys = {}
    MaxSent = 3
    MaxEvents = 1
SPECIFICATION Spec
INVARIANTS
    ProxyIsDrawnToScale
CHECK_DEADLOCK FALSE
