\* Windows are activated while presentations wait for their dispatch.
CONSTANTS
    MaxInt = 15
    Width = 2
    Height = 1
    MaxPixels = 2
    Ids = {1, 2}
    Parents <- Unrelated
    Regions <- ShownRegions
    Scales <- UnitScales
    Rescales = {}
    Kinds = {"activate"}
    ActivateWaits = FALSE
    PointerButtons = {}
    CursorPoints <- OnePoint
    Keys = {}
    MaxSent = 3
    MaxEvents = 0
SPECIFICATION Spec
INVARIANTS
    ActivatedIsInFront
CHECK_DEADLOCK FALSE
