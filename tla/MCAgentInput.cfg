\* One window, its mouse and keyboard.
CONSTANTS
    MaxInt = 15
    Width = 2
    Height = 1
    MaxPixels = 2
    Ids = {1}
    Parents <- Alone
    Regions <- InputRegions
    Scales <- FractionScales
    Rescales = {}
    Kinds = {"create", "destroy"}
    ActivateWaits = TRUE
    PointerButtons = {"left", "right"}
    CursorPoints <- MCCursorPoints
    Keys = {"a"}
    MaxSent = 2
    MaxEvents = 4
SPECIFICATION Spec
INVARIANTS
    MessagesMakeSense
    ReaderKnowsTheInput
    ShownPixelsAreReachable
CHECK_DEADLOCK FALSE
