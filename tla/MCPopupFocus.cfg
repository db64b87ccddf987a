\* A popup of a popup is pressed.
CONSTANTS
    MaxInt = 15
    Width = 2
    Height = 1
    MaxPixels = 2
    Ids = {1, 2, 3}
    Parents <- NestedMenu
    Regions <- ShownRegions
    Scales <- UnitScales
    Rescales = {}
    Kinds = {}
    ActivateWaits = TRUE
    PointerButtons = {"left"}
    CursorPoints <- OnePoint
    Keys = {}
    MaxSent = 1
    MaxEvents = 1
SPECIFICATION Spec
PROPERTIES
    TextInputStaysWithTheTopLevel
CHECK_DEADLOCK FALSE
