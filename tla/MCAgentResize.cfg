\* The window is resized while a presentation of its old size may be queued.
CONSTANTS
    MaxInt = 15
    MaxPixels = 2
    Widths = {1, 2}
    Images <- MCImages
    Damages <- MCDamages
    Padding = 0
    ResizeWaits = FALSE
    PointerButtons = {}
    CursorPoints = {"here"}
    Keys = {}
    MaxVersions = 3
    MaxPresents = 2
    MaxInFlight = 4
SPECIFICATION Spec
INVARIANTS
    LegalStreamIsAccepted
CHECK_DEADLOCK FALSE
