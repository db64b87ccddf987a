\* A window whose contents are sent whole and as damage, resized and presented.
CONSTANTS
    MaxInt = 15
    MaxPixels = 2
    Widths = {1, 2}
    Images <- MCImages
    Damages <- MCDamages
    Padding = 0
    ResizeWaits = TRUE
    PointerButtons = {}
    CursorPoints = {"here"}
    Keys = {}
    MaxVersions = 3
    MaxPresents = 2
    MaxInFlight = 4
SPECIFICATION FairSpec
INVARIANTS
    SettledShowsTheContent
    LegalStreamIsAccepted
PROPERTIES
    FramebufferIsOneContent
    ContentCatchesUp
CHECK_DEADLOCK FALSE
