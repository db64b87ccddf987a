\* A click, served by the server as it is: without keyboard messages.
CONSTANTS
    MaxInt = 31
    MaxPixels = 2
    Buttons = {"left", "right"}
    Capacity = 2
    MaxSequence = 63
    FirstSequence = 42
    RemoteOutput  <- MCOutput
    InitialWindow <- MCWindow
    Modes  <- AsItIs
    Script <- MCScript
    PointerButtons = {"left"}
    CursorPoints <- MCCursorPoints
    Keys = {}
SPECIFICATION FairSpec
PROPERTIES
    ClickDrawsTheCrosshair
CHECK_DEADLOCK FALSE
