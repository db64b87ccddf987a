\* A user drags, clicks and changes focus, in a session or while the script plays.
CONSTANTS
    MaxInt = 31
    MaxPixels = 2
    Buttons = {"left", "right"}
    Capacity = 2
    MaxSequence = 63
    FirstSequence = 42
    RemoteOutput  <- MCOutput
    InitialWindow <- MCWindow
    Modes  <- MCModes
    Script <- MCScript
    PointerButtons = {"left", "right"}
    CursorPoints <- MCCursorPoints
    Keys = {}
SPECIFICATION FairSpec
INVARIANTS
    TypeOK
    InputIsNeverStale
    OnePresentInFlight
    SettledShowsTheWindow
    DragFollowsTheCursor
    ButtonsAgree
    FramebufferIsCurrent
    ServerKeepsTheConnection
    SuccessMeansTheScriptEnded
PROPERTIES
    PresentationsAdvance
    WindowIsShown
    NobodyIsLeftBehind
    ScriptCompletes
CHECK_DEADLOCK FALSE
