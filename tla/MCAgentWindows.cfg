\* Two windows that come and go, the second perhaps the first one's popup.
CONSTANTS
    MaxInt = 15
    Width = 2
    Height = 1
    MaxPixels = 2
    Ids = {1, 2}
    Parents <- OnePopup
    Regions <- WindowRegions
    Scales <- FractionScales
    Rescales = {}
    Kinds = {"create", "destroy", "activate"}
    ActivateWaits = TRUE
    PointerButtons = {"left"}
    CursorPoints <- TwoPoints
    Keys = {"a"}
    MaxSent = 2
    MaxEvents = 2
SPECIFICATION FairSpec
INVARIANTS
    TypeOK
    ReaderKnowsTheInput
    NewestIsShown
    ActivatedIsInFront
PROPERTIES
    TextInputStaysWithTheTopLevel
    NewestIsAnswered
CHECK_DEADLOCK FALSE
