\* The session alone, every call in every order.
CONSTANTS
    MaxInt = 7
    Buttons = {"left", "right"}
    Capacity = 2
    MaxSequence = 4
    RemoteOutput  <- MCOutput
    InitialWindow <- MCWindow
    Locations     <- MCLocations
    Scripted      <- MCScripted
    MaxInsertions = 3
SPECIFICATION CheckSpec
INVARIANTS
    SessionTypeOK
    HistoryIsKeyed
    GrabIsTheLeftButton
PROPERTIES
    RingImplementsTheLog
    InputMeaningIsFixed
