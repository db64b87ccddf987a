\* Both ends of a connection whose buffers and receives are far smaller than
\* the messages.
CONSTANTS
    Base = 12
    Magic = 20558
    Version = 6
    MaxPayload = 100
    MaxDimension = 9
    MaxRects = 2
    MaxKeycode = 127
    Conversations <- MCConversations
    Rooms = {1, 11, 40}
    ReceiveSizes = {7, 64}
SPECIFICATION FairSpec
INVARIANTS
    ErrorsAreEarned
PROPERTIES
    StreamsAreChannels
    EverythingArrivesOrBothEnd
CHECK_DEADLOCK FALSE
