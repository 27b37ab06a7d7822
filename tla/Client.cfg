SPECIFICATION ClientSpec
CONSTANTS
    a = a
    u1 = u1
    s1 = s1
    s2 = s2
    g1 = g1
    g2 = g2
    Users <- OneUser
    Types <- StreamTypes
    MaxSubs = 2
    MaxEvents = 2
    Streamers <- TwoStreamers
    MaxFrames = 2
    Goroutines <- TwoGoroutines
    Rooms <- OneRoom
    MaxLinks = 3
    MaxWire = 2
    Strings <- RequiredStrings
    Numbers <- NumberFields
    Delay = "ReconnectDelay"
    Default = 5
    MaxObjects = 2
CHECK_DEADLOCK FALSE
INVARIANTS
    EventsAreHeard
    FramesWithinStream
    ChannelsCanBeTrusted
    ClientsAreUsable
    MessagesAreKept
PROPERTIES
    RemovedIsQuiet
    CallsReturn
