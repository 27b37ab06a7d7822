SPECIFICATION StrategySpec
CONSTANTS
    t1 = t1
    t2 = t2
    Threads <- TwoThreads
    Nobody = Nobody
    MaxDials = 2
    EventCap = 2
    MsgCap = 2
    MaxInbound = 2
    Envelopes <- AllEnvelopes
INVARIANTS
    ConnectedIsConsistent
    LinkIsWatched
    OpenSocketIsOwned
    OneReaderPerLink
    MessagesInOrder
PROPERTY
    ImplementsContract
