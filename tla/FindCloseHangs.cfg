SPECIFICATION FairSpec
CONSTANTS
    t1 = t1
    t2 = t2
    Threads <- OneThread
    Nobody = Nobody
    MaxDials = 1
    EventCap = 2
    MsgCap = 1
    MaxInbound = 0
    Envelopes <- Events
    MaxReconnects = 1
    Calls <- ConnectClose
    CtxExpires = TRUE
CHECK_DEADLOCK FALSE
PROPERTY
    CloseReturns
