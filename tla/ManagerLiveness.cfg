SPECIFICATION FairSpec
CONSTANTS
    t1 = t1
    t2 = t2
    Threads <- TwoThreads
    Nobody = Nobody
    MaxDials = 2
    EventCap = 4
    MsgCap = 1
    MaxInbound = 1
    Envelopes <- NoEnvelopes
    MaxReconnects = 2
    Calls <- ConnectClose
    CtxExpires = FALSE
CHECK_DEADLOCK FALSE
PROPERTIES
    ReconnectSettles
    LossIsNoticed
    CloseCompletes
