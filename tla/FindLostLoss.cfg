SPECIFICATION Spec
CONSTANTS
    t1 = t1
    t2 = t2
    Threads <- OneThread
    Nobody = Nobody
    MaxDials = 2
    EventCap = 2
    MsgCap = 1
    MaxInbound = 0
    Envelopes <- NoEnvelopes
    MaxReconnects = 2
    Calls <- OneConnect
    CtxExpires = FALSE
CHECK_DEADLOCK FALSE
INVARIANT
    ConnectedIsLive
