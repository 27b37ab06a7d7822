SPECIFICATION Spec
CONSTANTS
    t1 = t1
    t2 = t2
    Threads <- TwoThreads
    Nobody = Nobody
    MaxDials = 2
    EventCap = 2
    MsgCap = 1
    MaxInbound = 0
    Envelopes <- NoEnvelopes
    MaxReconnects = 1
    Calls <- AllCalls
    CtxExpires = TRUE
CHECK_DEADLOCK FALSE
SYMMETRY Symmetry
INVARIANTS
    PendingStateHasOwner
    LiveLinkIsServed
    OneOutageAtATime
    LiveLinkIsVisible
    ClosedIsReleased
