SPECIFICATION SendPathSpec
CONSTANTS
    t1 = t1
    s1 = s1
    j1 = j1
    Nobody = Nobody
    Threads <- NoThreads
    MaxDials = 2
    EventCap = 1
    MsgCap = 1
    MaxInbound = 0
    Envelopes <- NoEnvelopes
    Senders <- OneSender
    Joiners <- NoJoiners
    QueueCap = 2
    MaxAccepted = 2
CHECK_DEADLOCK FALSE
INVARIANT
    OneWriterAtATime
