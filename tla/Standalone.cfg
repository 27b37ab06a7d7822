SPECIFICATION StandaloneSpec
CONSTANTS
    g1 = g1
    g2 = g2
    o1 = o1
    o2 = o2
    o3 = o3
    t1 = t1
    t2 = t2
    Threads <- TwoThreads
    Nobody = Nobody
    MaxConnects = 3
    EventCap = 3
    Generators <- TwoGenerators
    NodeID <- NodeIDs
    NodeSize = 4
    SequenceSize = 2
    MaxTime = 2
    SetBack = TRUE
    Operations <- ThreeOperations
    FailureThreshold = 3
    ResetTimeout = 2
    Waiters <- TwoWaiters
    Token = 3
    MaxTokens = 7
    RefillRate = 2
    Window = 5
    RetryConfigs <- SomeRetryConfigs
    MaxDuration = 31
    One = 2
CHECK_DEADLOCK FALSE
INVARIANTS
    IdsAreUnique
    ClosedByStreak
    RateIsKept
    RetryKeepsPlan
    PollsAsItSays
PROPERTIES
    IdsAreOrdered
    CoolDownIsKept
    RefusedAreServed
    ImplementsContract
