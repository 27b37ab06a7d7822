SPECIFICATION AllSpec
CONSTANTS
    t1 = t1
    t2 = t2
    a = a
    e1 = e1
    e2 = e2
    Registrars <- OneRegistrar
    Closers <- OneCloser
    Channels <- OneChannel
    MaxMessages = 2
    MaxHandlers = 2
    ChannelOf <- AllOnOne
    MaxChain = 4
    EventCalls <- TwoEventCalls
    EventTypes <- TwoEventTypes
    MaxEventHandlers = 3
CHECK_DEADLOCK FALSE
INVARIANTS
    HandlersRunAsRegistered
    OutcomesComeBack
PROPERTIES
    RetiredHandlersStop
    DispatchesEnd
