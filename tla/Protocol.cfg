SPECIFICATION ProtocolSpec
CONSTANTS
    Pods = {0, 1, 3, 9, 12}
    Ctrs = {0, 1, 4, 9, 12, 24, 30}
    Large = 3
    Limits = {1, 4, 8, 9, 13, 20}
    Loads <- MCLoads
    Budget = 60
    MessageTypes <- MCMessageTypes
    Messages <- MCMessages
    Longest = 30
    HandlerSets <- MCHandlerSets
    Subscriptions <- MCSubscriptions
    OtherMasks <- MCOtherMasks
CHECK_DEADLOCK FALSE
INVARIANTS
    RoundTrip
    NothingInvented
    OlderPeerLosesNothing
    StubEventsArrive
PROPERTIES
    ImplementsDelivery
    RetriesShrink
