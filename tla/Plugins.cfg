SPECIFICATION PluginSpec
CONSTANTS
    Address <- MCAddress
    Inputs <- MCInputs
    NoMessage = NoMessage
    Encode <- MCEncode
    Decode <- MCDecode
    Meant <- MCMeant
    c1 = c1
    c2 = c2
    c3 = c3
    Registrations = {c1, c2, c3}
    Nobody = Nobody
CHECK_DEADLOCK FALSE
INVARIANTS
    NothingLeaks
    
    TimedOutModuleIsDropped
PROPERTIES
    ImplementsRemoteCall
    CallsReturn
    SessionEnds
    OneRegistrationReturns
