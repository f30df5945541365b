SPECIFICATION Spec
CONSTANTS
    N = 3
    target = target
    other = other
    Containers <- MCContainers
    Target = target
    F = 3
    Requests <- MCRequests
    SetsOf <- MCSetsOf
    Listed = {2}
    MaxUpdates = 3
    Runtime = Runtime
    None = None
INVARIANTS
    MergedUpdatesTakeEffect
    RequestKept
    MandatoryStaysMandatory
    RespondedOnce
CHECK_DEADLOCK FALSE
