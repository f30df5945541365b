SPECIFICATION Spec
CONSTANTS
    N = 3
    k1 = k1
    k2 = k2
    Keys <- MCKeys
    Kinds = {"sysctl"}
    Runtime = Runtime
    None = None
INVARIANT RuntimeSurvives
CHECK_DEADLOCK FALSE
