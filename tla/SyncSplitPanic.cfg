SPECIFICATION Spec
CONSTANTS
    Pods = {0, 1, 3}
    Ctrs = {1, 9, 24}
    Large = 1
    Limits = {4, 8}
    Loads <- MCLoads
    Budget = 60
INVARIANT
    RuntimeSurvives
CHECK_DEADLOCK FALSE
