SPECIFICATION ValidatedSpec
CONSTANTS
    N = 3
    k1 = k1
    k2 = k2
    Keys <- MCKeys
    SeccompPolicy = k1
    Kinds <- AllKinds
    Configs <- MCConfigs
    Pods <- MCPods
    Runtime = Runtime
    None = None
    Absent = Absent
    Garbage = Garbage
INVARIANTS
    OwnersMatchReply
    OrderedLastWordWins
    PluginsSeeOutcome
    RestrictedIsUntouched
    RequiredPluginsTookPart
PROPERTIES
    ImplementsOwnership
CHECK_DEADLOCK FALSE
