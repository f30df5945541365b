SPECIFICATION Spec
CONSTANTS
    b = b
    l = l
    e = e
    t1 = t1
    t2 = t2
    c1 = c1
    c2 = c2
    Plugin = {b, e}
    Builtin = {b}
    Launched = {}
    Idx <- MCIdx
    Masks <- MCMasks
    Updaters = {}
    Thread = {t1, t2}
    Container = {c1, c2}
    None = None
SYMMETRY Symmetry
INVARIANTS
    NoMissedContainer
    EventsFitView
    IndexOrder
    FailClosed
PROPERTIES
    StableRegistry
    ImplementsFollowing
