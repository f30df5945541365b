SPECIFICATION FairSpec
CONSTANTS
    b = b
    l = l
    e = e
    t1 = t1
    t2 = t2
    c1 = c1
    c2 = c2
    Plugin = {l, e}
    Builtin = {}
    Launched = {l}
    Idx <- MCIdx
    Masks <- MCEveryEvent
    Updaters = {e}
    Thread = {t1}
    Container = {c1}
    None = None
PROPERTIES
    RequestsReturn
    AcceptReturns
    UpdatesPerformed
