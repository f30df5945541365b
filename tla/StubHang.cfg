SPECIFICATION FairSpec
CONSTANTS
    t1 = t1
    t2 = t2
    Thread = {t1, t2}
    MaxStarts = 2
    None = None
CHECK_DEADLOCK FALSE
PROPERTY LossEndsStart
