\* One tab with two calls at a time, one session; no symmetry.
CONSTANTS
    Tab = {t1}
    Slot = {n1, n2}
    Sid = {s1}
    None = None
    MayLose = TRUE
    MaxCalls = 3
SPECIFICATION FairSpec
PROPERTIES
    CallsEnd
    CallsAdvance
CHECK_DEADLOCK FALSE
