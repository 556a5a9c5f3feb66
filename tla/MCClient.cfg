\* Two tabs with one call each, two sessions, three calls.
CONSTANTS
    Tab = {t1, t2}
    Slot = {n1}
    Sid = {s1, s2}
    None = None
    MayLose = TRUE
    MaxCalls = 3
SPECIFICATION Spec
SYMMETRY Symmetry
INVARIANTS
    IInv
    ReuseOnlyOverlapped
    TabsForget
CHECK_DEADLOCK FALSE
