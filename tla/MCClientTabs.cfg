\* Two tabs, nothing lost.
CONSTANTS
    Tab = {t1, t2}
    Slot = {n1}
    Sid = {s1, s2}
    None = None
    MayLose = FALSE
    MaxCalls = 4
SPECIFICATION Spec
SYMMETRY Symmetry
INVARIANTS
    TabsNeverReuse
CHECK_DEADLOCK FALSE
