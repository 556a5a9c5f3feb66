\* Four failures on one identifier, two workers, one unlock.
CONSTANTS
    Worker = {w1, w2}
    Identifier = {i1}
    Ip = {a1}
    Scope = "identifier"
    MaxAttempts = 2
    WindowTime = 1
    LockTime = 1
    None = None
    MaxUnlocks = 1
    MaxFailed = 4
    MaxRows = 1
    MaxTime = 1
SPECIFICATION Spec
SYMMETRY Symmetry
INVARIANTS
    GuessesBounded
    LockedByFailures
CHECK_DEADLOCK FALSE
