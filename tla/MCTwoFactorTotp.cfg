\* The TOTP device: two enrolments, two workers, a pending token.
CONSTANTS
    Worker = {w1, w2}
    Pid = {p1}
    Rid = {}
    Did = {}
    Cid = {}
    Allowed = {"totp"}
    Contact = {}
    Window = 1
    PendingTtl = 2
    TrustedTtl = 1
    Grace = 0
    MaxSecret = 2
    MaxTime = 3
    TrustedEnabled = FALSE
    DifferentChannel = TRUE
    Batch = 1
    Second = 2
    Interval = 2
    None = None
SPECIFICATION Spec
SYMMETRY Symmetry
INVARIANTS
    ConfirmedProved
PROPERTIES
    ReplaysOnlyRaced
    ReplaysOnlyLastSecond
    RetiredStaysRetired
    ForceDisableClears
CHECK_DEADLOCK FALSE
