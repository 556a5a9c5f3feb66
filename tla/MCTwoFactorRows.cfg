\* Recovery codes, trusted devices and OTP challenges: two of each, two workers.
CONSTANTS
    Worker = {w1, w2}
    Pid = {p1}
    Rid = {r1, r2}
    Did = {d1, d2}
    Cid = {c1}
    Allowed = {"email_otp", "recovery_code"}
    Contact = {"email"}
    Window = 0
    PendingTtl = 1
    TrustedTtl = 1
    Grace = 0
    MaxSecret = 0
    MaxTime = 2
    TrustedEnabled = TRUE
    DifferentChannel = TRUE
    Batch = 1
    Second = 2
    Interval = 2
    None = None
SPECIFICATION Spec
SYMMETRY Symmetry
INVARIANTS
    IInv
    RecoveryBounded
    OnlyOverlappingBatches
PROPERTIES
    RetiredStaysRetired
    ForceDisableClears
CHECK_DEADLOCK FALSE
