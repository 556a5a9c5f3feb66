\* One session, two workers: long histories of rotation, reuse and revocation.
CONSTANTS
    User = {u1}
    Sid = {s1}
    Worker = {w1, w2}
    NoUser = NoUser
    SessionTtl = {1, 2}
    AccessTtl = 1
    SessionGrace = 1
    FaultyReceivers = FALSE
    MayAbort = TRUE
    MaxTime = 4
    MaxRotation = 2
SPECIFICATION Spec
SYMMETRY Symmetry
INVARIANTS
    NoDoubleSpend
    AccessBounded
    RefreshWithinSession
    ReuseEndsSession
    IInv
PROPERTIES
    RevocationIsFinal
    PurgeOnlyExpired
    ImplementsFamily
CHECK_DEADLOCK FALSE
