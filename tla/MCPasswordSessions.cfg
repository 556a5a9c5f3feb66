\* One user, two sessions, two workers that may die, two password changes.
CONSTANTS
    User = {u1}
    Sid = {s1, s2}
    Worker = {w1, w2}
    NoUser = NoUser
    SessionTtl = {2}
    AccessTtl = 1
    SessionGrace = 0
    FaultyReceivers = FALSE
    MayAbort = TRUE
    MaxTime = 1
    MaxRotation = 1
    MaxChange = 2
SPECIFICATION PSpec
SYMMETRY Symmetry
INVARIANTS
    OlderSessionsDead
    RevokeAllComplete
PROPERTIES
    ImplementsSessions
CHECK_DEADLOCK FALSE
