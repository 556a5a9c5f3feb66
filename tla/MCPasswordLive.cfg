\* No worker dies and nothing expires: the saved password must end the older sessions.
CONSTANTS
    User = {u1}
    Sid = {s1, s2}
    Worker = {w1, w2}
    NoUser = NoUser
    SessionTtl = {2}
    AccessTtl = 1
    SessionGrace = 0
    FaultyReceivers = FALSE
    MayAbort = FALSE
    MaxTime = 0
    MaxRotation = 1
    MaxChange = 1
SPECIFICATION PFairSpec
PROPERTIES
    RevokeAllTerminates
    SavedPasswordEndsSessions
CHECK_DEADLOCK FALSE
