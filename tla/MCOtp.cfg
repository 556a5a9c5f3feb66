\* Two challenges of one identifier, two workers, one resend each.
CONSTANTS
    Cid = {c1, c2}
    Worker = {w1, w2}
    Identifier = {i1}
    Purpose = {login}
    NoIdentifier = NoIdentifier
    NoCid = NoCid
    NoPurpose = NoPurpose
    Ttl = 1
    Cooldown = 1
    MaxAttempts = 2
    MaxResends = 1
    SingleActive = TRUE
    AutoProvision = TRUE
    Grace = 0
    MaxTime = 2
SPECIFICATION Spec
SYMMETRY Symmetry
INVARIANTS
    WithinBudget
    OnlyOverlappingCoexist
PROPERTIES
    ConsumedIsFinal
    PurgesExpiredOrResent
    ImplementsOneTimeCode
CHECK_DEADLOCK FALSE
