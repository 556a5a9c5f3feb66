\* Two accounts, an address and a number that may move between them, one code
\* and one login at a time, trusted devices.
CONSTANTS
    User = {u1, u2}
    Staff = {u1}
    Email = {e1}
    Phone = {f1}
    Cid = {c1}
    Pid = {t1}
    None = None
    Policies = {"staff_only"}
    LoginCodes = {{"email_otp", "phone_otp"}}
    Provisioned = {{"email_otp"}}
    SecondFactors = {{"email_otp", "phone_otp"}, {"email_otp", "recovery_code"}}
    Differing = {TRUE}
    Trusting = {TRUE}
    Identifiers = {{"email"}}
    FirstReset = {"email"}
SPECIFICATION Spec
SYMMETRY Symmetry
INVARIANTS
    NoDegrading
    SameChannelOnlyBorrowed
PROPERTIES
    VerifiedByCode
    CodesKeepPurpose
    ResetNeedsAccount
CHECK_DEADLOCK FALSE
